------------------------------- MODULE WalLog -------------------------------
(***************************************************************************)
(* The write-ahead log of one DataNode (datanode/WalLog.java): the log     *)
(* file wal.jsonl, the index file wal-index.json, and the two fields the   *)
(* object keeps in memory.                                                 *)
(*                                                                         *)
(* Every public method is synchronized, so at most one operation is under  *)
(* way.  An operation is several file-system steps, and the process may be *)
(* killed between any two of them: pc names the step that comes next.      *)
(* Files.writeString truncates the index before it writes it, so the index *)
(* file is Torn in between; a log line and its flush are one write.        *)
(* The file's order is the order of the sequences (readAll sorts anyway),  *)
(* so its content is modelled as a set of entries.                         *)
(***************************************************************************)
EXTENDS Naturals

CONSTANTS
    RequestIds,    \* the request identifiers that callers use
    MaxSequence    \* bound: no entry gets a larger sequence

ASSUME WalLogAssumption == MaxSequence \in Nat

VARIABLES
    walFile,       \* wal.jsonl: a set of entries
    indexFile,     \* wal-index.json: a WalIndex record, Torn or NoFile
    lastSequence,  \* field lastSequence
    requestIds,    \* field requestIds
    pc,            \* the step the running operation takes next
    pending,       \* local of appendRaw/compactThrough: entries to write
    issued,        \* history: every entry that ever reached wal.jsonl
    killed         \* history: did a crash ever hit a running operation?

vars == <<walFile, indexFile, lastSequence, requestIds, pc, pending,
          issued, killed>>

Torn   == [torn |-> TRUE]
NoFile == [torn |-> FALSE]

Entry == [sequence : Nat, requestId : RequestIds]

WalIndex == [lastSequence : Nat, requestIds : SUBSET RequestIds]

IdsOf(entries) == {e.requestId : e \in entries}

(* loadIndex: Math.max(index.lastSequence, entries...max().orElse(0))      *)
MaxOver(floor, entries) ==
    CHOOSE m \in {floor} \cup {e.sequence : e \in entries} :
        m >= floor /\ \A e \in entries : m >= e.sequence

TypeOK ==
    /\ walFile \in SUBSET Entry
    /\ indexFile \in WalIndex \cup {Torn, NoFile}
    /\ lastSequence \in Nat
    /\ requestIds \in SUBSET RequestIds
    /\ pc \in {"down", "ready", "line", "truncate", "index", "rewrite"}
    /\ pending \in SUBSET Entry
    /\ issued \in SUBSET Entry
    /\ killed \in BOOLEAN

Init ==
    /\ walFile = {}
    /\ indexFile = NoFile
    /\ lastSequence = 0
    /\ requestIds = {}
    /\ pc = "down"
    /\ pending = {}
    /\ issued = {}
    /\ killed = FALSE

-----------------------------------------------------------------------------
(* Operations.                                                             *)

findByRequestId(id) == {e \in walFile : e.requestId = id}

containsRequestId(id) == id \in requestIds \/ findByRequestId(id) # {}

pendingAfter(sequence) == {e \in walFile : e.sequence > sequence}

(* The common tail of append and appendRecovered up to the first file step *)
BeginAppend(id, sequence) ==
    /\ pc = "ready"
    /\ findByRequestId(id) = {}
    /\ sequence <= MaxSequence
    /\ pending' = {[sequence |-> sequence, requestId |-> id]}
    /\ pc' = "line"
    /\ UNCHANGED <<walFile, indexFile, lastSequence, requestIds, issued, killed>>

(* An identifier that the file holds already is answered with the existing *)
(* entry and changes nothing.                                              *)
append(id) == BeginAppend(id, lastSequence + 1)

(* A bug: a recovered entry keeps the peer's sequence.                     *)
appendRecovered_PeerSequence(id, peerSequence) == BeginAppend(id, peerSequence)

appendRecovered(id, peerSequence) ==
    BeginAppend(id, IF peerSequence > lastSequence + 1 THEN peerSequence
                                                       ELSE lastSequence + 1)

(* appendRaw writes and flushes the line ...                               *)
WriteLine ==
    /\ pc = "line"
    /\ walFile' = walFile \cup pending
    /\ issued' = issued \cup pending
    /\ pc' = "truncate"
    /\ UNCHANGED <<indexFile, lastSequence, requestIds, pending, killed>>

(* A bug: an append does not persist the index.                            *)
UpdateFields_NoPersist ==
    /\ pc = "truncate"
    /\ \E e \in pending :
          /\ lastSequence' = e.sequence
          /\ requestIds' = requestIds \cup {e.requestId}
    /\ pending' = {}
    /\ pc' = "ready"
    /\ UNCHANGED <<walFile, indexFile, issued, killed>>

(* ... then updates the fields and opens the index file, truncating it.    *)
UpdateFields ==
    /\ pc = "truncate"
    /\ \E e \in pending :
          /\ lastSequence' = e.sequence
          /\ requestIds' = requestIds \cup {e.requestId}
    /\ indexFile' = Torn
    /\ pending' = {}
    /\ pc' = "index"
    /\ UNCHANGED <<walFile, issued, killed>>

(* persistIndex fills the truncated file; the operation returns.           *)
persistIndex ==
    /\ pc = "index"
    /\ indexFile' = [lastSequence |-> lastSequence, requestIds |-> requestIds]
    /\ pc' = "ready"
    /\ UNCHANGED <<walFile, lastSequence, requestIds, pending, issued, killed>>

advanceLastSequence(sequence) ==
    /\ pc = "ready"
    /\ sequence > lastSequence
    /\ lastSequence' = sequence
    /\ indexFile' = Torn
    /\ pc' = "index"
    /\ UNCHANGED <<walFile, requestIds, pending, issued, killed>>

(* compactThrough reads the entries to retain, truncates the log ...       *)
compactThrough(sequence) ==
    /\ pc = "ready"
    /\ pending' = pendingAfter(sequence)
    /\ walFile' = {}
    /\ pc' = "rewrite"
    /\ UNCHANGED <<indexFile, lastSequence, requestIds, issued, killed>>

(* A bug: the index is truncated with the log and not written again.       *)
RewriteRetained_NoPersist ==
    /\ pc = "rewrite"
    /\ walFile' = pending
    /\ pending' = {}
    /\ indexFile' = Torn
    /\ pc' = "ready"
    /\ UNCHANGED <<lastSequence, requestIds, issued, killed>>

(* ... and writes them back before it persists the index.                  *)
RewriteRetained ==
    /\ pc = "rewrite"
    /\ walFile' = pending
    /\ pending' = {}
    /\ indexFile' = Torn
    /\ pc' = "index"
    /\ UNCHANGED <<lastSequence, requestIds, issued, killed>>

(* A bug: the index file is not read, only the log file.                   *)
loadIndex_LogOnly ==
    /\ pc = "down"
    /\ indexFile # Torn
    /\ lastSequence' = MaxOver(0, walFile)
    /\ requestIds' = IdsOf(walFile)
    /\ indexFile' = Torn
    /\ pc' = "index"
    /\ UNCHANGED <<walFile, pending, issued, killed>>

(* The constructor: loadIndex.  A torn index does not parse, and the       *)
(* constructor throws: there is no step, the node stays down.              *)
loadIndex ==
    /\ pc = "down"
    /\ indexFile # Torn
    /\ LET index == IF indexFile = NoFile
                    THEN [lastSequence |-> 0, requestIds |-> {}]
                    ELSE indexFile
       IN  /\ lastSequence' = MaxOver(index.lastSequence, walFile)
           /\ requestIds' = index.requestIds \cup IdsOf(walFile)
    /\ indexFile' = Torn
    /\ pc' = "index"
    /\ UNCHANGED <<walFile, pending, issued, killed>>

(* The process is killed: the fields are gone, the files stay.             *)
Crash ==
    /\ pc # "down"
    /\ killed' = (killed \/ pc # "ready")
    /\ pc' = "down"
    /\ lastSequence' = 0
    /\ requestIds' = {}
    /\ pending' = {}
    /\ UNCHANGED <<walFile, indexFile, issued>>

Next ==
    \/ \E id \in RequestIds : append(id)
    \/ \E id \in RequestIds, s \in 0 .. MaxSequence : appendRecovered(id, s)
    \/ \E s \in 0 .. MaxSequence : advanceLastSequence(s)
    \/ \E s \in 0 .. lastSequence : compactThrough(s)
    \/ WriteLine
    \/ UpdateFields
    \/ RewriteRetained
    \/ persistIndex
    \/ loadIndex
    \/ Crash

Spec == Init /\ [][Next]_vars

(* An operation that has begun runs on, and a node that is down is started *)
(* again; nobody has to call anything.                                     *)
Fairness == WF_vars(WriteLine \/ UpdateFields \/ RewriteRetained
                      \/ persistIndex \/ loadIndex)

FairSpec == Spec /\ Fairness

-----------------------------------------------------------------------------
(* Properties.                                                             *)

(* The index remembers every request that was ever logged: compaction      *)
(* removes entries from wal.jsonl but containsRequestId keeps answering    *)
(* true for them, through any number of crashes and restarts.              *)
DedupCoversLog ==
    pc = "ready" => \A e \in issued : containsRequestId(e.requestId)

(* lastSequence never falls behind an issued sequence, so that a restart   *)
(* after a compaction (an empty wal.jsonl) does not issue it again.        *)
LastSequenceCoversLog ==
    pc = "ready" => \A e \in issued : e.sequence <= lastSequence

(* A sequence is issued once in the life of the log: appendRaw writes only *)
(* lines whose sequence is larger than every sequence written before.      *)
SequencesGrow ==
    [][\A e \in issued' \ issued : \A f \in issued : e.sequence > f.sequence]_vars

(* wal.jsonl holds a request at most once (findByRequestId's findFirst is  *)
(* the only one) and never two entries of the same sequence.               *)
WalEntriesDistinct ==
    \A e, f \in walFile :
        e # f => e.sequence # f.sequence /\ e.requestId # f.requestId

(* A crash while no operation runs leaves files from which the constructor *)
(* rebuilds the fields exactly: the index parses and is not behind the log.*)
IdleCrashRestartable ==
    pc = "down" /\ ~killed /\ indexFile # NoFile =>
        /\ indexFile # Torn
        /\ \A e \in issued : e.sequence <= indexFile.lastSequence
                             /\ e.requestId \in indexFile.requestIds

(* As long as no kill hits a running operation, the log is always ready    *)
(* again.                                                                  *)
AlwaysReadyAgain == []<>(pc = "ready" \/ killed)
=============================================================================

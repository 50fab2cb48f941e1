---------------------------- MODULE WalLogProofs ----------------------------
(***************************************************************************)
(* Proofs about the write-ahead log, for every set of request identifiers  *)
(* and every bound: the log's index covers everything that was ever        *)
(* logged, whatever compactions, kills and restarts come in between.       *)
(***************************************************************************)
EXTENDS WalLog, TLAPS

(* An entry that the pair of fields (or of index members) accounts for.    *)
Covered(e, last, ids) == e.sequence <= last /\ e.requestId \in ids

AllCovered(last, ids) == \A e \in issued : Covered(e, last, ids)

Distinct(entries) ==
    \A e, f \in entries :
        e # f => e.sequence # f.sequence /\ e.requestId # f.requestId

HasMax(entries) ==
    entries # {} => \E m \in entries : \A e \in entries : e.sequence <= m.sequence

(* A set of entries of the log that may stand in wal.jsonl.                *)
GoodFile(entries) ==
    entries \subseteq issued /\ Distinct(entries) /\ HasMax(entries)

IndexIsMemory ==
    indexFile = [lastSequence |-> lastSequence, requestIds |-> requestIds]

(* What holds in each control state.                                       *)
ReadyInv == pc = "ready" =>
    IndexIsMemory /\ pending = {} /\ AllCovered(lastSequence, requestIds)

LineInv == pc = "line" =>
    /\ IndexIsMemory
    /\ AllCovered(lastSequence, requestIds)
    /\ \E p \in Entry : /\ pending = {p}
                        /\ p.sequence > lastSequence
                        /\ \A e \in walFile : e.requestId # p.requestId

TruncateInv == pc = "truncate" =>
    /\ IndexIsMemory
    /\ \E p \in walFile : /\ pending = {p}
                          /\ p.sequence > lastSequence
                          /\ \A e \in issued : e # p =>
                                Covered(e, lastSequence, requestIds)

IndexInv == pc = "index" =>
    indexFile = Torn /\ pending = {} /\ AllCovered(lastSequence, requestIds)

RewriteInv == pc = "rewrite" =>
    /\ IndexIsMemory
    /\ AllCovered(lastSequence, requestIds)
    /\ GoodFile(pending)

DownInv == pc = "down" =>
    /\ pending = {}
    /\ indexFile = NoFile => \A e \in issued : e \in walFile
    /\ indexFile \in WalIndex => \A e \in issued :
          e \in walFile \/ Covered(e, indexFile.lastSequence, indexFile.requestIds)

(* The inductive invariant.  The safety properties speak of the control    *)
(* state "ready" only; a kill can come in any of the others.               *)
WalInv ==
    /\ TypeOK
    /\ GoodFile(walFile)
    /\ ReadyInv /\ LineInv /\ TruncateInv /\ IndexInv /\ RewriteInv /\ DownInv
    /\ IdleCrashRestartable

-----------------------------------------------------------------------------
(* A torn or missing index file is no index.                               *)
LEMMA IndexKinds ==
    /\ Torn \notin WalIndex /\ NoFile \notin WalIndex /\ Torn # NoFile
  <1>1. Torn.torn # NoFile.torn
    BY DEF Torn, NoFile
  <1>2. ASSUME NEW x \in WalIndex PROVE "torn" \notin DOMAIN x
    BY DEF WalIndex
  <1>3. "torn" \in DOMAIN Torn /\ "torn" \in DOMAIN NoFile
    BY DEF Torn, NoFile
  <1> QED BY <1>1, <1>2, <1>3

(* What loadIndex computes as the last sequence bounds the index and the   *)
(* log file from above.                                                    *)
LEMMA MaxOverBounds ==
    ASSUME NEW floor \in Nat, NEW entries \in SUBSET Entry, HasMax(entries)
    PROVE  /\ MaxOver(floor, entries) \in Nat
           /\ MaxOver(floor, entries) >= floor
           /\ \A e \in entries : MaxOver(floor, entries) >= e.sequence
  <1> DEFINE S == {floor} \cup {e.sequence : e \in entries}
             P(m) == m >= floor /\ \A e \in entries : m >= e.sequence
  <1>1. S \subseteq Nat
    BY DEF Entry
  <1>2. \E m \in S : P(m)
    <2>1. CASE entries = {}
      BY <2>1
    <2>2. CASE entries # {}
      <3>1. PICK t \in entries : \A e \in entries : e.sequence <= t.sequence
        BY <2>2 DEF HasMax
      <3>2. CASE t.sequence >= floor
        BY <3>1, <3>2 DEF Entry
      <3>3. CASE ~(t.sequence >= floor)
        BY <3>1, <3>3 DEF Entry
      <3> QED BY <3>2, <3>3
    <2> QED BY <2>1, <2>2
  <1>3. MaxOver(floor, entries) = CHOOSE m \in S : P(m)
    BY DEF MaxOver
  <1>4. MaxOver(floor, entries) \in S /\ P(MaxOver(floor, entries))
    BY <1>2, <1>3
  <1> QED BY <1>1, <1>4

(* Init establishes the inductive invariant.                               *)
LEMMA InitWalInv == Init => WalInv
  <1> SUFFICES ASSUME Init PROVE WalInv
    OBVIOUS
  <1>1. TypeOK
    BY DEF Init, TypeOK
  <1>2. GoodFile(walFile)
    BY DEF Init, GoodFile, Distinct, HasMax
  <1>3. ReadyInv /\ LineInv /\ TruncateInv /\ IndexInv /\ RewriteInv
    BY DEF Init, ReadyInv, LineInv, TruncateInv, IndexInv, RewriteInv
  <1>4. DownInv
    BY IndexKinds DEF Init, DownInv
  <1>5. IdleCrashRestartable
    BY DEF Init, IdleCrashRestartable
  <1> QED BY <1>1, <1>2, <1>3, <1>4, <1>5 DEF WalInv

(* Beginning an append, with a sequence above the last one, preserves it.  *)
LEMMA BeginAppendWalInv ==
    ASSUME WalInv, NEW id \in RequestIds, NEW s \in Nat, s > lastSequence,
           BeginAppend(id, s)
    PROVE  WalInv'
  <1> DEFINE p == [sequence |-> s, requestId |-> id]
  <1>1. p \in Entry /\ p.sequence = s /\ p.requestId = id
    BY DEF Entry
  <1>2. TypeOK'
    BY <1>1 DEF WalInv, TypeOK, BeginAppend
  <1>3. LineInv'
    <2>1. pending' = {p} /\ \A e \in walFile : e.requestId # p.requestId
      BY <1>1 DEF BeginAppend, findByRequestId
    <2> QED BY <1>1, <2>1 DEF WalInv, BeginAppend, LineInv, ReadyInv, AllCovered,
            IndexIsMemory
  <1>4. GoodFile(walFile)'
    BY DEF WalInv, BeginAppend, GoodFile, Distinct, HasMax
  <1>5. (ReadyInv /\ TruncateInv /\ IndexInv /\ RewriteInv /\ DownInv)'
    BY DEF BeginAppend, ReadyInv, TruncateInv, IndexInv, RewriteInv, DownInv
  <1>6. IdleCrashRestartable'
    BY DEF BeginAppend, IdleCrashRestartable
  <1> QED BY <1>2, <1>3, <1>4, <1>5, <1>6 DEF WalInv

(* Every step of the log preserves the inductive invariant.                *)
LEMMA NextWalInv == WalInv /\ [Next]_vars => WalInv'
  <1> SUFFICES ASSUME WalInv, [Next]_vars PROVE WalInv'
    OBVIOUS
  <1> USE WalLogAssumption
  <1>1. ASSUME NEW id \in RequestIds, append(id) PROVE WalInv'
    <2>1. lastSequence + 1 \in Nat /\ lastSequence + 1 > lastSequence
      BY DEF WalInv, TypeOK
    <2> QED BY <1>1, <2>1, BeginAppendWalInv DEF append
  <1>2. ASSUME NEW id \in RequestIds, NEW s \in 0 .. MaxSequence,
               appendRecovered(id, s)
        PROVE  WalInv'
    <2> DEFINE q == IF s > lastSequence + 1 THEN s ELSE lastSequence + 1
    <2>1. q \in Nat /\ q > lastSequence
      BY DEF WalInv, TypeOK
    <2>2. BeginAppend(id, q)
      BY <1>2 DEF appendRecovered
    <2> HIDE DEF q
    <2> QED BY <2>1, <2>2, BeginAppendWalInv
  <1>3. ASSUME NEW s \in 0 .. MaxSequence, advanceLastSequence(s) PROVE WalInv'
    <2>1. TypeOK'
      BY <1>3 DEF WalInv, TypeOK, advanceLastSequence
    <2>2. IndexInv'
      BY <1>3 DEF WalInv, TypeOK, advanceLastSequence, ReadyInv, IndexInv, AllCovered,
         Covered, Entry
    <2>3. GoodFile(walFile)'
      BY <1>3 DEF WalInv, advanceLastSequence, GoodFile, Distinct, HasMax
    <2>4. (ReadyInv /\ LineInv /\ TruncateInv /\ RewriteInv /\ DownInv)'
      BY <1>3 DEF advanceLastSequence, ReadyInv, LineInv, TruncateInv, RewriteInv, DownInv
    <2>5. IdleCrashRestartable'
      BY <1>3 DEF advanceLastSequence, IdleCrashRestartable
    <2> QED BY <2>1, <2>2, <2>3, <2>4, <2>5 DEF WalInv
  <1>4. ASSUME NEW s \in 0 .. lastSequence, compactThrough(s) PROVE WalInv'
    <2>1. TypeOK'
      BY <1>4 DEF WalInv, TypeOK, compactThrough, pendingAfter
    <2>2. GoodFile(walFile)'
      BY <1>4 DEF compactThrough, GoodFile, Distinct, HasMax
    <2>3. GoodFile(pending)'
      <3>1. walFile \in SUBSET Entry /\ s \in Nat /\ GoodFile(walFile)
        BY DEF WalInv, TypeOK
      <3>2. pending' = {e \in walFile : e.sequence > s} /\ issued' = issued
        BY <1>4 DEF compactThrough, pendingAfter
      <3>3. (pending \subseteq issued)' /\ Distinct(pending')
        BY <3>1, <3>2 DEF GoodFile, Distinct
      <3>4. HasMax(pending')
        <4> SUFFICES ASSUME pending' # {}
                     PROVE  \E m \in pending' : \A e \in pending' : e.sequence <= m.sequence
          BY DEF HasMax
        <4>1. PICK m \in walFile : \A e \in walFile : e.sequence <= m.sequence
          BY <3>1, <3>2 DEF GoodFile, HasMax
        <4>2. m \in pending'
          BY <3>1, <3>2, <4>1 DEF Entry
        <4> QED BY <3>2, <4>1, <4>2
      <3> QED BY <3>3, <3>4 DEF GoodFile, Distinct, HasMax
    <2>4. RewriteInv'
      BY <1>4, <2>3 DEF WalInv, compactThrough, ReadyInv, RewriteInv, IndexIsMemory,
         AllCovered
    <2>5. (ReadyInv /\ LineInv /\ TruncateInv /\ IndexInv /\ DownInv)'
      BY <1>4 DEF compactThrough, ReadyInv, LineInv, TruncateInv, IndexInv, DownInv
    <2>6. IdleCrashRestartable'
      BY <1>4 DEF compactThrough, IdleCrashRestartable
    <2> QED BY <2>1, <2>2, <2>4, <2>5, <2>6 DEF WalInv
  <1>5. ASSUME WriteLine PROVE WalInv'
    <2>1. PICK p \in Entry : /\ pending = {p}
                             /\ p.sequence > lastSequence
                             /\ \A e \in walFile : e.requestId # p.requestId
      BY <1>5 DEF WalInv, WriteLine, LineInv
    <2>2. /\ walFile' = walFile \cup {p} /\ issued' = issued \cup {p}
          /\ UNCHANGED <<indexFile, lastSequence, requestIds, pending, killed>>
          /\ pc' = "truncate"
      BY <1>5, <2>1 DEF WriteLine
    <2>3. /\ walFile \in SUBSET Entry /\ issued \in SUBSET Entry
          /\ lastSequence \in Nat /\ GoodFile(walFile)
          /\ AllCovered(lastSequence, requestIds)
      BY <1>5 DEF WalInv, TypeOK, WriteLine, LineInv
    <2>4. \A e \in issued : e.sequence < p.sequence
      BY <2>1, <2>3 DEF AllCovered, Covered, Entry
    <2>5. TypeOK'
      BY <2>1, <2>2 DEF WalInv, TypeOK
    <2>6. GoodFile(walFile)'
      <3>1. (walFile \subseteq issued)'
        BY <2>2, <2>3 DEF GoodFile
      <3>2. Distinct(walFile)'
        <4> SUFFICES ASSUME NEW e \in walFile', NEW f \in walFile', e # f
                     PROVE  e.sequence # f.sequence /\ e.requestId # f.requestId
          BY DEF Distinct
        <4>1. CASE e \in walFile /\ f \in walFile
          BY <2>3, <4>1 DEF GoodFile, Distinct
        <4>2. CASE e = p
          <5>1. f \in walFile
            BY <2>2, <4>2
          <5> QED BY <2>1, <2>3, <2>4, <4>2, <5>1 DEF GoodFile, Entry
        <4>3. CASE f = p
          <5>1. e \in walFile
            BY <2>2, <4>3
          <5> QED BY <2>1, <2>3, <2>4, <4>3, <5>1 DEF GoodFile, Entry
        <4> QED BY <2>2, <4>1, <4>2, <4>3
      <3>3. HasMax(walFile)'
        <4>1. \A e \in walFile' : e.sequence <= p.sequence
          BY <2>1, <2>2, <2>3, <2>4 DEF GoodFile, Entry
        <4> QED BY <2>2, <4>1 DEF HasMax
      <3> QED BY <3>1, <3>2, <3>3 DEF GoodFile
    <2>7. TruncateInv'
      BY <1>5, <2>1, <2>2, <2>3 DEF WalInv, WriteLine, LineInv, TruncateInv, IndexIsMemory,
         AllCovered, Covered
    <2>8. (ReadyInv /\ LineInv /\ IndexInv /\ RewriteInv /\ DownInv)'
      BY <2>2 DEF ReadyInv, LineInv, IndexInv, RewriteInv, DownInv
    <2>9. IdleCrashRestartable'
      BY <2>2 DEF IdleCrashRestartable
    <2> QED BY <2>5, <2>6, <2>7, <2>8, <2>9 DEF WalInv
  <1>6. ASSUME UpdateFields PROVE WalInv'
    <2>1. PICK p \in walFile : /\ pending = {p}
                               /\ p.sequence > lastSequence
                               /\ \A e \in issued : e # p =>
                                     Covered(e, lastSequence, requestIds)
      BY <1>6 DEF WalInv, UpdateFields, TruncateInv
    <2>2. /\ lastSequence' = p.sequence
          /\ requestIds' = requestIds \cup {p.requestId}
          /\ indexFile' = Torn /\ pending' = {} /\ pc' = "index"
          /\ UNCHANGED <<walFile, issued, killed>>
      BY <1>6, <2>1 DEF UpdateFields
    <2>3. TypeOK /\ p \in Entry
      BY DEF WalInv, TypeOK
    <2>4. TypeOK'
      BY <2>2, <2>3 DEF TypeOK, Entry
    <2>5. IndexInv'
      BY <2>1, <2>2, <2>3 DEF IndexInv, AllCovered, Covered, TypeOK, Entry
    <2>6. GoodFile(walFile)'
      BY <2>2 DEF WalInv, GoodFile, Distinct, HasMax
    <2>7. (ReadyInv /\ LineInv /\ TruncateInv /\ RewriteInv /\ DownInv)'
      BY <2>2 DEF ReadyInv, LineInv, TruncateInv, RewriteInv, DownInv
    <2>8. IdleCrashRestartable'
      BY <2>2 DEF IdleCrashRestartable
    <2> QED BY <2>4, <2>5, <2>6, <2>7, <2>8 DEF WalInv
  <1>7. ASSUME RewriteRetained PROVE WalInv'
    <2>1. TypeOK'
      BY <1>7 DEF WalInv, TypeOK, RewriteRetained
    <2>2. GoodFile(walFile)' /\ IndexInv'
      BY <1>7 DEF WalInv, RewriteRetained, RewriteInv, IndexInv, GoodFile, Distinct, HasMax,
         AllCovered
    <2>3. (ReadyInv /\ LineInv /\ TruncateInv /\ RewriteInv /\ DownInv)'
      BY <1>7 DEF RewriteRetained, ReadyInv, LineInv, TruncateInv, RewriteInv, DownInv
    <2>4. IdleCrashRestartable'
      BY <1>7 DEF RewriteRetained, IdleCrashRestartable
    <2> QED BY <2>1, <2>2, <2>3, <2>4 DEF WalInv
  <1>8. ASSUME persistIndex PROVE WalInv'
    <2>1. TypeOK'
      BY <1>8 DEF WalInv, TypeOK, persistIndex, WalIndex
    <2>2. GoodFile(walFile)' /\ ReadyInv'
      BY <1>8 DEF WalInv, persistIndex, IndexInv, ReadyInv, IndexIsMemory, GoodFile, Distinct,
         HasMax, AllCovered
    <2>3. (IndexInv /\ LineInv /\ TruncateInv /\ RewriteInv /\ DownInv)'
      BY <1>8 DEF persistIndex, IndexInv, LineInv, TruncateInv, RewriteInv, DownInv
    <2>4. IdleCrashRestartable'
      BY <1>8 DEF persistIndex, IdleCrashRestartable
    <2> QED BY <2>1, <2>2, <2>3, <2>4 DEF WalInv
  <1>9. ASSUME loadIndex PROVE WalInv'
    <2> DEFINE index == IF indexFile = NoFile
                        THEN [lastSequence |-> 0, requestIds |-> {}]
                        ELSE indexFile
    <2>1. index \in WalIndex
      BY <1>9 DEF WalInv, TypeOK, loadIndex, WalIndex
    <2>2. index.lastSequence \in Nat /\ index.requestIds \in SUBSET RequestIds
      BY <2>1 DEF WalIndex
    <2>3. \A e \in issued : e \in walFile
                            \/ Covered(e, index.lastSequence, index.requestIds)
      BY <1>9, <2>1 DEF WalInv, loadIndex, DownInv
    <2>4. /\ lastSequence' = MaxOver(index.lastSequence, walFile)
          /\ requestIds' = index.requestIds \cup IdsOf(walFile)
          /\ indexFile' = Torn /\ pc' = "index"
          /\ UNCHANGED <<walFile, pending, issued, killed>>
      BY <1>9 DEF loadIndex
    <2>5. /\ TypeOK /\ GoodFile(walFile) /\ pending = {}
          /\ walFile \in SUBSET Entry /\ issued \in SUBSET Entry
      BY <1>9 DEF WalInv, loadIndex, DownInv, TypeOK
    <2> HIDE DEF index
    <2>6. /\ lastSequence' \in Nat /\ lastSequence' >= index.lastSequence
          /\ \A e \in walFile : lastSequence' >= e.sequence
      BY <2>2, <2>4, <2>5, MaxOverBounds DEF GoodFile
    <2>7. requestIds' \in SUBSET RequestIds
      BY <2>2, <2>4, <2>5 DEF IdsOf, Entry
    <2>8. TypeOK'
      BY <2>4, <2>5, <2>6, <2>7 DEF TypeOK
    <2>9. IndexInv'
      <3> SUFFICES ASSUME NEW e \in issued PROVE Covered(e, lastSequence', requestIds')
        BY <2>4, <2>5 DEF IndexInv, AllCovered
      <3>1. CASE e \in walFile
        BY <2>4, <2>5, <2>6, <3>1 DEF Covered, IdsOf, Entry
      <3>2. CASE Covered(e, index.lastSequence, index.requestIds)
        BY <2>2, <2>4, <2>5, <2>6, <3>2 DEF Covered, Entry
      <3> QED BY <2>3, <3>1, <3>2
    <2>10. GoodFile(walFile)'
      BY <2>4, <2>5 DEF GoodFile, Distinct, HasMax
    <2>11. (ReadyInv /\ LineInv /\ TruncateInv /\ RewriteInv /\ DownInv)'
      BY <2>4 DEF ReadyInv, LineInv, TruncateInv, RewriteInv, DownInv
    <2>12. IdleCrashRestartable'
      BY <2>4 DEF IdleCrashRestartable
    <2> QED BY <2>8, <2>9, <2>10, <2>11, <2>12 DEF WalInv
  <1>10. ASSUME Crash PROVE WalInv'
    <2>1. TypeOK'
      BY <1>10 DEF WalInv, TypeOK, Crash
    <2>2. GoodFile(walFile)'
      BY <1>10 DEF WalInv, Crash, GoodFile, Distinct, HasMax
    <2>3. DownInv' /\ IdleCrashRestartable'
      <3>1. /\ pc # "down" /\ TypeOK /\ pc' = "down" /\ pending' = {}
            /\ killed' = (killed \/ pc # "ready")
            /\ UNCHANGED <<walFile, indexFile, issued>>
        BY <1>10 DEF WalInv, Crash
      <3>2. CASE pc = "index"
        <4>1. indexFile = Torn
          BY <3>2 DEF WalInv, IndexInv
        <4> QED BY <3>1, <3>2, <4>1, IndexKinds DEF DownInv, IdleCrashRestartable
      <3>3. CASE pc # "index"
        <4>1. IndexIsMemory
          BY <3>1, <3>3 DEF WalInv, TypeOK, ReadyInv, LineInv, TruncateInv, RewriteInv
        <4>2. indexFile \in WalIndex
          BY <3>1, <4>1 DEF IndexIsMemory, WalIndex, TypeOK
        <4>3. \A e \in issued : e \in walFile
                 \/ Covered(e, indexFile.lastSequence, indexFile.requestIds)
          BY <3>1, <3>3, <4>1 DEF WalInv, TypeOK, ReadyInv, LineInv, TruncateInv, RewriteInv,
             IndexIsMemory, AllCovered
        <4>4. pc = "ready" => \A e \in issued :
                 Covered(e, indexFile.lastSequence, indexFile.requestIds)
          BY <4>1 DEF WalInv, ReadyInv, IndexIsMemory, AllCovered
        <4> QED BY <3>1, <4>2, <4>3, <4>4, IndexKinds DEF DownInv, IdleCrashRestartable,
                Covered
      <3> QED BY <3>2, <3>3
    <2>4. (ReadyInv /\ LineInv /\ TruncateInv /\ IndexInv /\ RewriteInv)'
      BY <1>10 DEF Crash, ReadyInv, LineInv, TruncateInv, IndexInv, RewriteInv
    <2> QED BY <2>1, <2>2, <2>3, <2>4 DEF WalInv
  <1>11. CASE UNCHANGED vars
    BY <1>11 DEF vars, WalInv, TypeOK, GoodFile, Distinct, HasMax, ReadyInv, LineInv,
       TruncateInv, IndexInv, RewriteInv, DownInv, IndexIsMemory, AllCovered,
       IdleCrashRestartable
  <1> QED BY <1>1, <1>2, <1>3, <1>4, <1>5, <1>6, <1>7, <1>8, <1>9, <1>10, <1>11 DEF Next

(* The inductive invariant holds in every reachable state.                 *)
THEOREM WalInvariance == Spec => []WalInv
  <1>1. Init => WalInv
    BY InitWalInv
  <1>2. WalInv /\ [Next]_vars => WalInv'
    BY NextWalInv
  <1> QED BY <1>1, <1>2, PTL DEF Spec

(* Type correctness of the log's files, fields and control state.          *)
THEOREM TypeCorrect == Spec => []TypeOK
  <1>1. WalInv => TypeOK
    BY DEF WalInv
  <1> QED BY <1>1, WalInvariance, PTL

(* containsRequestId answers true for every request that was ever logged,  *)
(* so no replay of it is executed, however often the log was compacted and *)
(* the node restarted.                                                     *)
THEOREM DedupSafe == Spec => []DedupCoversLog
  <1>1. WalInv => DedupCoversLog
    BY DEF WalInv, ReadyInv, AllCovered, Covered, DedupCoversLog, containsRequestId
  <1> QED BY <1>1, WalInvariance, PTL

(* A restarted log, even one whose file was emptied by a compaction, knows *)
(* a last sequence that is not behind any sequence ever issued.            *)
THEOREM LastSequenceSafe == Spec => []LastSequenceCoversLog
  <1>1. WalInv => LastSequenceCoversLog
    BY DEF WalInv, ReadyInv, AllCovered, Covered, LastSequenceCoversLog
  <1> QED BY <1>1, WalInvariance, PTL

(* findByRequestId is unambiguous and sequences identify entries.          *)
THEOREM EntriesDistinct == Spec => []WalEntriesDistinct
  <1>1. WalInv => WalEntriesDistinct
    BY DEF WalInv, GoodFile, Distinct, WalEntriesDistinct
  <1> QED BY <1>1, WalInvariance, PTL

(* A crash of an idle node is always recoverable.                          *)
THEOREM IdleCrashSafe == Spec => []IdleCrashRestartable
  <1>1. WalInv => IdleCrashRestartable
    BY DEF WalInv
  <1> QED BY <1>1, WalInvariance, PTL

(* The sequence that a line is written with is larger than every sequence  *)
(* written before it, in the whole life of the log.                        *)
THEOREM SequencesNeverReused == Spec => SequencesGrow
  <1>1. WalInv /\ [Next]_vars =>
          [\A e \in issued' \ issued : \A f \in issued : e.sequence > f.sequence]_vars
    <2> SUFFICES ASSUME WalInv, Next,
                        NEW e \in issued' \ issued, NEW f \in issued
                 PROVE  e.sequence > f.sequence
      BY DEF SequencesGrow
    <2>1. WriteLine
      BY DEF Next, append, appendRecovered, BeginAppend, advanceLastSequence, compactThrough,
         UpdateFields, RewriteRetained, persistIndex, loadIndex, Crash
    <2>2. e \in pending
      BY <2>1 DEF WriteLine
    <2> QED BY <2>1, <2>2 DEF WalInv, TypeOK, WriteLine, LineInv, AllCovered, Covered, Entry
  <1> QED BY <1>1, WalInvariance, PTL DEF Spec, SequencesGrow
=============================================================================

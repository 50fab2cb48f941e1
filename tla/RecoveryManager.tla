-------------------------- MODULE RecoveryManager --------------------------
(***************************************************************************)
(* Redo/undo recovery of the kernel: the log records of log_rec.h, the     *)
(* checkpoint, and RecoveryManager of recovery_manager.h.                  *)
(*                                                                         *)
(* An lsn is the position of its record in log, so the first record has    *)
(* lsn 1 and 0 stands for INVALID_LSN.  A database is a function from Keys *)
(* to Vals or None (the key is not in the map).  The client of the log is  *)
(* external: it runs transactions that follow strict two-phase locking,    *)
(* which is what the manager's undo needs and what the LockManager of the  *)
(* kernel, a stub at this commit, is declared for.                         *)
(***************************************************************************)
EXTENDS Integers, Sequences, FiniteSets

CONSTANTS
  Txns,             \* transaction ids; each is begun at most once
  Keys, Vals,       \* keys and values of the database
  None,             \* the value of a key that is not in the database
  NeedsCheckpoint,  \* recovery is only started from a checkpoint
  MaxLog,           \* bound on the length of the log
  MaxCrashes        \* bound on the crashes

ASSUME RecoveryAssumption ==
  /\ 0 \in Vals /\ None \notin Vals
  /\ NeedsCheckpoint \in BOOLEAN
  /\ MaxLog \in Nat /\ MaxCrashes \in Nat

VARIABLES
  log,           \* log_recs_, in order of lsn
  prev_lsn_map_, \* LogRec::prev_lsn_map_: the last lsn of a transaction
  live,          \* the database the client works on
  history,       \* history: the database before each record of the log, and now
  committed,     \* history: the database that holds what was committed only
  status,        \* of each transaction: "new", "active" or "ended"
  locks,         \* the keys each active transaction has written
  checkpoint,    \* the last checkpoint
  phase,         \* "run", "redo", "undo", "done", or "exit": the process left
  data_,         \* RecoveryManager::data_
  unendedTxn,    \* RecoveryManager::unendedTxn, 0 for a transaction not in it
  now,           \* the record RedoPhase looks at
  cursor,        \* the record UndoTxn looks at; 0: not in UndoTxn
  crashes        \* how often the process was killed

client == <<log, prev_lsn_map_, live, history, committed, status, locks, checkpoint>>
manager == <<phase, data_, unendedTxn, now, cursor, crashes>>
vars == <<client, manager>>

Databases == [Keys -> Vals \cup {None}]
Lsns == 0 .. MaxLog
NoPair == <<None, None>>
Pairs == ((Keys \cup {None}) \X (Vals \cup {None}))
Kinds == {"begin", "insert", "delete", "update", "commit", "abort"}
LogRec == [type_ : Kinds, txn_id : Txns, prev_lsn_ : Lsns, old : Pairs, new : Pairs]
CheckPoints == [checkpoint_lsn_ : Lsns, active_txns_ : [Txns -> Lsns],
                persist_data_ : Databases]

Active == {t \in Txns : status[t] = "active"}
LockedByOther(t, k) == \E u \in Active \ {t} : k \in locks[u]

Init ==
  /\ log = <<>>
  /\ prev_lsn_map_ = [t \in Txns |-> 0]
  /\ live \in Databases        \* what earlier transactions left
  /\ history = <<live>> /\ committed = live
  /\ status = [t \in Txns |-> "new"]
  /\ locks = [t \in Txns |-> {}]
  /\ checkpoint = [checkpoint_lsn_ |-> 0, active_txns_ |-> [t \in Txns |-> 0],
                   persist_data_ |-> live]
  /\ phase = "run"
  /\ data_ = live
  /\ unendedTxn = [t \in Txns |-> 0]
  /\ now = 0 /\ cursor = 0 /\ crashes = 0

-----------------------------------------------------------------------------
(* The client.  AppendLogRec is the constructor of LogRec, which chains the *)
(* records of a transaction, followed by AppendLogRec of the manager; the   *)
(* client then has the database db.                                         *)

AppendLogRec(kind, t, old, new, db) ==
  /\ phase = "run" /\ Len(log) < MaxLog
  /\ log' = Append(log, [type_ |-> kind, txn_id |-> t,
                         prev_lsn_ |-> IF kind = "begin" THEN 0 ELSE prev_lsn_map_[t],
                         old |-> old, new |-> new])
  /\ prev_lsn_map_' = [prev_lsn_map_ EXCEPT ![t] = Len(log) + 1]
  /\ live' = db /\ history' = Append(history, db)
  /\ UNCHANGED manager

Begin(t) ==
  /\ status[t] = "new"
  /\ AppendLogRec("begin", t, NoPair, NoPair, live)
  /\ status' = [status EXCEPT ![t] = "active"]
  /\ UNCHANGED <<committed, locks, checkpoint>>

(* A write of t on the keys in ks: the log record, then the database. *)
Write(t, ks, kind, old, new, db) ==
  /\ t \in Active
  /\ \A k \in ks : ~LockedByOther(t, k)
  /\ AppendLogRec(kind, t, old, new, db)
  /\ locks' = [locks EXCEPT ![t] = @ \cup ks]
  /\ UNCHANGED <<committed, status, checkpoint>>

InsertKey(t, k, v) ==
  /\ live[k] = None
  /\ Write(t, {k}, "insert", NoPair, <<k, v>>, [live EXCEPT ![k] = v])

DeleteKey(t, k) ==
  /\ live[k] # None
  /\ Write(t, {k}, "delete", <<k, live[k]>>, NoPair, [live EXCEPT ![k] = None])

(* An update may move the value to another key. *)
UpdateKey(t, k, n, v) ==
  /\ live[k] # None /\ (n = k \/ live[n] = None)
  /\ Write(t, {k, n}, "update", <<k, live[k]>>, <<n, v>>,
           [live EXCEPT ![k] = None, ![n] = v])

Commit(t) ==
  /\ t \in Active
  /\ AppendLogRec("commit", t, NoPair, NoPair, live)
  /\ committed' = [k \in Keys |-> IF k \in locks[t] THEN live[k] ELSE committed[k]]
  /\ status' = [status EXCEPT ![t] = "ended"]
  /\ UNCHANGED <<locks, checkpoint>>

Abort(t) ==
  /\ t \in Active
  /\ AppendLogRec("abort", t, NoPair, NoPair,
                  [k \in Keys |-> IF k \in locks[t] THEN committed[k] ELSE live[k]])
  /\ status' = [status EXCEPT ![t] = "ended"]
  /\ UNCHANGED <<committed, locks, checkpoint>>

(* A checkpoint: the database and the last lsn of every active transaction. *)
TakeCheckPoint ==
  /\ phase = "run" /\ log # <<>> /\ checkpoint.checkpoint_lsn_ # Len(log)
  /\ checkpoint' = [checkpoint_lsn_ |-> Len(log),
                    active_txns_ |-> [t \in Txns |-> IF t \in Active THEN prev_lsn_map_[t] ELSE 0],
                    persist_data_ |-> live]
  /\ UNCHANGED <<log, prev_lsn_map_, live, history, committed, status, locks, manager>>

-----------------------------------------------------------------------------
(* RecoveryManager.  A crash, during recovery too, starts it again.         *)

FirstRedo_FromCheckpoint == {checkpoint.checkpoint_lsn_}

(* The record RedoPhase starts with: the one after persist_lsn_.  Without a *)
(* checkpoint find(INVALID_LSN) is end(), and end()++ is undefined; the     *)
(* red-black tree of the build yields its last node or that node's left     *)
(* child, which is one of the last two records.                             *)
FirstRedo ==
  IF checkpoint.checkpoint_lsn_ = 0
  THEN {i \in {Len(log) - 1, Len(log)} : i > 0}
  ELSE {checkpoint.checkpoint_lsn_ + 1}

Recover ==
  /\ crashes < MaxCrashes /\ log # <<>>
  /\ phase \in {"run", "redo", "undo"}
  /\ NeedsCheckpoint => checkpoint.checkpoint_lsn_ # 0
  /\ phase' = "redo"
  /\ data_' = checkpoint.persist_data_
  /\ unendedTxn' = checkpoint.active_txns_
  /\ now' \in FirstRedo
  /\ cursor' = 0
  /\ crashes' = crashes + 1
  /\ UNCHANGED client

(* data_.erase, and data_.emplace, which keeps a value that is there. *)
Erase(d, k) == [d EXCEPT ![k] = None]
Emplace(d, p) == IF d[p[1]] = None THEN [d EXCEPT ![p[1]] = p[2]] ELSE d

(* data_[k] creates the key with value 0 when it is not there. *)
Touch(d, k) == Emplace(d, <<k, 0>>)

RedoData(r, d) ==
  CASE r.type_ = "update" -> Emplace(Erase(d, r.old[1]), r.new)
    [] r.type_ = "delete" ->
         LET e == Touch(d, r.old[1])
         IN  IF e[r.old[1]] # r.old[2] THEN e ELSE Erase(e, r.old[1])
    [] r.type_ = "insert" -> Emplace(d, r.new)
    [] OTHER -> d

(* One round of the loop of RedoPhase.  An abort record undoes its          *)
(* transaction at once, an insert of a key that is there ends the process.  *)
RedoRecord ==
  /\ phase = "redo" /\ cursor = 0 /\ now <= Len(log)
  /\ LET r == log[now] IN
       /\ unendedTxn' = [unendedTxn EXCEPT ![r.txn_id] =
                           IF r.type_ \in {"commit", "abort"} THEN 0 ELSE now]
       /\ cursor' = IF r.type_ = "abort" THEN r.prev_lsn_ ELSE 0
       /\ IF r.type_ = "insert" /\ data_[r.new[1]] # None
          THEN phase' = "exit" /\ UNCHANGED data_
          ELSE data_' = RedoData(r, data_) /\ UNCHANGED phase
  /\ now' = now + 1
  /\ UNCHANGED <<client, crashes>>

RedoEnd ==
  /\ phase = "redo" /\ cursor = 0 /\ now > Len(log)
  /\ phase' = "undo"
  /\ UNCHANGED <<client, data_, unendedTxn, now, cursor, crashes>>

(* The loop of UndoPhase takes the transactions in the order of a hash map. *)
(* A transaction it has taken is 0 in unendedTxn.                           *)
UndoNext(t) ==
  /\ phase = "undo" /\ cursor = 0 /\ unendedTxn[t] # 0
  /\ cursor' = unendedTxn[t]
  /\ unendedTxn' = [unendedTxn EXCEPT ![t] = 0]
  /\ UNCHANGED <<client, phase, data_, now, crashes>>

UndoEnd ==
  /\ phase = "undo" /\ cursor = 0 /\ \A t \in Txns : unendedTxn[t] = 0
  /\ phase' = "done"
  /\ UNCHANGED <<client, data_, unendedTxn, now, cursor, crashes>>

UndoData_KeepsNew(r, d) ==
  CASE r.type_ \in {"update", "delete"} -> Emplace(d, r.old)
    [] r.type_ = "insert" -> Erase(d, r.new[1])
    [] OTHER -> d

UndoData(r, d) ==
  CASE r.type_ = "update" -> Emplace(Erase(d, r.new[1]), r.old)
    [] r.type_ = "delete" -> Emplace(d, r.old)
    [] r.type_ = "insert" -> Erase(d, r.new[1])
    [] OTHER -> d

(* One round of the loop of UndoTxn, which follows prev_lsn_ to the begin. *)
UndoRecord ==
  /\ cursor # 0
  /\ data_' = UndoData(log[cursor], data_)
  /\ cursor' = IF log[cursor].type_ = "begin" THEN 0 ELSE log[cursor].prev_lsn_
  /\ UNCHANGED <<client, phase, unendedTxn, now, crashes>>

-----------------------------------------------------------------------------
ClientStep ==
  \/ TakeCheckPoint
  \/ \E t \in Txns :
       \/ Begin(t) \/ Commit(t) \/ Abort(t)
       \/ \E k \in Keys :
            \/ DeleteKey(t, k)
            \/ \E v \in Vals : InsertKey(t, k, v) \/ \E n \in Keys : UpdateKey(t, k, n, v)

ManagerStep == RedoRecord \/ RedoEnd \/ UndoRecord \/ UndoEnd \/ \E t \in Txns : UndoNext(t)

Next == ClientStep \/ Recover \/ ManagerStep

Spec == Init /\ [][Next]_vars

(* A recovery that has begun goes on: it is a loop of one thread.           *)
FairSpec == Spec /\ WF_vars(ManagerStep)

-----------------------------------------------------------------------------
(* Types of all variables. *)
TypeOK ==
  /\ log \in Seq(LogRec) /\ Len(log) <= MaxLog
  /\ prev_lsn_map_ \in [Txns -> Lsns]
  /\ {live, committed, data_} \subseteq Databases
  /\ history \in Seq(Databases) /\ Len(history) = Len(log) + 1
  /\ status \in [Txns -> {"new", "active", "ended"}]
  /\ locks \in [Txns -> SUBSET Keys]
  /\ checkpoint \in CheckPoints
  /\ phase \in {"run", "redo", "undo", "done", "exit"}
  /\ unendedTxn \in [Txns -> Lsns]
  /\ now \in 0 .. MaxLog + 1 /\ cursor \in Lsns /\ crashes \in 0 .. MaxCrashes

(* Recovery ends with exactly what was committed: the effects of committed *)
(* transactions, none of an aborted or unfinished one, whatever the        *)
(* checkpoint, the crashes during recovery and the order of the undo.      *)
RecoveredIsCommitted == phase = "done" => data_ = committed

(* RedoPhase repeats history: before every record it looks at, data_ is    *)
(* the database as it was when that record was written, the undo of        *)
(* aborted transactions included, so no insert meets a key that is there;  *)
(* where it ends unendedTxn holds the last lsn of exactly the transactions *)
(* that were active at the crash.                                          *)
RedoRepeatsHistory ==
  /\ phase # "exit"
  /\ phase = "redo" /\ cursor = 0 => data_ = history[now]
  /\ phase = "redo" /\ cursor = 0 /\ now > Len(log) =>
       unendedTxn = [t \in Txns |-> IF t \in Active THEN prev_lsn_map_[t] ELSE 0]

(* Recovery that is not interrupted for good ends, and not by exit(1). *)
RecoveryEnds == (phase = "redo") ~> (phase = "done")
=============================================================================

------------------------- MODULE MCRecoveryManager -------------------------
(***************************************************************************)
(* Three instances of RecoveryManager in one run.  "long" has the          *)
(* constants of the configuration: five log records, one value and one     *)
(* crash.  "values" has two values of one key, "again" a second crash,     *)
(* also during recovery, and one record less.                              *)
(***************************************************************************)
EXTENDS RecoveryManager

CONSTANTS ShortMaxLog, OneKey, TwoVals

VARIABLE scenario  \* which of the instances the behaviour is of

Values == INSTANCE RecoveryManager WITH Keys <- OneKey, Vals <- TwoVals
Again == INSTANCE RecoveryManager WITH MaxLog <- ShortMaxLog, MaxCrashes <- 2

MCInit ==
  \/ scenario = "long" /\ Init
  \/ scenario = "values" /\ Values!Init
  \/ scenario = "again" /\ Again!Init

MCNext ==
  /\ \/ scenario = "long" /\ Next
     \/ scenario = "values" /\ Values!Next
     \/ scenario = "again" /\ Again!Next
  /\ UNCHANGED scenario

(* A recovery that has begun goes on: it is a loop of one thread.          *)
MCSpec ==
  /\ MCInit /\ [][MCNext]_<<vars, scenario>>
  /\ WF_vars(\/ scenario = "long" /\ ManagerStep
             \/ scenario = "values" /\ Values!ManagerStep
             \/ scenario = "again" /\ Again!ManagerStep)
=============================================================================

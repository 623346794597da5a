---------------------------- MODULE TargetTable ----------------------------
(***************************************************************************)
(* What from_name promises to its callers, and what the rest of these      *)
(* modules takes it for: one step that gives a real name a row if it has   *)
(* none.  Rows are taken out by hand, and a restart may read a             *)
(* configuration in which other names are real.                            *)
(***************************************************************************)
EXTENDS TargetRows

CONSTANT Name

VARIABLES
  target,   \* name -> recorded status
  real      \* the names the running process accepts

TableInit ==
  /\ target \in [Name -> TargetStatus \cup {Absent}]
  /\ real \in SUBSET Name

FromName(n) ==
  /\ n \in real
  /\ target' = WithRows(target, {n})
  /\ UNCHANGED real

RemovedByHand(n) ==
  /\ target' = [target EXCEPT ![n] = Absent]
  /\ UNCHANGED real

Reconfigured == real' \in SUBSET Name /\ UNCHANGED target

TableNext == (\E n \in Name : FromName(n) \/ RemovedByHand(n)) \/ Reconfigured

TableSpec == TableInit /\ [][TableNext]_<<target, real>>
=============================================================================

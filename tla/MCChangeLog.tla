---------------------------- MODULE MCChangeLog ----------------------------
(***************************************************************************)
(* Small instances of the change log for TLC.                              *)
(***************************************************************************)
EXTENDS ChangeLog

CONSTANTS loop, r1, r2

Msg(kind, about, operator) == [kind |-> kind, about |-> about, operator |-> operator]

(* The loop takes a node out of service and opens a ticket for another; a  *)
(* client's update puts a node back, another updates a ticket and closes   *)
(* the loop's own.                                                         *)
Messages == [t \in {loop, r1, r2} |->
  CASE t = loop -> {Msg("Offline", "node", Ctt), Msg("Open", "own", Ctt)}
    [] t = r1 -> {Msg("Resume", "node", "ann")}
    [] OTHER -> {Msg("Update", "ticket", "bob"), Msg("Close", "own", "bob")}]
=============================================================================

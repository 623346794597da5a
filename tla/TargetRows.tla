----------------------------- MODULE TargetRows -----------------------------
(***************************************************************************)
(* The rows of the target table as everyone who uses it sees them: a name  *)
(* has a recorded status, or no row.                                       *)
(***************************************************************************)

Absent == "Absent"           \* no such row, vnode or entry

TargetStatus == {"Online", "Draining", "Offline", "Down"}

(* What Entity::from_name leaves behind for real names: those without a    *)
(* row get one, and no other changes.                                      *)
WithRows(table, names) ==
  [n \in DOMAIN table |-> IF n \in names /\ table[n] = Absent
                          THEN "Online" ELSE table[n]]
=============================================================================

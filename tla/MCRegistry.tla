----------------------------- MODULE MCRegistry -----------------------------
(***************************************************************************)
(* Small instances of the target table for TLC: configurations as in       *)
(* README.md and conf_ex.yaml, and the names around a removed machine.     *)
(***************************************************************************)
EXTENDS Registry, TLC

Casper(num) == [prefix |-> "casper", width |-> 2, num |-> num]

(* All machines; casper20 left out with the keys that conf.rs reads; with  *)
(* the keys of README.md:18.                                               *)
Whole == <<[prefix |-> "casper", digits |-> 2, board |-> 3]>>
Split == <<[prefix |-> "casper", digits |-> 2, board |-> 3, last_num |-> 19],
           [prefix |-> "casper", digits |-> 2, board |-> 3, first_num |-> 21, last_num |-> 99]>>
Recipe == <<[prefix |-> "casper", digits |-> 2, start |-> 1, end |-> 19],
            [prefix |-> "casper", digits |-> 2, start |-> 21, end |-> 99]>>

(* The types of conf_ex.yaml, and others that use the keys otherwise.      *)
Gust == <<[prefix |-> "gug", digits |-> 4, slot |-> 2],
          [prefix |-> "guc", digits |-> 4, board |-> 2, slot |-> 4],
          [prefix |-> "crhtc", digits |-> 2, board |-> 3],
          [prefix |-> "crhtc", digits |-> 3, last_num |-> 4, slot |-> 3],
          [prefix |-> "login"]>>

Removing == {Whole, Split, Gust}
AsRecipe == {Whole, Recipe}

Machines == {Casper(num) : num \in 19 .. 21} \cup {[prefix |-> "login", width |-> 5, num |-> Word]}
Ticketed == {Casper(19), Casper(20)}
Names == [prefix: {"casper", "gug", "guc", "crhtc"}, width: 2 .. 4,
          num: 0 .. 13 \cup 18 .. 22]
Requests == Permutations(Task \ {Loop})
=============================================================================

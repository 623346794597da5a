------------------------------ MODULE Topology ------------------------------
(***************************************************************************)
(* RegexCluster: which names are nodes, and which nodes share a board or a *)
(* slot, from the node types of the configuration.  A name is a prefix and *)
(* a number written with some width; what does not have that shape is the  *)
(* name of no node.                                                        *)
(***************************************************************************)
EXTENDS Naturals

CONSTANT Word   \* the first number that does not fit, 2^32 in the code

ASSUME WordAssumption == Word \in Nat \ {0}

NodeName == [prefix: STRING, width: Nat \ {0}, num: Nat]

(* An optional value is a set of at most one.                              *)
UnwrapOr(opt, default) == IF opt = {} THEN default ELSE CHOOSE v \in opt : TRUE

(* Conf: an entry of node_types is what is written under its keys; serde   *)
(* takes the keys of NodeType and passes over any other.                   *)
Key(entry, k) == IF k \in DOMAIN entry THEN {entry[k]} ELSE {}
NodeType(entry) ==
  [prefix |-> entry.prefix,
   digits |-> Key(entry, "digits"),
   board |-> Key(entry, "board"),
   first_num |-> Key(entry, "first_num"),
   last_num |-> Key(entry, "last_num"),
   slot |-> Key(entry, "slot")]
NodeTypes(entries) == [k \in DOMAIN entries |-> NodeType(entries[k])]

-----------------------------------------------------------------------------
(* get_node_type: the first type in the order of the file that fits.       *)

Matches(t, n) == n.prefix = t.prefix /\ (t.digits # {} => n.width \in t.digits)

(* Mutated: no number is the last.                                         *)
InRangeOpen(t, n) == UnwrapOr(t.first_num, 1) <= n.num

InRange(t, n) ==
  UnwrapOr(t.first_num, 1) <= n.num /\ \A last \in t.last_num : n.num <= last

(* The number is read as a word as soon as a type matches: with one too    *)
(* large the process ends.  Types of less than ten digits exclude that.    *)
Overflows(types, n) == n.num >= Word /\ \E k \in DOMAIN types : Matches(types[k], n)

Fitting(types, n) ==
  {k \in DOMAIN types : Matches(types[k], n) /\ n.num < Word /\ InRange(types[k], n)}

RealNode(types, n) == Fitting(types, n) # {}

GetNodeType(types, n) ==
  types[CHOOSE k \in Fitting(types, n) : \A j \in Fitting(types, n) : k <= j]

-----------------------------------------------------------------------------
(* get_related: names are filled up with zeros to the digits of the type.  *)

DecimalDigits(num) ==
  CHOOSE w \in 1 .. 10 : num < 10 ^ w /\ (w = 1 \/ 10 ^ (w - 1) <= num)

Written(t, num) ==
  LET least == DecimalDigits(num)
      width == UnwrapOr(t.digits, least)
  IN  [prefix |-> t.prefix, width |-> IF least <= width THEN width ELSE least, num |-> num]

(* Mutated: blocks of `size` counted from 0.                               *)
BlockStartFromZero(num, size) == (num \div size) * size + 1

(* The numbers wrap around as those of a release build do.                 *)
BlockStart(num, size) == ((((num + Word - 1) % Word) \div size) * size + 1) % Word

(* Numbers are handed out up to the end of the block, even past last_num.  *)
GetRelated(t, n, size) ==
  IF size > 1
  THEN LET start == BlockStart(n.num, size)
       IN  {Written(t, i) : i \in start .. ((start + size) % Word) - 1}
  ELSE {n}

Siblings(types, n) ==
  IF ~RealNode(types, n) THEN {}
  ELSE LET t == GetNodeType(types, n) IN GetRelated(t, n, UnwrapOr(t.board, 1))

Cousins(types, n) ==
  IF ~RealNode(types, n) THEN {}
  ELSE LET t == GetNodeType(types, n)
       IN  GetRelated(t, n, UnwrapOr(t.slot, UnwrapOr(t.board, 1)))
=============================================================================

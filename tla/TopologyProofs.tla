-------------------------- MODULE TopologyProofs --------------------------
(***************************************************************************)
(* For any node types: a node is in its own groups and those in a group    *)
(* agree on it, which is what CttState assumes of boards and slots.        *)
(***************************************************************************)
EXTENDS Topology, Integers, TLAPS

-----------------------------------------------------------------------------
(* Division.                                                               *)
LEMMA DivBounds ==
  ASSUME NEW a \in Nat, NEW size \in Nat, size > 0
  PROVE  /\ a \div size \in Nat
         /\ (a \div size) * size <= a
         /\ a < (a \div size) * size + size
OBVIOUS

LEMMA Monotone ==
  ASSUME NEW p \in Nat, NEW q \in Nat, NEW size \in Nat, p < q
  PROVE  p * size + size <= q * size
<1>1. PICK d \in Nat : q = p + 1 + d
  <2>1. q - p - 1 \in Nat /\ q = p + 1 + (q - p - 1)
    OBVIOUS
  <2> QED BY <2>1
<1>2. q * size = p * size + size + d * size
  BY <1>1
<1>3. d * size \in Nat /\ p * size \in Nat
  OBVIOUS
<1> QED BY <1>2, <1>3

LEMMA DivUnique ==
  ASSUME NEW a \in Nat, NEW q \in Nat, NEW size \in Nat, size > 0,
         q * size <= a, a < q * size + size
  PROVE  a \div size = q
<1> DEFINE p == a \div size
<1>1. p \in Nat /\ p * size <= a /\ a < p * size + size
  BY DivBounds
<1>2. p * size \in Nat /\ q * size \in Nat
  BY <1>1
<1>3. CASE p < q
  BY <1>1, <1>2, <1>3, Monotone
<1>4. CASE q < p
  BY <1>1, <1>2, <1>4, Monotone
<1> QED BY <1>1, <1>3, <1>4

(* As long as the numbers of a group fit into a word, get_related computes *)
(* with them as with numbers.                                              *)
Fits(num, size) == num \in Nat /\ num > 0 /\ size \in Nat /\ size > 0 /\ num + size < Word

LEMMA Start ==
  ASSUME NEW num, NEW size, Fits(num, size)
  PROVE  /\ BlockStart(num, size) = ((num - 1) \div size) * size + 1
         /\ BlockStart(num, size) \in Nat
         /\ BlockStart(num, size) <= num
         /\ num < BlockStart(num, size) + size
         /\ (BlockStart(num, size) + size) % Word = BlockStart(num, size) + size
<1> DEFINE q == (num - 1) \div size
<1>0. num \in Nat /\ num > 0 /\ size \in Nat /\ size > 0 /\ num + size < Word /\ Word \in Nat
  BY WordAssumption DEF Fits
<1>1. q \in Nat /\ q * size <= num - 1 /\ num - 1 < q * size + size
  BY <1>0, DivBounds
<1>2. q * size \in Nat
  BY <1>0, <1>1
<1>3. (num + Word - 1) % Word = num - 1
  BY <1>0
<1>4. (q * size + 1) % Word = q * size + 1
  BY <1>0, <1>1, <1>2
<1>5. (q * size + 1 + size) % Word = q * size + 1 + size
  BY <1>0, <1>1, <1>2
<1>6. BlockStart(num, size) = q * size + 1
  BY <1>3, <1>4 DEF BlockStart
<1> QED BY <1>0, <1>1, <1>2, <1>5, <1>6

LEMMA SameStart ==
  ASSUME NEW num, NEW size, Fits(num, size), NEW other, Fits(other, size),
         BlockStart(num, size) <= other, other < BlockStart(num, size) + size
  PROVE  BlockStart(other, size) = BlockStart(num, size)
<1> DEFINE q == (num - 1) \div size
<1>0. num \in Nat /\ num > 0 /\ size \in Nat /\ size > 0 /\ other \in Nat /\ other > 0
  BY DEF Fits
<1>1. q \in Nat
  BY <1>0, DivBounds
<1>2. BlockStart(num, size) = q * size + 1
  BY Start
<1>3. q * size \in Nat
  BY <1>0, <1>1
<1>4. q * size <= other - 1 /\ other - 1 < q * size + size /\ other - 1 \in Nat
  BY <1>0, <1>2, <1>3
<1>5. (other - 1) \div size = q
  BY <1>0, <1>1, <1>4, DivUnique
<1> QED BY <1>2, <1>5, Start

-----------------------------------------------------------------------------
(* A group of a size: a block of numbers, or the name alone.  A name is    *)
(* written as its type writes it when its width is the digits of the type, *)
(* or has no leading zeros where the type gives none.                      *)
AsWritten(t, n) == Written(t, n.num) = n

LEMMA OwnGroup ==
  ASSUME NEW t, NEW n, NEW size \in Nat, AsWritten(t, n),
         size > 1 => Fits(n.num, size)
  PROVE  n \in GetRelated(t, n, size)
<1>1. CASE size > 1
  <2> DEFINE start == BlockStart(n.num, size)
  <2>1. /\ start \in Nat /\ start <= n.num /\ n.num < start + size
        /\ (start + size) % Word = start + size /\ n.num \in Nat
    BY <1>1, Start DEF Fits
  <2>2. n.num \in start .. ((start + size) % Word) - 1
    BY <2>1
  <2> QED BY <1>1, <2>2 DEF GetRelated, AsWritten
<1> QED BY <1>1 DEF GetRelated

(* Types that group their names alike, as the stanzas that leave a machine *)
(* out do.                                                                 *)
Alike(t, u) ==
  t.prefix = u.prefix /\ t.digits = u.digits /\ t.board = u.board /\ t.slot = u.slot

LEMMA OneGroup ==
  ASSUME NEW t, NEW u, Alike(t, u), NEW n, NEW m, NEW size \in Nat, m \in GetRelated(t, n, size),
         size > 1 => Fits(n.num, size) /\ Fits(m.num, size)
  PROVE  GetRelated(u, m, size) = GetRelated(t, n, size)
<1>1. CASE size > 1
  <2> DEFINE start == BlockStart(n.num, size)
  <2>1. start \in Nat /\ (start + size) % Word = start + size
    BY <1>1, Start
  <2>2. PICK i \in start .. ((start + size) % Word) - 1 : m = Written(t, i)
    BY <1>1 DEF GetRelated
  <2>3. m.num = i
    BY <2>2 DEF Written
  <2>4. start <= m.num /\ m.num < start + size
    BY <2>1, <2>2, <2>3
  <2>5. BlockStart(m.num, size) = start
    BY <1>1, <2>4, SameStart
  <2>6. \A k : Written(u, k) = Written(t, k)
    BY DEF Written, Alike
  <2> QED BY <1>1, <2>5, <2>6 DEF GetRelated
<1> QED BY <1>1 DEF GetRelated

-----------------------------------------------------------------------------
BoardSize(types, n) == UnwrapOr(GetNodeType(types, n).board, 1)
SlotSize(types, n) ==
  UnwrapOr(GetNodeType(types, n).slot, UnwrapOr(GetNodeType(types, n).board, 1))

(* A name whose groups can be computed without going past a word.          *)
Regular(types, n) ==
  /\ AsWritten(GetNodeType(types, n), n)
  /\ \A size \in {BoardSize(types, n), SlotSize(types, n)} :
       size \in Nat /\ (size > 1 => Fits(n.num, size))

(* regex_cluster.rs:73-94: a real name is on its own board and in its own  *)
(* slot, and a name that is not real has neither (GroupAssumption).        *)
THEOREM InOwnGroups ==
  ASSUME NEW types, NEW n
  PROVE  /\ RealNode(types, n) /\ Regular(types, n)
              => n \in Siblings(types, n) /\ n \in Cousins(types, n)
         /\ ~RealNode(types, n) => Siblings(types, n) = {} /\ Cousins(types, n) = {}
<1>1. ASSUME RealNode(types, n), Regular(types, n)
      PROVE  n \in Siblings(types, n) /\ n \in Cousins(types, n)
  <2>1. /\ BoardSize(types, n) \in Nat
        /\ n \in GetRelated(GetNodeType(types, n), n, BoardSize(types, n))
    BY <1>1, OwnGroup DEF Regular
  <2>2. n \in GetRelated(GetNodeType(types, n), n, SlotSize(types, n))
    BY <1>1, OwnGroup DEF Regular
  <2> QED BY <1>1, <2>1, <2>2 DEF Siblings, Cousins, BoardSize, SlotSize
<1> QED BY <1>1 DEF Siblings, Cousins

(* regex_cluster.rs:56: names of one board or slot whose types group alike *)
(* have the same board or slot.                                            *)
THEOREM GroupsShared ==
  ASSUME NEW types, NEW n, NEW m, RealNode(types, n), RealNode(types, m),
         Regular(types, n), Regular(types, m),
         Alike(GetNodeType(types, n), GetNodeType(types, m))
  PROVE  /\ m \in Siblings(types, n) => Siblings(types, m) = Siblings(types, n)
         /\ m \in Cousins(types, n) => Cousins(types, m) = Cousins(types, n)
<1>0. BoardSize(types, m) = BoardSize(types, n) /\ SlotSize(types, m) = SlotSize(types, n)
  BY DEF BoardSize, SlotSize, Alike
<1>1. ASSUME NEW size \in {BoardSize(types, n), SlotSize(types, n)},
             m \in GetRelated(GetNodeType(types, n), n, size)
      PROVE  GetRelated(GetNodeType(types, m), m, size)
               = GetRelated(GetNodeType(types, n), n, size)
  BY <1>0, <1>1, OneGroup DEF Regular
<1> QED BY <1>0, <1>1 DEF Siblings, Cousins, BoardSize, SlotSize
=============================================================================

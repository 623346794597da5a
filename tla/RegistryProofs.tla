--------------------------- MODULE RegistryProofs ---------------------------
(***************************************************************************)
(* The detailed target table implements the abstract one, for any names,   *)
(* configurations, tasks and changes made by hand.                         *)
(***************************************************************************)
EXTENDS Registry, TopologyProofs, WellFoundedInduction

Statuses == [n \in Name |-> row[n].status]

(* What a task is about to insert is real for the running process, which   *)
(* read its configuration before any of its tasks looked at a name.        *)
CreatingReal == \A t \in Task : task[t].pc \in {"max", "insert"} => task[t].name \in Real

RegistryInv ==
  /\ conf \in Configs /\ file \in Configs
  /\ \A n \in Name : row[n].status \in TargetStatus \cup {Absent}
  /\ DOMAIN row = Name
  /\ DOMAIN task = Task
  /\ CreatingReal

LEMMA RealNames == ASSUME conf \in Configs PROVE Real \subseteq Name
BY DEF Real, RealIn

LEMMA RegistryInitInv == RegistryInit => RegistryInv
BY DEF RegistryInit, RegistryInv, CreatingReal, NoRow, Idle, Looking

(* A task that goes on to another place leaves the others where they are.  *)
LEMMA GoesKeepsCreating ==
  ASSUME RegistryInv, NEW t \in Task, NEW next, Goes(t, next), UNCHANGED conf,
         next.pc \in {"max", "insert"} => next.name \in Real
  PROVE  CreatingReal' /\ DOMAIN task' = Task
<1>1. Real' = Real
  BY DEF Real, RealIn
<1>2. task' = [task EXCEPT ![t] = next]
  BY DEF Goes
<1>3. ASSUME NEW u \in Task PROVE task'[u] = IF u = t THEN next ELSE task[u]
  BY <1>2 DEF RegistryInv
<1> QED BY <1>1, <1>2, <1>3 DEF RegistryInv, CreatingReal

LEMMA DoneIsNotCreating ==
  ASSUME NEW t, NEW n
  PROVE  Done(t, n).pc \in {"idle", "find"}
BY DEF Done, Idle, Looking

LEMMA RestartInv ==
  ASSUME RegistryInv, Restart
  PROVE  RegistryInv'
BY DEF RegistryInv, Restart, CreatingReal, Idle, Looking

(* The step of an insert is the one step of the abstract table.            *)
LEMMA InsertStep ==
  ASSUME RegistryInv, NEW t \in Task, Insert(t)
  PROVE  /\ task[t].name \in Real /\ UNCHANGED conf
         /\ Statuses' = WithRows(Statuses, {task[t].name})
         /\ \A n \in Name : row'[n].status \in TargetStatus \cup {Absent}
         /\ DOMAIN row' = Name
<1> DEFINE m == task[t].name
<1>1. m \in Real /\ m \in Name /\ m \notin Known
  BY RealNames DEF Insert, At, RegistryInv, CreatingReal, Clashes
<1>2. row[m].status = Absent
  BY <1>1 DEF Known
<1>3. row' = [row EXCEPT ![m] = [id |-> task[t].max + 1, status |-> "Online"]]
  BY DEF Insert
<1>4. ASSUME NEW n \in Name
      PROVE  row'[n].status = IF n = m THEN "Online" ELSE row[n].status
  BY <1>3 DEF RegistryInv
<1>5. DOMAIN row' = Name
  BY <1>3 DEF RegistryInv
<1>6. Statuses' = WithRows(Statuses, {m})
  BY <1>1, <1>2, <1>4 DEF Statuses, WithRows
<1> QED BY <1>1, <1>4, <1>5, <1>6 DEF Insert, RegistryInv, TargetStatus

LEMMA RegistryNextInv == RegistryInv /\ [RegistryNext]_vars => RegistryInv'
<1> SUFFICES ASSUME RegistryInv, [RegistryNext]_vars PROVE RegistryInv'
  OBVIOUS
<1>1. CASE UNCHANGED vars
  BY <1>1 DEF vars, RegistryInv, CreatingReal, Real, RealIn
<1>2. ASSUME NEW t \in Task, NEW next, Goes(t, next), UNCHANGED <<file, conf, row>>,
             next.pc \in {"max", "insert"} => next.name \in Real
      PROVE  RegistryInv'
  <2>1. CreatingReal' /\ DOMAIN task' = Task
    BY <1>2, GoesKeepsCreating
  <2> QED BY <1>2, <2>1 DEF RegistryInv
<1>3. ASSUME NEW t \in Task, NEW names, Ask(t, names) PROVE RegistryInv'
  BY <1>2, <1>3 DEF Ask, Looking
<1>4. ASSUME NEW t \in Task, NEW n \in Name, Find(t, n) PROVE RegistryInv'
  <2>1. CASE n \in Real \ Known
    BY <1>2, <1>4, <2>1 DEF Find, Looking
  <2>2. CASE n \notin Real \ Known
    BY <1>2, <1>4, <2>2, DoneIsNotCreating DEF Find
  <2> QED BY <2>1, <2>2
<1>5. ASSUME NEW t \in Task, FindMax(t) PROVE RegistryInv'
  BY <1>2, <1>5 DEF FindMax, Looking, At, RegistryInv, CreatingReal
<1>6. ASSUME NEW t \in Task, Insert(t) PROVE RegistryInv'
  <2>1. CreatingReal' /\ DOMAIN task' = Task
    BY <1>6, GoesKeepsCreating, DoneIsNotCreating DEF Insert
  <2> QED BY <1>6, <2>1, InsertStep DEF Insert, RegistryInv
<1>7. ASSUME NEW t \in Task, Dropped(t) PROVE RegistryInv'
  BY <1>2, <1>7 DEF Dropped, Idle, Looking
<1>8. CASE Reload \/ \E t \in Task : InsertPanics(t)
  BY <1>8, RestartInv DEF Reload, InsertPanics
<1>9. ASSUME NEW c \in Configs, EditConf(c) PROVE RegistryInv'
  BY <1>9 DEF EditConf, RegistryInv, CreatingReal, Real, RealIn
<1>10. ASSUME NEW n \in Name, DeleteRow(n) PROVE RegistryInv'
  BY <1>10 DEF DeleteRow, NoRow, RegistryInv, CreatingReal, Real, RealIn
<1>11. CASE Pass
  BY <1>3, <1>11, TaskAssumption DEF Pass
<1>12. CASE \E t \in Task : Request(t) \/ NumberPanics(t)
  BY <1>3, <1>12, RestartInv DEF Request, NumberPanics
<1>13. CASE \E t \in Task : LookUp(t)
  BY <1>4, <1>5, <1>6, <1>8, <1>13 DEF LookUp
<1> QED
  BY <1>1, <1>7, <1>8, <1>9, <1>10, <1>11, <1>12, <1>13 DEF RegistryNext

-----------------------------------------------------------------------------
(* Each step is one of the abstract table or none.                         *)

Abstract == <<Statuses, Real>>

LEMMA InitImplements == RegistryInit => Table!TableInit
<1> SUFFICES ASSUME RegistryInit PROVE Table!TableInit
  OBVIOUS
<1>1. Statuses \in [Name -> TargetStatus \cup {Absent}]
  BY DEF RegistryInit, NoRow, Statuses
<1>2. Real \in SUBSET Name
  BY RealNames DEF RegistryInit
<1> QED BY <1>1, <1>2
  DEF Table!TableInit, Table!TargetStatus, Table!Absent, Statuses, TargetStatus, Absent

LEMMA StepImplements ==
  RegistryInv /\ [RegistryNext]_vars =>
    Table!TableNext \/ UNCHANGED <<[n \in Name |-> row[n].status], Real>>
<1> SUFFICES ASSUME RegistryInv, [RegistryNext]_vars
             PROVE  Table!TableNext \/ UNCHANGED Abstract
  BY DEF Abstract, Statuses
<1>1. ASSUME UNCHANGED <<conf, row>> PROVE UNCHANGED Abstract
  BY <1>1 DEF Abstract, Statuses, Real, RealIn
<1>2. ASSUME Restart PROVE Table!TableNext
  <2>1. UNCHANGED Statuses
    BY <1>2 DEF Restart, Statuses
  <2>2. Real' \in SUBSET Name
    BY <1>2 DEF Restart, RegistryInv, Real, RealIn
  <2> QED BY <2>1, <2>2 DEF Table!TableNext, Table!Reconfigured, Statuses
<1>3. ASSUME NEW t \in Task, Insert(t) PROVE Table!TableNext
  <2>1. PICK n \in Name : n = task[t].name
    BY <1>3, InsertStep, RealNames DEF RegistryInv
  <2>2. /\ n \in Real /\ Real' = Real
        /\ Statuses' = WithRows(Statuses, {n})
    BY <1>3, <2>1, InsertStep DEF Real, RealIn
  <2>3. Table!FromName(n)
    BY <2>2 DEF Table!FromName, Table!WithRows, Table!Absent, WithRows, Absent, Statuses
  <2> QED BY <2>3 DEF Table!TableNext
<1>4. ASSUME NEW n \in Name, DeleteRow(n) PROVE Table!TableNext
  <2>1. UNCHANGED Real
    BY <1>4 DEF DeleteRow, Real, RealIn
  <2>2. ASSUME NEW m \in Name PROVE row'[m].status = IF m = n THEN Absent ELSE row[m].status
    BY <1>4 DEF DeleteRow, RegistryInv, NoRow
  <2>3. Statuses' = [Statuses EXCEPT ![n] = Absent]
    BY <2>2 DEF Statuses
  <2>4. Table!RemovedByHand(n)
    BY <2>1, <2>3 DEF Table!RemovedByHand, Table!Absent, Absent, Statuses
  <2> QED BY <2>4 DEF Table!TableNext
<1>5. CASE \E t \in Task : LookUp(t) \/ Dropped(t)
  <2>1. ASSUME NEW t \in Task, (\E n \in Name : Find(t, n)) \/ FindMax(t) \/ Dropped(t)
        PROVE  UNCHANGED Abstract
    BY <1>1, <2>1 DEF Find, FindMax, Dropped
  <2>2. ASSUME NEW t \in Task, InsertPanics(t) PROVE Table!TableNext
    BY <1>2, <2>2 DEF InsertPanics
  <2> QED BY <1>3, <1>5, <2>1, <2>2 DEF LookUp
<1>6. CASE Pass \/ (\E t \in Task : Request(t)) \/ \E c \in Configs : EditConf(c)
  BY <1>1, <1>6 DEF Pass, Request, Ask, EditConf
<1>7. CASE Reload \/ \E t \in Task : NumberPanics(t)
  BY <1>2, <1>7 DEF Reload, NumberPanics
<1>8. CASE UNCHANGED vars
  BY <1>1, <1>8 DEF vars
<1> QED BY <1>4, <1>5, <1>6, <1>7, <1>8 DEF RegistryNext

(* from_name, in its three steps and under races, restarts and changes     *)
(* made by hand, is the single step the other modules take it for          *)
(* (target.rs:48-99).                                                      *)
THEOREM FromNameIsAtomic == RegistrySpec => Implements
<1>1. RegistryInit => RegistryInv
  BY RegistryInitInv
<1>2. RegistryInv /\ [RegistryNext]_vars => RegistryInv'
  BY RegistryNextInv
<1>3. RegistryInit => Table!TableInit
  BY InitImplements
<1>4. RegistryInv /\ [RegistryNext]_vars =>
        [Table!TableNext]_<<[n \in Name |-> row[n].status], Real>>
  BY StepImplements
<1> QED BY <1>1, <1>2, <1>3, <1>4, PTL DEF RegistrySpec, Implements, Table!TableSpec

-----------------------------------------------------------------------------
(* Types.  The highest id can be asked for because there is one: ids stay  *)
(* below some number.                                                      *)
LEMMA HasHighest ==
  ASSUME NEW S, S \subseteq Nat, S # {}, NEW b \in Nat, \A x \in S : x <= b
  PROVE  \E m \in S : \A x \in S : m >= x
<1> DEFINE T == {c \in Nat : \A x \in S : x <= c}
<1>1. PICK c \in T : \A y \in T : ~(<<y, c>> \in OpToRel(<, Nat))
  <2>1. IsWellFoundedOn(OpToRel(<, Nat), Nat)
    BY NatLessThanWellFounded
  <2>2. T \subseteq Nat /\ T # {}
    OBVIOUS
  <2> HIDE DEF T
  <2> QED BY <2>1, <2>2, WFMin
<1>2. CASE c \in S
  BY <1>2
<1>3. CASE c \notin S
  <2>1. PICK x \in S : TRUE
    OBVIOUS
  <2>2. c \in Nat /\ c - 1 \in Nat
    <3>1. x \in Nat /\ c \in Nat /\ x <= c /\ x # c
      BY <1>3
    <3> QED BY <3>1
  <2>3. ASSUME NEW y \in S PROVE y <= c - 1
    <3>1. y \in Nat /\ c \in Nat /\ y <= c /\ y # c
      BY <1>3
    <3> QED BY <3>1
  <2>4. <<c - 1, c>> \in OpToRel(<, Nat) /\ c - 1 \in T
    BY <2>2, <2>3 DEF OpToRel
  <2> QED BY <1>1, <2>4
<1> QED BY <1>2, <1>3

Bounded == \E b \in Nat : \A n \in Known : row[n].id <= b

TypeInv == RegistryInv /\ RegistryTypeOK /\ Bounded

LEMMA HighestType ==
  ASSUME TypeInv
  PROVE  Highest \in Nat
<1> DEFINE S == Ids \cup {0}
<1>1. S \subseteq Nat /\ S # {}
  BY DEF TypeInv, RegistryTypeOK, Row, Ids, Known
<1>2. PICK b \in Nat : \A x \in S : x <= b
  BY DEF TypeInv, Bounded, Ids
<1> HIDE DEF S
<1>3. \E m \in S : \A x \in S : m >= x
  BY <1>1, <1>2, HasHighest
<1>4. Max(S) \in S
  BY <1>3 DEF Max
<1> QED BY <1>1, <1>4 DEF Highest, S

LEMMA IdleType == Idle \in TaskState
BY DEF Idle, Looking, TaskState

LEMMA LookingType ==
  ASSUME NEW pc \in {"find", "max", "insert"}, NEW todo \in SUBSET Name,
         NEW name \in Name \cup {NoName}, NEW max \in Nat
  PROVE  Looking(pc, todo, name, max) \in TaskState
BY DEF Looking, TaskState

LEMMA DoneType ==
  ASSUME TypeInv, NEW t \in Task, NEW n
  PROVE  Done(t, n) \in TaskState
<1>1. task[t].todo \ {n} \in SUBSET Name
  BY DEF TypeInv, RegistryTypeOK, TaskState
<1> QED BY <1>1, IdleType, LookingType DEF Done

(* Steps that leave the table alone.                                       *)
LEMMA TableStays ==
  ASSUME TypeInv, UNCHANGED row, file' \in Configs, conf' \in Configs,
         task' \in [Task -> TaskState], hand' \in 0 .. MaxHand
  PROVE  RegistryTypeOK' /\ Bounded'
<1>1. UNCHANGED Known
  BY DEF Known
<1> QED BY <1>1 DEF TypeInv, RegistryTypeOK, Bounded

LEMMA NextTypes == TypeInv /\ [RegistryNext]_vars => RegistryTypeOK' /\ Bounded'
<1> SUFFICES ASSUME TypeInv, [RegistryNext]_vars PROVE RegistryTypeOK' /\ Bounded'
  OBVIOUS
<1>0. /\ file \in Configs /\ conf \in Configs /\ task \in [Task -> TaskState]
      /\ row \in [Name -> Row] /\ hand \in 0 .. MaxHand /\ MaxHand \in Nat
  BY HandAssumption DEF TypeInv, RegistryTypeOK
<1>1. ASSUME NEW t \in Task, NEW next \in TaskState, Goes(t, next),
             UNCHANGED <<file, conf, row, hand>>
      PROVE  RegistryTypeOK' /\ Bounded'
  BY <1>0, <1>1, TableStays DEF Goes
<1>2. ASSUME NEW t \in Task, NEW names, Ask(t, names) PROVE RegistryTypeOK' /\ Bounded'
  BY <1>1, <1>2, LookingType DEF Ask
<1>3. ASSUME NEW t \in Task, NEW n \in Name, Find(t, n) PROVE RegistryTypeOK' /\ Bounded'
  <2>1. task[t].todo \in SUBSET Name
    BY <1>0 DEF TaskState
  <2> QED BY <1>1, <1>3, <2>1, DoneType, LookingType DEF Find
<1>4. ASSUME NEW t \in Task, FindMax(t) PROVE RegistryTypeOK' /\ Bounded'
  <2>1. task[t].todo \in SUBSET Name /\ task[t].name \in Name \cup {NoName}
    BY <1>0 DEF TaskState
  <2> QED BY <1>1, <1>4, <2>1, HighestType, LookingType DEF FindMax
<1>5. ASSUME NEW t \in Task, Insert(t) PROVE RegistryTypeOK' /\ Bounded'
  <2> DEFINE m == task[t].name
             new == task[t].max + 1
  <2>1. m \in Name /\ new \in Nat /\ m \notin Known /\ new \notin Ids
    <3>1. task[t].name \in Real /\ Real \subseteq Name
      BY <1>0, <1>5, InsertStep, RealNames DEF TypeInv
    <3>2. task[t] \in TaskState
      BY <1>0
    <3> QED BY <1>5, <3>1, <3>2 DEF Insert, Clashes, TaskState
  <2>2. row' = [row EXCEPT ![m] = [id |-> new, status |-> "Online"]]
        /\ task' \in [Task -> TaskState] /\ UNCHANGED <<file, conf, hand>>
    BY <1>0, <1>5, DoneType DEF Insert, Goes
  <2> HIDE DEF m, new
  <2>3. row' \in [Name -> Row]
    BY <1>0, <2>1, <2>2 DEF Row, TargetStatus
  <2>4. Known' = Known \cup {m} /\ row'[m].id = new
        /\ \A n \in Known : row'[n].id = row[n].id
    BY <1>0, <2>1, <2>2 DEF Known, Absent
  <2>5. \A n \in Known : row[n].id \in Ids
    BY DEF Ids
  <2>6. \A k, n \in Known' : row'[k].id = row'[n].id => k = n
    BY <2>1, <2>4, <2>5 DEF TypeInv, RegistryTypeOK
  <2>7. PICK b \in Nat : \A n \in Known : row[n].id <= b
    BY DEF TypeInv, Bounded
  <2>8. b + new \in Nat /\ \A n \in Known' : row'[n].id <= b + new
    BY <1>0, <2>1, <2>4, <2>7 DEF Known, Row
  <2>9. Bounded'
    BY <2>8 DEF Bounded
  <2> QED BY <1>0, <2>2, <2>3, <2>6, <2>9 DEF RegistryTypeOK
<1>6. ASSUME Restart, hand' \in 0 .. MaxHand PROVE RegistryTypeOK' /\ Bounded'
  BY <1>0, <1>6, IdleType, TableStays DEF Restart
<1>7. ASSUME NEW t \in Task, Dropped(t) PROVE RegistryTypeOK' /\ Bounded'
  BY <1>1, <1>7, IdleType DEF Dropped
<1>8. ASSUME NEW c \in Configs, EditConf(c) PROVE RegistryTypeOK' /\ Bounded'
  BY <1>0, <1>8, TableStays DEF EditConf, ByHand
<1>9. ASSUME NEW n \in Name, DeleteRow(n) PROVE RegistryTypeOK' /\ Bounded'
  <2>1. row' \in [Name -> Row] /\ hand' \in 0 .. MaxHand
    BY <1>0, <1>9 DEF DeleteRow, ByHand, NoRow, Row
  <2>2. Known' \subseteq Known /\ \A k \in Known' : row'[k] = row[k]
    BY <1>0, <1>9 DEF DeleteRow, NoRow, Known
  <2> QED BY <1>0, <1>9, <2>1, <2>2 DEF DeleteRow, TypeInv, RegistryTypeOK, Bounded
<1>10. CASE UNCHANGED vars
  BY <1>0, <1>10, TableStays DEF vars
<1>11. CASE \E t \in Task : LookUp(t)
  BY <1>0, <1>3, <1>4, <1>5, <1>6, <1>11 DEF LookUp, InsertPanics
<1>12. CASE Pass \/ \E t \in Task : Request(t)
  BY <1>2, <1>12, TaskAssumption DEF Pass, Request
<1>13. CASE Reload \/ \E t \in Task : NumberPanics(t)
  <2>1. hand' \in 0 .. MaxHand
    BY <1>0, <1>13 DEF Reload, NumberPanics, ByHand
  <2> QED BY <1>6, <1>13, <2>1 DEF Reload, NumberPanics
<1> QED BY <1>7, <1>8, <1>9, <1>10, <1>11, <1>12, <1>13 DEF RegistryNext

(* The table stays well formed whoever edits it: in particular two rows    *)
(* never share an id, though the highest is read in one query, given out   *)
(* in another, and rows vanish in between (target.rs:82-93).               *)
THEOREM RegistryTypes == RegistrySpec => []RegistryTypeOK
<1>1. RegistryInit => TypeInv
  <2> SUFFICES ASSUME RegistryInit PROVE TypeInv
    OBVIOUS
  <2>1. Known = {} /\ hand \in 0 .. MaxHand
    BY HandAssumption DEF RegistryInit, Known, NoRow
  <2>2. row \in [Name -> Row] /\ task \in [Task -> TaskState]
    BY IdleType DEF RegistryInit, NoRow, Row
  <2> QED BY <2>1, <2>2, RegistryInitInv
          DEF RegistryInit, TypeInv, RegistryTypeOK, Bounded
<1>2. TypeInv /\ [RegistryNext]_vars => TypeInv'
  BY NextTypes, RegistryNextInv DEF TypeInv
<1>3. TypeInv => RegistryTypeOK
  BY DEF TypeInv
<1> QED BY <1>1, <1>2, <1>3, PTL DEF RegistrySpec

-----------------------------------------------------------------------------
(* A machine that is configured away.                                      *)

(* The stanzas use only keys that conf.rs reads, with numbers under them.  *)
AsRead ==
  \A c \in Configs : \A k \in DOMAIN c :
    /\ DOMAIN c[k] \cap {"start", "end"} = {}
    /\ \A key \in {"first_num", "last_num"} \cap DOMAIN c[k] : c[k][key] \in Nat

LEMMA LeftOutIsNotReal ==
  ASSUME AsRead, conf \in Configs, NEW n \in Name, LeftOut(n)
  PROVE  n \notin Real
<1> SUFFICES ASSUME n \in Real PROVE FALSE
  OBVIOUS
<1>1. PICK k \in DOMAIN conf : Matches(NodeType(conf[k]), n) /\ InRange(NodeType(conf[k]), n)
  BY DEF Real, RealIn, RealNode, Fitting, NodeTypes
<1> DEFINE e == conf[k]
<1>2. /\ WrittenFrom(e) = UnwrapOr(Key(e, "first_num"), 1)
      /\ WrittenTo(e) = Key(e, "last_num")
  BY DEF AsRead, Key, WrittenFrom, WrittenTo
<1>3. /\ UnwrapOr(Key(e, "first_num"), 1) \in Nat
      /\ \A last \in Key(e, "last_num") : last \in Nat
      /\ n.num \in Nat
  BY NodeNameAssumption DEF AsRead, Key, UnwrapOr, NodeName
<1>4. /\ n.prefix = e.prefix
      /\ UnwrapOr(Key(e, "first_num"), 1) <= n.num
      /\ \A last \in Key(e, "last_num") : n.num <= last
  BY <1>1 DEF Matches, InRange, NodeType
<1>5. \/ n.num < UnwrapOr(Key(e, "first_num"), 1)
      \/ \E last \in Key(e, "last_num") : last < n.num
  BY <1>2, <1>4 DEF LeftOut
<1> HIDE DEF e
<1> QED BY <1>3, <1>4, <1>5

(* Rows appear for real names only.                                        *)
LEMMA RowsAreReal ==
  ASSUME RegistryInv, [RegistryNext]_vars, NEW n \in Name, n \notin Known, n \in Known'
  PROVE  n \in Real
<1>1. ASSUME NEW t \in Task, Insert(t) PROVE n \in Real
  <2>1. task[t].name \in Real /\ Statuses' = WithRows(Statuses, {task[t].name})
    BY <1>1, InsertStep
  <2>2. n = task[t].name
    BY <2>1 DEF Statuses, WithRows, Known
  <2> QED BY <2>1, <2>2
<1>2. CASE UNCHANGED row
  BY <1>2 DEF Known
<1>3. ASSUME NEW m \in Name, DeleteRow(m) PROVE FALSE
  BY <1>3 DEF DeleteRow, NoRow, Known, RegistryInv
<1> QED
  BY <1>1, <1>2, <1>3
  DEF RegistryNext, Pass, Request, Ask, LookUp, Find, FindMax, InsertPanics, Restart, Dropped,
      NumberPanics, EditConf, Reload, vars

(* README.md:18: whoever looks names up while the row is deleted, a        *)
(* process that has read the stanzas gives a machine they leave out no row *)
(* again, provided their keys are ones it reads: with those of README.md   *)
(* it does.                                                                *)
THEOREM RemovedAway == ASSUME AsRead PROVE RegistrySpec => RemovedStaysAway
<1>1. RegistryInv /\ [RegistryNext]_vars =>
        [\A n \in Name : LeftOut(n) /\ n \notin Known => n \notin Known']_vars
  BY LeftOutIsNotReal, RowsAreReal DEF RegistryInv
<1> QED BY <1>1, RegistryInitInv, RegistryNextInv, PTL DEF RegistrySpec, RemovedStaysAway

-----------------------------------------------------------------------------
(* Boards and slots.                                                       *)

(* No board or slot goes on into names that are grouped otherwise, or      *)
(* beyond a word, and names are written as their type writes them.         *)
WellGrouped ==
  \A c \in Configs :
    LET types == NodeTypes(c)
    IN  \A n \in Probe :
          RealNode(types, n) =>
            /\ Regular(types, n)
            /\ \A m \in Siblings(types, n) \cup Cousins(types, n) :
                 RealNode(types, m) =>
                   Regular(types, m) /\ Alike(GetNodeType(types, n), GetNodeType(types, m))

(* What the other modules take for granted of groups (GroupAssumption),    *)
(* for any configuration whose stanzas fit together.                       *)
THEOREM GroupsCorrect == ASSUME WellGrouped PROVE RegistrySpec => []GroupsAgree
<1>1. ASSUME NEW c \in Configs PROVE c \in Agreeing
  <2> DEFINE types == NodeTypes(c)
  <2>1. ASSUME NEW n \in Probe, RealNode(types, n)
        PROVE  /\ n \in Siblings(types, n) /\ n \in Cousins(types, n)
               /\ \A m \in Siblings(types, n) :
                    RealNode(types, m) => Siblings(types, m) = Siblings(types, n)
               /\ \A m \in Cousins(types, n) :
                    RealNode(types, m) => Cousins(types, m) = Cousins(types, n)
    <3>1. Regular(types, n)
      BY <2>1 DEF WellGrouped
    <3>2. ASSUME NEW m \in Siblings(types, n) \cup Cousins(types, n), RealNode(types, m)
          PROVE  Regular(types, m) /\ Alike(GetNodeType(types, n), GetNodeType(types, m))
      BY <2>1, <3>2 DEF WellGrouped
    <3> HIDE DEF types
    <3> QED BY <2>1, <3>1, <3>2, InOwnGroups, GroupsShared
  <2> HIDE DEF types
  <2>2. Shared(types, Siblings) /\ Shared(types, Cousins)
    BY <2>1 DEF Shared
  <2> QED BY <2>2 DEF Agreeing, types
<1>2. RegistryInv => GroupsAgree
  BY <1>1 DEF RegistryInv, GroupsAgree
<1> QED BY <1>2, RegistryInitInv, RegistryNextInv, PTL DEF RegistrySpec
=============================================================================

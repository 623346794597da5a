------------------------------ MODULE Registry ------------------------------
(***************************************************************************)
(* The target table in detail: how the sync loop and the requests look up  *)
(* names and create missing rows in three steps each (find the row, find   *)
(* the highest id, insert), while somebody edits the configuration and     *)
(* takes rows out of the database, as README.md says machines are removed. *)
(***************************************************************************)
EXTENDS Topology, TargetRows, FiniteSetsExt

CONSTANTS
  Name,      \* the node names that occur
  Configs,   \* what conf.yaml may hold: sequences of entries
  Task,      \* the sync loop and the requests
  Loop,      \* the sync loop
  Visited,   \* the names each pass of the loop looks up
  Probe,     \* the names whose boards and slots are looked at
  NoName,
  MaxHand    \* bound: changes made by hand, and requests that end the process

ASSUME NodeNameAssumption == Name \subseteq NodeName /\ NoName \notin Name
ASSUME TaskAssumption == Loop \in Task /\ Visited \subseteq Name
ASSUME ProbeAssumption == Probe \subseteq NodeName
ASSUME HandAssumption == MaxHand \in Nat

VARIABLES
  file,   \* conf.yaml
  conf,   \* what the running process read from it
  row,    \* target table: name -> id and recorded status
  task,   \* what each task is looking up
  hand    \* how many of those there were

vars == <<file, conf, row, task, hand>>

Row == [id: Nat, status: TargetStatus \cup {Absent}]
NoRow == [id |-> 0, status |-> Absent]
Known == {n \in Name : row[n].status # Absent}

TaskState == [pc: {"idle", "find", "max", "insert"}, todo: SUBSET Name,
              name: Name \cup {NoName}, max: Nat]
Looking(pc, todo, name, max) == [pc |-> pc, todo |-> todo, name |-> name, max |-> max]
Idle == Looking("idle", {}, NoName, 0)

Types == NodeTypes(conf)
RealIn == [c \in Configs |-> {n \in Name : RealNode(NodeTypes(c), n)}]
Real == RealIn[conf]

RegistryInit ==
  /\ file \in Configs
  /\ conf = file
  /\ row = [n \in Name |-> NoRow]
  /\ task = [t \in Task |-> Idle]
  /\ hand = 0

-----------------------------------------------------------------------------
(* Looking names up.                                                       *)

At(t, pc) == task[t].pc = pc
Goes(t, next) == task' = [task EXCEPT ![t] = next]

(* from_name on the target of a request (issue_open), or on a whole board  *)
(* or slot (get_related, related_closing, desired_state).                  *)
Asks(n) == {{n}, Siblings(Types, n), Cousins(Types, n)}

Ask(t, names) ==
  /\ At(t, "idle") /\ names \cap Name # {}
  /\ Goes(t, Looking("find", names \cap Name, NoName, 0))
  /\ UNCHANGED <<file, conf, row, hand>>

(* The next name of those asked for: create_target when it is real and has *)
(* no row.                                                                 *)
Done(t, n) ==
  LET left == task[t].todo \ {n}
  IN  IF left = {} THEN Idle ELSE Looking("find", left, NoName, 0)

(* Mutated: whether the name is real is not looked at.                     *)
FindAnyName(t, n) ==
  /\ At(t, "find") /\ n \in task[t].todo
  /\ IF n \notin Known
     THEN Goes(t, Looking("max", task[t].todo, n, 0))
     ELSE Goes(t, Done(t, n))
  /\ UNCHANGED <<file, conf, row, hand>>

Find(t, n) ==
  /\ At(t, "find") /\ n \in task[t].todo
  /\ IF n \in Real \ Known
     THEN Goes(t, Looking("max", task[t].todo, n, 0))
     ELSE Goes(t, Done(t, n))
  /\ UNCHANGED <<file, conf, row, hand>>

Ids == {row[n].id : n \in Known}

(* Mutated: counts the rows.                                               *)
HighestByCount == Cardinality(Ids)

Highest == Max(Ids \cup {0})

FindMax(t) ==
  /\ At(t, "max")
  /\ Goes(t, Looking("insert", task[t].todo, task[t].name, Highest))
  /\ UNCHANGED <<file, conf, row, hand>>

(* Mutated: only names are unique.                                         *)
ClashesByName(t) == task[t].name \in Known

(* Names and ids are unique in the table.                                  *)
Clashes(t) == task[t].name \in Known \/ task[t].max + 1 \in Ids

Insert(t) ==
  /\ At(t, "insert") /\ ~Clashes(t)
  /\ row' = [row EXCEPT ![task[t].name] = [id |-> task[t].max + 1, status |-> "Online"]]
  /\ Goes(t, Done(t, task[t].name))
  /\ UNCHANGED <<file, conf, hand>>

(* The insert is unwrapped: the process ends and is started again.         *)
Restart ==
  /\ task' = [t \in Task |-> Idle]
  /\ conf' = file
  /\ UNCHANGED <<file, row>>

InsertPanics(t) == At(t, "insert") /\ Clashes(t) /\ Restart /\ UNCHANGED hand

Dropped(t) ==
  /\ t # Loop /\ ~At(t, "idle")
  /\ Goes(t, Idle)
  /\ UNCHANGED <<file, conf, row, hand>>

-----------------------------------------------------------------------------
(* Removing a machine: conf.yaml is edited, the server restarted, the row  *)
(* deleted, in whatever order.                                             *)

ByHand == hand < MaxHand /\ hand' = hand + 1

EditConf(c) ==
  /\ ByHand
  /\ file' = c
  /\ UNCHANGED <<conf, row, task>>

Reload == file # conf /\ Restart /\ UNCHANGED hand

DeleteRow(n) ==
  /\ ByHand
  /\ n \in Known
  /\ row' = [row EXCEPT ![n] = NoRow]
  /\ UNCHANGED <<file, conf, task>>

-----------------------------------------------------------------------------
Pass == Ask(Loop, Visited)
Request(t) ==
  /\ t # Loop
  /\ \E n \in Name : ~Overflows(Types, n) /\ \E names \in Asks(n) : Ask(t, names)

(* A request about a name whose number is too large.                       *)
NumberPanics(t) ==
  /\ t # Loop /\ At(t, "idle")
  /\ \E n \in Name : Overflows(Types, n)
  /\ ByHand
  /\ Restart

LookUp(t) ==
  \/ \E n \in Name : Find(t, n)
  \/ FindMax(t)
  \/ Insert(t) \/ InsertPanics(t)

RegistryNext ==
  \/ Pass \/ (\E t \in Task : Request(t) \/ NumberPanics(t))
  \/ \E t \in Task : LookUp(t) \/ Dropped(t)
  \/ (\E c \in Configs : EditConf(c)) \/ Reload
  \/ \E n \in Name : DeleteRow(n)

RegistrySpec == RegistryInit /\ [][RegistryNext]_vars

(* The loop makes its passes, and tasks that can go on do.                 *)
RegistryFairness == WF_vars(Pass) /\ \A t \in Task : WF_vars(LookUp(t))
RegistryFairSpec == RegistrySpec /\ RegistryFairness

-----------------------------------------------------------------------------
(* Every variable has its type, and ids are unique as the table wants it.  *)
RegistryTypeOK ==
  /\ file \in Configs /\ conf \in Configs
  /\ row \in [Name -> Row]
  /\ task \in [Task -> TaskState]
  /\ hand \in 0 .. MaxHand
  /\ \A m, n \in Known : row[m].id = row[n].id => m = n

(* Whatever tasks and hands do at once, from_name is the one step that the *)
(* sync loop and the requests take it for (target.rs:48): rows appear for  *)
(* real names only, Online, and no other row is touched by it.  A block of *)
(* a board may go on past the last number (regex_cluster.rs:57), so it is  *)
(* asked for names that are not real.                                      *)
Table == INSTANCE TargetTable WITH target <- [n \in Name |-> row[n].status],
                                   real <- Real
Implements == Table!TableSpec

(* The tasks that meet in create_target make each other's insert fail and  *)
(* the process end (target.rs:82-93), but they do not do so for ever:      *)
(* every real name that each pass looks up has a row for good in the end.  *)
Registered == <>[](Visited \cap Real \subseteq Known)

(* A node is on its own board and in its own slot, and the nodes of a      *)
(* board or slot agree on it.  The expected states go from a ticket to the *)
(* nodes of its group (get_expected_state), related_closing and            *)
(* desired_state from a node to the tickets of its group: only for such    *)
(* groups do they speak of the same nodes.                                 *)
Shared(types, Group(_, _)) ==
  \A n \in {m \in Probe : RealNode(types, m)} :
    /\ n \in Group(types, n)
    /\ \A m \in Group(types, n) : RealNode(types, m) => Group(types, m) = Group(types, n)
Agreeing == {c \in Configs : /\ Shared(NodeTypes(c), Siblings)
                             /\ Shared(NodeTypes(c), Cousins)}
GroupsAgree == conf \in Agreeing

(* README.md:18 and conf_ex_nodegone.yaml: a machine is taken out of       *)
(* consideration by stanzas that leave it out, and its row is deleted;     *)
(* a process that has read those stanzas gives it no row again.            *)
WrittenFrom(e) == UnwrapOr(Key(e, "start") \cup Key(e, "first_num"), 1)
WrittenTo(e) == Key(e, "end") \cup Key(e, "last_num")
LeftOut(n) ==
  \A k \in DOMAIN conf :
    conf[k].prefix = n.prefix => n.num < WrittenFrom(conf[k])
                                 \/ \E last \in WrittenTo(conf[k]) : last < n.num
RemovedStaysAway == [][\A n \in Name : LeftOut(n) /\ n \notin Known => n \notin Known']_vars
=============================================================================

------------------------------ MODULE CttState ------------------------------
(***************************************************************************)
(* The state the parts of cttd share: the issue, target and comment tables *)
(* of its database, the PBS scheduler it steers and the change log channel,*)
(* with the queries the sync loop and the API run on them.  One query, one *)
(* row update or one scheduler call is one atomic step of the modules that *)
(* extend this one.                                                        *)
(***************************************************************************)
EXTENDS Naturals, FiniteSets, TargetRows, Channel

CONSTANTS
  Name,          \* node names of one node type, known by their number
  Real,          \* the names the configured node types accept
  Siblings,      \* Siblings[n]: the names on the board of n
  Cousins,       \* Cousins[n]: the names in the slot of n
  IssueId,       \* bound: issues that can ever be inserted
  NoIssue,
  Title,
  MissingTitle,  \* "Node not found in pbs"
  CommentTitle,  \* the comment a node carries in PBS
  InitTickets, InitTargets, InitPbs   \* what the process can find at start

NoNode == 0
NoOffline == "None"          \* to_offline is null

IssueStatus == {"Opening", "Open", "Closing", "Closed"}
ToOffline == {"Node", "Card", "Blade"}
CommentKind == {"opened", "closed", "foundUp", "updated"}

IssueRow == [status: IssueStatus \cup {Absent},
             toOffline: ToOffline \cup {NoOffline},
             target: Name,
             title: Title]
Vnode == [present: BOOLEAN, offline: BOOLEAN, down: BOOLEAN, jobs: BOOLEAN]

ASSUME NameAssumption == Name \subseteq Nat \ {NoNode} /\ Real \subseteq Name
ASSUME GroupAssumption ==
  /\ Siblings \in [Name -> SUBSET Name]
  /\ Cousins \in [Name -> SUBSET Name]
  /\ \A n \in Real : n \in Siblings[n] /\ n \in Cousins[n]
  /\ \A n \in Name \ Real : Siblings[n] = {} /\ Cousins[n] = {}
ASSUME IssueAssumption == IssueId \subseteq Nat /\ NoIssue \notin IssueId
ASSUME TitleAssumption == {MissingTitle, CommentTitle} \subseteq Title
ASSUME InitAssumption ==
  /\ InitTickets \subseteq [issue: [IssueId -> IssueRow],
                            comment: [IssueId -> SUBSET CommentKind]]
  /\ InitTargets \subseteq [Name -> TargetStatus \cup {Absent}]
  /\ InitPbs \subseteq [Name -> Vnode]

VARIABLES
  issue,     \* issue table: id -> row
  target,    \* target table: name -> recorded status
  comment,   \* comment table: id -> kinds of comment on the issue
  pbs        \* PBS: name -> vnode

shared == <<issue, target, comment, pbs, chan>>

Inserted == {i \in IssueId : issue[i].status # Absent}
Live == {i \in Inserted : issue[i].status # "Closed"}

(* A database that survived earlier runs: it satisfies the foreign keys.   *)
SharedInit ==
  /\ \E db \in InitTickets : issue = db.issue /\ comment = db.comment
  /\ target \in InitTargets
  /\ \A i \in Inserted : target[issue[i].target] # Absent
  /\ \A i \in IssueId \ Inserted : comment[i] = {}
  /\ pbs \in InitPbs
  /\ ChannelInit

SharedTypeOK ==
  /\ issue \in [IssueId -> IssueRow]
  /\ target \in [Name -> TargetStatus \cup {Absent}]
  /\ comment \in [IssueId -> SUBSET CommentKind]
  /\ pbs \in [Name -> Vnode]
  /\ chan \in 0 .. ChanCap

-----------------------------------------------------------------------------
(* The scheduler.                                                          *)

(* PbsScheduler::nodes_status: "offline" is looked for before "down", and  *)
(* jobs decide between draining and drained.                               *)
StatusOf(v) ==
  CASE ~v.present -> Absent
    [] v.present /\ (v.offline \/ v.down) /\ v.jobs -> "Draining"
    [] v.present /\ v.offline /\ ~v.jobs -> "Offline"
    [] v.present /\ ~v.offline /\ v.down /\ ~v.jobs -> "Down"
    [] OTHER -> "Online"

NodesStatus == [n \in Name |-> StatusOf(pbs[n])]

(* Mutated: clears the other flag.                                         *)
ReleaseNodeDown(n) == pbs' = [pbs EXCEPT ![n].down = FALSE]

(* A vnode PBS does not know makes the call fail, see the callers.         *)
ReleaseNode(n) == pbs' = [pbs EXCEPT ![n].offline = FALSE]
OfflineNode(n) == pbs' = [pbs EXCEPT ![n].offline = TRUE]

-----------------------------------------------------------------------------
(* The tables.                                                             *)

WithStatus(S) == {i \in IssueId : issue[i].status \in S}
OpenStatus == {"Open", "Opening"}

SetStatus(i, s) == issue' = [issue EXCEPT ![i].status = s]
AddComment(i, k) == comment' = [comment EXCEPT ![i] = @ \cup {k}]

(* Mutated: puts the row back Online even if it exists.                    *)
FromNameUpsert(S) ==
  target' = [n \in Name |-> IF n \in S \cap Real THEN "Online" ELSE target[n]]

(* Entity::from_name on each name of S: a real node without a row gets one.*)
(* Registry has the steps this takes and shows that it comes to this.      *)
FromName(S) == target' = WithRows(target, S \cap Real)

(* Mutated: what the duplicate check looks at.                             *)
DuplicateOfOpening == {"Opening"}

(* issue_open refuses a second issue of the same title on a target, but    *)
(* only looks at those already Open.                                       *)
DuplicateStatus == {"Open"}
Duplicate(n, t) ==
  \E i \in WithStatus(DuplicateStatus) : issue[i].target = n /\ issue[i].title = t

(* Ids are handed out in order.                                            *)
InsertIssue(i, n, t, off) ==
  /\ i \notin Inserted /\ \A j \in IssueId \ Inserted : i <= j
  /\ issue' = [issue EXCEPT ![i] = [status |-> "Opening", toOffline |-> off,
                                    target |-> n, title |-> t]]

(* issue::Model::get_related: the nodes an issue speaks for.               *)
Related(i) ==
  LET t == issue[i].target
  IN  CASE issue[i].toOffline = "Card" -> Siblings[t] \cap Real
        [] issue[i].toOffline = "Blade" -> Cousins[t] \cap Real
        [] OTHER -> {t}

(* Mutated: issues not settled yet count for nothing.                      *)
ExpectedStateSettled ==
  [n \in Name |->
     LET about == {i \in WithStatus({"Open"}) : n \in Related(i)}
     IN  CASE \E i \in about : issue[i].toOffline # NoOffline -> "Offline"
           [] about # {} /\ \A i \in about : issue[i].toOffline = NoOffline -> "Down"
           [] OTHER -> "Unset"]

(* get_expected_state: Offline wins over Down whatever the order in which  *)
(* the issues are visited.                                                 *)
ExpectedState ==
  [n \in Name |->
     LET about == {i \in WithStatus(OpenStatus) : n \in Related(i)}
     IN  CASE \E i \in about : issue[i].toOffline # NoOffline -> "Offline"
           [] about # {} /\ \A i \in about : issue[i].toOffline = NoOffline -> "Down"
           [] OTHER -> "Unset"]

-----------------------------------------------------------------------------
(* related_closing and desired_state ask one node after the other: the     *)
(* node itself for what takes it out of service, each node of its board    *)
(* for what speaks for a board, each of its slot for what speaks for a     *)
(* slot, in the order of their numbers, and itself again for the rest.     *)

(* Mutated: forgets the issues on the whole slot.                          *)
QueriesOnBoard(n, skip) == {"Card"} \X (Siblings[n] \ skip)

Queries(n, skip) == ({"Card"} \X (Siblings[n] \ skip)) \cup ({"Blade"} \X (Cousins[n] \ skip))

IsNext(q, left) ==
  /\ q \in left
  /\ \A p \in left : \/ q[1] = "Card" /\ p[1] = "Blade"
                     \/ q[1] = p[1] /\ q[2] <= p[2]

(* One of these queries; a name that is not real has no issues to show.    *)
Shows(n, statuses, offs) ==
  n \in Real /\ \E i \in WithStatus(statuses) : issue[i].target = n /\ issue[i].toOffline \in offs
ClosingOn(n, offs) == Shows(n, {"Closing"}, offs)
OpenOn(n, offs) == Shows(n, OpenStatus, offs)
=============================================================================

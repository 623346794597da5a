-------------------------------- MODULE Sync --------------------------------
(***************************************************************************)
(* The sync loop (sync.rs, cluster_sync).  A pass reads the issues to      *)
(* settle, the scheduler, the targets and the open issues, one after the   *)
(* other, then handles every node it knows on those readings, and settles  *)
(* the issues last.  Each action below is the code between two awaits.     *)
(***************************************************************************)
EXTENDS CttState

VARIABLES
  spc,       \* where the loop is
  toOpen,    \* to_open: issues found Opening, not yet settled
  toClose,   \* to_close: issues found Closing, not yet settled
  seen,      \* pbs_node_state
  old,       \* ctt_node_state
  expected,  \* desired_state
  todo,      \* nodes of old not handled yet
  node,      \* the node being handled
  final,     \* final_state of that node
  left,      \* queries related_closing has left to make
  hit,       \* whether those it made found an issue
  closing,   \* issues close_open_issues has left to close
  iss        \* issue whose comment or message is still to be written

loop == <<spc, toOpen, toClose, seen, old, expected, todo, node, final, left, hit, closing,
          iss>>
readings == <<toOpen, toClose, seen, old, expected>>
search == <<left, hit>>

SyncPc == {"tick", "readClosing", "stat", "readTargets", "readExpected", "node",
           "related", "search", "release", "send", "closeQuery", "closeIssue",
           "closeComment", "openLookup", "openInsert", "openSend", "openComment", "record"}

AfterReadings == SyncPc \ {"tick", "readClosing", "stat", "readTargets", "readExpected"}

NoReading == [n \in Name |-> Absent]

SyncTypeOK ==
  /\ spc \in SyncPc
  /\ toOpen \subseteq IssueId
  /\ toClose \subseteq IssueId
  /\ seen \in [Name -> TargetStatus \cup {Absent}]
  /\ old \in [Name -> TargetStatus \cup {Absent}]
  /\ expected \in [Name -> {"Offline", "Down", "Unset"}]
  /\ todo \subseteq Name
  /\ node \in Name \cup {NoNode}
  /\ final \in TargetStatus \cup {Absent}
  /\ left \subseteq {"Card", "Blade"} \X Name
  /\ hit \in BOOLEAN
  /\ closing \subseteq IssueId
  /\ iss \in IssueId \cup {NoIssue}

SyncInit ==
  /\ spc = "tick"
  /\ toOpen = {} /\ toClose = {} /\ closing = {} /\ todo = {}
  /\ seen = NoReading /\ old = NoReading
  /\ expected = [n \in Name |-> "Unset"]
  /\ node = NoNode /\ final = Absent /\ iss = NoIssue
  /\ left = {} /\ hit = FALSE

(* The process is gone, or the pass is over.                               *)
SyncReset ==
  /\ spc' = "tick"
  /\ toOpen' = {} /\ toClose' = {} /\ closing' = {} /\ todo' = {}
  /\ seen' = NoReading /\ old' = NoReading
  /\ expected' = [n \in Name |-> "Unset"]
  /\ node' = NoNode /\ final' = Absent /\ iss' = NoIssue
  /\ left' = {} /\ hit' = FALSE

-----------------------------------------------------------------------------
(* The readings of a pass.                                                 *)

OpeningRead == WithStatus({"Opening"})
ClosingRead == WithStatus({"Closing"})

SyncReadOpening ==
  /\ spc = "tick"
  /\ toOpen' = OpeningRead
  /\ spc' = "readClosing"
  /\ UNCHANGED <<toClose, seen, old, expected, todo, node, final, search, closing, iss, shared>>

SyncReadClosing ==
  /\ spc = "readClosing"
  /\ toClose' = ClosingRead
  /\ spc' = "stat"
  /\ UNCHANGED <<toOpen, seen, old, expected, todo, node, final, search, closing, iss, shared>>

SyncStat ==
  /\ spc = "stat"
  /\ seen' = NodesStatus
  /\ spc' = "readTargets"
  /\ UNCHANGED <<toOpen, toClose, old, expected, todo, node, final, search, closing, iss, shared>>

(* The scheduler does not answer: the pass is given up before it settles   *)
(* anything.                                                               *)
SyncStatFails ==
  /\ spc = "stat"
  /\ SyncReset
  /\ UNCHANGED shared

SyncReadTargets ==
  /\ spc = "readTargets"
  /\ old' = target
  /\ spc' = "readExpected"
  /\ UNCHANGED <<toOpen, toClose, seen, expected, todo, node, final, search, closing, iss, shared>>

(* Nodes PBS reports but the table lacked when it was read join the pass   *)
(* as Online, without getting a row.                                       *)
Merged == [n \in Name |-> IF old[n] = Absent /\ seen[n] # Absent /\ n \in Real
                          THEN "Online" ELSE old[n]]

SyncReadExpected ==
  /\ spc = "readExpected"
  /\ expected' = ExpectedState
  /\ FromName(UNION {Related(i) : i \in {j \in WithStatus(OpenStatus) :
                                           issue[j].toOffline \in {"Card", "Blade"}}})
  /\ old' = Merged
  /\ todo' = {n \in Name : Merged[n] # Absent}
  /\ spc' = "node"
  /\ UNCHANGED <<toOpen, toClose, seen, node, final, search, closing, iss, issue, comment, pbs, chan>>

-----------------------------------------------------------------------------
(* One node: cluster_sync's loop body and handle_transition.               *)

NextNode(n) ==
  /\ todo' = todo \ {n}
  /\ node' = NoNode /\ final' = Absent
  /\ spc' = "node"

(* Mutated: compares with what PBS said instead.                           *)
SettleOnSeen(n, f) ==
  IF seen[n] = f THEN NextNode(n)
  ELSE node' = n /\ final' = f /\ spc' = "record" /\ UNCHANGED todo

(* The status is written only if it differs from the one read before.      *)
Settle(n, f) ==
  IF old[n] = f THEN NextNode(n)
  ELSE node' = n /\ final' = f /\ spc' = "record" /\ UNCHANGED todo

Goto(pc) == spc' = pc /\ UNCHANGED todo

AtNode(n) == spc = "node" /\ n \in todo

(* Not in PBS: an issue is opened if the name is real.                     *)
SyncMissing(n) ==
  /\ AtNode(n) /\ seen[n] = Absent
  /\ IF n \in Real
     THEN node' = n /\ final' = Absent /\ Goto("openLookup")
     ELSE NextNode(n)
  /\ UNCHANGED <<readings, search, closing, iss, shared>>

(* Mutated: a node that should be down may as well be up.                  *)
AsExpectedOrUp(n) ==
  CASE expected[n] = "Unset" -> seen[n] = "Online"
    [] expected[n] = "Offline" -> seen[n] \in {"Draining", "Offline"}
    [] OTHER -> TRUE

(* In the state the issues ask for, or draining towards it.                *)
AsExpected(n) ==
  CASE expected[n] = "Unset" -> seen[n] = "Online"
    [] expected[n] = "Offline" -> seen[n] \in {"Draining", "Offline"}
    [] OTHER -> seen[n] \in {"Draining", "Offline", "Down"}

SyncAsExpected(n) ==
  /\ AtNode(n) /\ seen[n] # Absent /\ AsExpected(n)
  /\ Settle(n, seen[n])
  /\ UNCHANGED <<readings, search, closing, iss, shared>>

(* Offline expected: take it out of service, perhaps with jobs still on it.*)
SyncOffline(n) ==
  /\ AtNode(n) /\ seen[n] \in {"Online", "Down"} /\ expected[n] = "Offline"
  /\ pbs[n].present
  /\ OfflineNode(n)
  /\ node' = n
  /\ final' = IF seen[n] = "Down" THEN "Offline" ELSE "Draining"
  /\ Goto("send")
  /\ UNCHANGED <<readings, search, closing, iss, issue, target, comment, chan>>

(* No issue expected, yet out of service.                                  *)
SyncUnexpected(n) ==
  /\ AtNode(n) /\ seen[n] \notin {"Online", Absent} /\ expected[n] = "Unset"
  /\ node' = n /\ final' = Absent /\ Goto("related")
  /\ UNCHANGED <<readings, search, closing, iss, shared>>

(* related_closing asks the node itself first.  Nothing more is done about *)
(* a name that is not real.                                                *)
SyncRelated ==
  /\ spc = "related"
  /\ FromName({node})
  /\ IF node \in Real
     THEN /\ left' = Queries(node, {node})
          /\ hit' = ClosingOn(node, ToOffline)
          /\ Goto("search") /\ UNCHANGED <<node, final>>
     ELSE Settle(node, seen[node]) /\ UNCHANGED search
  /\ UNCHANGED <<readings, closing, iss, issue, comment, pbs, chan>>

(* It goes through the groups to the end, whatever it finds.               *)
SyncSearch(q) ==
  /\ spc = "search" /\ IsNext(q, left)
  /\ FromName({q[2]})
  /\ left' = left \ {q}
  /\ hit' = (hit \/ ClosingOn(q[2], {q[1]}))
  /\ UNCHANGED <<spc, readings, todo, node, final, closing, iss, issue, comment, pbs, chan>>

(* A closing issue explains it and the node is resumed, else an issue is   *)
(* opened for it.                                                          *)
SyncExplained ==
  /\ spc = "search" /\ left = {}
  /\ IF hit \/ ClosingOn(node, {NoOffline})
     THEN Goto("release") /\ UNCHANGED final
     ELSE Goto("openLookup") /\ final' = seen[node]
  /\ hit' = FALSE
  /\ UNCHANGED <<readings, node, left, closing, iss, shared>>

SyncRelease ==
  /\ spc = "release" /\ pbs[node].present
  /\ ReleaseNode(node)
  /\ final' = "Online" /\ Goto("send")
  /\ UNCHANGED <<readings, search, node, closing, iss, issue, target, comment, chan>>

SyncSend ==
  /\ spc = "send"
  /\ Send
  /\ Settle(node, final)
  /\ UNCHANGED <<readings, search, closing, iss, issue, target, comment, pbs>>

(* Down expected but the node is up: close_open_issues.                    *)
SyncFoundUp(n) ==
  /\ AtNode(n) /\ seen[n] = "Online" /\ expected[n] = "Down" /\ n \in Real
  /\ node' = n /\ final' = "Online" /\ Goto("closeQuery")
  /\ UNCHANGED <<readings, search, closing, iss, shared>>

SyncCloseQuery ==
  /\ spc = "closeQuery"
  /\ FromName({node})
  /\ closing' = {i \in Live : issue[i].target = node}
  /\ Goto("closeIssue")
  /\ UNCHANGED <<readings, search, node, final, iss, issue, comment, pbs, chan>>

(* Mutated: goes on to the next issue without the comment.                 *)
SyncCloseIssueSilently(i) ==
  /\ spc = "closeIssue" /\ i \in closing
  /\ SetStatus(i, "Closed")
  /\ closing' = closing \ {i} /\ iss' = NoIssue
  /\ Goto("closeIssue")
  /\ UNCHANGED <<readings, search, node, final, target, comment, pbs, chan>>

SyncCloseIssue(i) ==
  /\ spc = "closeIssue" /\ i \in closing
  /\ SetStatus(i, "Closed")
  /\ closing' = closing \ {i} /\ iss' = i
  /\ Goto("closeComment")
  /\ UNCHANGED <<readings, search, node, final, target, comment, pbs, chan>>

SyncCloseComment ==
  /\ spc = "closeComment"
  /\ AddComment(iss, "foundUp")
  /\ iss' = NoIssue /\ Goto("closeIssue")
  /\ UNCHANGED <<readings, search, node, final, closing, issue, target, pbs, chan>>

SyncClosedAll ==
  /\ spc = "closeIssue" /\ closing = {}
  /\ Settle(node, final)
  /\ UNCHANGED <<readings, search, closing, iss, shared>>

(* issue_open, called by the loop itself.                                  *)
Reason == IF seen[node] = Absent THEN MissingTitle ELSE CommentTitle
Opened == IF seen[node] = Absent THEN NextNode(node) ELSE Settle(node, final)

SyncOpenLookup ==
  /\ spc = "openLookup"
  /\ FromName({node})
  /\ IF Duplicate(node, Reason) THEN Opened
     ELSE Goto("openInsert") /\ UNCHANGED <<node, final>>
  /\ UNCHANGED <<readings, search, closing, iss, issue, comment, pbs, chan>>

SyncOpenInsert(i) ==
  /\ spc = "openInsert"
  /\ InsertIssue(i, node, Reason, NoOffline)
  /\ iss' = i /\ Goto("openSend")
  /\ UNCHANGED <<readings, search, node, final, closing, target, comment, pbs, chan>>

SyncOpenSend ==
  /\ spc = "openSend"
  /\ Send
  /\ Goto("openComment")
  /\ UNCHANGED <<readings, search, node, final, closing, iss, issue, target, comment, pbs>>

SyncOpenComment ==
  /\ spc = "openComment"
  /\ AddComment(iss, "opened")
  /\ iss' = NoIssue
  /\ Opened
  /\ UNCHANGED <<readings, search, closing, issue, target, pbs, chan>>

(* Mutated: whatever the name.                                             *)
SyncRecordAny ==
  /\ spc = "record"
  /\ target' = [target EXCEPT ![node] = final]
  /\ NextNode(node)
  /\ UNCHANGED <<readings, search, closing, iss, issue, comment, pbs, chan>>

(* The recorded status; a name that is not real is left alone.             *)
SyncRecord ==
  /\ spc = "record"
  /\ target' = IF node \in Real THEN [target EXCEPT ![node] = final] ELSE target
  /\ NextNode(node)
  /\ UNCHANGED <<readings, search, closing, iss, issue, comment, pbs, chan>>

-----------------------------------------------------------------------------
(* The end of a pass.                                                      *)

AllHandled == spc = "node" /\ todo = {}

SyncSettleOpen(i) ==
  /\ AllHandled /\ i \in toOpen
  /\ SetStatus(i, "Open")
  /\ toOpen' = toOpen \ {i}
  /\ UNCHANGED <<spc, toClose, seen, old, expected, todo, node, final, search, closing, iss,
                 target, comment, pbs, chan>>

(* Mutated: does not wait for the openings.                                *)
SyncSettleClosedFirst(i) ==
  /\ AllHandled /\ i \in toClose
  /\ SetStatus(i, "Closed")
  /\ toClose' = toClose \ {i}
  /\ UNCHANGED <<spc, toOpen, seen, old, expected, todo, node, final, search, closing, iss,
                 target, comment, pbs, chan>>

SyncSettleClosed(i) ==
  /\ AllHandled /\ toOpen = {} /\ i \in toClose
  /\ SetStatus(i, "Closed")
  /\ toClose' = toClose \ {i}
  /\ UNCHANGED <<spc, toOpen, seen, old, expected, todo, node, final, search, closing, iss,
                 target, comment, pbs, chan>>

SyncEnd ==
  /\ AllHandled /\ toOpen = {} /\ toClose = {}
  /\ SyncReset
  /\ UNCHANGED shared

(* An unwrap on the way fails: a vnode that left PBS since it was read, or *)
(* open issues to close on a name that is not real.                        *)
SyncPanics ==
  \/ spc = "release" /\ ~pbs[node].present
  \/ \E n \in todo : AtNode(n) /\ seen[n] \in {"Online", "Down"}
                     /\ expected[n] = "Offline" /\ ~pbs[n].present
  \/ \E n \in todo : AtNode(n) /\ seen[n] = "Online" /\ expected[n] = "Down" /\ n \notin Real

SyncNext ==
  \/ SyncReadOpening \/ SyncReadClosing \/ SyncStat \/ SyncStatFails
  \/ SyncReadTargets \/ SyncReadExpected
  \/ \E n \in Name : \/ SyncMissing(n) \/ SyncAsExpected(n) \/ SyncOffline(n)
                     \/ SyncUnexpected(n) \/ SyncFoundUp(n)
  \/ SyncRelated \/ (\E q \in left : SyncSearch(q)) \/ SyncExplained
  \/ SyncRelease \/ SyncSend
  \/ SyncCloseQuery \/ SyncCloseComment \/ SyncClosedAll
  \/ SyncOpenLookup \/ SyncOpenSend \/ SyncOpenComment \/ SyncRecord
  \/ \E i \in IssueId : \/ SyncCloseIssue(i) \/ SyncOpenInsert(i)
                        \/ SyncSettleOpen(i) \/ SyncSettleClosed(i)
  \/ SyncEnd
=============================================================================

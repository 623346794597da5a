-------------------------------- MODULE Api --------------------------------
(***************************************************************************)
(* The GraphQL mutations (model/mutation.rs): issue_open, issue_close and  *)
(* issue_update, each a task of its own that gives way at every await.  A  *)
(* request slot holds the locals of one such task.                         *)
(***************************************************************************)
EXTENDS CttState

CONSTANTS
  Req,        \* bound: requests in progress at a time
  Ask,        \* the mutations clients send, out of "open", "close", "update"
  AskNode, AskTitle, AskOffline   \* bound: the arguments requests carry

ASSUME RequestAssumption ==
  /\ AskNode \subseteq Real
  /\ AskTitle \subseteq Title
  /\ AskOffline \subseteq ToOffline \cup {NoOffline}
ASSUME NoTitleAssumption == Absent \notin Title

VARIABLE req     \* request slot -> locals of the handler in it

ReqPc == {"idle", "openInsert", "openSend", "openComment",
          "closeWrite", "closeComment", "closeSend",
          "updateSend", "updateWrite", "check", "search", "release", "resumed"}

Handler == [pc: ReqPc,
            issue: IssueId \cup {NoIssue},
            node: Name \cup {NoNode},       \* target to open on, node to release
            title: Title \cup {Absent},     \* new title, if any
            offline: ToOffline \cup {NoOffline},  \* new to_offline, if any
            was: ToOffline \cup {NoOffline},      \* to_offline when the row was read
            todo: SUBSET Name,              \* nodes that may have to be released
            left: SUBSET ({"Card", "Blade"} \X Name)]  \* queries left, see ApiSearch

Idle == [pc |-> "idle", issue |-> NoIssue, node |-> NoNode, title |-> Absent,
         offline |-> NoOffline, was |-> NoOffline, todo |-> {}, left |-> {}]

ApiTypeOK == req \in [Req -> Handler]
ApiInit == req = [r \in Req |-> Idle]

At(r, pc) == req[r].pc = pc
Step(r, pc) == req' = [req EXCEPT ![r].pc = pc]
Done(r) == req' = [req EXCEPT ![r] = Idle]

-----------------------------------------------------------------------------
(* open: look the target up, refuse a duplicate, insert, report, comment.  *)

ApiOpen(r, n, t, off) ==
  /\ At(r, "idle")
  /\ FromName({n})
  /\ IF Duplicate(n, t) THEN UNCHANGED req
     ELSE req' = [req EXCEPT ![r] = [Idle EXCEPT !.pc = "openInsert", !.node = n,
                                                 !.title = t, !.offline = off]]
  /\ UNCHANGED <<issue, comment, pbs, chan>>

ApiOpenInsert(r, i) ==
  /\ At(r, "openInsert")
  /\ InsertIssue(i, req[r].node, req[r].title, req[r].offline)
  /\ req' = [req EXCEPT ![r] = [Idle EXCEPT !.pc = "openSend", !.issue = i]]
  /\ UNCHANGED <<target, comment, pbs, chan>>

ApiOpenSend(r) ==
  /\ At(r, "openSend")
  /\ Send
  /\ Step(r, "openComment")
  /\ UNCHANGED <<issue, target, comment, pbs>>

ApiOpenComment(r) ==
  /\ At(r, "openComment")
  /\ AddComment(req[r].issue, "opened")
  /\ Done(r)
  /\ UNCHANGED <<issue, target, pbs, chan>>

-----------------------------------------------------------------------------
(* close: only an issue still open is set to Closing; the sync loop does   *)
(* the rest.                                                               *)

ClosableStatus == {"Open", "Opening"}

ApiClose(r, i) ==
  /\ At(r, "idle")
  /\ issue[i].status \in ClosableStatus
  /\ req' = [req EXCEPT ![r] = [Idle EXCEPT !.pc = "closeWrite", !.issue = i]]
  /\ UNCHANGED shared

(* Mutated: closes at once, without waiting for a pass.                    *)
ApiCloseWriteClosed(r) ==
  /\ At(r, "closeWrite")
  /\ SetStatus(req[r].issue, "Closed")
  /\ Step(r, "closeComment")
  /\ UNCHANGED <<target, comment, pbs, chan>>

ApiCloseWrite(r) ==
  /\ At(r, "closeWrite")
  /\ SetStatus(req[r].issue, "Closing")
  /\ Step(r, "closeComment")
  /\ UNCHANGED <<target, comment, pbs, chan>>

ApiCloseComment(r) ==
  /\ At(r, "closeComment")
  /\ AddComment(req[r].issue, "closed")
  /\ Step(r, "closeSend")
  /\ UNCHANGED <<issue, target, pbs, chan>>

ApiCloseSend(r) ==
  /\ At(r, "closeSend")
  /\ Send
  /\ Done(r)
  /\ UNCHANGED <<issue, target, comment, pbs>>

-----------------------------------------------------------------------------
(* update_issue: comment on each change, report, write, and release the    *)
(* nodes a narrower to_offline no longer holds.  The row read first serves *)
(* to the end.                                                             *)

(* An update that leaves a null to_offline alone turns it into Node.       *)
Wanted(was, off) == IF was = NoOffline /\ off = NoOffline THEN "Node" ELSE off

ApiUpdate(r, i, t, off) ==
  LET row == issue[i]
      want == Wanted(row.toOffline, off)
      newOff == IF want = row.toOffline THEN NoOffline ELSE want
      newTitle == IF t = row.title THEN Absent ELSE t
  IN  /\ At(r, "idle") /\ i \in Inserted
      /\ req' = [req EXCEPT ![r] = [Idle EXCEPT !.pc = "updateSend", !.issue = i,
                                                !.title = newTitle, !.offline = newOff,
                                                !.was = row.toOffline]]
      /\ IF newOff # NoOffline \/ newTitle # Absent
         THEN AddComment(i, "updated") ELSE UNCHANGED comment
      /\ UNCHANGED <<issue, target, pbs, chan>>

ApiUpdateSend(r) ==
  /\ At(r, "updateSend")
  /\ Send
  /\ Step(r, "updateWrite")
  /\ UNCHANGED <<issue, target, comment, pbs>>

(* The nodes to consider: cousins when the issue held the blade, siblings  *)
(* when it is now about its own node only.                                 *)
Narrowed(n, was, off) ==
  IF was = NoOffline \/ off = NoOffline THEN {}
  ELSE (IF was = "Blade" THEN Cousins[n] \ (Siblings[n] \cup {n}) ELSE {})
       \cup (IF off = "Node" THEN Siblings[n] \ {n} ELSE {})

(* Mutated: writes the whole row, taking the ticket for open.              *)
UpdatedWhole(row, h) ==
  [row EXCEPT !.toOffline = IF h.offline = NoOffline THEN @ ELSE h.offline,
              !.title = IF h.title = Absent THEN @ ELSE h.title,
              !.status = "Open"]

Updated(row, h) ==
  [row EXCEPT !.toOffline = IF h.offline = NoOffline THEN @ ELSE h.offline,
              !.title = IF h.title = Absent THEN @ ELSE h.title]

ApiUpdateWrite(r) ==
  LET h == req[r]
      i == h.issue
      dropped == Narrowed(issue[i].target, h.was, h.offline)
  IN  /\ At(r, "updateWrite")
      /\ issue' = [issue EXCEPT ![i] = Updated(@, h)]
      /\ IF dropped = {} THEN Done(r)
         ELSE req' = [req EXCEPT ![r].pc = "check", ![r].todo = dropped]
      /\ UNCHANGED <<target, comment, pbs, chan>>

Without(h, c) == IF h.todo = {c} THEN Idle
                 ELSE [h EXCEPT !.pc = "check", !.node = NoNode, !.todo = @ \ {c},
                                !.left = {}]

(* desired_state of c.  It is not to be released as soon as an open issue  *)
(* holds it.                                                               *)
ApiCheck(r, c) ==
  /\ At(r, "check") /\ c \in req[r].todo
  /\ FromName({c})
  /\ req' = [req EXCEPT ![r] =
               IF c \notin Real \/ OpenOn(c, ToOffline) THEN Without(@, c)
               ELSE [@ EXCEPT !.pc = "search", !.node = c, !.left = Queries(c, {})]]
  /\ UNCHANGED <<issue, comment, pbs, chan>>

ApiSearch(r, q) ==
  /\ At(r, "search") /\ IsNext(q, req[r].left)
  /\ FromName({q[2]})
  /\ IF OpenOn(q[2], {q[1]}) THEN req' = [req EXCEPT ![r] = Without(@, @.node)]
     ELSE req' = [req EXCEPT ![r].left = @ \ {q}]
  /\ UNCHANGED <<issue, comment, pbs, chan>>

ApiDesired(r) ==
  /\ At(r, "search") /\ req[r].left = {}
  /\ req' = [req EXCEPT ![r] = IF OpenOn(@.node, {NoOffline}) THEN Without(@, @.node)
                               ELSE [@ EXCEPT !.pc = "release"]]
  /\ UNCHANGED shared

ApiRelease(r) ==
  /\ At(r, "release") /\ pbs[req[r].node].present
  /\ ReleaseNode(req[r].node)
  /\ Step(r, "resumed")
  /\ UNCHANGED <<issue, target, comment, chan>>

(* A release that fails is passed over for a cousin.                       *)
CousinOnly(h) == h.node \notin Siblings[issue[h.issue].target]

ApiReleaseFails(r) ==
  /\ At(r, "release") /\ ~pbs[req[r].node].present /\ CousinOnly(req[r])
  /\ req' = [req EXCEPT ![r] = Without(@, @.node)]
  /\ UNCHANGED shared

ApiResumed(r) ==
  /\ At(r, "resumed")
  /\ Send
  /\ req' = [req EXCEPT ![r] = Without(@, @.node)]
  /\ UNCHANGED <<issue, target, comment, pbs>>

-----------------------------------------------------------------------------
(* For a sibling the failed release is unwrapped.                          *)
ApiPanics ==
  \E r \in Req : /\ At(r, "release") /\ ~pbs[req[r].node].present
                 /\ ~CousinOnly(req[r])

(* The request times out or its connection goes: the task is dropped at    *)
(* the await it is waiting in.                                             *)
ApiDropped(r) ==
  /\ req[r].pc \notin {"idle", "release"}
  /\ Done(r)
  /\ UNCHANGED shared

ApiArrive(r) ==
  \/ /\ "open" \in Ask
     /\ \E n \in AskNode, t \in AskTitle, off \in AskOffline : ApiOpen(r, n, t, off)
  \/ "close" \in Ask /\ \E i \in IssueId : ApiClose(r, i)
  \/ /\ "update" \in Ask
     /\ \E i \in IssueId, t \in AskTitle \cup {Absent}, off \in AskOffline :
          ApiUpdate(r, i, t, off)

ApiStep(r) ==
  \/ \E i \in IssueId : ApiOpenInsert(r, i)
  \/ ApiOpenSend(r) \/ ApiOpenComment(r)
  \/ ApiCloseWrite(r) \/ ApiCloseComment(r) \/ ApiCloseSend(r)
  \/ ApiUpdateSend(r) \/ ApiUpdateWrite(r)
  \/ \E c \in Name : ApiCheck(r, c)
  \/ (\E q \in req[r].left : ApiSearch(r, q)) \/ ApiDesired(r)
  \/ ApiRelease(r) \/ ApiReleaseFails(r) \/ ApiResumed(r)
=============================================================================

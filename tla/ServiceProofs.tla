--------------------------- MODULE ServiceProofs ---------------------------
(***************************************************************************)
(* Why a node leaves service and why it comes back, for any names, groups, *)
(* requests, faults and events.                                            *)
(***************************************************************************)
EXTENDS PassProofs, TicketProofs

(* The pass that is about to resume a node found a closing ticket near it, *)
(* and a request works through nodes its ticket may have held.             *)
LoopHasReason ==
  /\ spc = "search" => left \subseteq {"Card", "Blade"} \X Reach(node)
  /\ (spc = "search" /\ hit) \/ spc = "release" => For(node, WithStatus({"Closing"}))

Others(i) == Reach(issue[i].target) \ {issue[i].target}
RequestHasReason(h) ==
  /\ h.pc \in {"check", "search", "release", "resumed"} => h.todo \subseteq Others(h.issue)
  /\ h.pc \in {"search", "release", "resumed"} => h.node \in h.todo
RequestsHaveReason == \A r \in Req : RequestHasReason(req[r])

ServiceInv == LoopHasReason /\ RequestsHaveReason

-----------------------------------------------------------------------------
LEMMA ClosingIsNear ==
  ASSUME NEW n, NEW m, NEW offs, ClosingOn(m, offs), m \in Reach(n)
  PROVE  For(n, WithStatus({"Closing"}))
<1>1. PICK i \in WithStatus({"Closing"}) : issue[i].target = m
  BY DEF ClosingOn, Shows
<1> QED BY <1>1 DEF For, Near

LEMMA NarrowedAreOthers ==
  ASSUME NEW n, NEW was, NEW off
  PROVE  Narrowed(n, was, off) \subseteq Reach(n) \ {n}
BY DEF Narrowed, Reach

(* A ticket being closed stays so until the loop, between nodes or while   *)
(* it closes those of a node found up, says otherwise.                     *)
LEMMA ClosingStays ==
  ASSUME TypeInv', IssuesKeep, spc \in {"search", "release"}, NEW n, For(n, WithStatus({"Closing"}))
  PROVE  For(n, WithStatus({"Closing"}))'
<1>1. PICK i \in WithStatus({"Closing"}) : Near(n, issue[i].target)
  BY DEF For
<1>2. i \in IssueId /\ i \in Inserted /\ issue[i].status = "Closing"
  BY <1>1 DEF WithStatus, Inserted, Absent
<1>3. ~SyncSettleOpen(i) /\ ~SyncCloseIssue(i) /\ ~SyncSettleClosed(i)
  BY DEF SyncSettleOpen, SyncCloseIssue, SyncSettleClosed, AllHandled
<1>4. issue'[i].status \in IssueStatus /\ issue'[i].target = issue[i].target
  <2>1. i \in Inserted' /\ issue'[i] \in IssueRow
    BY <1>2 DEF IssuesKeep, TypeInv, TypeOK, SharedTypeOK
  <2> QED BY <1>2, <2>1 DEF IssuesKeep, IssueRow, Inserted
<1>5. issue'[i].status = "Closing"
  BY <1>2, <1>3, <1>4 DEF IssuesKeep, IssueStatus
<1> QED BY <1>1, <1>2, <1>4, <1>5 DEF For, Near, WithStatus, Reach

LEMMA LoopKeepsReason ==
  ASSUME TypeInv, TypeInv', IssuesKeep, LoopHasReason, SyncNext
  PROVE  LoopHasReason'
<1> SUFFICES ASSUME spc' \in {"search", "release"} PROVE LoopHasReason'
  BY DEF LoopHasReason
<1>1. ASSUME NEW n \in Name, SyncMissing(n) \/ SyncAsExpected(n) \/ SyncOffline(n)
                             \/ SyncUnexpected(n) \/ SyncFoundUp(n)
      PROVE  FALSE
  BY <1>1 DEF SyncMissing, SyncAsExpected, SyncOffline, SyncUnexpected, SyncFoundUp, Settle,
              NextNode, Goto
<1>2. CASE SyncRelated
  <2>1. /\ spc' = "search" /\ UNCHANGED <<node, issue>> /\ left' = Queries(node, {node})
        /\ hit' = ClosingOn(node, ToOffline)
    BY <1>2 DEF SyncRelated, Settle, NextNode, Goto
  <2>2. left' \subseteq {"Card", "Blade"} \X Reach(node)
    BY <2>1 DEF Queries, Reach
  <2>3. hit' => For(node, WithStatus({"Closing"}))
    BY <2>1, ClosingIsNear DEF Reach
  <2> QED BY <2>1, <2>2, <2>3 DEF LoopHasReason, For, Near, Reach, WithStatus
<1>3. ASSUME NEW q \in left, SyncSearch(q) PROVE LoopHasReason'
  <2>1. /\ spc = "search" /\ UNCHANGED <<spc, node, issue>> /\ left' \subseteq left
        /\ hit' = (hit \/ ClosingOn(q[2], {q[1]})) /\ q[2] \in Reach(node)
    BY <1>3 DEF SyncSearch, LoopHasReason
  <2>2. hit' => For(node, WithStatus({"Closing"}))
    BY <2>1, ClosingIsNear DEF LoopHasReason
  <2> QED BY <2>1, <2>2 DEF LoopHasReason, For, Near, Reach, WithStatus
<1>4. CASE SyncExplained
  <2>1. /\ spc = "search" /\ spc' \in {"release", "openLookup"} /\ UNCHANGED <<node, issue>>
        /\ spc' = "release" => hit \/ ClosingOn(node, {NoOffline})
    BY <1>4 DEF SyncExplained, Goto, shared
  <2>2. spc' = "release" => For(node, WithStatus({"Closing"}))
    BY <2>1, ClosingIsNear DEF LoopHasReason, Reach
  <2> QED BY <2>1, <2>2 DEF LoopHasReason, For, Near, Reach, WithStatus
<1>5. ASSUME NEW i \in IssueId, SyncCloseIssue(i) \/ SyncOpenInsert(i) \/ SyncSettleOpen(i)
                                \/ SyncSettleClosed(i)
      PROVE  FALSE
  BY <1>5 DEF SyncCloseIssue, SyncOpenInsert, SyncSettleOpen, SyncSettleClosed, AllHandled, Goto
<1>6. CASE SyncReadOpening \/ SyncReadClosing \/ SyncStat \/ SyncStatFails \/ SyncReadTargets
           \/ SyncReadExpected \/ SyncRelease \/ SyncSend \/ SyncCloseQuery \/ SyncCloseComment
           \/ SyncClosedAll \/ SyncOpenLookup \/ SyncOpenSend \/ SyncOpenComment \/ SyncRecord
           \/ SyncEnd
  BY <1>6 DEF SyncReadOpening, SyncReadClosing, SyncStat, SyncStatFails, SyncReadTargets,
     SyncReadExpected, SyncRelease, SyncSend, SyncCloseQuery, SyncCloseComment, SyncClosedAll,
     SyncOpenLookup, SyncOpenSend, SyncOpenComment, SyncRecord, SyncEnd, SyncReset, Opened, Settle,
     NextNode, Goto
<1> QED BY <1>1, <1>2, <1>3, <1>4, <1>5, <1>6 DEF SyncNext

LEMMA RequestKeepsReason ==
  ASSUME TypeInv, IssuesKeep, RequestsGrounded, RequestsHaveReason, NEW r \in Req,
         ApiArrive(r) \/ ApiStep(r) \/ ApiDropped(r)
  PROVE  RequestsHaveReason'
<1>0. req \in [Req -> Handler]
  BY DEF TypeInv, TypeOK, ApiTypeOK
<1>1. ASSUME NEW h, RequestHasReason(h), GroundedRequest(h) PROVE RequestHasReason(h)'
  <2>1. h.pc \in {"check", "search", "release", "resumed"} =>
          issue'[h.issue].target = issue[h.issue].target
    BY <1>1 DEF GroundedRequest, IssuesKeep
  <2> QED BY <1>1, <2>1 DEF RequestHasReason, Others, Reach
<1>2. ASSUME NEW h, RequestHasReason(h)', req' = [req EXCEPT ![r] = h] PROVE RequestsHaveReason'
  BY <1>0, <1>1, <1>2 DEF RequestsHaveReason, RequestsGrounded
<1>3. ASSUME NEW h, h.pc \notin {"check", "search", "release", "resumed"},
             req' = [req EXCEPT ![r] = h]
      PROVE  RequestsHaveReason'
  BY <1>2, <1>3 DEF RequestHasReason
<1>4. ASSUME NEW pc, pc \notin {"check", "search", "release", "resumed"}, Step(r, pc)
      PROVE  RequestsHaveReason'
  <2> PICK h : h = [req[r] EXCEPT !.pc = pc]
    OBVIOUS
  <2>1. h.pc = pc
    BY <1>0 DEF Handler
  <2> QED BY <1>3, <1>4, <2>1 DEF Step
<1>5. CASE Done(r)
  BY <1>3, <1>5 DEF Done, Idle
<1>6. CASE UNCHANGED req
  BY <1>1, <1>6 DEF RequestsHaveReason, RequestsGrounded
<1>7. ASSUME NEW c, RequestHasReason(req[r]),
             req[r].pc \in {"check", "search", "release", "resumed"},
             req' = [req EXCEPT ![r] = Without(req[r], c)]
      PROVE  RequestsHaveReason'
  <2> PICK h : h = Without(req[r], c)
    OBVIOUS
  <2>1. RequestHasReason(h) /\ GroundedRequest(h)
    BY <1>0, <1>7
    DEF Without, Idle, RequestHasReason, GroundedRequest, RequestsGrounded, Handler, At
  <2> QED BY <1>1, <1>2, <1>7, <2>1
<1>8. ASSUME NEW n \in AskNode, NEW t \in AskTitle, NEW off \in AskOffline, ApiOpen(r, n, t, off)
      PROVE  RequestsHaveReason'
  BY <1>3, <1>6, <1>8 DEF ApiOpen, Idle
<1>9. ASSUME NEW i \in IssueId, ApiOpenInsert(r, i) \/ ApiClose(r, i) PROVE RequestsHaveReason'
  BY <1>3, <1>9 DEF ApiOpenInsert, ApiClose, Idle
<1>10. ASSUME NEW i \in IssueId, NEW t \in AskTitle \cup {Absent}, NEW off \in AskOffline,
              ApiUpdate(r, i, t, off)
       PROVE  RequestsHaveReason'
  <2> DEFINE want == Wanted(issue[i].toOffline, off)
             h == [Idle EXCEPT !.pc = "updateSend", !.issue = i,
                     !.title = IF t = issue[i].title THEN Absent ELSE t,
                     !.offline = IF want = issue[i].toOffline THEN NoOffline ELSE want,
                     !.was = issue[i].toOffline]
  <2>1. req' = [req EXCEPT ![r] = h]
    BY <1>10 DEF ApiUpdate
  <2>2. h.pc = "updateSend"
    BY DEF Idle
  <2> HIDE DEF h
  <2> QED BY <1>3, <2>1, <2>2
<1>11. CASE ApiUpdateWrite(r)
  <2> DEFINE dropped == Narrowed(issue[req[r].issue].target, req[r].was, req[r].offline)
             h == [req[r] EXCEPT !.pc = "check", !.todo = dropped]
  <2>1. Done(r) \/ req' = [req EXCEPT ![r] = h]
    BY <1>0, <1>11 DEF ApiUpdateWrite
  <2>2. RequestHasReason(h)
    BY <1>0, NarrowedAreOthers DEF RequestHasReason, Others, Handler
  <2>3. GroundedRequest(h)
    BY <1>0, <1>11 DEF GroundedRequest, RequestsGrounded, Handler, ApiUpdateWrite, At
  <2> HIDE DEF h
  <2> QED BY <1>1, <1>2, <1>5, <2>1, <2>2, <2>3
<1>12. CASE Desires(r)
  <2>1. RequestHasReason(req[r]) /\ GroundedRequest(req[r])
    BY DEF RequestsHaveReason, RequestsGrounded
  <2>2. ASSUME NEW h, req' = [req EXCEPT ![r] = h], h.pc \in {"search", "release"},
               h.issue = req[r].issue, h.title = req[r].title, h.todo = req[r].todo,
               h.node \in h.todo, h.node \in Real
        PROVE  RequestsHaveReason'
    <3>1. RequestHasReason(h) /\ GroundedRequest(h)
      BY <1>12, <2>1, <2>2, DesireMoves DEF RequestHasReason, GroundedRequest
    <3> QED BY <1>1, <1>2, <2>2, <3>1
  <2>3. req[r].pc = "search" => req[r].node \in req[r].todo \cap Real
    BY <2>1 DEF RequestHasReason, GroundedRequest
  <2> QED BY <1>7, <1>12, <2>1, <2>2, <2>3, DesireMoves
<1>13. CASE ApiRelease(r)
  <2> DEFINE h == [req[r] EXCEPT !.pc = "resumed"]
  <2>1. req' = [req EXCEPT ![r] = h]
    BY <1>13 DEF ApiRelease, Step
  <2>2. RequestHasReason(h) /\ GroundedRequest(h)
    BY <1>0, <1>13
    DEF RequestHasReason, RequestsHaveReason, GroundedRequest, RequestsGrounded, Handler,
        ApiRelease, At
  <2> HIDE DEF h
  <2> QED BY <1>1, <1>2, <2>1, <2>2
<1>14. CASE ApiReleaseFails(r) \/ ApiResumed(r)
  <2>1. RequestHasReason(req[r]) /\ req[r].pc \in {"release", "resumed"}
    BY <1>14 DEF ApiReleaseFails, ApiResumed, At, RequestsHaveReason
  <2>2. \E c : req' = [req EXCEPT ![r] = Without(req[r], c)]
    BY <1>14 DEF ApiReleaseFails, ApiResumed
  <2> QED BY <1>7, <2>1, <2>2
<1>15. CASE ApiOpenSend(r) \/ ApiOpenComment(r) \/ ApiCloseWrite(r) \/ ApiCloseComment(r)
            \/ ApiCloseSend(r) \/ ApiUpdateSend(r) \/ ApiDropped(r)
  BY <1>4, <1>5, <1>15
  DEF ApiOpenSend, ApiOpenComment, ApiCloseWrite, ApiCloseComment, ApiCloseSend, ApiUpdateSend,
      ApiDropped
<1> QED
  BY <1>8, <1>9, <1>10, <1>11, <1>12, <1>13, <1>14, <1>15
  DEF ApiArrive, ApiStep, Desires

LEMMA NextService ==
  TypeInv /\ Grounded /\ ServiceInv /\ [Next]_vars => ServiceInv'
<1> SUFFICES ASSUME TypeInv, Grounded, ServiceInv, [Next]_vars PROVE ServiceInv'
  OBVIOUS
<1> USE DEF ServiceInv
<1>0. IssuesKeep /\ TypeInv'
  BY IssueFrame, NextType
<1>1. ASSUME UNCHANGED loop PROVE LoopHasReason'
  <2> SUFFICES ASSUME (spc = "search" /\ hit) \/ spc = "release"
               PROVE  For(node, WithStatus({"Closing"}))'
    BY <1>1 DEF loop, search, LoopHasReason, Reach
  <2>1. For(node, WithStatus({"Closing"}))
    BY DEF LoopHasReason
  <2>2. For(node, WithStatus({"Closing"}))'
    BY <1>0, <1>1, <2>1, ClosingStays DEF loop, For, Near, Reach, WithStatus
  <2> QED BY <2>2
<1>2. ASSUME UNCHANGED req PROVE RequestsHaveReason'
  <2> SUFFICES ASSUME NEW r \in Req PROVE RequestHasReason(req[r])'
    BY DEF RequestsHaveReason
  <2>1. RequestHasReason(req[r]) /\ GroundedRequest(req[r])
    BY DEF RequestsHaveReason, Grounded, RequestsGrounded
  <2>2. req[r].pc \in {"check", "search", "release", "resumed"} =>
          issue'[req[r].issue].target = issue[req[r].issue].target
    BY <1>0, <2>1 DEF GroundedRequest, IssuesKeep
  <2> QED BY <1>2, <2>1, <2>2 DEF RequestHasReason, Others, Reach
<1>3. CASE Restart
  BY <1>3 DEF Restart, SyncReset, Idle, LoopHasReason, RequestsHaveReason, RequestHasReason
<1>4. CASE SyncTask
  BY <1>0, <1>2, <1>4, LoopKeepsReason DEF SyncTask
<1>5. ASSUME NEW r \in Req, ApiArrive(r) \/ ApiStep(r) \/ ApiDropped(r), UNCHANGED loop
      PROVE  ServiceInv'
  BY <1>0, <1>1, <1>5, RequestKeepsReason DEF Grounded
<1>6. CASE UNCHANGED <<loop, req>>
  BY <1>1, <1>2, <1>6
<1> QED
  BY <1>3, <1>4, <1>5, <1>6
  DEF Next, Arrive, ApiTask, Drop, Receive, Environment, Panic, Crash, Quiesce, vars

-----------------------------------------------------------------------------
(* A node leaves service by the pass only while a ticket near it is not    *)
(* over, and comes back only while one near it is being closed, or by a    *)
(* request that narrowed one; operators may do as they please.             *)
THEOREM ServiceCorrect == Spec => OnlyForTickets
<1>1. Init => TypeInv /\ Grounded /\ ServiceInv /\ ClosesOnlyOnDown /\ OfflineHasLiveIssue
  <2>1. Init => ServiceInv
    BY DEF Init, SyncInit, ApiInit, Idle, ServiceInv, LoopHasReason, RequestsHaveReason,
           RequestHasReason
  <2>2. Init => ClosesOnlyOnDown /\ OfflineHasLiveIssue
    BY DEF Init, SyncInit, ClosesOnlyOnDown, Closers, OfflineHasLiveIssue
  <2> QED BY <2>1, <2>2, InitType, InitGrounded
<1>2. /\ TypeInv /\ Grounded /\ ServiceInv /\ ClosesOnlyOnDown /\ OfflineHasLiveIssue
      /\ [Next]_vars
      => (TypeInv /\ Grounded /\ ServiceInv /\ ClosesOnlyOnDown /\ OfflineHasLiveIssue)'
  BY NextType, NextGrounded, NextService, NextCloses, NextOffline
<1>3. ASSUME TypeInv, Grounded, ServiceInv, OfflineHasLiveIssue, [Next]_vars, NEW n \in Name,
             pbs'[n].offline # pbs[n].offline, ~Environment
      PROVE  \/ pbs'[n].offline /\ For(n, Live)
             \/ ~pbs'[n].offline /\ For(n, WithStatus({"Closing"}))
             \/ ~pbs'[n].offline /\ \E r \in Req : NarrowedFrom(r, n)
  <2>1. pbs[n].offline \in BOOLEAN /\ pbs'[n].offline \in BOOLEAN
    BY <1>3, NextType DEF TypeInv, TypeOK, SharedTypeOK, Vnode
  <2>2. CASE pbs'[n].offline
    <3>1. SyncOffline(n)
      BY <1>3, <2>1, <2>2, TakenOffline
    <3>2. PICK i \in Live : n \in Reach(issue[i].target)
      BY <1>3, <3>1 DEF SyncOffline, AtNode, OfflineHasLiveIssue, Reach
    <3> QED BY <2>2, <3>2 DEF For, Near
  <2>3. CASE ~pbs'[n].offline
    <3>1. CASE SyncRelease /\ node = n
      BY <1>3, <2>3, <3>1 DEF SyncRelease, ServiceInv, LoopHasReason
    <3>2. ASSUME NEW r \in Req, At(r, "release"), req[r].node = n PROVE NarrowedFrom(r, n)
      BY <1>3, <3>2 DEF At, ServiceInv, RequestsHaveReason, RequestHasReason, Others, NarrowedFrom
    <3> QED BY <1>3, <2>1, <2>3, <3>1, <3>2, PbsFrame
  <2> QED BY <2>2, <2>3
<1>4. TypeInv /\ Grounded /\ ServiceInv /\ OfflineHasLiveIssue /\ [Next]_vars
      => [\A n \in Name :
            pbs'[n].offline # pbs[n].offline =>
              \/ Environment
              \/ pbs'[n].offline /\ For(n, Live)
              \/ ~pbs'[n].offline /\ For(n, WithStatus({"Closing"}))
              \/ ~pbs'[n].offline /\ \E r \in Req : NarrowedFrom(r, n)]_vars
  BY <1>3
<1> QED BY <1>1, <1>2, <1>4, PTL DEF Spec, OnlyForTickets
=============================================================================

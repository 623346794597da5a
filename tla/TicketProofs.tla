---------------------------- MODULE TicketProofs ----------------------------
(***************************************************************************)
(* What becomes of tickets and of the names they are about, for any names, *)
(* groups, requests and issue ids.                                         *)
(***************************************************************************)
EXTENDS CttProofs, FiniteSetTheorems

-----------------------------------------------------------------------------
(* What the locals of the tasks refer to: issues are in the table, titles  *)
(* are those clients ask for, and the nodes tickets are opened for, or     *)
(* resumed, were found to be real some awaits before.                      *)

LoopOnReal == spc \in {"search", "release", "openLookup", "openInsert"} => node \in Real
LoopOnIssues ==
  /\ toOpen \cup toClose \cup closing \subseteq Inserted
  /\ spc \in {"closeComment", "openSend", "openComment"} => iss \in Inserted
GroundedRequest(h) ==
  /\ h.pc \in {"openInsert", "search", "release"} => h.node \in Real
  /\ h.pc \notin {"idle", "openInsert"} => h.issue \in Inserted
  /\ h.title \in AskTitle \cup {Absent}
RequestsGrounded == \A r \in Req : GroundedRequest(req[r])
Grounded == LoopOnReal /\ LoopOnIssues /\ RequestsGrounded

LEMMA SyncOnReal ==
  ASSUME LoopOnReal, SyncNext
  PROVE  LoopOnReal'
<1> SUFFICES ASSUME spc' \in {"search", "release", "openLookup", "openInsert"} PROVE node' \in Real
  BY DEF LoopOnReal
<1>1. ASSUME NEW n \in Name, SyncMissing(n) \/ SyncAsExpected(n) \/ SyncOffline(n)
                             \/ SyncUnexpected(n) \/ SyncFoundUp(n)
      PROVE  node' \in Real
  BY <1>1 DEF SyncMissing, SyncAsExpected, SyncOffline, SyncUnexpected, SyncFoundUp, Settle,
              NextNode, Goto
<1>2. CASE SyncRelated
  BY <1>2 DEF SyncRelated, Settle, NextNode, Goto
<1>3. CASE (\E q \in left : SyncSearch(q)) \/ SyncExplained
  BY <1>3 DEF SyncSearch, SyncExplained, LoopOnReal
<1>4. CASE SyncOpenLookup
  BY <1>4 DEF SyncOpenLookup, LoopOnReal, Opened, Settle, NextNode, Goto
<1>5. ASSUME NEW i \in IssueId, SyncCloseIssue(i) \/ SyncOpenInsert(i) \/ SyncSettleOpen(i)
                                \/ SyncSettleClosed(i)
      PROVE  FALSE
  BY <1>5 DEF SyncCloseIssue, SyncOpenInsert, SyncSettleOpen, SyncSettleClosed, AllHandled, Goto
<1>6. CASE SyncReadOpening \/ SyncReadClosing \/ SyncStat \/ SyncStatFails \/ SyncReadTargets
           \/ SyncReadExpected \/ SyncRelease \/ SyncSend \/ SyncCloseQuery \/ SyncCloseComment
           \/ SyncClosedAll \/ SyncOpenSend \/ SyncOpenComment \/ SyncRecord \/ SyncEnd
  BY <1>6 DEF SyncReadOpening, SyncReadClosing, SyncStat, SyncStatFails, SyncReadTargets,
     SyncReadExpected, SyncRelease, SyncSend, SyncCloseQuery, SyncCloseComment, SyncClosedAll,
     SyncOpenSend, SyncOpenComment, SyncRecord, SyncEnd, SyncReset, Opened, Settle, NextNode, Goto
<1> QED BY <1>1, <1>2, <1>3, <1>4, <1>5, <1>6 DEF SyncNext

LEMMA SyncOnIssues ==
  ASSUME TypeInv, IssuesKeep, LoopOnIssues, SyncNext
  PROVE  LoopOnIssues'
<1> USE DEF LoopOnIssues
<1>0. Inserted \subseteq Inserted' /\ issue \in [IssueId -> IssueRow]
  BY DEF IssuesKeep, TypeInv, TypeOK, SharedTypeOK
<1>1. CASE SyncReadOpening \/ SyncReadClosing
  <2>1. UNCHANGED issue /\ UNCHANGED closing
    BY <1>1 DEF SyncReadOpening, SyncReadClosing, shared
  <2> QED BY <1>1, <2>1 DEF SyncReadOpening, SyncReadClosing, OpeningRead, ClosingRead, WithStatus,
                            Inserted, Absent
<1>2. ASSUME toOpen' \subseteq toOpen, toClose' \subseteq toClose, closing' \subseteq closing,
             spc' \in {"closeComment", "openSend", "openComment"} => iss' \in Inserted'
      PROVE  LoopOnIssues'
  BY <1>0, <1>2
<1>3. ASSUME NEW n \in Name, SyncMissing(n) \/ SyncAsExpected(n) \/ SyncOffline(n)
                             \/ SyncUnexpected(n) \/ SyncFoundUp(n)
      PROVE  LoopOnIssues'
  BY <1>2, <1>3 DEF SyncMissing, SyncAsExpected, SyncOffline, SyncUnexpected, SyncFoundUp, Settle,
                    NextNode, Goto, readings
<1>4. CASE SyncCloseQuery
  <2>1. /\ spc' = "closeIssue" /\ UNCHANGED <<toOpen, toClose, issue>>
        /\ closing' = {i \in Live : issue[i].target = node}
    BY <1>4 DEF SyncCloseQuery, Goto, readings
  <2> QED BY <1>0, <2>1 DEF Live
<1>5. ASSUME NEW i \in IssueId, SyncCloseIssue(i) PROVE LoopOnIssues'
  <2>1. /\ UNCHANGED <<toOpen, toClose>> /\ closing' \subseteq closing
        /\ iss' = i /\ i \in closing
    BY <1>5 DEF SyncCloseIssue, readings
  <2> QED BY <1>0, <2>1
<1>6. ASSUME NEW i \in IssueId, SyncOpenInsert(i) PROVE LoopOnIssues'
  <2>1. UNCHANGED <<toOpen, toClose, closing>> /\ iss' = i
    BY <1>6 DEF SyncOpenInsert, readings
  <2>2. i \in Inserted'
    BY <1>0, <1>6 DEF SyncOpenInsert, InsertIssue, Inserted, Absent
  <2> QED BY <1>2, <2>1, <2>2
<1>7. ASSUME NEW i \in IssueId, SyncSettleOpen(i) \/ SyncSettleClosed(i) PROVE LoopOnIssues'
  BY <1>0, <1>7 DEF SyncSettleOpen, SyncSettleClosed, AllHandled
<1>8. CASE SyncOpenSend
  BY <1>0, <1>8 DEF SyncOpenSend, Goto, readings
<1>9. CASE SyncRelated
  <2>1. UNCHANGED <<toOpen, toClose, closing>> /\ spc' \in {"search", "node", "record"}
    BY <1>9 DEF SyncRelated, Settle, NextNode, Goto, readings
  <2> QED BY <1>2, <2>1
<1>10. CASE (\E q \in left : SyncSearch(q)) \/ SyncExplained
  BY <1>2, <1>10 DEF SyncSearch, SyncExplained, Goto, readings
<1>11. CASE SyncStat \/ SyncStatFails \/ SyncReadTargets \/ SyncReadExpected \/ SyncRelease
            \/ SyncSend \/ SyncCloseComment \/ SyncClosedAll \/ SyncOpenLookup
            \/ SyncOpenComment \/ SyncRecord \/ SyncEnd
  BY <1>2, <1>11 DEF SyncStat, SyncStatFails, SyncReadTargets, SyncReadExpected, SyncRelease,
     SyncSend, SyncCloseComment, SyncClosedAll, SyncOpenLookup, SyncOpenComment, SyncRecord,
     SyncEnd, SyncReset, Opened, Settle, NextNode, Goto, readings
<1> QED BY <1>1, <1>3, <1>4, <1>5, <1>6, <1>7, <1>8, <1>9, <1>10, <1>11 DEF SyncNext

LEMMA ApiGrounded ==
  ASSUME TypeInv, IssuesKeep, RequestsGrounded, NEW r \in Req,
         ApiArrive(r) \/ ApiStep(r) \/ ApiDropped(r)
  PROVE  RequestsGrounded'
<1>0. req \in [Req -> Handler] /\ Inserted \subseteq Inserted'
  BY DEF TypeInv, TypeOK, ApiTypeOK, IssuesKeep
<1>1. ASSUME NEW h, GroundedRequest(h)', req' = [req EXCEPT ![r] = h] PROVE RequestsGrounded'
  BY <1>0, <1>1 DEF RequestsGrounded, GroundedRequest
<1>2. ASSUME NEW h, GroundedRequest(h) PROVE GroundedRequest(h)'
  BY <1>0, <1>2 DEF GroundedRequest
<1>3. ASSUME NEW pc, pc \notin {"openInsert", "search", "release"},
             ~At(r, "idle"), ~At(r, "openInsert"),
             Step(r, pc)
      PROVE  RequestsGrounded'
  <2> PICK h : h = [req[r] EXCEPT !.pc = pc]
    OBVIOUS
  <2>1. GroundedRequest(h)'
    BY <1>0, <1>3 DEF RequestsGrounded, GroundedRequest, Handler, At
  <2> QED BY <1>1, <1>3, <2>1 DEF Step
<1>4. CASE Done(r)
  BY <1>1, <1>4 DEF Done, Idle, GroundedRequest
<1>5. ASSUME NEW n \in AskNode, NEW t \in AskTitle, NEW off \in AskOffline, ApiOpen(r, n, t, off)
      PROVE  RequestsGrounded'
  <2>1. CASE UNCHANGED req
    BY <1>2, <2>1 DEF RequestsGrounded
  <2>2. CASE ~UNCHANGED req
    BY <1>1, <1>5, <2>2, RequestAssumption DEF ApiOpen, Idle, GroundedRequest
  <2> QED BY <2>1, <2>2
<1>6. ASSUME NEW i \in IssueId, ApiOpenInsert(r, i) PROVE RequestsGrounded'
  <2>1. issue \in [IssueId -> IssueRow]
    BY DEF TypeInv, TypeOK, SharedTypeOK
  <2>2. i \in Inserted'
    BY <1>6, <2>1 DEF ApiOpenInsert, InsertIssue, Inserted, Absent
  <2> QED BY <1>1, <1>6, <2>2 DEF ApiOpenInsert, Idle, GroundedRequest
<1>7. ASSUME NEW i \in IssueId, ApiClose(r, i) PROVE RequestsGrounded'
  <2>1. i \in Inserted'
    BY <1>0, <1>7 DEF ApiClose, ClosableStatus, Inserted, Absent
  <2> QED BY <1>1, <1>7, <2>1 DEF ApiClose, Idle, GroundedRequest
<1>8. CASE ApiUpdateWrite(r)
  <2> DEFINE dropped == Narrowed(issue[req[r].issue].target, req[r].was, req[r].offline)
             h == [req[r] EXCEPT !.pc = "check", !.todo = dropped]
  <2>1. Done(r) \/ req' = [req EXCEPT ![r] = h]
    BY <1>0, <1>8 DEF ApiUpdateWrite
  <2>2. GroundedRequest(h)
    BY <1>0, <1>8 DEF GroundedRequest, RequestsGrounded, Handler, ApiUpdateWrite, At
  <2> QED BY <1>1, <1>2, <1>4, <2>1, <2>2
<1>9. ASSUME NEW c, ~At(r, "idle"), ~At(r, "openInsert") PROVE GroundedRequest(Without(req[r], c))
  BY <1>0, <1>9 DEF Without, Idle, GroundedRequest, RequestsGrounded, Handler, At
<1>10. CASE Desires(r)
  <2>1. ASSUME NEW c, req' = [req EXCEPT ![r] = Without(req[r], c)] PROVE RequestsGrounded'
    <3> PICK h : h = Without(req[r], c)
      OBVIOUS
    <3>1. GroundedRequest(h)
      BY <1>9, <1>10, DesireMoves DEF At
    <3> QED BY <1>1, <1>2, <2>1, <3>1
  <2>2. ASSUME NEW h, req' = [req EXCEPT ![r] = h], h.pc \in {"search", "release"},
               h.issue = req[r].issue, h.title = req[r].title, h.node \in Real
        PROVE  RequestsGrounded'
    <3>1. GroundedRequest(h)
      BY <1>10, <2>2, DesireMoves DEF GroundedRequest, RequestsGrounded
    <3> QED BY <1>1, <1>2, <2>2, <3>1
  <2>3. req[r].pc = "search" => req[r].node \in Real
    BY DEF RequestsGrounded, GroundedRequest
  <2> QED BY <1>10, <2>1, <2>2, <2>3, DesireMoves
<1>11. CASE ApiReleaseFails(r) \/ ApiResumed(r)
  <2> PICK h : h = Without(req[r], req[r].node)
    OBVIOUS
  <2>1. req' = [req EXCEPT ![r] = h]
    BY <1>0, <1>11 DEF ApiReleaseFails, ApiResumed
  <2>2. GroundedRequest(h)
    BY <1>9, <1>11 DEF ApiReleaseFails, ApiResumed, At
  <2> QED BY <1>1, <1>2, <2>1, <2>2
<1>12. CASE ApiOpenSend(r) \/ ApiOpenComment(r) \/ ApiCloseWrite(r) \/ ApiCloseComment(r)
            \/ ApiCloseSend(r) \/ ApiUpdateSend(r) \/ ApiRelease(r) \/ ApiDropped(r)
  BY <1>3, <1>4, <1>12
  DEF ApiOpenSend, ApiOpenComment, ApiCloseWrite, ApiCloseComment, ApiCloseSend, ApiUpdateSend,
      ApiRelease, ApiDropped, At
<1>13. ASSUME NEW i \in IssueId, NEW t \in AskTitle \cup {Absent}, NEW off \in AskOffline,
              ApiUpdate(r, i, t, off)
       PROVE  RequestsGrounded'
  <2> DEFINE want == Wanted(issue[i].toOffline, off)
             h == [Idle EXCEPT !.pc = "updateSend", !.issue = i,
                     !.title = IF t = issue[i].title THEN Absent ELSE t,
                     !.offline = IF want = issue[i].toOffline THEN NoOffline ELSE want,
                     !.was = issue[i].toOffline]
  <2>1. req' = [req EXCEPT ![r] = h]
    BY <1>13 DEF ApiUpdate
  <2>2. h.pc = "updateSend" /\ h.issue = i
    BY DEF Idle
  <2>3. i \in Inserted
    BY <1>13 DEF ApiUpdate
  <2>4. GroundedRequest(h)
    BY <2>2, <2>3 DEF GroundedRequest
  <2> HIDE DEF h
  <2> QED BY <1>1, <1>2, <2>1, <2>4
<1> QED
  BY <1>5, <1>6, <1>7, <1>8, <1>10, <1>11, <1>12, <1>13 DEF ApiArrive, ApiStep, Desires

LEMMA NextGrounded == TypeInv /\ Grounded /\ [Next]_vars => Grounded'
<1> SUFFICES ASSUME TypeInv, Grounded, [Next]_vars PROVE Grounded'
  OBVIOUS
<1> USE DEF Grounded
<1>0. IssuesKeep /\ Inserted \subseteq Inserted'
  BY IssueFrame DEF IssuesKeep
<1>1. ASSUME UNCHANGED loop PROVE LoopOnReal' /\ LoopOnIssues'
  BY <1>0, <1>1 DEF loop, LoopOnReal, LoopOnIssues
<1>2. ASSUME UNCHANGED req PROVE RequestsGrounded'
  BY <1>0, <1>2 DEF RequestsGrounded, GroundedRequest
<1>3. CASE Restart
  BY <1>3 DEF Restart, SyncReset, Idle, LoopOnReal, LoopOnIssues, RequestsGrounded, GroundedRequest
<1>4. CASE SyncTask
  BY <1>0, <1>2, <1>4, SyncOnReal, SyncOnIssues DEF SyncTask
<1>5. ASSUME NEW r \in Req, ApiArrive(r) \/ ApiStep(r) \/ ApiDropped(r), UNCHANGED loop
      PROVE  Grounded'
  BY <1>0, <1>1, <1>5, ApiGrounded
<1>6. CASE UNCHANGED <<loop, req>>
  BY <1>1, <1>2, <1>6
<1> QED
  BY <1>3, <1>4, <1>5, <1>6
  DEF Next, Arrive, ApiTask, Drop, Receive, Environment, Panic, Crash, Quiesce, vars

LEMMA InitGrounded == Init => Grounded
BY DEF Init, SyncInit, ApiInit, Idle, Grounded, LoopOnReal, LoopOnIssues, RequestsGrounded,
       GroundedRequest

(* Who puts a node back in service, and who opens tickets.                 *)
LEMMA PbsFrame ==
  ASSUME TypeInv, [Next]_vars, NEW n \in Name, pbs[n].offline, ~pbs'[n].offline
  PROVE  \/ Environment
         \/ SyncRelease /\ node = n
         \/ \E r \in Req : At(r, "release") /\ req[r].node = n
<1>0. pbs \in [Name -> Vnode]
  BY DEF TypeInv, TypeOK, SharedTypeOK
<1>1. CASE UNCHANGED pbs
  BY <1>1
<1>2. ASSUME NEW m, ReleaseNode(m) PROVE m = n
  BY <1>0, <1>2 DEF ReleaseNode, Vnode
<1>3. CASE SyncNext
  <2>1. ASSUME NEW m \in Name, SyncOffline(m) PROVE FALSE
    <3>1. pbs'[n] = IF m = n THEN [pbs[n] EXCEPT !.offline = TRUE] ELSE pbs[n]
      BY <1>0, <2>1 DEF SyncOffline, OfflineNode
    <3> QED BY <1>0, <3>1 DEF Vnode
  <2>2. CASE SyncRelease
    BY <1>2, <2>2 DEF SyncRelease
  <2>3. ASSUME NEW m \in Name, SyncMissing(m) \/ SyncAsExpected(m) \/ SyncUnexpected(m)
                               \/ SyncFoundUp(m)
        PROVE  UNCHANGED pbs
    BY <2>3 DEF SyncMissing, SyncAsExpected, SyncUnexpected, SyncFoundUp, shared
  <2>4. ASSUME NEW i \in IssueId, SyncCloseIssue(i) \/ SyncOpenInsert(i) \/ SyncSettleOpen(i)
                                  \/ SyncSettleClosed(i)
        PROVE  UNCHANGED pbs
    BY <2>4 DEF SyncCloseIssue, SyncOpenInsert, SyncSettleOpen, SyncSettleClosed
  <2>5. CASE SyncReadOpening \/ SyncReadClosing \/ SyncStat \/ SyncStatFails \/ SyncReadTargets
             \/ SyncReadExpected \/ SyncRelated \/ (\E q \in left : SyncSearch(q))
             \/ SyncExplained \/ SyncSend \/ SyncCloseQuery
             \/ SyncCloseComment \/ SyncClosedAll \/ SyncOpenLookup \/ SyncOpenSend
             \/ SyncOpenComment \/ SyncRecord \/ SyncEnd
    BY <2>5, <1>1 DEF SyncReadOpening, SyncReadClosing, SyncStat, SyncStatFails, SyncReadTargets,
       SyncReadExpected, SyncRelated, SyncSearch, SyncExplained, SyncSend, SyncCloseQuery,
       SyncCloseComment, SyncClosedAll,
       SyncOpenLookup, SyncOpenSend, SyncOpenComment, SyncRecord, SyncEnd, shared
  <2> QED BY <1>1, <1>3, <2>1, <2>2, <2>3, <2>4, <2>5 DEF SyncNext
<1>4. ASSUME NEW r \in Req, ApiArrive(r) \/ ApiStep(r) \/ ApiDropped(r)
      PROVE  At(r, "release") /\ req[r].node = n
  <2>1. CASE ApiRelease(r)
    BY <1>2, <2>1 DEF ApiRelease
  <2>2. CASE ~ApiRelease(r)
    BY <1>1, <1>4, <2>2 DEF ApiArrive, ApiStep, ApiDropped, ApiOpen, ApiOpenInsert, ApiOpenSend,
       ApiOpenComment, ApiClose, ApiCloseWrite, ApiCloseComment, ApiCloseSend, ApiUpdate,
       ApiUpdateSend, ApiUpdateWrite, ApiCheck, ApiSearch, ApiDesired, ApiReleaseFails,
       ApiResumed, shared
  <2> QED BY <2>1, <2>2
<1> QED
  BY <1>1, <1>3, <1>4
  DEF Next, SyncTask, Arrive, ApiTask, Drop, Receive, Panic, Crash, Restart, Quiesce, vars, shared

LEMMA InsertFrame ==
  ASSUME TypeInv, Grounded, [Next]_vars, NEW i \in IssueId \ Inserted, i \in Inserted'
  PROVE  \/ SyncOpenInsert(i)
         \/ \E r \in Req : ApiOpenInsert(r, i)
<1>0. issue \in [IssueId -> IssueRow]
  BY DEF TypeInv, TypeOK, SharedTypeOK
<1>1. ASSUME UNCHANGED issue PROVE FALSE
  BY <1>1 DEF Inserted
<1>2. ASSUME NEW j \in Inserted, NEW row, issue' = [issue EXCEPT ![j] = row] PROVE FALSE
  BY <1>0, <1>2 DEF Inserted
<1>3. ASSUME NEW j \in IssueId, NEW n, NEW t, NEW off, InsertIssue(j, n, t, off) PROVE j = i
  BY <1>0, <1>3 DEF InsertIssue, Inserted
<1>4. CASE SyncNext
  <2>1. ASSUME NEW j \in IssueId, SyncOpenInsert(j) PROVE SyncOpenInsert(i)
    BY <1>3, <2>1 DEF SyncOpenInsert
  <2>2. ASSUME NEW j \in IssueId, SyncCloseIssue(j) \/ SyncSettleOpen(j) \/ SyncSettleClosed(j)
        PROVE  FALSE
    <3>1. j \in Inserted /\ \E s : SetStatus(j, s)
      BY <2>2 DEF SyncCloseIssue, SyncSettleOpen, SyncSettleClosed, Grounded, LoopOnIssues
    <3> QED BY <1>0, <1>2, <3>1 DEF SetStatus
  <2>3. ASSUME NEW n \in Name, SyncMissing(n) \/ SyncAsExpected(n) \/ SyncOffline(n)
                               \/ SyncUnexpected(n) \/ SyncFoundUp(n)
        PROVE  UNCHANGED issue
    BY <2>3 DEF SyncMissing, SyncAsExpected, SyncOffline, SyncUnexpected, SyncFoundUp, shared
  <2>4. CASE SyncReadOpening \/ SyncReadClosing \/ SyncStat \/ SyncStatFails \/ SyncReadTargets
             \/ SyncReadExpected \/ SyncRelated \/ (\E q \in left : SyncSearch(q))
             \/ SyncExplained \/ SyncRelease \/ SyncSend \/ SyncCloseQuery
             \/ SyncCloseComment \/ SyncClosedAll \/ SyncOpenLookup \/ SyncOpenSend
             \/ SyncOpenComment \/ SyncRecord \/ SyncEnd
    BY <2>4, <1>1 DEF SyncReadOpening, SyncReadClosing, SyncStat, SyncStatFails, SyncReadTargets,
       SyncReadExpected, SyncRelated, SyncSearch, SyncExplained, SyncRelease, SyncSend,
       SyncCloseQuery, SyncCloseComment,
       SyncClosedAll, SyncOpenLookup, SyncOpenSend, SyncOpenComment, SyncRecord, SyncEnd, shared
  <2> QED BY <1>1, <1>4, <2>1, <2>2, <2>3, <2>4 DEF SyncNext
<1>5. ASSUME NEW r \in Req, ApiArrive(r) \/ ApiStep(r) \/ ApiDropped(r)
      PROVE  ApiOpenInsert(r, i)
  <2>1. CASE ApiUpdateWrite(r) \/ ApiCloseWrite(r)
    <3>1. req[r].issue \in Inserted
      BY <2>1 DEF ApiUpdateWrite, ApiCloseWrite, At, Grounded, RequestsGrounded, GroundedRequest
    <3>2. \E row : issue' = [issue EXCEPT ![req[r].issue] = row]
      BY <2>1 DEF ApiUpdateWrite, ApiCloseWrite, SetStatus
    <3> QED BY <1>2, <3>1, <3>2
  <2>2. ASSUME NEW j \in IssueId, ApiOpenInsert(r, j) PROVE ApiOpenInsert(r, i)
    <3>1. j = i
      BY <1>0, <2>2 DEF ApiOpenInsert, InsertIssue, Inserted
    <3> QED BY <2>2, <3>1
  <2>3. CASE ~(ApiUpdateWrite(r) \/ ApiCloseWrite(r) \/ \E j \in IssueId : ApiOpenInsert(r, j))
    <3>1. UNCHANGED issue
      BY <1>5, <2>3 DEF ApiArrive, ApiStep, ApiDropped, ApiOpen, ApiOpenSend, ApiOpenComment,
         ApiClose, ApiCloseComment, ApiCloseSend, ApiUpdate, ApiUpdateSend, ApiCheck, ApiSearch,
         ApiDesired, ApiRelease,
         ApiReleaseFails, ApiResumed, shared
    <3> QED BY <1>1, <3>1
  <2> QED BY <2>1, <2>2, <2>3
<1> QED
  BY <1>1, <1>4, <1>5
  DEF Next, SyncTask, Arrive, ApiTask, Drop, Receive, Environment, Panic, Crash, Restart, Quiesce,
      vars, shared

(* A name that is no longer real, though its row may still be read by the  *)
(* loop and its issues updated or closed, gets no ticket, keeps its        *)
(* recorded status and is not resumed by cttd.                             *)
THEOREM RemovedCorrect == Spec => RemovedIsLeftAlone
<1>1. Init => TypeInv /\ Grounded
  BY InitType, InitGrounded
<1>2. TypeInv /\ Grounded /\ [Next]_vars => TypeInv' /\ Grounded'
  BY NextType, NextGrounded
<1>3. TypeInv /\ Grounded /\ [Next]_vars
      => [\A n \in Name \ Real :
            /\ target'[n] = target[n]
            /\ pbs[n].offline => pbs'[n].offline \/ Environment
            /\ \A i \in IssueId \ Inserted : i \in Inserted' => issue'[i].target # n]_vars
  <2> SUFFICES ASSUME TypeInv, Grounded, [Next]_vars, NEW n \in Name \ Real
               PROVE  /\ target'[n] = target[n]
                      /\ pbs[n].offline => pbs'[n].offline \/ Environment
                      /\ \A i \in IssueId \ Inserted : i \in Inserted' => issue'[i].target # n
    OBVIOUS
  <2> USE DEF Grounded
  <2>0. issue \in [IssueId -> IssueRow] /\ target \in [Name -> TargetStatus \cup {Absent}]
    BY DEF TypeInv, TypeOK, SharedTypeOK
  <2>1. target'[n] = target[n]
    BY <2>0, TargetFrame DEF RowsAppear, SyncRecord
  <2>2. ASSUME pbs[n].offline, ~pbs'[n].offline PROVE Environment
    BY <2>2, PbsFrame DEF SyncRelease, At, LoopOnReal, RequestsGrounded, GroundedRequest
  <2>3. ASSUME NEW i \in IssueId \ Inserted, i \in Inserted' PROVE issue'[i].target # n
    <3>1. CASE SyncOpenInsert(i)
      BY <2>0, <3>1 DEF SyncOpenInsert, InsertIssue, LoopOnReal
    <3>2. ASSUME NEW r \in Req, ApiOpenInsert(r, i) PROVE issue'[i].target # n
      BY <2>0, <3>2 DEF ApiOpenInsert, InsertIssue, At, RequestsGrounded, GroundedRequest
    <3> QED BY <2>3, <3>1, <3>2, InsertFrame
  <2> QED BY <2>1, <2>2, <2>3
<1> QED BY <1>1, <1>2, <1>3, PTL DEF Spec, RemovedIsLeftAlone

-----------------------------------------------------------------------------
(* ClosedIsExplained.  Comments stay; a pass settles issues closed by      *)
(* others, and may even close one it has just opened again.                *)

Explained(i) == comment[i] \cap {"closed", "foundUp"} # {} \/ Writing(i)
ExplainedInv ==
  \A i \in Inserted : issue[i].status \in {"Closing", "Closed"} \/ i \in toClose => Explained(i)

(* A fault strikes between a close and its comment.                        *)
Interrupts == (Panic \/ Crash \/ Drop) /\ \E i \in IssueId : Writing(i)

(* No earlier run of the process left a ticket closed without its comment. *)
ExplainedStart ==
  \A db \in InitTickets, i \in IssueId :
    db.issue[i].status \in {"Closing", "Closed"} => db.comment[i] \cap {"closed", "foundUp"} # {}

(* A request leaves the locals of the others alone.                        *)
LEMMA RequestFrame ==
  ASSUME TypeInv, NEW q \in Req, ApiArrive(q) \/ ApiStep(q), NEW r \in Req, r # q
  PROVE  req'[r] = req[r]
<1>0. req \in [Req -> Handler]
  BY DEF TypeInv, TypeOK, ApiTypeOK
<1>1. UNCHANGED req \/ \E h : req' = [req EXCEPT ![q] = h]
  <2>1. ASSUME NEW i \in IssueId, ApiOpenInsert(q, i) \/ ApiClose(q, i)
        PROVE  \E h : req' = [req EXCEPT ![q] = h]
    BY <2>1 DEF ApiOpenInsert, ApiClose
  <2>2. ASSUME NEW n \in AskNode, NEW t \in AskTitle, NEW off \in AskOffline, ApiOpen(q, n, t, off)
        PROVE  UNCHANGED req \/ \E h : req' = [req EXCEPT ![q] = h]
    BY <2>2 DEF ApiOpen
  <2>3. ASSUME NEW i \in IssueId, NEW t \in AskTitle \cup {Absent}, NEW off \in AskOffline,
               ApiUpdate(q, i, t, off)
        PROVE  \E h : req' = [req EXCEPT ![q] = h]
    BY <2>3 DEF ApiUpdate
  <2>4. CASE Desires(q)
    BY <2>4, DesireMoves
  <2>5. CASE ApiUpdateWrite(q)
    BY <1>0, <2>5 DEF ApiUpdateWrite, Done
  <2>6. CASE ApiOpenSend(q) \/ ApiOpenComment(q) \/ ApiCloseWrite(q) \/ ApiCloseComment(q)
             \/ ApiCloseSend(q) \/ ApiUpdateSend(q) \/ ApiRelease(q) \/ ApiReleaseFails(q)
             \/ ApiResumed(q)
    BY <1>0, <2>6 DEF ApiOpenSend, ApiOpenComment, ApiCloseWrite, ApiCloseComment, ApiCloseSend,
       ApiUpdateSend, ApiRelease, ApiReleaseFails, ApiResumed, Step, Done
  <2> QED BY <2>1, <2>2, <2>3, <2>4, <2>5, <2>6 DEF ApiArrive, ApiStep, Desires
<1> QED BY <1>0, <1>1

LEMMA ExplainedStays ==
  ASSUME TypeInv, [Next]_vars, ~Interrupts, NEW i \in IssueId, Explained(i)
  PROVE  Explained(i)'
<1>0. comment \in [IssueId -> SUBSET CommentKind] /\ req \in [Req -> Handler]
  BY DEF TypeInv, TypeOK, SharedTypeOK, ApiTypeOK
<1>1. CASE comment[i] \cap {"closed", "foundUp"} # {}
  BY <1>1, CommentsGrow DEF Explained
<1>2. ASSUME Writing(i), ~(Panic \/ Crash \/ Drop) PROVE Explained(i)'
  <2>1. CASE iss = i /\ spc = "closeComment"
    <3>1. CASE SyncNext
      <4>1. SyncCloseComment
        BY <2>1, <3>1 DEF SyncNext, SyncReadOpening, SyncReadClosing, SyncStat, SyncStatFails,
           SyncReadTargets, SyncReadExpected, SyncMissing, SyncAsExpected, SyncOffline,
           SyncUnexpected, SyncFoundUp, AtNode, SyncRelated, SyncSearch, SyncExplained,
           SyncRelease, SyncSend, SyncCloseQuery,
           SyncCloseIssue, SyncClosedAll, SyncOpenLookup, SyncOpenInsert, SyncOpenSend,
           SyncOpenComment, SyncRecord, SyncSettleOpen, SyncSettleClosed, SyncEnd, AllHandled
      <4> QED BY <1>0, <2>1, <4>1 DEF SyncCloseComment, AddComment, Explained
    <3>2. CASE UNCHANGED loop
      BY <2>1, <3>2 DEF loop, Explained, Writing
    <3> QED BY <1>2, <3>1, <3>2
            DEF Next, SyncTask, Arrive, ApiTask, Receive, Environment, Quiesce, vars
  <2>2. ASSUME NEW r \in Req, req[r].issue = i, req[r].pc = "closeComment" PROVE Explained(i)'
    <3>1. ASSUME req'[r] = req[r] PROVE Explained(i)'
      BY <2>2, <3>1 DEF Explained, Writing
    <3>2. ASSUME NEW q \in Req, ApiArrive(q) \/ ApiStep(q) PROVE Explained(i)'
      <4>1. CASE q # r
        BY <3>1, <3>2, <4>1, RequestFrame
      <4>2. CASE q = r
        <5>1. ApiCloseComment(r)
          BY <2>2, <3>2, <4>2 DEF ApiArrive, ApiStep, ApiOpen, ApiOpenInsert, ApiOpenSend,
             ApiOpenComment, ApiClose, ApiCloseWrite, ApiCloseSend, ApiUpdate, ApiUpdateSend,
             ApiUpdateWrite, ApiCheck, ApiSearch, ApiDesired, ApiRelease, ApiReleaseFails,
             ApiResumed, At
        <5> QED BY <1>0, <2>2, <5>1 DEF ApiCloseComment, AddComment, Explained
      <4> QED BY <4>1, <4>2
    <3>3. CASE UNCHANGED req
      BY <3>1, <3>3
    <3> QED BY <1>2, <3>2, <3>3
            DEF Next, SyncTask, Arrive, ApiTask, Receive, Environment, Quiesce, vars
  <2> QED BY <1>2, <2>1, <2>2 DEF Writing
<1> QED BY <1>1, <1>2 DEF Explained, Interrupts

LEMMA NextExplained ==
  TypeInv /\ Grounded /\ ExplainedInv /\ [Next]_vars /\ ~Interrupts => ExplainedInv'
<1> SUFFICES ASSUME TypeInv, Grounded, ExplainedInv, [Next]_vars, ~Interrupts,
                    NEW i \in Inserted',
                    issue'[i].status \in {"Closing", "Closed"} \/ i \in toClose'
             PROVE  Explained(i)'
  BY DEF ExplainedInv
<1>0. i \in IssueId /\ issue \in [IssueId -> IssueRow] /\ req \in [Req -> Handler] /\ IssuesKeep
  BY IssueFrame DEF Inserted, TypeInv, TypeOK, SharedTypeOK, ApiTypeOK
<1>1. CASE i \in Inserted /\ Explained(i)
  BY <1>0, <1>1, ExplainedStays
<1>2. ASSUME NEW r \in Req, ApiCloseWrite(r), req[r].issue = i PROVE Explained(i)'
  BY <1>0, <1>2 DEF ApiCloseWrite, Step, Handler, Explained, Writing
<1>3. CASE SyncCloseIssue(i)
  BY <1>3 DEF SyncCloseIssue, Goto, Explained, Writing
<1>4. CASE SyncSettleClosed(i)
  BY <1>1, <1>4 DEF SyncSettleClosed, Grounded, LoopOnIssues, ExplainedInv
<1>5. CASE i \in toClose'
  <2>1. i \in toClose \/ issue[i].status = "Closing"
    <3>1. CASE SyncReadClosing
      BY <1>5, <3>1 DEF SyncReadClosing, ClosingRead, WithStatus
    <3>2. CASE SyncNext /\ ~SyncReadClosing
      <4>1. toClose' \subseteq toClose
        BY <3>2, SyncPassFrame DEF PassGoesOn, SyncReadTargets, SyncReadExpected, SyncReadOpening,
           SyncStat, SyncReset
      <4> QED BY <1>5, <4>1
    <3> QED BY <1>5, <3>1, <3>2 DEF Next, SyncTask, Arrive, ApiTask, Drop, Receive, Environment,
            Panic, Crash, Restart, SyncReset, Quiesce, vars, loop
  <2>2. i \in Inserted
    BY <1>0, <2>1 DEF Grounded, LoopOnIssues, Inserted, Absent
  <2> QED BY <1>1, <2>1, <2>2 DEF ExplainedInv
<1>6. ASSUME i \notin Inserted PROVE issue'[i].status = "Opening"
  <2>1. CASE SyncOpenInsert(i)
    BY <1>0, <2>1 DEF SyncOpenInsert, InsertIssue
  <2>2. ASSUME NEW r \in Req, ApiOpenInsert(r, i) PROVE issue'[i].status = "Opening"
    BY <1>0, <2>2 DEF ApiOpenInsert, InsertIssue
  <2> QED BY <1>0, <1>6, <2>1, <2>2, InsertFrame
<1>7. CASE i \in Inserted /\ issue'[i].status \in {"Closing", "Closed"}
  BY <1>0, <1>1, <1>2, <1>3, <1>4, <1>7 DEF IssuesKeep, ExplainedInv
<1> QED BY <1>5, <1>6, <1>7

(* A ticket on its way to be closed has a comment that says why, or the    *)
(* one who closed it is about to write it, unless a crash, a panic or a    *)
(* dropped request strikes just then, or struck before and left one behind:*)
(* also when the pass closes a ticket it has opened again, or a late close *)
(* repeats an earlier one.                                                 *)
THEOREM ExplainedCorrect ==
  ASSUME ExplainedStart
  PROVE  Spec /\ [][~Interrupts]_vars => []ClosedIsExplained
<1>1. Init => TypeInv /\ Grounded
  BY InitType, InitGrounded
<1>2. Init => ExplainedInv
  <2> SUFFICES ASSUME ExplainedStart, Init, NEW i \in Inserted, issue[i].status \in {"Closing", "Closed"}
               PROVE  Explained(i)
    BY DEF Init, SyncInit, ExplainedInv
  <2> PICK db \in InitTickets : issue = db.issue /\ comment = db.comment
    BY DEF Init, SharedInit
  <2> QED BY DEF ExplainedStart, Explained, Inserted
<1>3. TypeInv /\ Grounded /\ [Next]_vars => TypeInv' /\ Grounded'
  BY NextType, NextGrounded
<1>4. TypeInv /\ Grounded /\ ExplainedInv /\ [Next]_vars /\ [~Interrupts]_vars => ExplainedInv'
  <2>1. CASE ~Interrupts
    BY <2>1, NextExplained
  <2>2. CASE UNCHANGED vars
    BY <2>2 DEF vars, shared, loop, ExplainedInv, Explained, Writing, Inserted
  <2> QED BY <2>1, <2>2
<1>5. ExplainedInv => ClosedIsExplained
  BY DEF ExplainedInv, Explained, ClosedIsExplained
<1> QED BY <1>1, <1>2, <1>3, <1>4, <1>5, PTL DEF Spec

-----------------------------------------------------------------------------
(* AtMostTwoMissing.  A pass that finds its ticket still Opening opens one *)
(* more, so two it can be; but a ticket of an earlier pass is Open when    *)
(* this one is over, and then the duplicate check sees it.                 *)

Missing(n) == {i \in Inserted : issue[i].target = n /\ issue[i].title = MissingTitle}

(* Those that count, or will when they are settled, and those that no pass *)
(* has read yet.                                                           *)
Counted(n) == {i \in Missing(n) : issue[i].status \in OpenStatus \/ i \in toOpen}
Fresh(n) == {i \in Missing(n) : issue[i].status = "Opening" /\ i \notin toOpen}

AtMostOne(S) == \E a : S \subseteq {a}
AtMostTwo(S) == \E a, b : S \subseteq {a, b}

(* The pass has not come to open a ticket for n.                           *)
Ahead(n) ==
  \/ spc \in {"readClosing", "stat", "readTargets", "readExpected"}
  \/ /\ spc \in AfterReadings /\ n \in todo
     /\ ~(spc \in {"openSend", "openComment"} /\ node = n /\ seen[n] = Absent)

MissingOf(n) ==
  /\ AtMostTwo(Counted(n))
  /\ AtMostOne(Missing(n) \cap toOpen)
  /\ AtMostOne(Fresh(n))
  /\ Ahead(n) => Fresh(n) = {}

MissingInv ==
  /\ spc = "tick" => toOpen = {}
  /\ spc = "openInsert" /\ seen[node] = Absent =>
       \A i \in Missing(node) : issue[i].status # "Open"
  /\ \A n \in Name : MissingOf(n)

(* The two titles differ, and clients do not use the loop's.               *)
OwnTitle == MissingTitle \notin AskTitle \cup {CommentTitle}

(* The process dies while a node's ticket of an earlier pass is still to   *)
(* be settled and this pass has opened another one for it.                 *)
LosesPass ==
  (Panic \/ Crash) /\ \E n \in Name : Fresh(n) # {} /\ Missing(n) \cap toOpen # {}

LEMMA MissingFrame ==
  ASSUME OwnTitle, TypeInv, Grounded, [Next]_vars, NEW n \in Name, NEW i \in Missing(n)'
  PROVE  \/ /\ i \in Missing(n)
            /\ issue'[i].status = "Opening" => issue[i].status = "Opening"
            /\ issue'[i].status = "Open" => issue[i].status = "Open" \/ SyncSettleOpen(i)
         \/ SyncOpenInsert(i) /\ n = node /\ seen[n] = Absent /\ i \notin Inserted
<1>0. i \in IssueId /\ issue \in [IssueId -> IssueRow] /\ i \in Inserted'
      /\ issue'[i].target = n /\ issue'[i].title = MissingTitle
  BY DEF TypeInv, TypeOK, SharedTypeOK, Missing, Inserted
<1>1. \A r \in Req : req[r].title # MissingTitle
  BY TitleAssumption, NoTitleAssumption DEF OwnTitle, Grounded, RequestsGrounded, GroundedRequest
<1>2. CASE i \in Inserted
  BY <1>0, <1>1, <1>2, IssueFrame DEF IssuesKeep, Missing
<1>3. CASE i \notin Inserted
  <2>1. ~\E r \in Req : ApiOpenInsert(r, i)
    BY <1>0, <1>1 DEF ApiOpenInsert, InsertIssue
  <2>2. SyncOpenInsert(i)
    BY <1>0, <1>3, <2>1, InsertFrame
  <2>3. n = node /\ Reason = MissingTitle
    BY <1>0, <2>2 DEF SyncOpenInsert, InsertIssue
  <2> QED BY <1>3, <2>2, <2>3 DEF Reason, OwnTitle
<1> QED BY <1>2, <1>3

LEMMA AheadFrame ==
  ASSUME TypeInv, [Next]_vars, NEW n \in Name, Ahead(n)', ~SyncReadOpening
  PROVE  Ahead(n)
<1> USE DEF Ahead, AfterReadings, SyncPc
<1>1. CASE SyncReset
  BY <1>1 DEF SyncReset
<1>2. CASE UNCHANGED loop
  BY <1>2 DEF loop
<1>3. CASE SyncNext
  <2>1. CASE SyncReadClosing \/ SyncStat \/ SyncReadTargets \/ SyncReadExpected
    BY <2>1 DEF SyncReadClosing, SyncStat, SyncReadTargets, SyncReadExpected
  <2>2. CASE PassGoesOn /\ spc \notin {"openSend", "openComment"}
    BY <2>2 DEF PassGoesOn
  <2>3. CASE SyncOpenSend
    BY <2>3 DEF SyncOpenSend, Goto, readings
  <2>4. CASE SyncOpenComment
    BY <2>4 DEF SyncOpenComment, Opened, NextNode, Settle, readings
  <2>5. spc \in {"openSend", "openComment"} => SyncOpenSend \/ SyncOpenComment
    BY <1>3 DEF SyncNext, SyncReadOpening, SyncReadClosing, SyncStat, SyncStatFails,
       SyncReadTargets, SyncReadExpected, SyncMissing, SyncAsExpected, SyncOffline,
       SyncUnexpected, SyncFoundUp, AtNode, SyncRelated, SyncSearch, SyncExplained, SyncRelease,
       SyncSend, SyncCloseQuery,
       SyncCloseIssue, SyncCloseComment, SyncClosedAll, SyncOpenLookup, SyncOpenInsert,
       SyncRecord, SyncSettleOpen, SyncSettleClosed, SyncEnd, AllHandled
  <2> QED BY <1>1, <1>3, <2>1, <2>2, <2>3, <2>4, <2>5, SyncPassFrame
<1> QED
  BY <1>1, <1>2, <1>3
  DEF Next, SyncTask, Arrive, ApiTask, Drop, Receive, Environment, Panic, Crash, Restart, Quiesce,
      vars

(* What changes the issues a pass has to settle, and how the loop comes to *)
(* its start and to the insertion of a ticket.                             *)
LEMMA ToOpenFrame ==
  ASSUME SyncNext
  PROVE  /\ \/ UNCHANGED toOpen \/ \E j \in IssueId : SyncSettleOpen(j)
            \/ SyncReadOpening \/ SyncReset
         /\ spc' = "tick" => SyncEnd \/ SyncStatFails
         /\ spc' = "openInsert" => SyncOpenLookup
<1>1. ASSUME NEW n \in Name, SyncMissing(n) \/ SyncAsExpected(n) \/ SyncOffline(n)
                             \/ SyncUnexpected(n) \/ SyncFoundUp(n)
      PROVE  UNCHANGED toOpen /\ spc' \notin {"tick", "openInsert"}
  BY <1>1 DEF SyncMissing, SyncAsExpected, SyncOffline, SyncUnexpected, SyncFoundUp, AtNode, Settle,
              NextNode, Goto, readings
<1>2. CASE SyncRelated
  <2>1. Goto("search") \/ Settle(node, seen[node])
    BY <1>2 DEF SyncRelated
  <2> QED BY <1>2, <2>1 DEF SyncRelated, Settle, NextNode, Goto, readings
<1>3. CASE (\E q \in left : SyncSearch(q)) \/ SyncExplained
  BY <1>3 DEF SyncSearch, SyncExplained, Goto, readings
<1>4. ASSUME NEW i \in IssueId, SyncCloseIssue(i) \/ SyncOpenInsert(i) \/ SyncSettleClosed(i)
      PROVE  UNCHANGED toOpen /\ spc' \notin {"tick", "openInsert"}
  BY <1>4 DEF SyncCloseIssue, SyncOpenInsert, SyncSettleClosed, AllHandled, Goto, readings
<1>5. ASSUME NEW i \in IssueId, SyncSettleOpen(i) PROVE spc' \notin {"tick", "openInsert"}
  BY <1>5 DEF SyncSettleOpen, AllHandled
<1>6. CASE SyncReadOpening \/ SyncReadClosing \/ SyncStat \/ SyncReadTargets \/ SyncReadExpected
           \/ SyncRelease \/ SyncSend \/ SyncCloseQuery \/ SyncCloseComment \/ SyncClosedAll
           \/ SyncOpenLookup \/ SyncOpenSend \/ SyncOpenComment \/ SyncRecord
  BY <1>6 DEF SyncReadOpening, SyncReadClosing, SyncStat, SyncReadTargets, SyncReadExpected,
     SyncRelease, SyncSend, SyncCloseQuery, SyncCloseComment, SyncClosedAll, SyncOpenLookup,
     SyncOpenSend, SyncOpenComment, SyncRecord, Opened, Settle, NextNode, Goto, readings
<1> QED BY <1>1, <1>2, <1>3, <1>4, <1>5, <1>6 DEF SyncNext, SyncEnd, SyncStatFails, SyncReset

LEMMA NextMissingOf ==
  ASSUME OwnTitle, TypeInv, Grounded, MissingInv, [Next]_vars, ~LosesPass, NEW n \in Name
  PROVE  MissingOf(n)'
<1> USE DEF AtMostOne, AtMostTwo
<1>0. MissingOf(n) /\ toOpen \subseteq Inserted
  BY DEF MissingInv, MissingOf, Grounded, LoopOnIssues
<1>1. PICK a, b, c, d : /\ Counted(n) \subseteq {a, b} /\ Missing(n) \cap toOpen \subseteq {c}
                        /\ Fresh(n) \subseteq {d}
  BY <1>0 DEF MissingOf
<1>2. ASSUME NEW i \in IssueId, SyncOpenInsert(i), n = node, seen[n] = Absent
      PROVE  MissingOf(n)'
  <2>1. /\ spc = "openInsert" /\ spc' = "openSend" /\ node' = node
        /\ UNCHANGED <<toOpen, seen, todo>>
        /\ issue \in [IssueId -> IssueRow] /\ i \notin Inserted
        /\ \A j \in IssueId \ {i} : issue'[j] = issue[j]
        /\ node \in todo
    BY <1>2 DEF SyncOpenInsert, InsertIssue, Goto, readings, TypeInv, TypeOK, SharedTypeOK,
                NodeInTodo, BetweenNodes
  <2>2. Fresh(n) = {} /\ \A j \in Missing(n) : issue[j].status # "Open"
    BY <1>0, <1>2, <2>1 DEF MissingOf, MissingInv, Ahead, AfterReadings, SyncPc
  <2>3. Counted(n) \subseteq {c}
    BY <1>1, <2>2 DEF Counted, Fresh, OpenStatus
  <2>4. \A j \in Missing(n)' : j = i \/ (j \in Missing(n) /\ issue'[j] = issue[j])
    BY <2>1 DEF Missing, Inserted
  <2>5. Counted(n)' \subseteq {c, i}
    BY <2>1, <2>3, <2>4 DEF Counted
  <2>6. Missing(n)' \cap toOpen' \subseteq {c}
    BY <1>0, <1>1, <2>1, <2>4
  <2>7. Fresh(n)' \subseteq {i}
    BY <2>1, <2>2, <2>4 DEF Fresh
  <2>8. ~Ahead(n)'
    BY <1>2, <2>1 DEF Ahead, AfterReadings, SyncPc
  <2> QED BY <2>5, <2>6, <2>7, <2>8 DEF MissingOf
<1>3. ASSUME NEW i \in Missing(n)', ~(\E j \in IssueId : SyncOpenInsert(j) /\ n = node /\ seen[n] = Absent)
      PROVE  /\ i \in Missing(n)
             /\ issue'[i].status = "Opening" => issue[i].status = "Opening"
             /\ issue'[i].status = "Open" => issue[i].status = "Open" \/ SyncSettleOpen(i)
  BY <1>3, MissingFrame DEF Missing, Inserted
<1>4. CASE ~(\E j \in IssueId : SyncOpenInsert(j) /\ n = node /\ seen[n] = Absent)
  <2>1. CASE SyncReadOpening
    <3>1. UNCHANGED issue /\ toOpen = {} /\ toOpen' = {i \in IssueId : issue[i].status = "Opening"}
      BY <2>1 DEF SyncReadOpening, OpeningRead, WithStatus, MissingInv, shared
    <3>2. UNCHANGED Missing(n)
      BY <3>1 DEF Missing, Inserted
    <3>3. Counted(n)' \subseteq {a, b}
      BY <1>1, <3>1, <3>2 DEF Counted, OpenStatus
    <3>4. Missing(n)' \cap toOpen' \subseteq {d}
      BY <1>1, <3>1, <3>2 DEF Fresh
    <3>5. Fresh(n)' = {}
      BY <3>1, <3>2 DEF Fresh, Missing, Inserted
    <3> QED BY <3>3, <3>4, <3>5 DEF MissingOf
  <2>2. CASE SyncReset
    <3>1. spc' = "tick" /\ toOpen' = {}
      BY <2>2 DEF SyncReset
    <3>2. Counted(n)' \subseteq {a, b}
      BY <1>1, <1>3, <1>4, <3>1 DEF Counted, OpenStatus, SyncSettleOpen
    <3>3. Fresh(n) = {} \/ Missing(n) \cap toOpen = {}
      <4>1. CASE Panic \/ Crash
        BY <4>1 DEF LosesPass
      <4>2. CASE SyncStatFails
        BY <1>0, <4>2 DEF SyncStatFails, MissingOf, Ahead
      <4>3. CASE SyncEnd
        BY <4>3 DEF SyncEnd
      <4>4. CASE spc = "tick"
        BY <4>4 DEF MissingInv
      <4>5. CASE UNCHANGED loop
        BY <4>4, <4>5, <3>1 DEF loop
      <4>6. CASE SyncNext
        BY <3>1, <4>2, <4>3, <4>6, ToOpenFrame
      <4> QED BY <4>1, <4>2, <4>3, <4>5, <4>6
              DEF Next, SyncTask, Arrive, ApiTask, Drop, Receive, Environment, Quiesce, vars
    <3>4. \A i \in Fresh(n)' : i \in Fresh(n) \/ i \in Missing(n) \cap toOpen
      BY <1>3, <1>4 DEF Fresh
    <3>5. \E e : Fresh(n)' \subseteq {e}
      BY <1>1, <3>3, <3>4
    <3>6. ~Ahead(n)'
      BY <3>1 DEF Ahead, AfterReadings
    <3> QED BY <3>1, <3>2, <3>5, <3>6 DEF MissingOf
  <2>3. ASSUME UNCHANGED toOpen \/ (\E j \in IssueId : SyncSettleOpen(j)), ~SyncReadOpening
        PROVE  MissingOf(n)'
    <3>1. /\ toOpen' \subseteq toOpen
          /\ \A i \in toOpen \ toOpen' : issue'[i].status = "Open"
      BY <2>3 DEF SyncSettleOpen, SetStatus, TypeInv, TypeOK, SharedTypeOK, IssueRow, SyncTypeOK
    <3>2. Counted(n)' \subseteq Counted(n)
      BY <1>3, <1>4, <3>1 DEF Counted, OpenStatus, SyncSettleOpen
    <3>3. Missing(n)' \cap toOpen' \subseteq Missing(n) \cap toOpen
      BY <1>3, <1>4, <3>1
    <3>4. Fresh(n)' \subseteq Fresh(n)
      BY <1>3, <1>4, <3>1 DEF Fresh
    <3>5. Ahead(n)' => Fresh(n)' = {}
      BY <1>0, <2>3, <3>4, AheadFrame DEF MissingOf
    <3> QED BY <1>1, <3>2, <3>3, <3>4, <3>5 DEF MissingOf
  <2>4. \/ UNCHANGED toOpen \/ \E j \in IssueId : SyncSettleOpen(j)
        \/ SyncReadOpening \/ SyncReset
    <3>1. CASE SyncNext
      BY <3>1, ToOpenFrame
    <3> QED BY <3>1 DEF Next, SyncTask, Arrive, ApiTask, Drop, Receive, Environment, Panic, Crash,
                        Restart, Quiesce, vars, loop
  <2> QED BY <2>1, <2>2, <2>3, <2>4
<1> QED BY <1>2, <1>4

LEMMA NextMissing ==
  OwnTitle /\ TypeInv /\ Grounded /\ MissingInv /\ [Next]_vars /\ ~LosesPass => MissingInv'
<1> SUFFICES ASSUME OwnTitle, TypeInv, Grounded, MissingInv, [Next]_vars, ~LosesPass
             PROVE  MissingInv'
  OBVIOUS
<1>1. SyncNext \/ SyncReset \/ UNCHANGED loop
  BY DEF Next, SyncTask, Arrive, ApiTask, Drop, Receive, Environment, Panic, Crash, Restart,
  Quiesce,
         vars
<1>2. spc' = "tick" => toOpen' = {}
  BY <1>1, ToOpenFrame DEF SyncEnd, SyncStatFails, SyncReset, MissingInv, loop
<1>3. ASSUME spc' = "openInsert", seen'[node'] = Absent, NEW i \in Missing(node)'
      PROVE  issue'[i].status # "Open"
  <2>1. CASE SyncOpenLookup
    <3>1. UNCHANGED <<issue, node, seen>> /\ ~Duplicate(node, MissingTitle)
      BY <1>3, <2>1 DEF SyncOpenLookup, Opened, Settle, NextNode, Goto, readings, Reason
    <3> QED BY <3>1 DEF Duplicate, DuplicateStatus, WithStatus, Missing, Inserted
  <2>2. CASE UNCHANGED loop
    <3>1. PICK hand \in Name : hand = node
      BY <1>3, <2>2 DEF TypeInv, NodeInTodo, BetweenNodes, TypeOK, SyncTypeOK, loop
    <3>2. node' = hand /\ seen[hand] = Absent /\ spc = "openInsert" /\ spc' = spc
      BY <1>3, <2>2, <3>1 DEF loop
    <3>3. i \in Missing(hand)'
      BY <1>3, <3>2 DEF Missing, Inserted
    <3>4. ~SyncOpenInsert(i) /\ ~SyncSettleOpen(i)
      BY <3>2 DEF SyncOpenInsert, SyncSettleOpen, AllHandled, Goto
    <3>5. i \in Missing(hand) /\ (issue'[i].status = "Open" => issue[i].status = "Open")
      BY <3>3, <3>4, MissingFrame
    <3> QED BY <3>1, <3>2, <3>5 DEF MissingInv
  <2>3. CASE SyncReset
    BY <1>3, <2>3 DEF SyncReset
  <2> QED BY <1>1, <1>3, <2>1, <2>2, <2>3, ToOpenFrame DEF SyncEnd, SyncStatFails
<1> QED BY <1>2, <1>3, NextMissingOf DEF MissingInv

(* What the process finds at start keeps the bounds it keeps itself.       *)
TidyStart ==
  \A db \in InitTickets, n \in Name :
    LET of(S) == {i \in IssueId : /\ db.issue[i].target = n /\ db.issue[i].title = MissingTitle
                                  /\ db.issue[i].status \in S}
    IN  AtMostTwo(of(OpenStatus)) /\ AtMostOne(of({"Opening"}))

LEMMA InitMissing == TidyStart /\ Init => MissingInv
<1>1. Init => (\E db \in InitTickets : issue = db.issue) /\ toOpen = {} /\ spc = "tick"
  BY DEF Init, SharedInit, SyncInit
<1> SUFFICES ASSUME TidyStart, Init, NEW n \in Name PROVE MissingOf(n)
  BY <1>1 DEF MissingInv
<1> DEFINE of(S) == {i \in IssueId : issue[i].target = n /\ issue[i].title = MissingTitle
                                     /\ issue[i].status \in S}
<1>2. AtMostTwo(of(OpenStatus)) /\ AtMostOne(of({"Opening"}))
  BY <1>1 DEF TidyStart
<1>3. Counted(n) = of(OpenStatus) /\ Fresh(n) = of({"Opening"}) /\ Missing(n) \cap toOpen = {}
  BY <1>1 DEF Counted, Fresh, Missing, Inserted, OpenStatus, Absent
<1>4. AtMostOne(Missing(n) \cap toOpen)
  BY <1>3 DEF AtMostOne
<1>5. ~Ahead(n)
  BY <1>1 DEF Ahead, AfterReadings
<1> HIDE DEF of
<1> QED BY <1>1, <1>2, <1>3, <1>4, <1>5 DEF MissingOf

LEMMA PairIsSmall ==
  ASSUME NEW S, NEW a, NEW b, S \subseteq {a, b}
  PROVE  Cardinality(S) <= 2
<1>1. IsFiniteSet({a}) /\ Cardinality({a}) = 1
  BY FS_Singleton
<1>2. {a, b} = {a} \cup {b}
  OBVIOUS
<1>3. IsFiniteSet({a, b}) /\ Cardinality({a, b}) <= 2
  BY <1>1, <1>2, FS_AddElement
<1>4. IsFiniteSet(S) /\ Cardinality(S) <= Cardinality({a, b})
  BY <1>3, FS_Subset
<1> QED BY <1>3, <1>4, FS_CardinalityType

LEMMA MissingIsFew == MissingInv => AtMostTwoMissing
<1> SUFFICES ASSUME MissingInv, NEW n \in Name
             PROVE  Cardinality(MissingTickets(n)) <= 2
  BY DEF AtMostTwoMissing
<1>1. MissingTickets(n) \subseteq Counted(n)
  BY DEF MissingTickets, WithStatus, Counted, Missing, Inserted, OpenStatus, Absent
<1>2. PICK a, b : Counted(n) \subseteq {a, b}
  BY DEF MissingInv, MissingOf, AtMostTwo
<1> QED BY <1>1, <1>2, PairIsSmall

(* The tickets for a node missing from PBS do not pile up, however often   *)
(* passes fail, requests close or edit them and the node comes and goes,   *)
(* on any number of nodes: only a process that dies between the opening of *)
(* a second ticket and the settling of the first lets a third one in.      *)
THEOREM MissingCorrect ==
  ASSUME OwnTitle, TidyStart
  PROVE  Spec /\ [][~LosesPass]_vars => []AtMostTwoMissing
<1>1. Init => TypeInv /\ Grounded /\ MissingInv
  BY InitType, InitGrounded, InitMissing
<1>2. TypeInv /\ Grounded /\ [Next]_vars => TypeInv' /\ Grounded'
  BY NextType, NextGrounded
<1>3. TypeInv /\ Grounded /\ MissingInv /\ [Next]_vars /\ [~LosesPass]_vars => MissingInv'
  <2>1. CASE ~LosesPass
    BY <2>1, NextMissing
  <2>2. CASE UNCHANGED vars
    BY <2>2 DEF vars, shared, loop, MissingInv, MissingOf, Counted, Fresh, Missing, Ahead, Inserted
  <2> QED BY <2>1, <2>2
<1> QED BY <1>1, <1>2, <1>3, MissingIsFew, PTL DEF Spec

-----------------------------------------------------------------------------
(* TicketsLive.  Each step of the server is one of TicketLife or changes   *)
(* nothing it knows.                                                       *)

StatusNow == [i \in IssueId |-> issue[i].status]
AskedNow == [r \in Req |-> IF At(r, "closeWrite") THEN req[r].issue ELSE NoIssue]

(* The pass is done with what it found on one node before it goes on.      *)
DoomedAtOnce == closing # {} => spc \in {"closeIssue", "closeComment"}

LEMMA NextDoomed == TypeInv /\ DoomedAtOnce /\ [Next]_vars => DoomedAtOnce'
<1> SUFFICES ASSUME TypeInv, DoomedAtOnce, [Next]_vars PROVE DoomedAtOnce'
  OBVIOUS
<1> USE DEF DoomedAtOnce
<1>1. CASE UNCHANGED loop
  BY <1>1 DEF loop
<1>2. ASSUME NEW n \in Name, SyncMissing(n) \/ SyncAsExpected(n) \/ SyncOffline(n)
                             \/ SyncUnexpected(n) \/ SyncFoundUp(n)
      PROVE  DoomedAtOnce'
  BY <1>2 DEF SyncMissing, SyncAsExpected, SyncOffline, SyncUnexpected, SyncFoundUp, AtNode
<1>3. ASSUME NEW i \in IssueId, SyncCloseIssue(i) \/ SyncOpenInsert(i) \/ SyncSettleOpen(i)
                                \/ SyncSettleClosed(i)
      PROVE  DoomedAtOnce'
  BY <1>3 DEF SyncCloseIssue, SyncOpenInsert, SyncSettleOpen, SyncSettleClosed, Goto
<1>4. CASE SyncCloseQuery \/ SyncCloseComment
  BY <1>4 DEF SyncCloseQuery, SyncCloseComment, Goto
<1>5. CASE SyncReset
  BY <1>5 DEF SyncReset
<1>6. CASE SyncReadOpening \/ SyncReadClosing \/ SyncStat \/ SyncReadTargets \/ SyncReadExpected
           \/ SyncRelated \/ (\E q \in left : SyncSearch(q))
             \/ SyncExplained \/ SyncRelease \/ SyncSend \/ SyncClosedAll \/ SyncOpenLookup
           \/ SyncOpenSend \/ SyncOpenComment \/ SyncRecord
  BY <1>6 DEF SyncReadOpening, SyncReadClosing, SyncStat, SyncReadTargets, SyncReadExpected,
     SyncRelated, SyncSearch, SyncExplained, SyncRelease, SyncSend, SyncClosedAll,
     SyncOpenLookup, SyncOpenSend,
     SyncOpenComment, SyncRecord
<1>7. CASE SyncNext
  BY <1>2, <1>3, <1>4, <1>5, <1>6, <1>7 DEF SyncNext, SyncStatFails, SyncEnd
<1> QED
  BY <1>1, <1>5, <1>7
  DEF Next, SyncTask, Arrive, ApiTask, Drop, Receive, Environment, Panic, Crash, Restart, Quiesce,
      vars

(* What the calls on the issue table do to the statuses.                   *)
LEMMA StatusTurns ==
  ASSUME TypeInv, NEW i \in IssueId, NEW s, SetStatus(i, s)
  PROVE  Life!Turns(i, s)
<1>1. issue \in [IssueId -> IssueRow]
  BY DEF TypeInv, TypeOK, SharedTypeOK
<1>2. \A j \in IssueId : issue'[j].status = IF j = i THEN s ELSE issue[j].status
  <2> SUFFICES ASSUME NEW j \in IssueId
               PROVE  issue'[j].status = IF j = i THEN s ELSE issue[j].status
    OBVIOUS
  <2>1. issue[j] \in IssueRow
    BY <1>1
  <2>2. issue'[j] = IF j = i THEN [issue[j] EXCEPT !.status = s] ELSE issue[j]
    BY <1>1 DEF SetStatus
  <2> QED BY <2>1, <2>2 DEF IssueRow
<1> QED BY <1>2 DEF Life!Turns

LEMMA InsertOpens ==
  ASSUME TypeInv, NEW i \in IssueId, NEW n, NEW t, NEW off, InsertIssue(i, n, t, off)
  PROVE  StatusNow[i] = Absent /\ Life!Turns(i, "Opening")
<1>1. issue \in [IssueId -> IssueRow]
  BY DEF TypeInv, TypeOK, SharedTypeOK
<1>2. \A j \in IssueId : issue'[j].status = IF j = i THEN "Opening" ELSE issue[j].status
  BY <1>1 DEF InsertIssue
<1>3. issue[i].status = Absent
  BY DEF InsertIssue, Inserted
<1> QED BY <1>2, <1>3 DEF Life!Turns, StatusNow

(* Steps of a pass that move no ticket: the life of tickets only sees that *)
(* the last node was handled.                                              *)
LEMMA ActingLives ==
  ASSUME spc \notin {"tick", "readClosing"}, ~AllHandled, spc' \notin {"tick", "readClosing"},
         AllHandled' => closing = {},
         UNCHANGED <<issue, toOpen, toClose, closing, req>>
  PROVE  Life!LifeNext \/ UNCHANGED Life!lvars
<1>1. Pass = "acting" /\ UNCHANGED StatusNow /\ UNCHANGED AskedNow
  BY DEF Pass, StatusNow, AskedNow, At
<1>2. CASE AllHandled'
  <2>1. Pass' = "settling"
    BY <1>2 DEF Pass
  <2>2. Life!Handled
    BY <1>1, <1>2, <2>1 DEF Life!Handled, Life!found, StatusNow, AskedNow
  <2> QED BY <2>2 DEF Life!LifeNext
<1>3. CASE ~AllHandled'
  <2>1. Pass' = "acting"
    BY <1>3 DEF Pass
  <2> QED BY <1>1, <2>1 DEF Life!lvars, Life!found, StatusNow, AskedNow
<1> QED BY <1>2, <1>3

LEMMA LoopLives ==
  ASSUME TypeInv, DoomedAtOnce, SyncNext, UNCHANGED req
  PROVE  Life!LifeNext \/ UNCHANGED Life!lvars
<1> USE DEF Life!found
<1>0. UNCHANGED AskedNow
  BY DEF AskedNow, At
<1>1. CASE SyncReadOpening
  <2>1. /\ Pass = "idle" /\ Pass' = "finding" /\ UNCHANGED <<issue, toClose, closing>>
        /\ toOpen' = {i \in IssueId : issue[i].status = "Opening"}
    BY <1>1 DEF SyncReadOpening, OpeningRead, WithStatus, Pass, AllHandled, shared
  <2>2. Life!FindOpening
    BY <1>0, <2>1 DEF Life!FindOpening, Life!InStatus, AskedNow
  <2> QED BY <2>2 DEF Life!LifeNext
<1>2. CASE SyncReadClosing
  <2>1. /\ Pass = "finding" /\ Pass' = "acting" /\ UNCHANGED <<issue, toOpen, closing>>
        /\ toClose' = {i \in IssueId : issue[i].status = "Closing"}
    BY <1>2 DEF SyncReadClosing, ClosingRead, WithStatus, Pass, AllHandled, shared
  <2>2. Life!FindClosing
    BY <1>0, <2>1 DEF Life!FindClosing, Life!InStatus, AskedNow
  <2> QED BY <2>2 DEF Life!LifeNext
<1>3. CASE SyncStatFails
  <2>1. /\ Pass = "acting" /\ Pass' = "idle" /\ UNCHANGED issue
        /\ closing = {} /\ toOpen' = {} /\ toClose' = {} /\ closing' = {}
    BY <1>3 DEF SyncStatFails, SyncReset, Pass, AllHandled, shared, DoomedAtOnce
  <2>2. Life!GivenUp
    BY <1>0, <2>1 DEF Life!GivenUp, AskedNow
  <2> QED BY <2>2 DEF Life!LifeNext
<1>4. CASE SyncEnd
  <2>1. /\ Pass = "settling" /\ Pass' = "idle" /\ UNCHANGED <<issue, toOpen, toClose, closing>>
        /\ toOpen = {} /\ toClose = {}
    BY <1>4 DEF SyncEnd, SyncReset, Pass, AllHandled, shared, DoomedAtOnce
  <2>2. Life!Over
    BY <1>0, <2>1 DEF Life!Over, AskedNow
  <2> QED BY <2>2 DEF Life!LifeNext
<1>5. CASE SyncCloseQuery
  <2>1. /\ Pass = "acting" /\ Pass' = "acting" /\ UNCHANGED <<issue, toOpen, toClose>>
        /\ closing = {} /\ closing' \subseteq Live
    BY <1>5 DEF SyncCloseQuery, Goto, Pass, AllHandled, readings, DoomedAtOnce
  <2>2. Live = {i \in IssueId : StatusNow[i] \in Life!LifeStatus \ {"Closed"}}
    <3>1. \A i \in IssueId : issue[i].status \in IssueStatus \cup {Absent}
      <4> SUFFICES ASSUME NEW i \in IssueId PROVE issue[i] \in IssueRow
        BY DEF IssueRow
      <4> QED BY DEF TypeInv, TypeOK, SharedTypeOK
    <3> QED BY <3>1 DEF Live, Inserted, StatusNow, Life!LifeStatus, IssueStatus, Absent
  <2>3. Life!FindUp
    BY <1>0, <2>1, <2>2 DEF Life!FindUp, Life!InStatus, StatusNow, AskedNow
  <2> QED BY <2>3 DEF Life!LifeNext
<1>6. ASSUME NEW i \in IssueId, SyncCloseIssue(i) PROVE Life!LifeNext
  <2>1. /\ Pass = "acting" /\ Pass' = "acting" /\ UNCHANGED <<toOpen, toClose>>
        /\ i \in closing /\ closing' = closing \ {i} /\ Life!Turns(i, "Closed")
    BY <1>6, StatusTurns DEF SyncCloseIssue, Goto, Pass, AllHandled, readings
  <2>2. Life!CloseFoundUp(i)
    BY <1>0, <2>1 DEF Life!CloseFoundUp, AskedNow
  <2> QED BY <2>2 DEF Life!LifeNext
<1>7. ASSUME NEW i \in IssueId, SyncOpenInsert(i) PROVE Life!LifeNext
  <2>1. /\ Pass = "acting" /\ Pass' = "acting" /\ UNCHANGED <<toOpen, toClose, closing>>
    BY <1>7 DEF SyncOpenInsert, Goto, Pass, AllHandled, readings
  <2>2. StatusNow[i] = Absent /\ Life!Turns(i, "Opening")
    BY <1>7, InsertOpens DEF SyncOpenInsert
  <2>3. Life!Opened(i)
    BY <1>0, <2>1, <2>2 DEF Life!Opened, StatusNow, AskedNow, Life!Absent, Absent
  <2> QED BY <2>3 DEF Life!LifeNext
<1>8. ASSUME NEW i \in IssueId, SyncSettleOpen(i) PROVE Life!LifeNext
  <2>1. /\ Pass = "settling" /\ Pass' = "settling" /\ UNCHANGED <<toClose, closing>>
        /\ i \in toOpen /\ toOpen' = toOpen \ {i} /\ Life!Turns(i, "Open")
    BY <1>8, StatusTurns DEF SyncSettleOpen, Pass, AllHandled
  <2>2. Life!SettleOpen(i)
    BY <1>0, <2>1 DEF Life!SettleOpen, AskedNow
  <2> QED BY <2>2 DEF Life!LifeNext
<1>9. ASSUME NEW i \in IssueId, SyncSettleClosed(i) PROVE Life!LifeNext
  <2>1. /\ Pass = "settling" /\ Pass' = "settling" /\ UNCHANGED <<toOpen, closing>>
        /\ toOpen = {} /\ i \in toClose /\ toClose' = toClose \ {i} /\ Life!Turns(i, "Closed")
    BY <1>9, StatusTurns DEF SyncSettleClosed, Pass, AllHandled
  <2>2. Life!SettleClosed(i)
    BY <1>0, <2>1 DEF Life!SettleClosed, AskedNow
  <2> QED BY <2>2 DEF Life!LifeNext
<1>10. ASSUME NEW n \in Name, SyncMissing(n) \/ SyncAsExpected(n) \/ SyncOffline(n)
                              \/ SyncUnexpected(n) \/ SyncFoundUp(n)
       PROVE  Life!LifeNext \/ UNCHANGED Life!lvars
  <2>1. /\ ~AllHandled /\ spc = "node" /\ spc' \notin {"tick", "readClosing"}
        /\ UNCHANGED <<issue, toOpen, toClose, closing>>
    BY <1>10 DEF SyncMissing, SyncAsExpected, SyncOffline, SyncUnexpected, SyncFoundUp, AtNode,
       AllHandled, Goto, Settle, NextNode, readings, shared
  <2> QED BY <2>1, ActingLives DEF DoomedAtOnce
<1>11. CASE (\E q \in left : SyncSearch(q)) \/ SyncExplained
  <2>1. /\ ~AllHandled /\ spc = "search" /\ spc' \notin {"tick", "readClosing", "node"}
        /\ UNCHANGED <<issue, toOpen, toClose, closing>>
    BY <1>11 DEF SyncSearch, SyncExplained, AllHandled, Goto, readings, shared
  <2> QED BY <2>1, ActingLives DEF DoomedAtOnce, AllHandled
<1>12. CASE SyncRelated
  <2>1. /\ ~AllHandled /\ spc = "related" /\ spc' \notin {"tick", "readClosing"}
        /\ UNCHANGED <<issue, toOpen, toClose, closing>>
    BY <1>12 DEF SyncRelated, AllHandled, Goto, Settle, NextNode, readings
  <2> QED BY <2>1, ActingLives DEF DoomedAtOnce
<1>13. CASE SyncCloseComment
  <2>1. /\ ~AllHandled /\ spc = "closeComment" /\ spc' = "closeIssue" /\ ~AllHandled'
        /\ UNCHANGED <<issue, toOpen, toClose, closing>>
    BY <1>13 DEF SyncCloseComment, AllHandled, Goto, readings
  <2> QED BY <2>1, ActingLives
<1>14. CASE SyncClosedAll
  <2>1. /\ ~AllHandled /\ spc = "closeIssue" /\ spc' \notin {"tick", "readClosing"} /\ closing = {}
        /\ UNCHANGED <<issue, toOpen, toClose, closing>>
    BY <1>14 DEF SyncClosedAll, AllHandled, Settle, NextNode, readings, shared
  <2> QED BY <2>1, ActingLives
<1>15. CASE SyncOpenLookup \/ SyncOpenSend \/ SyncOpenComment
  <2>1. /\ ~AllHandled /\ spc \in {"openLookup", "openSend", "openComment"}
        /\ spc' \notin {"tick", "readClosing"}
        /\ UNCHANGED <<issue, toOpen, toClose, closing>>
    BY <1>15 DEF SyncOpenLookup, SyncOpenSend, SyncOpenComment, Opened, AllHandled, Goto, Settle,
       NextNode, readings
  <2> QED BY <2>1, ActingLives DEF DoomedAtOnce
<1>16. CASE SyncStat \/ SyncReadTargets \/ SyncReadExpected \/ SyncRelease \/ SyncSend \/ SyncRecord
  <2>1. /\ ~AllHandled
        /\ spc \in {"stat", "readTargets", "readExpected", "release", "send", "record"}
        /\ spc' \notin {"tick", "readClosing"}
        /\ UNCHANGED <<issue, toOpen, toClose, closing>>
    BY <1>16 DEF SyncStat, SyncReadTargets, SyncReadExpected, SyncRelease, SyncSend, SyncRecord,
       AllHandled, Goto, Settle, NextNode, readings, shared
  <2> QED BY <2>1, ActingLives DEF DoomedAtOnce
<1> QED
  BY <1>1, <1>2, <1>3, <1>4, <1>5, <1>6, <1>7, <1>8, <1>9, <1>10, <1>12, <1>13, <1>14, <1>15, <1>16,
     <1>11
  DEF SyncNext

LEMMA RequestLives ==
  ASSUME TypeInv, NEW r \in Req, ApiArrive(r) \/ ApiStep(r) \/ ApiDropped(r), UNCHANGED loop
  PROVE  Life!LifeNext \/ UNCHANGED Life!lvars
<1> USE DEF Life!found
<1>0. req \in [Req -> Handler] /\ issue \in [IssueId -> IssueRow]
  BY DEF TypeInv, TypeOK, SharedTypeOK, ApiTypeOK
<1>a. UNCHANGED <<Pass, toOpen, toClose, closing>>
  BY DEF loop, Pass, AllHandled
<1>b. At(r, "closeWrite") => req[r].issue \in IssueId
  BY DEF TypeInv, RequestLocals, KnowsItsArguments, At
<1>1. ASSUME NEW h, req' = [req EXCEPT ![r] = h], h.pc # "closeWrite"
      PROVE  AskedNow' = [AskedNow EXCEPT ![r] = NoIssue]
  BY <1>0, <1>1 DEF AskedNow, At
<1>2. ASSUME NEW h, req' = [req EXCEPT ![r] = h], h.pc # "closeWrite", ~At(r, "closeWrite")
      PROVE  UNCHANGED AskedNow
  BY <1>0, <1>2 DEF AskedNow, At
<1>3. ASSUME UNCHANGED StatusNow, UNCHANGED AskedNow PROVE UNCHANGED Life!lvars
  BY <1>a, <1>3 DEF Life!lvars, StatusNow, AskedNow
<1>4. ASSUME NEW pc, Step(r, pc), pc # "closeWrite", ~At(r, "closeWrite") PROVE UNCHANGED AskedNow
  <2> PICK h : h = [req[r] EXCEPT !.pc = pc]
    OBVIOUS
  <2>1. h.pc # "closeWrite"
    BY <1>0, <1>4 DEF Handler
  <2> QED BY <1>2, <1>4, <2>1 DEF Step
<1>5. ASSUME UNCHANGED issue PROVE UNCHANGED StatusNow
  BY <1>5 DEF StatusNow
<1>c. Idle.pc # "closeWrite"
  BY DEF Idle
<1>6. CASE ApiDropped(r)
  <2>1. AskedNow' = [AskedNow EXCEPT ![r] = NoIssue]
    BY <1>1, <1>6, <1>c DEF ApiDropped, Done
  <2>2. Life!Dropped(r)
    BY <1>a, <1>6, <2>1 DEF ApiDropped, Life!Dropped, AskedNow, shared
  <2> QED BY <2>2 DEF Life!LifeNext
<1>7. ASSUME NEW i \in IssueId, ApiClose(r, i) PROVE Life!LifeNext
  <2> PICK h : h = [Idle EXCEPT !.pc = "closeWrite", !.issue = i]
    OBVIOUS
  <2>1. req' = [req EXCEPT ![r] = h] /\ h.pc = "closeWrite" /\ h.issue = i /\ At(r, "idle")
    BY <1>7 DEF ApiClose, Idle
  <2>2. AskedNow[r] = NoIssue /\ AskedNow' = [AskedNow EXCEPT ![r] = i]
    BY <1>0, <2>1 DEF AskedNow, At
  <2>3. StatusNow[i] \in {"Open", "Opening"} /\ UNCHANGED issue
    BY <1>7 DEF ApiClose, ClosableStatus, StatusNow, shared
  <2>4. Life!Asks(r, i)
    BY <1>a, <2>2, <2>3 DEF Life!Asks, StatusNow, AskedNow
  <2> QED BY <2>4 DEF Life!LifeNext
<1>8. CASE ApiCloseWrite(r)
  <2> PICK h : h = [req[r] EXCEPT !.pc = "closeComment"]
    OBVIOUS
  <2>1. req' = [req EXCEPT ![r] = h] /\ h.pc # "closeWrite"
    BY <1>0, <1>8 DEF ApiCloseWrite, Step, Handler
  <2>2. AskedNow' = [AskedNow EXCEPT ![r] = NoIssue]
    BY <1>1, <2>1
  <2>3. AskedNow[r] = req[r].issue /\ AskedNow[r] \in IssueId /\ AskedNow[r] # NoIssue
    BY <1>8, <1>b, IssueAssumption DEF ApiCloseWrite, AskedNow
  <2>4. Life!Turns(AskedNow[r], "Closing")
    BY <1>8, <2>3, StatusTurns DEF ApiCloseWrite
  <2>5. Life!Closes(r)
    BY <1>a, <2>2, <2>3, <2>4 DEF Life!Closes, AskedNow
  <2> QED BY <2>5 DEF Life!LifeNext
<1>9. ASSUME NEW i \in IssueId, ApiOpenInsert(r, i) PROVE Life!LifeNext
  <2>1. StatusNow[i] = Absent /\ Life!Turns(i, "Opening")
    BY <1>9, InsertOpens DEF ApiOpenInsert
  <2> PICK h : h = [Idle EXCEPT !.pc = "openSend", !.issue = i]
    OBVIOUS
  <2>2. req' = [req EXCEPT ![r] = h] /\ h.pc # "closeWrite" /\ ~At(r, "closeWrite")
    BY <1>9 DEF ApiOpenInsert, Idle, At
  <2>3. UNCHANGED AskedNow
    BY <1>2, <2>2
  <2>4. Life!Opened(i)
    BY <1>a, <2>1, <2>3 DEF Life!Opened, StatusNow, AskedNow, Life!Absent, Absent
  <2> QED BY <2>4 DEF Life!LifeNext
<1>10. CASE ApiUpdateWrite(r)
  <2> DEFINE i == req[r].issue
             dropped == Narrowed(issue[i].target, req[r].was, req[r].offline)
             h == [req[r] EXCEPT !.pc = "check", !.todo = dropped]
  <2>1. issue' = [issue EXCEPT ![i] = Updated(issue[i], req[r])]
    BY <1>10 DEF ApiUpdateWrite
  <2>2. \A j \in IssueId : issue'[j].status = issue[j].status
    <3> SUFFICES ASSUME NEW j \in IssueId PROVE issue'[j].status = issue[j].status
      OBVIOUS
    <3>1. issue[j] \in IssueRow
      BY <1>0
    <3>2. issue'[j] = IF j = i THEN Updated(issue[j], req[r]) ELSE issue[j]
      BY <1>0, <2>1
    <3> QED BY <3>1, <3>2 DEF Updated, IssueRow
  <2>3. UNCHANGED StatusNow
    BY <2>2 DEF StatusNow
  <2>4. Done(r) \/ req' = [req EXCEPT ![r] = h]
    BY <1>0, <1>10 DEF ApiUpdateWrite
  <2>5. h.pc # "closeWrite" /\ Idle.pc # "closeWrite" /\ ~At(r, "closeWrite")
    BY <1>0, <1>10 DEF Handler, Idle, ApiUpdateWrite, At
  <2> HIDE DEF h
  <2>6. UNCHANGED AskedNow
    BY <1>2, <2>4, <2>5 DEF Done
  <2> QED BY <1>3, <2>3, <2>6
<1>11. CASE ApiOpenSend(r) \/ ApiOpenComment(r) \/ ApiCloseComment(r) \/ ApiCloseSend(r)
            \/ ApiUpdateSend(r) \/ ApiRelease(r)
  <2>1. /\ UNCHANGED issue /\ ~At(r, "closeWrite")
        /\ Done(r) \/ \E pc \in ReqPc \ {"closeWrite"} : Step(r, pc)
    BY <1>11 DEF ApiOpenSend, ApiOpenComment, ApiCloseComment, ApiCloseSend, ApiUpdateSend,
       ApiRelease, At, ReqPc
  <2>2. UNCHANGED AskedNow
    BY <1>2, <1>4, <1>c, <2>1 DEF Done
  <2> QED BY <1>3, <1>5, <2>1, <2>2
<1>12. ASSUME NEW n \in AskNode, NEW t \in AskTitle, NEW off \in AskOffline, ApiOpen(r, n, t, off)
       PROVE  UNCHANGED Life!lvars
  <2>1. CASE UNCHANGED req
    <3>1. UNCHANGED AskedNow
      BY <2>1 DEF AskedNow, At
    <3> QED BY <1>3, <1>5, <1>12, <3>1 DEF ApiOpen
  <2>2. CASE ~UNCHANGED req
    <3> PICK h : h = [Idle EXCEPT !.pc = "openInsert", !.node = n, !.title = t, !.offline = off]
      OBVIOUS
    <3>1. req' = [req EXCEPT ![r] = h] /\ h.pc # "closeWrite" /\ ~At(r, "closeWrite")
      BY <1>12, <2>2 DEF ApiOpen, Idle, At
    <3>2. UNCHANGED AskedNow
      BY <1>2, <3>1
    <3> QED BY <1>3, <1>5, <1>12, <3>2 DEF ApiOpen
  <2> QED BY <2>1, <2>2
<1>13. ASSUME NEW i \in IssueId, NEW t \in AskTitle \cup {Absent}, NEW off \in AskOffline,
              ApiUpdate(r, i, t, off)
       PROVE  UNCHANGED Life!lvars
  <2> DEFINE want == Wanted(issue[i].toOffline, off)
             h == [Idle EXCEPT !.pc = "updateSend", !.issue = i,
                     !.title = IF t = issue[i].title THEN Absent ELSE t,
                     !.offline = IF want = issue[i].toOffline THEN NoOffline ELSE want,
                     !.was = issue[i].toOffline]
  <2>1. req' = [req EXCEPT ![r] = h] /\ At(r, "idle") /\ UNCHANGED issue
    BY <1>13 DEF ApiUpdate
  <2>2. h.pc # "closeWrite"
    BY DEF Idle
  <2> HIDE DEF h
  <2>3. UNCHANGED AskedNow
    BY <1>2, <2>1, <2>2 DEF At
  <2> QED BY <1>3, <1>5, <2>1, <2>3
<1>14. ASSUME NEW c, ~At(r, "closeWrite"), UNCHANGED issue,
              req' = [req EXCEPT ![r] = Without(req[r], c)]
       PROVE  UNCHANGED Life!lvars
  <2> PICK h : h = Without(req[r], c)
    OBVIOUS
  <2>1. h.pc # "closeWrite"
    BY <1>0 DEF Without, Idle, Handler
  <2>2. UNCHANGED AskedNow
    BY <1>2, <1>14, <2>1
  <2> QED BY <1>3, <1>5, <1>14, <2>2
<1>15. CASE Desires(r)
  <2>1. UNCHANGED issue /\ ~At(r, "closeWrite")
    BY <1>15, DesireMoves DEF At
  <2>2. ASSUME NEW h, req' = [req EXCEPT ![r] = h], h.pc \in {"search", "release"}
        PROVE  UNCHANGED Life!lvars
    <3>1. UNCHANGED AskedNow
      BY <1>2, <2>1, <2>2
    <3> QED BY <1>3, <1>5, <2>1, <3>1
  <2> QED BY <1>14, <1>15, <2>1, <2>2, DesireMoves
<1>16. CASE ApiReleaseFails(r) \/ ApiResumed(r)
  BY <1>0, <1>14, <1>16 DEF ApiReleaseFails, ApiResumed, At, shared
<1> QED
  BY <1>6, <1>7, <1>8, <1>9, <1>10, <1>11, <1>12, <1>13, <1>15, <1>16
  DEF ApiArrive, ApiStep, Desires

LEMMA InitLives == Init => Life!LifeInit
<1> SUFFICES ASSUME Init PROVE Life!LifeInit
  OBVIOUS
<1>1. Pass = "idle" /\ toOpen = {} /\ toClose = {} /\ closing = {}
  BY DEF Init, SyncInit, Pass, AllHandled
<1>2. AskedNow = [r \in Req |-> NoIssue]
  BY DEF Init, ApiInit, Idle, AskedNow, At
<1>3. ASSUME NEW i \in IssueId PROVE issue[i].status \in Life!LifeStatus \cup {Absent}
  <2>1. issue[i] \in IssueRow
    BY InitType DEF TypeInv, TypeOK, SharedTypeOK
  <2> QED BY <2>1 DEF IssueRow, IssueStatus, Life!LifeStatus
<1>4. StatusNow \in [IssueId -> Life!LifeStatus \cup {Life!Absent}]
  BY <1>3 DEF StatusNow, Life!Absent, Absent
<1> QED BY <1>1, <1>2, <1>4 DEF Life!LifeInit, StatusNow, AskedNow

LEMMA NextLives ==
  TypeInv /\ DoomedAtOnce /\ [Next]_vars => [Life!LifeNext]_Life!lvars
<1> SUFFICES ASSUME TypeInv, DoomedAtOnce, [Next]_vars PROVE Life!LifeNext \/ UNCHANGED Life!lvars
  OBVIOUS
<1>1. CASE SyncTask
  BY <1>1, LoopLives DEF SyncTask
<1>2. ASSUME NEW r \in Req, ApiArrive(r) \/ ApiStep(r) \/ ApiDropped(r), UNCHANGED loop
      PROVE  Life!LifeNext \/ UNCHANGED Life!lvars
  BY <1>2, RequestLives
<1>3. CASE UNCHANGED <<issue, loop, req>>
  <2>1. UNCHANGED <<StatusNow, Pass, toOpen, toClose, closing, AskedNow>>
    BY <1>3 DEF loop, StatusNow, AskedNow, At, Pass, AllHandled
  <2> QED BY <2>1 DEF Life!lvars, Life!found, StatusNow, AskedNow
<1>4. CASE Restart
  <2>1. /\ Pass' = "idle" /\ toOpen' = {} /\ toClose' = {} /\ closing' = {} /\ UNCHANGED issue
    BY <1>4 DEF Restart, SyncReset, Pass, AllHandled
  <2>2. AskedNow' = [r \in Req |-> NoIssue]
    BY <1>4 DEF Restart, Idle, AskedNow, At
  <2>3. Life!Dies
    BY <2>1, <2>2 DEF Life!Dies, AskedNow
  <2> QED BY <2>3 DEF Life!LifeNext
<1> QED
  BY <1>1, <1>2, <1>3, <1>4
  DEF Next, Arrive, ApiTask, Drop, Receive, Environment, Panic, Crash, Quiesce, vars, shared

(* Through every interleaving, crash and dropped request, tickets live as  *)
(* TicketLife says: whatever goes back, goes back because the loop or a    *)
(* request wrote a status on what it had read before.                      *)
THEOREM LifeCorrect == Spec => TicketsLive
<1>1. Init => Life!LifeInit
  BY InitLives
<1>2. Init => TypeInv /\ DoomedAtOnce
  BY InitType DEF Init, SyncInit, DoomedAtOnce
<1>3. TypeInv /\ DoomedAtOnce /\ [Next]_vars => (TypeInv /\ DoomedAtOnce)'
  BY NextType, NextDoomed
<1>4. TypeInv /\ DoomedAtOnce /\ [Next]_vars => [Life!LifeNext]_Life!lvars
  BY NextLives
<1> QED BY <1>1, <1>2, <1>3, <1>4, PTL DEF Spec, TicketsLive, Life!LifeSpec
=============================================================================

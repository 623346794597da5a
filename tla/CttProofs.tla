----------------------------- MODULE CttProofs -----------------------------
(***************************************************************************)
(* Proofs about the server, for every set of names, groups, requests and   *)
(* issue ids.                                                              *)
(***************************************************************************)
EXTENDS CttProperties, TLAPS

-----------------------------------------------------------------------------
(* What the locals of the tasks hold beyond their types: while the loop is *)
(* busy with a node, that node is still to be finished, and a request      *)
(* knows the node and the title it opens with, or the issue it is about.   *)

BetweenNodes == {"tick", "readClosing", "stat", "readTargets", "readExpected", "node"}

NodeInTodo == spc \notin BetweenNodes => node \in todo
KnowsItsArguments(h) ==
  /\ h.pc = "openInsert" => h.node \in Name /\ h.title \in Title
  /\ h.pc \notin {"idle", "openInsert"} => h.issue \in IssueId
RequestLocals == \A r \in Req : KnowsItsArguments(req[r])

TypeInv == TypeOK /\ NodeInTodo /\ RequestLocals

(* Lemmas on the operators the actions are built from.                     *)

LEMMA StatusOfType == \A v : StatusOf(v) \in TargetStatus \cup {Absent}
BY DEF StatusOf, TargetStatus

LEMMA NodesStatusType == NodesStatus \in [Name -> TargetStatus \cup {Absent}]
BY StatusOfType DEF NodesStatus

LEMMA ExpectedStateType == ExpectedState \in [Name -> {"Offline", "Down", "Unset"}]
<1> DEFINE about(n) == {i \in WithStatus(OpenStatus) : n \in Related(i)}
           value(n) == CASE \E i \in about(n) : issue[i].toOffline # NoOffline -> "Offline"
                         [] about(n) # {} /\ \A i \in about(n) : issue[i].toOffline = NoOffline
                              -> "Down"
                         [] OTHER -> "Unset"
<1>1. ExpectedState = [n \in Name |-> value(n)]
  BY DEF ExpectedState
<1>2. \A n \in Name : value(n) \in {"Offline", "Down", "Unset"}
  <2> TAKE n \in Name
  <2> DEFINE P == \E i \in about(n) : issue[i].toOffline # NoOffline
             Q == about(n) # {} /\ \A i \in about(n) : issue[i].toOffline = NoOffline
  <2> HIDE DEF P, Q
  <2>1. (CASE P -> "Offline" [] Q -> "Down" [] OTHER -> "Unset") \in {"Offline", "Down", "Unset"}
    OBVIOUS
  <2> QED BY <2>1 DEF P, Q
<1> QED BY <1>1, <1>2

LEMMA FromNameType ==
  ASSUME NEW S, target \in [Name -> TargetStatus \cup {Absent}], FromName(S)
  PROVE  target' \in [Name -> TargetStatus \cup {Absent}]
BY DEF FromName, WithRows, TargetStatus

LEMMA MergedType ==
  ASSUME old \in [Name -> TargetStatus \cup {Absent}]
  PROVE  Merged \in [Name -> TargetStatus \cup {Absent}]
BY DEF Merged, TargetStatus

LEMMA InsertIssueType ==
  ASSUME NEW i \in IssueId, NEW n \in Name, NEW t \in Title, NEW off \in ToOffline \cup {NoOffline},
         issue \in [IssueId -> IssueRow], InsertIssue(i, n, t, off)
  PROVE  issue' \in [IssueId -> IssueRow]
BY DEF InsertIssue, IssueRow, IssueStatus

LEMMA SetStatusType ==
  ASSUME NEW i, NEW s \in IssueStatus, issue \in [IssueId -> IssueRow], SetStatus(i, s)
  PROVE  issue' \in [IssueId -> IssueRow]
BY DEF SetStatus, IssueRow

LEMMA AddCommentType ==
  ASSUME NEW i, NEW k \in CommentKind, comment \in [IssueId -> SUBSET CommentKind],
         AddComment(i, k)
  PROVE  comment' \in [IssueId -> SUBSET CommentKind]
BY DEF AddComment

LEMMA PbsCallType ==
  ASSUME NEW n, pbs \in [Name -> Vnode], ReleaseNode(n) \/ OfflineNode(n)
  PROVE  pbs' \in [Name -> Vnode]
BY DEF ReleaseNode, OfflineNode, Vnode

LEMMA QueriesType ==
  ASSUME NEW n \in Name, NEW skip
  PROVE  Queries(n, skip) \subseteq {"Card", "Blade"} \X Name
BY GroupAssumption DEF Queries

LEMMA SendType ==
  ASSUME chan \in 0 .. ChanCap, Send
  PROVE  chan' \in 0 .. ChanCap
BY ChanAssumption DEF Send

-----------------------------------------------------------------------------
(* Every variable keeps its type.                                          *)

LEMMA ResetType == SyncReset => SyncTypeOK' /\ NodeInTodo'
BY DEF SyncReset, SyncTypeOK, SyncPc, NoReading, TargetStatus, NodeInTodo, BetweenNodes

LEMMA SyncType ==
  ASSUME TypeInv, SyncNext
  PROVE  SharedTypeOK' /\ SyncTypeOK' /\ NodeInTodo'
<1> USE DEF TypeInv, TypeOK
<1> USE DEF NodeInTodo, BetweenNodes, SyncTypeOK, SyncPc, search
<1>1. CASE SyncReadOpening
  BY <1>1 DEF SyncReadOpening, OpeningRead, WithStatus, shared, SharedTypeOK
<1>2. CASE SyncReadClosing
  BY <1>2 DEF SyncReadClosing, ClosingRead, WithStatus, shared, SharedTypeOK
<1>3. CASE SyncStat
  BY <1>3, NodesStatusType DEF SyncStat, shared, SharedTypeOK
<1>4. CASE SyncStatFails
  BY <1>4, ResetType DEF SyncStatFails, shared, SharedTypeOK
<1>5. CASE SyncReadTargets
  BY <1>5 DEF SyncReadTargets, shared, SharedTypeOK
<1>6. CASE SyncReadExpected
  BY <1>6, ExpectedStateType, MergedType, FromNameType DEF SyncReadExpected, SharedTypeOK
<1>7. ASSUME NEW n \in Name, SyncMissing(n) PROVE SharedTypeOK' /\ SyncTypeOK' /\ NodeInTodo'
  BY <1>7 DEF SyncMissing, AtNode, Goto, NextNode, readings, shared, SharedTypeOK
<1>8. ASSUME NEW n \in Name, SyncAsExpected(n) PROVE SharedTypeOK' /\ SyncTypeOK' /\ NodeInTodo'
  BY <1>8 DEF SyncAsExpected, AtNode, Settle, NextNode, readings, shared, SharedTypeOK
<1>9. ASSUME NEW n \in Name, SyncOffline(n) PROVE SharedTypeOK' /\ SyncTypeOK' /\ NodeInTodo'
  BY <1>9, PbsCallType DEF SyncOffline, AtNode, Goto, readings, SharedTypeOK, TargetStatus
<1>10. ASSUME NEW n \in Name, SyncUnexpected(n) PROVE SharedTypeOK' /\ SyncTypeOK' /\ NodeInTodo'
  BY <1>10 DEF SyncUnexpected, AtNode, Goto, readings, shared, SharedTypeOK
<1>11. ASSUME NEW n \in Name, SyncFoundUp(n) PROVE SharedTypeOK' /\ SyncTypeOK' /\ NodeInTodo'
  BY <1>11 DEF SyncFoundUp, AtNode, Goto, readings, shared, SharedTypeOK, TargetStatus
<1>12. CASE SyncRelated
  <2>1. target' \in [Name -> TargetStatus \cup {Absent}]
    BY <1>12, FromNameType DEF SyncRelated, SharedTypeOK
  <2>2. node \in Name /\ node \in todo
    BY <1>12 DEF SyncRelated
  <2>3. /\ UNCHANGED <<readings, closing, iss, issue, comment, pbs, chan>>
        /\ \/ Goto("search") /\ UNCHANGED <<node, final>>
           \/ Settle(node, seen[node])
    BY <1>12 DEF SyncRelated
  <2>4. left' \subseteq {"Card", "Blade"} \X Name /\ hit' \in BOOLEAN
    <3>1. CASE node \in Real
      <4>1. left' = Queries(node, {node}) /\ hit' = ClosingOn(node, ToOffline)
        BY <1>12, <3>1 DEF SyncRelated
      <4>2. left' \subseteq {"Card", "Blade"} \X Name
        BY <2>2, <4>1, QueriesType
      <4>3. hit' \in BOOLEAN
        BY <4>1 DEF ClosingOn, Shows
      <4> QED BY <4>2, <4>3
    <3>2. CASE node \notin Real
      BY <1>12, <3>2 DEF SyncRelated
    <3> QED BY <3>1, <3>2
  <2> QED BY <2>1, <2>2, <2>3, <2>4 DEF Goto, Settle, NextNode, readings, SharedTypeOK
<1>13. ASSUME NEW q \in left, SyncSearch(q) PROVE SharedTypeOK' /\ SyncTypeOK' /\ NodeInTodo'
  BY <1>13, FromNameType DEF SyncSearch, ClosingOn, Shows, readings, SharedTypeOK
<1>14. CASE SyncExplained
  BY <1>14 DEF SyncExplained, Goto, readings, shared, SharedTypeOK
<1>15. CASE SyncRelease
  BY <1>15, PbsCallType DEF SyncRelease, Goto, readings, SharedTypeOK, TargetStatus
<1>16. CASE SyncSend
  BY <1>16, SendType DEF SyncSend, Settle, NextNode, readings, SharedTypeOK
<1>17. CASE SyncCloseQuery
  BY <1>17, FromNameType DEF SyncCloseQuery, Goto, Live, Inserted, readings, SharedTypeOK
<1>18. ASSUME NEW i \in IssueId, SyncCloseIssue(i) PROVE SharedTypeOK' /\ SyncTypeOK' /\ NodeInTodo'
  BY <1>18, SetStatusType DEF SyncCloseIssue, Goto, IssueStatus, readings, SharedTypeOK
<1>19. CASE SyncCloseComment
  BY <1>19, AddCommentType DEF SyncCloseComment, Goto, CommentKind, readings, SharedTypeOK
<1>20. CASE SyncClosedAll
  BY <1>20 DEF SyncClosedAll, Settle, NextNode, readings, shared, SharedTypeOK
<1>21. CASE SyncOpenLookup
  BY <1>21, FromNameType DEF SyncOpenLookup, Opened, Goto, Settle, NextNode, readings, SharedTypeOK
<1>22. ASSUME NEW i \in IssueId, SyncOpenInsert(i) PROVE SharedTypeOK' /\ SyncTypeOK' /\ NodeInTodo'
  <2>1. node \in Name /\ Reason \in Title
    BY <1>22, TitleAssumption DEF SyncOpenInsert, Reason
  <2>2. issue' \in [IssueId -> IssueRow]
    BY <1>22, <2>1, InsertIssueType DEF SyncOpenInsert, SharedTypeOK
  <2> QED BY <1>22, <2>2 DEF SyncOpenInsert, Goto, readings, SharedTypeOK
<1>23. CASE SyncOpenSend
  BY <1>23, SendType DEF SyncOpenSend, Goto, readings, SharedTypeOK
<1>24. CASE SyncOpenComment
  BY <1>24, AddCommentType DEF SyncOpenComment, CommentKind, Opened, Settle, NextNode, readings,
                               SharedTypeOK
<1>25. CASE SyncRecord
  BY <1>25 DEF SyncRecord, NextNode, readings, SharedTypeOK
<1>26. ASSUME NEW i \in IssueId, SyncSettleOpen(i) PROVE SharedTypeOK' /\ SyncTypeOK' /\ NodeInTodo'
  BY <1>26, SetStatusType DEF SyncSettleOpen, AllHandled, IssueStatus, SharedTypeOK
<1>27. ASSUME NEW i \in IssueId, SyncSettleClosed(i)
       PROVE  SharedTypeOK' /\ SyncTypeOK' /\ NodeInTodo'
  BY <1>27, SetStatusType DEF SyncSettleClosed, AllHandled, IssueStatus, SharedTypeOK
<1>28. CASE SyncEnd
  BY <1>28, ResetType DEF SyncEnd, shared, SharedTypeOK
<1> QED
  BY <1>1, <1>2, <1>3, <1>4, <1>5, <1>6, <1>7, <1>8, <1>9, <1>10, <1>11, <1>12, <1>15,
     <1>16, <1>17, <1>18, <1>19, <1>20, <1>21, <1>22, <1>23, <1>24, <1>25, <1>26, <1>27, <1>28,
     <1>13, <1>14
  DEF SyncNext

LEMMA IdleType == Idle \in Handler /\ KnowsItsArguments(Idle)
BY DEF Idle, Handler, ReqPc, KnowsItsArguments

LEMMA WithoutType ==
  ASSUME NEW h \in Handler, NEW c, h.issue \in IssueId
  PROVE  Without(h, c) \in Handler /\ KnowsItsArguments(Without(h, c))
BY DEF Without, Idle, Handler, ReqPc, KnowsItsArguments

LEMMA UpdatedType ==
  ASSUME NEW row \in IssueRow, NEW h \in Handler
  PROVE  Updated(row, h) \in IssueRow
BY DEF Updated, IssueRow, Handler

(* A request that moves on with locals that know enough stays well typed.  *)
LEMMA RequestMoves ==
  ASSUME TypeInv, NEW r \in Req,
         \/ Done(r)
         \/ \E h \in Handler : KnowsItsArguments(h) /\ req' = [req EXCEPT ![r] = h]
         \/ \E pc \in ReqPc \ {"idle", "openInsert"} : req[r].issue \in IssueId /\ Step(r, pc)
  PROVE  ApiTypeOK' /\ RequestLocals'
<1> DEFINE h(pc) == [req[r] EXCEPT !.pc = pc]
<1>1. ApiTypeOK /\ RequestLocals
  BY DEF TypeInv, TypeOK
<1>2. ASSUME NEW pc \in ReqPc \ {"idle", "openInsert"}, req[r].issue \in IssueId
      PROVE  h(pc) \in Handler /\ KnowsItsArguments(h(pc))
  BY <1>1, <1>2 DEF ApiTypeOK, Handler, KnowsItsArguments
<1>3. \E g \in Handler : KnowsItsArguments(g) /\ req' = [req EXCEPT ![r] = g]
  <2>1. CASE Done(r)
    BY <2>1, IdleType DEF Done
  <2>2. ASSUME NEW pc \in ReqPc \ {"idle", "openInsert"}, Step(r, pc)
        PROVE  req' = [req EXCEPT ![r] = h(pc)]
    BY <2>2 DEF Step
  <2>3. CASE \E pc \in ReqPc \ {"idle", "openInsert"} : req[r].issue \in IssueId /\ Step(r, pc)
    BY <2>3, <2>2, <1>2
  <2>4. CASE \E g \in Handler : KnowsItsArguments(g) /\ req' = [req EXCEPT ![r] = g]
    BY <2>4
  <2> QED BY <2>1, <2>3, <2>4
<1>4. PICK g \in Handler : KnowsItsArguments(g) /\ req' = [req EXCEPT ![r] = g]
  BY <1>3
<1>5. \A q \in Req : req'[q] = IF q = r THEN g ELSE req[q]
  BY <1>1, <1>4 DEF ApiTypeOK
<1>6. ApiTypeOK'
  BY <1>1, <1>4 DEF ApiTypeOK
<1>7. RequestLocals'
  BY <1>1, <1>4, <1>5 DEF RequestLocals
<1> QED BY <1>6, <1>7

LEMMA ApiType ==
  ASSUME TypeInv, NEW r \in Req, ApiArrive(r) \/ ApiStep(r) \/ ApiDropped(r)
  PROVE  SharedTypeOK' /\ ApiTypeOK' /\ RequestLocals'
<1> DEFINE Typed == SharedTypeOK /\ ApiTypeOK /\ RequestLocals
<1>0. Typed
  BY DEF TypeInv, TypeOK
<1>a. req[r] \in Handler
  BY <1>0 DEF ApiTypeOK
<1>b. req[r].pc \notin {"idle", "openInsert"} => req[r].issue \in IssueId
  BY <1>0 DEF RequestLocals, KnowsItsArguments
<1>1. ASSUME NEW n \in AskNode, NEW t \in AskTitle, NEW off \in AskOffline, ApiOpen(r, n, t, off)
      PROVE  Typed'
  <2> DEFINE h == [Idle EXCEPT !.pc = "openInsert", !.node = n, !.title = t, !.offline = off]
  <2>1. h \in Handler /\ KnowsItsArguments(h)
    BY RequestAssumption, NameAssumption DEF Idle, Handler, ReqPc, KnowsItsArguments
  <2>2. CASE UNCHANGED req
    BY <1>0, <1>1, <2>2, FromNameType DEF ApiOpen, SharedTypeOK, ApiTypeOK, RequestLocals
  <2>3. CASE req' = [req EXCEPT ![r] = h]
    <3>1. ApiTypeOK' /\ RequestLocals'
      BY <2>1, <2>3, RequestMoves
    <3> QED BY <1>0, <1>1, <3>1, FromNameType DEF ApiOpen, SharedTypeOK
  <2> QED BY <1>1, <2>2, <2>3 DEF ApiOpen
<1>2. ASSUME NEW i \in IssueId, ApiOpenInsert(r, i) PROVE Typed'
  <2> DEFINE h == [Idle EXCEPT !.pc = "openSend", !.issue = i]
  <2>1. h \in Handler /\ KnowsItsArguments(h)
    BY DEF Idle, Handler, ReqPc, KnowsItsArguments
  <2>2. ApiTypeOK' /\ RequestLocals'
    BY <2>1, <1>2, RequestMoves DEF ApiOpenInsert
  <2>3. req[r].node \in Name /\ req[r].title \in Title /\ req[r].offline \in ToOffline \cup {NoOffline}
    BY <1>0, <1>2, <1>a DEF ApiOpenInsert, At, RequestLocals, KnowsItsArguments, Handler
  <2>4. issue' \in [IssueId -> IssueRow]
    BY <1>0, <1>2, <2>3, InsertIssueType DEF ApiOpenInsert, SharedTypeOK
  <2> QED BY <1>0, <1>2, <2>2, <2>4 DEF ApiOpenInsert, SharedTypeOK
<1>3. CASE ApiOpenSend(r)
  <2>1. ApiTypeOK' /\ RequestLocals'
    BY <1>3, <1>b, RequestMoves DEF ApiOpenSend, At, ReqPc
  <2> QED BY <1>0, <1>3, <2>1, SendType DEF ApiOpenSend, SharedTypeOK
<1>4. CASE ApiOpenComment(r)
  <2>1. ApiTypeOK' /\ RequestLocals'
    BY <1>4, <1>b, RequestMoves DEF ApiOpenComment, At, ReqPc
  <2> QED BY <1>0, <1>4, <2>1, AddCommentType DEF ApiOpenComment, SharedTypeOK, CommentKind
<1>5. ASSUME NEW i \in IssueId, ApiClose(r, i) PROVE Typed'
  <2> DEFINE h == [Idle EXCEPT !.pc = "closeWrite", !.issue = i]
  <2>1. h \in Handler /\ KnowsItsArguments(h)
    BY DEF Idle, Handler, ReqPc, KnowsItsArguments
  <2>2. ApiTypeOK' /\ RequestLocals'
    BY <2>1, <1>5, RequestMoves DEF ApiClose
  <2> QED BY <1>0, <1>5, <2>2 DEF ApiClose, SharedTypeOK, shared
<1>6. CASE ApiCloseWrite(r)
  <2>1. ApiTypeOK' /\ RequestLocals'
    BY <1>6, <1>b, RequestMoves DEF ApiCloseWrite, At, ReqPc
  <2> QED BY <1>0, <1>6, <2>1, SetStatusType DEF ApiCloseWrite, SharedTypeOK, IssueStatus
<1>7. CASE ApiCloseComment(r)
  <2>1. ApiTypeOK' /\ RequestLocals'
    BY <1>7, <1>b, RequestMoves DEF ApiCloseComment, At, ReqPc
  <2> QED BY <1>0, <1>7, <2>1, AddCommentType DEF ApiCloseComment, SharedTypeOK, CommentKind
<1>8. CASE ApiCloseSend(r)
  <2>1. ApiTypeOK' /\ RequestLocals'
    BY <1>8, <1>b, RequestMoves DEF ApiCloseSend, At, ReqPc
  <2> QED BY <1>0, <1>8, <2>1, SendType DEF ApiCloseSend, SharedTypeOK
<1>9. ASSUME NEW i \in IssueId, NEW t \in AskTitle \cup {Absent}, NEW off \in AskOffline,
             ApiUpdate(r, i, t, off)
      PROVE  Typed'
  <2> DEFINE row == issue[i]
             want == Wanted(row.toOffline, off)
             newOff == IF want = row.toOffline THEN NoOffline ELSE want
             newTitle == IF t = row.title THEN Absent ELSE t
             h == [Idle EXCEPT !.pc = "updateSend", !.issue = i, !.title = newTitle,
                               !.offline = newOff, !.was = row.toOffline]
  <2>1. row.toOffline \in ToOffline \cup {NoOffline} /\ newOff \in ToOffline \cup {NoOffline}
        /\ newTitle \in Title \cup {Absent}
    BY <1>0, RequestAssumption DEF SharedTypeOK, IssueRow, Wanted, ToOffline
  <2>2. h \in Handler /\ KnowsItsArguments(h)
    BY <2>1 DEF Idle, Handler, ReqPc, KnowsItsArguments
  <2>3. req' = [req EXCEPT ![r] = h]
    BY <1>9 DEF ApiUpdate
  <2>4. ApiTypeOK' /\ RequestLocals'
    BY <2>2, <2>3, RequestMoves
  <2>5. comment' \in [IssueId -> SUBSET CommentKind]
    BY <1>0, <1>9, AddCommentType DEF ApiUpdate, SharedTypeOK, CommentKind
  <2> QED BY <1>0, <1>9, <2>4, <2>5 DEF ApiUpdate, SharedTypeOK
<1>10. CASE ApiUpdateSend(r)
  <2>1. ApiTypeOK' /\ RequestLocals'
    BY <1>10, <1>b, RequestMoves DEF ApiUpdateSend, At, ReqPc
  <2> QED BY <1>0, <1>10, <2>1, SendType DEF ApiUpdateSend, SharedTypeOK
<1>11. CASE ApiUpdateWrite(r)
  <2> DEFINE i == req[r].issue
             dropped == Narrowed(issue[i].target, req[r].was, req[r].offline)
             h == [req[r] EXCEPT !.pc = "check", !.todo = dropped]
  <2>1. i \in IssueId
    BY <1>11, <1>b DEF ApiUpdateWrite, At
  <2>2. issue[i] \in IssueRow /\ issue[i].target \in Name
    BY <1>0, <2>1 DEF SharedTypeOK, IssueRow
  <2>3. Updated(issue[i], req[r]) \in IssueRow
    BY <1>a, <2>2, UpdatedType
  <2>4. issue' = [issue EXCEPT ![i] = Updated(issue[i], req[r])]
    BY <1>0, <2>1, <1>11 DEF ApiUpdateWrite, SharedTypeOK
  <2>5. issue' \in [IssueId -> IssueRow]
    BY <1>0, <2>3, <2>4 DEF SharedTypeOK
  <2>6. dropped \in SUBSET Name
    BY <2>2, GroupAssumption DEF Narrowed
  <2>7. h \in Handler /\ KnowsItsArguments(h)
    BY <1>a, <2>1, <2>6 DEF Handler, ReqPc, KnowsItsArguments
  <2>8. Done(r) \/ req' = [req EXCEPT ![r] = h]
    BY <1>0, <1>11 DEF ApiUpdateWrite, ApiTypeOK
  <2>9. ApiTypeOK' /\ RequestLocals'
    BY <2>7, <2>8, RequestMoves
  <2> QED BY <1>0, <1>11, <2>5, <2>9 DEF ApiUpdateWrite, SharedTypeOK
<1>12. ASSUME NEW c \in Name, ApiCheck(r, c) PROVE Typed'
  <2> DEFINE h == [req[r] EXCEPT !.pc = "search", !.node = c, !.left = Queries(c, {})]
  <2>1. req[r].issue \in IssueId
    BY <1>12, <1>b DEF ApiCheck, At
  <2>2. h \in Handler /\ KnowsItsArguments(h)
    BY <1>a, <2>1, QueriesType DEF Handler, ReqPc, KnowsItsArguments
  <2>3. Without(req[r], c) \in Handler /\ KnowsItsArguments(Without(req[r], c))
    BY <1>a, <2>1, WithoutType
  <2>4. req' = [req EXCEPT ![r] = h] \/ req' = [req EXCEPT ![r] = Without(req[r], c)]
    BY <1>0, <1>12 DEF ApiCheck, ApiTypeOK
  <2>5. ApiTypeOK' /\ RequestLocals'
    BY <2>2, <2>3, <2>4, RequestMoves
  <2> QED BY <1>0, <1>12, <2>5, FromNameType DEF ApiCheck, SharedTypeOK
<1>13. ASSUME NEW q \in req[r].left, ApiSearch(r, q) PROVE Typed'
  <2> DEFINE h == [req[r] EXCEPT !.left = req[r].left \ {q}]
             g == Without(req[r], req[r].node)
  <2>1. req[r].issue \in IssueId
    BY <1>13, <1>b DEF ApiSearch, At
  <2>2. h \in Handler /\ KnowsItsArguments(h)
    BY <1>0, <1>a, <2>1 DEF Handler, ReqPc, RequestLocals, KnowsItsArguments
  <2>3. g \in Handler /\ KnowsItsArguments(g)
    BY <1>a, <2>1, WithoutType
  <2>4. req' = [req EXCEPT ![r] = h] \/ req' = [req EXCEPT ![r] = g]
    BY <1>0, <1>13 DEF ApiSearch, ApiTypeOK
  <2>5. ApiTypeOK' /\ RequestLocals'
    BY <2>2, <2>3, <2>4, RequestMoves
  <2> QED BY <1>0, <1>13, <2>5, FromNameType DEF ApiSearch, SharedTypeOK
<1>14. CASE ApiDesired(r)
  <2> DEFINE h == [req[r] EXCEPT !.pc = "release"]
             g == Without(req[r], req[r].node)
  <2>1. req[r].issue \in IssueId
    BY <1>14, <1>b DEF ApiDesired, At
  <2>2. h \in Handler /\ KnowsItsArguments(h)
    BY <1>a, <2>1 DEF Handler, ReqPc, KnowsItsArguments
  <2>3. g \in Handler /\ KnowsItsArguments(g)
    BY <1>a, <2>1, WithoutType
  <2>4. req' = [req EXCEPT ![r] = h] \/ req' = [req EXCEPT ![r] = g]
    BY <1>0, <1>14 DEF ApiDesired, ApiTypeOK
  <2>5. ApiTypeOK' /\ RequestLocals'
    BY <2>2, <2>3, <2>4, RequestMoves
  <2> QED BY <1>0, <1>14, <2>5 DEF ApiDesired, SharedTypeOK, shared
<1>15. CASE ApiRelease(r)
  <2>1. ApiTypeOK' /\ RequestLocals'
    BY <1>15, <1>b, RequestMoves DEF ApiRelease, At, ReqPc
  <2> QED BY <1>0, <1>15, <2>1, PbsCallType DEF ApiRelease, SharedTypeOK
<1>16. CASE ApiReleaseFails(r)
  <2> DEFINE h == Without(req[r], req[r].node)
  <2>1. h \in Handler /\ KnowsItsArguments(h)
    BY <1>16, <1>a, <1>b, WithoutType DEF ApiReleaseFails, At
  <2>2. req' = [req EXCEPT ![r] = h]
    BY <1>0, <1>16 DEF ApiReleaseFails, ApiTypeOK
  <2>3. ApiTypeOK' /\ RequestLocals'
    BY <2>1, <2>2, RequestMoves
  <2> QED BY <1>0, <1>16, <2>3 DEF ApiReleaseFails, SharedTypeOK, shared
<1>17. CASE ApiResumed(r)
  <2> DEFINE h == Without(req[r], req[r].node)
  <2>1. h \in Handler /\ KnowsItsArguments(h)
    BY <1>17, <1>a, <1>b, WithoutType DEF ApiResumed, At
  <2>2. req' = [req EXCEPT ![r] = h]
    BY <1>0, <1>17 DEF ApiResumed, ApiTypeOK
  <2>3. ApiTypeOK' /\ RequestLocals'
    BY <2>1, <2>2, RequestMoves
  <2> QED BY <1>0, <1>17, <2>3, SendType DEF ApiResumed, SharedTypeOK
<1>18. CASE ApiDropped(r)
  <2>1. ApiTypeOK' /\ RequestLocals'
    BY <1>18, RequestMoves DEF ApiDropped
  <2> QED BY <1>0, <1>18, <2>1 DEF ApiDropped, SharedTypeOK, shared
<1> QED
  BY <1>1, <1>2, <1>3, <1>4, <1>5, <1>6, <1>7, <1>8, <1>9, <1>10, <1>11, <1>12, <1>15,
     <1>13, <1>14, <1>16, <1>17, <1>18
  DEF ApiArrive, ApiStep

LEMMA EnvironmentType ==
  ASSUME SharedTypeOK, Environment
  PROVE  pbs' \in [Name -> Vnode]
<1> PICK n \in Name : NodeChanges(n)
  BY DEF Environment
<1>1. pbs \in [Name -> Vnode] /\ pbs[n] \in Vnode
  BY DEF SharedTypeOK
<1>2. \A b \in BOOLEAN : /\ [pbs[n] EXCEPT !.down = b] \in Vnode
                         /\ [pbs[n] EXCEPT !.jobs = b] \in Vnode
                         /\ [pbs[n] EXCEPT !.offline = b] \in Vnode
  BY <1>1 DEF Vnode
<1>3. Gone \in Vnode /\ [Gone EXCEPT !.present = TRUE] \in Vnode
  BY DEF Gone, Vnode
<1>4. \E v \in Vnode : pbs' = [pbs EXCEPT ![n] = v]
  BY <1>2, <1>3 DEF NodeChanges, Becomes
<1> QED BY <1>1, <1>4

LEMMA InitType == Init => TypeInv
<1> SUFFICES ASSUME Init PROVE TypeInv
  OBVIOUS
<1>1. /\ issue \in [IssueId -> IssueRow] /\ comment \in [IssueId -> SUBSET CommentKind]
      /\ target \in [Name -> TargetStatus \cup {Absent}] /\ pbs \in [Name -> Vnode]
  BY InitAssumption DEF Init, SharedInit
<1>3. chan \in 0 .. ChanCap
  BY ChanAssumption DEF Init, SharedInit, ChannelInit
<1>4. SyncTypeOK /\ NodeInTodo
  BY DEF Init, SyncInit, SyncTypeOK, SyncPc, NoReading, TargetStatus, NodeInTodo, BetweenNodes
<1>5. ApiTypeOK /\ RequestLocals
  BY IdleType DEF Init, ApiInit, ApiTypeOK, RequestLocals
<1> QED BY <1>1, <1>3, <1>4, <1>5 DEF Init, TypeInv, TypeOK, SharedTypeOK

LEMMA NextType == TypeInv /\ [Next]_vars => TypeInv'
<1> SUFFICES ASSUME TypeInv, [Next]_vars PROVE TypeInv'
  OBVIOUS
<1> USE DEF TypeInv, TypeOK
<1>1. CASE SyncTask
  BY <1>1, SyncType DEF SyncTask, ApiTypeOK, RequestLocals
<1>2. ASSUME NEW r \in Req, ApiArrive(r) \/ ApiStep(r) \/ ApiDropped(r), UNCHANGED <<loop, quiet>>
      PROVE  TypeInv'
  BY <1>2, ApiType DEF loop, SyncTypeOK, NodeInTodo
<1>3. CASE Receive
  BY <1>3, ChanAssumption
  DEF Receive, Taken, loop, SharedTypeOK, SyncTypeOK, ApiTypeOK, NodeInTodo, RequestLocals
<1>4. CASE Environment
  BY <1>4, EnvironmentType
     DEF Environment, loop, SharedTypeOK, SyncTypeOK, ApiTypeOK, NodeInTodo, RequestLocals
<1>5. CASE Restart
  <2>1. ApiTypeOK' /\ RequestLocals'
    BY <1>5, IdleType DEF Restart, ApiTypeOK, RequestLocals
  <2> QED BY <1>5, <2>1, ResetType, ChanAssumption DEF Restart, Emptied, SharedTypeOK
<1>6. CASE Quiesce
  BY <1>6 DEF Quiesce, shared, loop, SharedTypeOK, SyncTypeOK, ApiTypeOK, NodeInTodo, RequestLocals
<1>7. CASE UNCHANGED vars
  BY <1>7 DEF vars, shared, loop, SharedTypeOK, SyncTypeOK, ApiTypeOK, NodeInTodo, RequestLocals
<1> QED
  BY <1>1, <1>2, <1>3, <1>4, <1>5, <1>6, <1>7 DEF Next, Arrive, ApiTask, Drop, Panic, Crash

(* Every variable of the server keeps its type, whatever the names, groups,*)
(* requests and bounds, through every interleaving, fault and restart.     *)
THEOREM TypeCorrect == Spec => []TypeOK
<1>1. Init => TypeInv
  BY InitType
<1>2. TypeInv /\ [Next]_vars => TypeInv'
  BY NextType
<1>3. TypeInv => TypeOK
  BY DEF TypeInv
<1> QED BY <1>1, <1>2, <1>3, PTL DEF Spec

-----------------------------------------------------------------------------
(* Frames: what any step may do to a pass under way, to the target rows    *)
(* and to the issues.                                                      *)

PassGoesOn ==
  /\ spc \in AfterReadings /\ spc' \in AfterReadings
  /\ UNCHANGED <<seen, old, expected>>
  /\ todo' \subseteq todo /\ toOpen' \subseteq toOpen /\ toClose' \subseteq toClose

LEMMA SyncPassFrame ==
  ASSUME TypeInv, SyncNext
  PROVE  \/ PassGoesOn
         \/ SyncReadTargets \/ SyncReadExpected
         \/ SyncReadOpening \/ SyncReadClosing \/ SyncStat
         \/ SyncReset
<1> USE DEF PassGoesOn, AfterReadings, SyncPc
<1>1. CASE SyncReset
  BY <1>1
<1>2. CASE SyncReadOpening \/ SyncReadClosing \/ SyncStat \/ SyncReadTargets \/ SyncReadExpected
  BY <1>2
<1>3. ASSUME NEW n \in Name, SyncMissing(n) \/ SyncAsExpected(n) \/ SyncOffline(n)
                             \/ SyncUnexpected(n) \/ SyncFoundUp(n)
      PROVE  PassGoesOn
  BY <1>3 DEF SyncMissing, SyncAsExpected, SyncOffline, SyncUnexpected, SyncFoundUp, AtNode,
              Settle, NextNode, Goto, readings
<1>4. CASE SyncRelated \/ SyncRelease \/ SyncSend \/ SyncRecord
  <2>1. CASE SyncRelated
    <3>1. Goto("search") \/ Settle(node, seen[node])
      BY <2>1 DEF SyncRelated
    <3> QED BY <2>1, <3>1 DEF SyncRelated, Settle, NextNode, Goto, readings
  <2> QED BY <1>4, <2>1 DEF SyncRelease, SyncSend, SyncRecord, Settle, NextNode, Goto, readings
<1>5. CASE (\E q \in left : SyncSearch(q)) \/ SyncExplained
  BY <1>5 DEF SyncSearch, SyncExplained, Goto, readings
<1>6. CASE SyncCloseQuery \/ SyncCloseComment \/ SyncClosedAll
  BY <1>6 DEF SyncCloseQuery, SyncCloseComment, SyncClosedAll, Settle, NextNode, Goto, readings
<1>7. CASE SyncOpenLookup \/ SyncOpenSend \/ SyncOpenComment
  BY <1>7
  DEF SyncOpenLookup, SyncOpenSend, SyncOpenComment, Opened, Settle, NextNode, Goto, readings
<1>8. ASSUME NEW i \in IssueId, SyncCloseIssue(i) \/ SyncOpenInsert(i) \/ SyncSettleOpen(i)
                                \/ SyncSettleClosed(i)
      PROVE  PassGoesOn
  BY <1>8 DEF SyncCloseIssue, SyncOpenInsert, SyncSettleOpen, SyncSettleClosed, AllHandled, Goto,
              readings
<1> QED
  BY <1>1, <1>2, <1>3, <1>4, <1>5, <1>6, <1>7, <1>8 DEF SyncNext, SyncEnd, SyncStatFails

(* Rows appear for real names only; once there a row stays, and only the   *)
(* loop changes its status.                                                *)
RowsAppear ==
  \A n \in Name : \/ target'[n] = target[n]
                  \/ n \in Real /\ target[n] = Absent /\ target'[n] = "Online"

LEMMA FromNameRows ==
  ASSUME TypeInv, NEW S, FromName(S)
  PROVE  RowsAppear
<1>1. DOMAIN target = Name
  BY DEF TypeInv, TypeOK, SharedTypeOK
<1> QED BY <1>1 DEF FromName, WithRows, RowsAppear

LEMMA TargetFrame ==
  ASSUME TypeInv, [Next]_vars
  PROVE  RowsAppear \/ SyncRecord
<1>1. CASE UNCHANGED target
  BY <1>1 DEF RowsAppear
<1>2. ASSUME NEW r \in Req, ApiArrive(r) \/ ApiStep(r) \/ ApiDropped(r) PROVE RowsAppear
  <2>1. UNCHANGED target \/ \E S : FromName(S)
    BY <1>2 DEF ApiArrive, ApiStep, ApiDropped, ApiOpen, ApiOpenInsert, ApiOpenSend,
       ApiOpenComment, ApiClose, ApiCloseWrite, ApiCloseComment, ApiCloseSend, ApiUpdate,
       ApiUpdateSend, ApiUpdateWrite, ApiCheck, ApiSearch, ApiDesired, ApiRelease,
       ApiReleaseFails, ApiResumed, shared
  <2>2. ASSUME NEW S, FromName(S) PROVE RowsAppear
    BY <2>2, FromNameRows
  <2>3. CASE UNCHANGED target
    BY <2>3 DEF RowsAppear
  <2>4. CASE \E S : FromName(S)
    BY <2>4, <2>2
  <2> QED BY <2>1, <2>3, <2>4
<1>3. CASE SyncNext
  <2>1. UNCHANGED target \/ SyncRecord \/ \E S : FromName(S)
    <3>1. CASE \/ SyncRelated \/ SyncCloseQuery \/ SyncOpenLookup \/ SyncReadExpected
               \/ \E q \in left : SyncSearch(q)
      <4>1. SyncRelated => \E S : FromName(S)
        BY DEF SyncRelated
      <4>4. (\E q \in left : SyncSearch(q)) => \E S : FromName(S)
        BY DEF SyncSearch
      <4>2. SyncCloseQuery \/ SyncOpenLookup => \E S : FromName(S)
        BY DEF SyncCloseQuery, SyncOpenLookup
      <4>3. SyncReadExpected => \E S : FromName(S)
        BY DEF SyncReadExpected
      <4> QED BY <3>1, <4>1, <4>2, <4>3, <4>4
    <3>2. ASSUME NEW n \in Name, SyncMissing(n) \/ SyncAsExpected(n) \/ SyncOffline(n)
                                 \/ SyncUnexpected(n) \/ SyncFoundUp(n)
          PROVE  UNCHANGED target
      BY <3>2 DEF SyncMissing, SyncAsExpected, SyncOffline, SyncUnexpected, SyncFoundUp, shared
    <3>3. ASSUME NEW i \in IssueId, SyncCloseIssue(i) \/ SyncOpenInsert(i) \/ SyncSettleOpen(i)
                                    \/ SyncSettleClosed(i)
          PROVE  UNCHANGED target
      BY <3>3 DEF SyncCloseIssue, SyncOpenInsert, SyncSettleOpen, SyncSettleClosed
    <3>4. CASE SyncReadOpening \/ SyncReadClosing \/ SyncStat \/ SyncStatFails \/ SyncReadTargets
               \/ SyncExplained \/ SyncRelease \/ SyncSend \/ SyncCloseComment
               \/ SyncClosedAll \/ SyncOpenSend \/ SyncOpenComment \/ SyncEnd
      BY <3>4 DEF SyncReadOpening, SyncReadClosing, SyncStat, SyncStatFails, SyncReadTargets,
         SyncExplained, SyncRelease, SyncSend, SyncCloseComment, SyncClosedAll, SyncOpenSend,
         SyncOpenComment, SyncEnd, shared
    <3> QED BY <1>3, <3>1, <3>2, <3>3, <3>4 DEF SyncNext
  <2>2. (\E S : FromName(S)) => RowsAppear
    BY FromNameRows
  <2> QED BY <1>1, <2>1, <2>2
<1> QED
  BY <1>1, <1>2, <1>3
  DEF Next, SyncTask, Arrive, ApiTask, Drop, Receive, Environment, Panic, Crash, Restart, Quiesce,
      vars, shared

-----------------------------------------------------------------------------
(* CompareIsCurrent.  Between its two readings of the target rows and of   *)
(* the issues the loop holds what the rows said; a row missing then may    *)
(* have been created since.                                                *)

CompareInv ==
  /\ CompareIsCurrent
  /\ spc = "readExpected" =>
       \A n \in Name : IF old[n] = Absent THEN target[n] \in {Absent, "Online"}
                                          ELSE old[n] = target[n]

LEMMA NextCompare == TypeInv /\ CompareInv /\ [Next]_vars => CompareInv'
<1> SUFFICES ASSUME TypeInv, CompareInv, [Next]_vars PROVE CompareInv'
  OBVIOUS
<1> USE DEF AfterReadings, SyncPc
<1>0. todo \subseteq Name
  BY DEF TypeInv, TypeOK, SyncTypeOK
<1>1. CASE SyncReset
  BY <1>1 DEF SyncReset, CompareInv, CompareIsCurrent
<1>2. CASE SyncReadOpening \/ SyncReadClosing \/ SyncStat
  BY <1>2 DEF SyncReadOpening, SyncReadClosing, SyncStat, CompareInv, CompareIsCurrent
<1>3. CASE SyncReadTargets
  BY <1>3 DEF SyncReadTargets, CompareInv, CompareIsCurrent, shared
<1>4. CASE SyncReadExpected
  <2>1. spc = "readExpected" /\ spc' = "node" /\ RowsAppear
    BY <1>4, FromNameRows DEF SyncReadExpected
  <2>2. \A n \in todo' : n \in Name /\ Merged[n] # Absent /\ old'[n] = Merged[n]
    BY <1>4 DEF SyncReadExpected
  <2>3. \A n \in todo' : old'[n] = IF target'[n] = Absent THEN "Online" ELSE target'[n]
    BY <2>1, <2>2 DEF CompareInv, Merged, RowsAppear
  <2> QED BY <2>1, <2>3 DEF CompareInv, CompareIsCurrent
<1>5. ASSUME RowsAppear, UNCHANGED <<spc, old>>, todo' \subseteq todo
      PROVE  CompareInv'
  BY <1>0, <1>5 DEF CompareInv, CompareIsCurrent, RowsAppear
<1>6. CASE SyncRecord
  <2>1. /\ spc \in AfterReadings /\ spc' = "node"
        /\ old' = old /\ todo' = todo \ {node}
        /\ target \in [Name -> TargetStatus \cup {Absent}]
    BY <1>6 DEF SyncRecord, NextNode, readings, TypeInv, TypeOK, SharedTypeOK
  <2>2. \A n \in todo' : n \in Name /\ target'[n] = target[n]
    BY <1>0, <1>6, <2>1 DEF SyncRecord
  <2> QED BY <2>1, <2>2 DEF CompareInv, CompareIsCurrent
<1>7. ASSUME RowsAppear, PassGoesOn PROVE CompareInv'
  BY <1>0, <1>7 DEF CompareInv, CompareIsCurrent, RowsAppear, PassGoesOn
<1>8. CASE SyncNext
  BY <1>1, <1>2, <1>3, <1>4, <1>6, <1>7, <1>8, SyncPassFrame, TargetFrame
<1>9. CASE UNCHANGED loop
  BY <1>5, <1>6, <1>9, TargetFrame DEF loop
<1> QED
  BY <1>1, <1>8, <1>9
  DEF Next, SyncTask, Arrive, ApiTask, Drop, Receive, Environment, Panic, Crash, Restart, Quiesce,
      vars

(* No pass ever compares with a status somebody else has overwritten: when *)
(* handle_transition decides whether to write the recorded status, what it *)
(* read at the start of the pass is still what the row says.               *)
THEOREM CompareCorrect == Spec => []CompareIsCurrent
<1>1. Init => CompareInv
  BY DEF Init, SyncInit, CompareInv, CompareIsCurrent, AfterReadings
<1>2. TypeInv /\ CompareInv /\ [Next]_vars => CompareInv'
  BY NextCompare
<1>3. Init => TypeInv
  BY InitType
<1>4. TypeInv /\ [Next]_vars => TypeInv'
  BY NextType
<1>5. CompareInv => CompareIsCurrent
  BY DEF CompareInv
<1> QED BY <1>1, <1>2, <1>3, <1>4, <1>5, PTL DEF Spec

-----------------------------------------------------------------------------
(* Issues: they keep their target, change their title and what they hold   *)
(* by issue_update only, never return to Opening, become Open or Closed by *)
(* the loop only, and Closing by issue_close only.                         *)

IssuesKeep ==
  \A i \in Inserted :
    /\ i \in Inserted'
    /\ issue'[i].target = issue[i].target
    /\ \/ issue'[i].title = issue[i].title
       \/ \E r \in Req : req[r].pc = "updateWrite" /\ issue'[i].title = req[r].title
    /\ \/ issue'[i].toOffline = issue[i].toOffline
       \/ \E r \in Req : /\ req[r].pc = "updateWrite" /\ req[r].issue = i
                         /\ req[r].offline # NoOffline
    /\ issue'[i].status = "Opening" => issue[i].status = "Opening"
    /\ issue'[i].status = "Open" => issue[i].status = "Open" \/ SyncSettleOpen(i)
    /\ issue'[i].status = "Closing" =>
         issue[i].status = "Closing" \/ \E r \in Req : ApiCloseWrite(r) /\ req[r].issue = i
    /\ issue'[i].status = "Closed" =>
         issue[i].status = "Closed" \/ SyncCloseIssue(i) \/ SyncSettleClosed(i)

LEMMA UnchangedKeeps == UNCHANGED issue => IssuesKeep
BY DEF IssuesKeep, Inserted

LEMMA InsertKeeps ==
  ASSUME NEW i \in IssueId, NEW n, NEW t, NEW off, InsertIssue(i, n, t, off)
  PROVE  IssuesKeep
BY DEF InsertIssue, IssuesKeep, Inserted

LEMMA StatusKeeps ==
  ASSUME issue \in [IssueId -> IssueRow], NEW i \in IssueId, NEW s \in IssueStatus \ {"Opening"},
         SetStatus(i, s), s = "Closed" => SyncCloseIssue(i) \/ SyncSettleClosed(i),
         s = "Open" => SyncSettleOpen(i),
         s = "Closing" => \E r \in Req : ApiCloseWrite(r) /\ req[r].issue = i
  PROVE  IssuesKeep
<1>1. issue[i] \in IssueRow
  OBVIOUS
<1>2. /\ [issue[i] EXCEPT !.status = s].status = s
      /\ [issue[i] EXCEPT !.status = s].target = issue[i].target
      /\ [issue[i] EXCEPT !.status = s].title = issue[i].title
      /\ [issue[i] EXCEPT !.status = s].toOffline = issue[i].toOffline
  BY <1>1 DEF IssueRow
<1>3. \A j \in IssueId : issue'[j] = IF j = i THEN [issue[i] EXCEPT !.status = s] ELSE issue[j]
  BY DEF SetStatus
<1>4. s # Absent
  BY DEF IssueStatus, Absent
<1> QED BY <1>2, <1>3, <1>4 DEF IssuesKeep, Inserted

LEMMA IssueFrame ==
  ASSUME TypeInv, [Next]_vars
  PROVE  IssuesKeep
<1>0. issue \in [IssueId -> IssueRow]
  BY DEF TypeInv, TypeOK, SharedTypeOK
<1>1. CASE UNCHANGED issue
  BY <1>1, UnchangedKeeps
<1>2. CASE SyncNext
  <2>1. ASSUME NEW i \in IssueId, SyncCloseIssue(i) \/ SyncSettleClosed(i) \/ SyncSettleOpen(i)
        PROVE  IssuesKeep
    BY <1>0, <2>1, StatusKeeps DEF SyncCloseIssue, SyncSettleClosed, SyncSettleOpen, IssueStatus
  <2>2. ASSUME NEW i \in IssueId, SyncOpenInsert(i) PROVE IssuesKeep
    BY <2>2, InsertKeeps DEF SyncOpenInsert
  <2>3. ASSUME NEW n \in Name, SyncMissing(n) \/ SyncAsExpected(n) \/ SyncOffline(n)
                               \/ SyncUnexpected(n) \/ SyncFoundUp(n)
        PROVE  UNCHANGED issue
    BY <2>3 DEF SyncMissing, SyncAsExpected, SyncOffline, SyncUnexpected, SyncFoundUp, shared
  <2>4. CASE SyncReadOpening \/ SyncReadClosing \/ SyncStat \/ SyncStatFails \/ SyncReadTargets
             \/ SyncReadExpected \/ SyncRelated \/ (\E q \in left : SyncSearch(q))
             \/ SyncExplained \/ SyncRelease \/ SyncSend \/ SyncCloseQuery
             \/ SyncCloseComment \/ SyncClosedAll \/ SyncOpenLookup \/ SyncOpenSend
             \/ SyncOpenComment \/ SyncRecord \/ SyncEnd
    BY <2>4, <1>1 DEF SyncReadOpening, SyncReadClosing, SyncStat, SyncStatFails, SyncReadTargets,
       SyncReadExpected, SyncRelated, SyncSearch, SyncExplained, SyncRelease, SyncSend,
       SyncCloseQuery, SyncCloseComment, SyncClosedAll, SyncOpenLookup, SyncOpenSend,
       SyncOpenComment, SyncRecord, SyncEnd, shared
  <2> QED BY <1>1, <1>2, <2>1, <2>2, <2>3, <2>4 DEF SyncNext
<1>3. ASSUME NEW r \in Req, ApiArrive(r) \/ ApiStep(r) \/ ApiDropped(r) PROVE IssuesKeep
  <2>1. CASE ApiUpdateWrite(r)
    <3> DEFINE i == req[r].issue
    <3>1. i \in IssueId /\ issue[i] \in IssueRow
      BY <1>0, <2>1 DEF ApiUpdateWrite, At, TypeInv, RequestLocals, KnowsItsArguments
    <3>2. \A j \in IssueId : issue'[j] = IF j = i THEN Updated(issue[i], req[r]) ELSE issue[j]
      BY <1>0, <2>1, <3>1 DEF ApiUpdateWrite
    <3>3. /\ Updated(issue[i], req[r]).status = issue[i].status
          /\ Updated(issue[i], req[r]).target = issue[i].target
          /\ Updated(issue[i], req[r]).title \in {issue[i].title, req[r].title}
          /\ \/ Updated(issue[i], req[r]).toOffline = issue[i].toOffline
             \/ req[r].offline # NoOffline
      BY <3>1 DEF Updated, IssueRow
    <3>4. req[r].pc = "updateWrite"
      BY <2>1 DEF ApiUpdateWrite, At
    <3> QED BY <3>1, <3>2, <3>3, <3>4 DEF IssuesKeep, Inserted
  <2>2. CASE ApiCloseWrite(r)
    <3>1. req[r].issue \in IssueId
      BY <2>2 DEF ApiCloseWrite, At, TypeInv, RequestLocals, KnowsItsArguments
    <3> QED BY <1>0, <2>2, <3>1, StatusKeeps DEF ApiCloseWrite, IssueStatus
  <2>3. ASSUME NEW i \in IssueId, ApiOpenInsert(r, i) PROVE IssuesKeep
    BY <2>3, InsertKeeps DEF ApiOpenInsert
  <2>4. CASE ~(ApiUpdateWrite(r) \/ ApiCloseWrite(r) \/ \E i \in IssueId : ApiOpenInsert(r, i))
    <3>1. UNCHANGED issue
      BY <1>3, <2>4
      DEF ApiArrive, ApiStep, ApiDropped, ApiOpen, ApiOpenSend, ApiOpenComment, ApiClose,
         ApiCloseComment, ApiCloseSend, ApiUpdate, ApiUpdateSend, ApiCheck, ApiSearch,
         ApiDesired, ApiRelease, ApiReleaseFails, ApiResumed, shared
    <3> QED BY <3>1, UnchangedKeeps
  <2> QED BY <2>1, <2>2, <2>3, <2>4
<1> QED
  BY <1>1, <1>2, <1>3
  DEF Next, SyncTask, Arrive, ApiTask, Drop, Receive, Environment, Panic, Crash, Restart, Quiesce,
      vars, shared

(* desired_state, and what a request does after it: it goes on with the    *)
(* node it looks at, which is real, or drops it.                           *)
Desires(r) ==
  \/ \E c \in Name : ApiCheck(r, c)
  \/ (\E q \in req[r].left : ApiSearch(r, q)) \/ ApiDesired(r)

LEMMA DesireMoves ==
  ASSUME TypeInv, NEW r \in Req, Desires(r)
  PROVE  /\ UNCHANGED issue /\ req[r].pc \in {"check", "search"}
         /\ \/ \E c : req' = [req EXCEPT ![r] = Without(req[r], c)]
            \/ \E h : /\ req' = [req EXCEPT ![r] = h]
                      /\ h.pc \in {"search", "release"}
                      /\ h.issue = req[r].issue /\ h.title = req[r].title /\ h.todo = req[r].todo
                      /\ \/ req[r].pc = "check" /\ h.node \in h.todo \cap Real
                         \/ req[r].pc = "search" /\ h.node = req[r].node
<1>0. req \in [Req -> Handler] /\ req[r] \in Handler
  BY DEF TypeInv, TypeOK, ApiTypeOK
<1>1. ASSUME NEW c \in Name, ApiCheck(r, c), c \in Real, ~OpenOn(c, ToOffline)
      PROVE  \E h : /\ req' = [req EXCEPT ![r] = h]
                    /\ h.pc = "search" /\ h.issue = req[r].issue /\ h.title = req[r].title
                    /\ h.todo = req[r].todo /\ h.node \in h.todo \cap Real
  <2> DEFINE h == [req[r] EXCEPT !.pc = "search", !.node = c, !.left = Queries(c, {})]
  <2>1. req' = [req EXCEPT ![r] = h]
    BY <1>0, <1>1 DEF ApiCheck
  <2>2. /\ h.pc = "search" /\ h.issue = req[r].issue /\ h.title = req[r].title
        /\ h.todo = req[r].todo /\ h.node \in h.todo \cap Real
    BY <1>0, <1>1 DEF ApiCheck, Handler
  <2> HIDE DEF h
  <2> QED BY <2>1, <2>2
<1>2. ASSUME NEW c \in Name, ApiCheck(r, c), ~(c \in Real /\ ~OpenOn(c, ToOffline))
      PROVE  req' = [req EXCEPT ![r] = Without(req[r], c)]
  BY <1>0, <1>2 DEF ApiCheck
<1>3. ASSUME NEW h, h = [req[r] EXCEPT !.left = h.left] \/ h = [req[r] EXCEPT !.pc = "release"],
             req[r].pc = "search", req' = [req EXCEPT ![r] = h]
      PROVE  \E g : /\ req' = [req EXCEPT ![r] = g]
                    /\ g.pc \in {"search", "release"}
                    /\ g.issue = req[r].issue /\ g.title = req[r].title /\ g.todo = req[r].todo
                    /\ g.node = req[r].node
  <2>1. /\ h.pc \in {"search", "release"} /\ h.issue = req[r].issue /\ h.title = req[r].title
        /\ h.todo = req[r].todo /\ h.node = req[r].node
    BY <1>0, <1>3 DEF Handler
  <2> QED BY <1>3, <2>1
<1>4. ASSUME NEW q \in req[r].left, ApiSearch(r, q), ~OpenOn(q[2], {q[1]})
      PROVE  \E h : /\ h = [req[r] EXCEPT !.left = h.left] /\ req' = [req EXCEPT ![r] = h]
  <2> DEFINE h == [req[r] EXCEPT !.left = req[r].left \ {q}]
  <2>1. req' = [req EXCEPT ![r] = h]
    BY <1>0, <1>4 DEF ApiSearch
  <2>2. h = [req[r] EXCEPT !.left = h.left]
    BY <1>0 DEF Handler
  <2> HIDE DEF h
  <2> QED BY <2>1, <2>2
<1>5. ASSUME NEW q \in req[r].left, ApiSearch(r, q), OpenOn(q[2], {q[1]})
      PROVE  req' = [req EXCEPT ![r] = Without(req[r], req[r].node)]
  BY <1>0, <1>5 DEF ApiSearch
<1>6. CASE ApiDesired(r)
  BY <1>0, <1>3, <1>6 DEF ApiDesired, At, shared
<1>7. CASE \E c \in Name : ApiCheck(r, c)
  BY <1>1, <1>2, <1>7 DEF ApiCheck, At
<1>8. CASE \E q \in req[r].left : ApiSearch(r, q)
  BY <1>3, <1>4, <1>5, <1>8 DEF ApiSearch, At
<1> QED BY <1>6, <1>7, <1>8 DEF Desires

(* Comments stay.                                                          *)
LEMMA CommentsGrow ==
  ASSUME TypeInv, [Next]_vars, NEW i \in IssueId
  PROVE  comment[i] \subseteq comment'[i]
<1>0. comment \in [IssueId -> SUBSET CommentKind]
  BY DEF TypeInv, TypeOK, SharedTypeOK
<1>1. CASE UNCHANGED comment
  BY <1>1
<1>2. ASSUME NEW j, NEW k, AddComment(j, k) PROVE comment[i] \subseteq comment'[i]
  BY <1>0, <1>2 DEF AddComment
<1>3. CASE SyncNext
  <2>1. CASE SyncCloseComment \/ SyncOpenComment
    <3>1. \E k : AddComment(iss, k)
      BY <2>1 DEF SyncCloseComment, SyncOpenComment
    <3> QED BY <1>2, <3>1
  <2>2. ASSUME NEW n \in Name, SyncMissing(n) \/ SyncAsExpected(n) \/ SyncOffline(n)
                               \/ SyncUnexpected(n) \/ SyncFoundUp(n)
        PROVE  UNCHANGED comment
    BY <2>2 DEF SyncMissing, SyncAsExpected, SyncOffline, SyncUnexpected, SyncFoundUp, shared
  <2>3. ASSUME NEW j \in IssueId, SyncCloseIssue(j) \/ SyncOpenInsert(j) \/ SyncSettleOpen(j)
                                  \/ SyncSettleClosed(j)
        PROVE  UNCHANGED comment
    BY <2>3 DEF SyncCloseIssue, SyncOpenInsert, SyncSettleOpen, SyncSettleClosed
  <2>4. CASE SyncReadOpening \/ SyncReadClosing \/ SyncStat \/ SyncStatFails \/ SyncReadTargets
             \/ SyncReadExpected \/ SyncRelated \/ (\E q \in left : SyncSearch(q))
             \/ SyncExplained \/ SyncRelease \/ SyncSend \/ SyncCloseQuery
             \/ SyncClosedAll \/ SyncOpenLookup \/ SyncOpenSend \/ SyncRecord \/ SyncEnd
    BY <2>4, <1>1 DEF SyncReadOpening, SyncReadClosing, SyncStat, SyncStatFails, SyncReadTargets,
       SyncReadExpected, SyncRelated, SyncSearch, SyncExplained, SyncRelease, SyncSend,
       SyncCloseQuery, SyncClosedAll,
       SyncOpenLookup, SyncOpenSend, SyncRecord, SyncEnd, shared
  <2> QED BY <1>1, <1>3, <2>1, <2>2, <2>3, <2>4 DEF SyncNext
<1>4. ASSUME NEW r \in Req, ApiArrive(r) \/ ApiStep(r) \/ ApiDropped(r)
      PROVE  comment[i] \subseteq comment'[i]
  <2>1. ASSUME NEW j \in IssueId, NEW t \in AskTitle \cup {Absent}, NEW off \in AskOffline,
               ApiUpdate(r, j, t, off)
        PROVE  comment[i] \subseteq comment'[i]
    <3>1. AddComment(j, "updated") \/ UNCHANGED comment
      BY <2>1 DEF ApiUpdate
    <3> QED BY <1>1, <1>2, <3>1
  <2>2. CASE ApiOpenComment(r) \/ ApiCloseComment(r)
    <3>1. \E k : AddComment(req[r].issue, k)
      BY <2>2 DEF ApiOpenComment, ApiCloseComment
    <3> QED BY <1>2, <3>1
  <2>3. CASE ~(\/ ApiOpenComment(r) \/ ApiCloseComment(r)
               \/ \E j \in IssueId, t \in AskTitle \cup {Absent}, off \in AskOffline :
                     ApiUpdate(r, j, t, off))
    <3>1. UNCHANGED comment
      BY <1>4, <2>3 DEF ApiArrive, ApiStep, ApiDropped, ApiOpen, ApiOpenInsert, ApiOpenSend,
         ApiClose, ApiCloseWrite, ApiCloseSend, ApiUpdateSend, ApiUpdateWrite, ApiCheck,
         ApiSearch, ApiDesired,
         ApiRelease, ApiReleaseFails, ApiResumed, shared
    <3> QED BY <1>1, <3>1
  <2> QED BY <2>1, <2>2, <2>3
<1> QED
  BY <1>1, <1>3, <1>4
  DEF Next, SyncTask, Arrive, ApiTask, Drop, Receive, Environment, Panic, Crash, Restart, Quiesce,
      vars, shared

(* What get_expected_state says, in terms of the issues.                   *)
LEMMA ExpectedStateMeans ==
  ASSUME NEW n \in Name
  PROVE  /\ \A i \in WithStatus(OpenStatus) : n \in Related(i) => ExpectedState[n] # "Unset"
         /\ \A i \in WithStatus(OpenStatus) :
              n \in Related(i) /\ issue[i].toOffline # NoOffline => ExpectedState[n] = "Offline"
         /\ ExpectedState[n] = "Offline" =>
              \E i \in WithStatus(OpenStatus) : n \in Related(i) /\ issue[i].toOffline # NoOffline
<1> DEFINE about == {i \in WithStatus(OpenStatus) : n \in Related(i)}
           P == \E i \in about : issue[i].toOffline # NoOffline
           Q == about # {} /\ \A i \in about : issue[i].toOffline = NoOffline
<1>1. ExpectedState[n] = CASE P -> "Offline" [] Q -> "Down" [] OTHER -> "Unset"
  BY DEF ExpectedState
<1>2. P => ~Q
  OBVIOUS
<1>3. about # {} => P \/ Q
  OBVIOUS
<1>4. /\ P => ExpectedState[n] = "Offline"
      /\ Q => ExpectedState[n] = "Down"
      /\ ~P /\ ~Q => ExpectedState[n] = "Unset"
  <2> HIDE DEF P, Q
  <2> QED BY <1>1, <1>2
<1> QED BY <1>3, <1>4

(* An issue speaks for its own target if that is real, and for no node     *)
(* out of its reach.                                                       *)
LEMMA RelatedReach ==
  ASSUME NEW i \in IssueId, issue[i] \in IssueRow
  PROVE  /\ issue[i].target \in Real => issue[i].target \in Related(i)
         /\ \A n \in Related(i) : n \in Reach(issue[i].target) /\ issue[i].target \in Related(i)
<1> DEFINE t == issue[i].target
<1>1. t \in Name
  BY DEF IssueRow
<1>2. CASE issue[i].toOffline = "Card"
  <2>1. Related(i) = Siblings[t] \cap Real
    BY <1>2 DEF Related
  <2> QED BY <1>1, <2>1, GroupAssumption DEF Reach
<1>3. CASE issue[i].toOffline = "Blade"
  <2>1. Related(i) = Cousins[t] \cap Real
    BY <1>3 DEF Related
  <2> QED BY <1>1, <2>1, GroupAssumption DEF Reach
<1>4. CASE issue[i].toOffline \notin {"Card", "Blade"}
  <2>1. Related(i) = {t}
    BY <1>4 DEF Related
  <2> QED BY <1>1, <2>1 DEF Reach
<1> QED BY <1>2, <1>3, <1>4

-----------------------------------------------------------------------------
(* OpenedWasEnforced.                                                      *)

OpenInv == OpenedWasEnforced /\ toOpen \subseteq Inserted

LEMMA NextOpen == TypeInv /\ OpenInv /\ [Next]_vars => OpenInv'
<1> SUFFICES ASSUME TypeInv, OpenInv, [Next]_vars PROVE OpenInv'
  OBVIOUS
<1> USE DEF AfterReadings, SyncPc
<1>0. IssuesKeep /\ issue \in [IssueId -> IssueRow] /\ toOpen \subseteq Inserted
  BY IssueFrame DEF TypeInv, TypeOK, SharedTypeOK, OpenInv
<1>1. CASE SyncReset
  BY <1>1 DEF SyncReset, OpenInv, OpenedWasEnforced
<1>2. CASE SyncReadOpening
  <2>1. toOpen' \subseteq Inserted'
    BY <1>2 DEF SyncReadOpening, OpeningRead, WithStatus, Inserted, Absent, shared
  <2> QED BY <1>2, <2>1 DEF SyncReadOpening, OpenInv, OpenedWasEnforced
<1>3. CASE SyncReadClosing \/ SyncStat \/ SyncReadTargets
  BY <1>3
  DEF SyncReadClosing, SyncStat, SyncReadTargets, OpenInv, OpenedWasEnforced, Inserted, shared
<1>4. CASE SyncReadExpected
  <2>1. expected' = ExpectedState /\ UNCHANGED <<issue, toOpen>>
    BY <1>4 DEF SyncReadExpected
  <2>2. ASSUME NEW i \in toOpen', issue'[i].status = "Opening", issue'[i].target \in Real
        PROVE  expected'[issue'[i].target] # "Unset"
    <3>1. i \in WithStatus(OpenStatus) /\ issue[i] \in IssueRow
      BY <1>0, <2>1, <2>2 DEF WithStatus, OpenStatus, Inserted
    <3>2. issue[i].target \in Name /\ issue[i].target \in Related(i)
      BY <2>1, <2>2, <3>1, RelatedReach DEF WithStatus, IssueRow
    <3> QED BY <2>1, <3>1, <3>2, ExpectedStateMeans
  <2> QED BY <1>0, <2>1, <2>2 DEF OpenInv, OpenedWasEnforced, Inserted
<1>5. ASSUME \/ PassGoesOn
             \/ UNCHANGED <<spc, toOpen, expected>>
      PROVE  OpenInv'
  <2>1. /\ toOpen' \subseteq toOpen /\ expected' = expected
        /\ spc' \in AfterReadings => spc \in AfterReadings
    BY <1>5 DEF PassGoesOn
  <2>2. \A i \in toOpen' : /\ issue'[i].target = issue[i].target
                           /\ issue'[i].status = "Opening" => issue[i].status = "Opening"
    BY <1>0, <2>1 DEF IssuesKeep
  <2>3. toOpen' \subseteq Inserted'
    BY <1>0, <2>1 DEF IssuesKeep
  <2> QED BY <2>1, <2>2, <2>3 DEF OpenInv, OpenedWasEnforced
<1>6. CASE SyncNext
  BY <1>1, <1>2, <1>3, <1>4, <1>5, <1>6, SyncPassFrame
<1>7. CASE UNCHANGED loop
  BY <1>5, <1>7 DEF loop
<1> QED
  BY <1>1, <1>6, <1>7
  DEF Next, SyncTask, Arrive, ApiTask, Drop, Receive, Environment, Panic, Crash, Restart, Quiesce,
      vars

(* No issue becomes Open untreated: one the pass found Opening, and that   *)
(* still is when it is settled, was among the issues the pass acted on.    *)
THEOREM OpenedCorrect == Spec => []OpenedWasEnforced
<1>1. Init => OpenInv
  BY DEF Init, SyncInit, OpenInv, OpenedWasEnforced
<1>2. TypeInv /\ OpenInv /\ [Next]_vars => OpenInv'
  BY NextOpen
<1>3. Init => TypeInv
  BY InitType
<1>4. TypeInv /\ [Next]_vars => TypeInv'
  BY NextType
<1>5. OpenInv => OpenedWasEnforced
  BY DEF OpenInv
<1> QED BY <1>1, <1>2, <1>3, <1>4, <1>5, PTL DEF Spec

-----------------------------------------------------------------------------
(* OfflineHasLiveIssue.  The only step of a pass that could end an issue   *)
(* it relies on is close_open_issues, and that works on a node expected    *)
(* Down, on issues about that very node.                                   *)

Closers == {"closeIssue", "closeComment"}

ClosesOnlyOnDown ==
  /\ spc \notin AfterReadings => todo = {}
  /\ spc \in {"closeQuery"} \cup Closers => expected[node] = "Down"
  /\ spc \in Closers => \A i \in closing : i \in Inserted /\ issue[i].target = node

LEMMA NextCloses == TypeInv /\ ClosesOnlyOnDown /\ [Next]_vars => ClosesOnlyOnDown'
<1> SUFFICES ASSUME TypeInv, ClosesOnlyOnDown, [Next]_vars PROVE ClosesOnlyOnDown'
  OBVIOUS
<1> USE DEF ClosesOnlyOnDown, Closers, AfterReadings, SyncPc
<1>0. IssuesKeep /\ issue \in [IssueId -> IssueRow]
  BY IssueFrame DEF TypeInv, TypeOK, SharedTypeOK
<1>1. CASE SyncReset
  BY <1>1 DEF SyncReset
<1>2. CASE UNCHANGED <<spc, todo, expected, node, closing>>
  BY <1>0, <1>2 DEF IssuesKeep
<1>3. CASE SyncNext
  <2>1. CASE SyncReadOpening \/ SyncReadClosing \/ SyncStat \/ SyncReadTargets \/ SyncReadExpected
    BY <2>1 DEF SyncReadOpening, SyncReadClosing, SyncStat, SyncReadTargets, SyncReadExpected
  <2>2. ASSUME NEW n \in Name, SyncMissing(n) \/ SyncAsExpected(n) \/ SyncOffline(n)
                               \/ SyncUnexpected(n) \/ SyncFoundUp(n)
        PROVE  ClosesOnlyOnDown'
    BY <2>2 DEF SyncMissing, SyncAsExpected, SyncOffline, SyncUnexpected, SyncFoundUp, AtNode,
                Settle, NextNode, Goto, readings
  <2>3. CASE SyncRelated
    <3>1. Goto("search") \/ Settle(node, seen[node])
      BY <2>3 DEF SyncRelated
    <3> QED BY <2>3, <3>1 DEF SyncRelated, Goto, Settle, NextNode
  <2>10. CASE (\E q \in left : SyncSearch(q)) \/ SyncExplained
    BY <2>10 DEF SyncSearch, SyncExplained, Goto
  <2>4. CASE SyncRelease \/ SyncSend \/ SyncOpenLookup \/ SyncOpenSend \/ SyncOpenComment
             \/ SyncRecord
    BY <2>4 DEF SyncRelease, SyncSend, SyncOpenLookup, SyncOpenSend, SyncOpenComment, SyncRecord,
                Opened, Goto, Settle, NextNode
  <2>5. CASE SyncCloseQuery
    <3>1. /\ spc = "closeQuery" /\ spc' = "closeIssue"
          /\ UNCHANGED <<todo, node, expected, issue>>
          /\ closing' = {i \in Live : issue[i].target = node}
      BY <2>5 DEF SyncCloseQuery, Goto, readings
    <3> QED BY <3>1 DEF Live, Inserted
  <2>6. ASSUME NEW i \in IssueId, SyncCloseIssue(i) PROVE ClosesOnlyOnDown'
    <3>1. /\ spc = "closeIssue" /\ spc' = "closeComment"
          /\ UNCHANGED <<todo, node, expected>>
          /\ closing' \subseteq closing
      BY <2>6 DEF SyncCloseIssue, Goto, readings
    <3> QED BY <1>0, <3>1 DEF IssuesKeep
  <2>7. CASE SyncCloseComment
    <3>1. /\ spc = "closeComment" /\ spc' = "closeIssue"
          /\ UNCHANGED <<todo, node, expected, closing, issue>>
      BY <2>7 DEF SyncCloseComment, Goto, readings
    <3> QED BY <3>1 DEF Inserted
  <2>8. CASE SyncClosedAll
    BY <2>8 DEF SyncClosedAll, Settle, NextNode
  <2>9. ASSUME NEW i \in IssueId, SyncOpenInsert(i) \/ SyncSettleOpen(i) \/ SyncSettleClosed(i)
        PROVE  ClosesOnlyOnDown'
    BY <2>9 DEF SyncOpenInsert, SyncSettleOpen, SyncSettleClosed, AllHandled, Goto
  <2> QED
    BY <1>1, <1>3, <2>1, <2>2, <2>3, <2>4, <2>5, <2>6, <2>7, <2>8, <2>9, <2>10
    DEF SyncNext, SyncStatFails, SyncEnd
<1>4. CASE UNCHANGED loop
  BY <1>2, <1>4 DEF loop
<1> QED
  BY <1>1, <1>3, <1>4
  DEF Next, SyncTask, Arrive, ApiTask, Drop, Receive, Environment, Panic, Crash, Restart, Quiesce,
      vars

LEMMA NextOffline ==
  TypeInv /\ ClosesOnlyOnDown /\ OfflineHasLiveIssue /\ [Next]_vars => OfflineHasLiveIssue'
<1> SUFFICES ASSUME TypeInv, ClosesOnlyOnDown, OfflineHasLiveIssue, [Next]_vars,
                    NEW n \in todo', expected'[n] = "Offline"
             PROVE  \E i \in Live' : /\ n \in Reach(issue'[i].target)
                                     /\ expected'[issue'[i].target] = "Offline"
  BY DEF OfflineHasLiveIssue, Reach
<1> USE DEF AfterReadings, SyncPc
<1>0. IssuesKeep /\ issue \in [IssueId -> IssueRow] /\ todo \subseteq Name
  BY IssueFrame DEF TypeInv, TypeOK, SharedTypeOK, SyncTypeOK
<1>1. CASE SyncReset
  BY <1>1 DEF SyncReset
<1>2. CASE SyncReadExpected
  <2>1. expected' = ExpectedState /\ UNCHANGED issue /\ n \in Name
    BY <1>2 DEF SyncReadExpected
  <2>2. PICK i \in WithStatus(OpenStatus) : n \in Related(i) /\ issue[i].toOffline # NoOffline
    BY <1>2, <2>1, ExpectedStateMeans
  <2>3. i \in IssueId /\ issue[i] \in IssueRow /\ i \in Live /\ issue[i].target \in Name
    BY <1>0, <2>2 DEF WithStatus, OpenStatus, Live, Inserted, Absent, IssueRow
  <2>4. n \in Reach(issue[i].target) /\ issue[i].target \in Related(i)
    BY <2>2, <2>3, RelatedReach
  <2>5. ExpectedState[issue[i].target] = "Offline"
    BY <2>2, <2>3, <2>4, ExpectedStateMeans
  <2> QED BY <2>1, <2>3, <2>4, <2>5 DEF Live, Inserted
<1>3. ASSUME n \in todo, expected' = expected
      PROVE  \E i \in Live' : /\ n \in Reach(issue'[i].target)
                              /\ expected'[issue'[i].target] = "Offline"
  <2>1. PICK i \in Live : n \in Reach(issue[i].target) /\ expected[issue[i].target] = "Offline"
    BY <1>3 DEF OfflineHasLiveIssue
  <2>2. i \in Inserted /\ issue[i].status # "Closed"
    BY <2>1 DEF Live
  <2>3. ~SyncCloseIssue(i)
    BY <2>1 DEF SyncCloseIssue, ClosesOnlyOnDown, Closers
  <2>4. ~SyncSettleClosed(i)
    BY <1>3 DEF SyncSettleClosed, AllHandled
  <2>5. i \in Live' /\ issue'[i].target = issue[i].target
    BY <1>0, <2>2, <2>3, <2>4 DEF IssuesKeep, Live
  <2> QED BY <1>3, <2>1, <2>5
<1>4. CASE SyncReadOpening \/ SyncReadClosing \/ SyncStat \/ SyncReadTargets
  BY <1>3, <1>4 DEF SyncReadOpening, SyncReadClosing, SyncStat, SyncReadTargets
<1>5. CASE PassGoesOn
  BY <1>3, <1>5 DEF PassGoesOn
<1>6. CASE SyncNext
  BY <1>1, <1>2, <1>4, <1>5, <1>6, SyncPassFrame
<1>7. CASE UNCHANGED loop
  BY <1>3, <1>7 DEF loop
<1> QED
  BY <1>1, <1>6, <1>7
  DEF Next, SyncTask, Arrive, ApiTask, Drop, Receive, Environment, Panic, Crash, Restart, Quiesce,
      vars

(* Whatever is opened, closed, narrowed or lost while a pass is under way, *)
(* the pass only ever takes a node out of service for an issue that is     *)
(* still alive.                                                            *)
THEOREM OfflineCorrect == Spec => []OfflineHasLiveIssue
<1>1. Init => ClosesOnlyOnDown /\ OfflineHasLiveIssue
  BY DEF Init, SyncInit, ClosesOnlyOnDown, Closers, OfflineHasLiveIssue
<1>2. TypeInv /\ ClosesOnlyOnDown /\ [Next]_vars => ClosesOnlyOnDown'
  BY NextCloses
<1>3. TypeInv /\ ClosesOnlyOnDown /\ OfflineHasLiveIssue /\ [Next]_vars => OfflineHasLiveIssue'
  BY NextOffline
<1>4. Init => TypeInv
  BY InitType
<1>5. TypeInv /\ [Next]_vars => TypeInv'
  BY NextType
<1> QED BY <1>1, <1>2, <1>3, <1>4, <1>5, PTL DEF Spec
=============================================================================

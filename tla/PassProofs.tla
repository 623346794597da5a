----------------------------- MODULE PassProofs -----------------------------
(***************************************************************************)
(* What a pass leaves behind on the nodes it has handled, for any names,   *)
(* groups, requests, faults and events other than an operator who takes a  *)
(* node offline by hand.                                                   *)
(***************************************************************************)
EXTENDS CttProofs

HandsOff == \A n \in Name : "handOffline" \notin Happens[n]

(* A node a pass has to bring back if nobody gives a reason not to.        *)
Concerned(n) == n \in Real /\ seen[n] # Absent /\ expected[n] = "Unset"

HasTicket(n) == \E i \in Live \ toClose : issue[i].target = n
Accounted(n) == ~pbs[n].offline \/ HasTicket(n)

(* What scheduler and issues said when they were read still holds as far   *)
(* as the nodes depend on it: only the pass takes nodes offline, only when *)
(* it expects them to be; and it does not settle before all are handled.   *)
SinceStat == {"readTargets", "readExpected"} \cup AfterReadings
UpStays ==
  spc \in SinceStat =>
    \A n \in Name : seen[n] = "Online" /\ (spc \in AfterReadings => expected[n] # "Offline")
                      => ~pbs[n].offline

ToCloseWaits ==
  /\ toClose \subseteq Inserted
  /\ spc \in {"tick", "readClosing"} => toClose = {}
  /\ ~AllHandled => \A i \in toClose : issue[i].status \in {"Closing", "Closed"}

(* The node in hand, once its ticket or its release is under way.          *)
NodeAccounted ==
  spc \in {"send", "record", "openSend", "openComment"} /\ Concerned(node) => Accounted(node)

StrandedInv == UpStays /\ ToCloseWaits /\ NoNodeStranded /\ NodeAccounted

-----------------------------------------------------------------------------
(* Only the pass and operators take a node offline, the pass only one it   *)
(* expects to be.                                                          *)
LEMMA TakenOffline ==
  ASSUME TypeInv, [Next]_vars, NEW n \in Name, ~pbs[n].offline, pbs'[n].offline
  PROVE  SyncOffline(n) \/ Environment
<1>0. pbs \in [Name -> Vnode]
  BY DEF TypeInv, TypeOK, SharedTypeOK
<1>1. CASE UNCHANGED pbs
  BY <1>1
<1>2. ASSUME NEW m, ReleaseNode(m) PROVE FALSE
  <2>1. pbs'[n] = IF m = n THEN [pbs[n] EXCEPT !.offline = FALSE] ELSE pbs[n]
    BY <1>0, <1>2 DEF ReleaseNode
  <2> QED BY <1>0, <2>1 DEF Vnode
<1>3. CASE SyncNext
  <2>1. ASSUME NEW m \in Name, SyncOffline(m) PROVE SyncOffline(n)
    <3>1. pbs'[n] = IF m = n THEN [pbs[n] EXCEPT !.offline = TRUE] ELSE pbs[n]
      BY <1>0, <2>1 DEF SyncOffline, OfflineNode
    <3> QED BY <2>1, <3>1
  <2>2. CASE SyncRelease
    BY <1>2, <2>2 DEF SyncRelease
  <2>3. ASSUME NEW m \in Name, SyncMissing(m) \/ SyncAsExpected(m) \/ SyncUnexpected(m)
                               \/ SyncFoundUp(m)
        PROVE  UNCHANGED pbs
    BY <2>3 DEF SyncMissing, SyncAsExpected, SyncUnexpected, SyncFoundUp, shared
  <2>4. ASSUME NEW i \in IssueId, SyncCloseIssue(i) \/ SyncOpenInsert(i) \/ SyncSettleOpen(i)
                                  \/ SyncSettleClosed(i)
        PROVE  UNCHANGED pbs
    BY <2>4 DEF SyncCloseIssue, SyncOpenInsert, SyncSettleOpen, SyncSettleClosed
  <2>5. CASE SyncReadOpening \/ SyncReadClosing \/ SyncStat \/ SyncStatFails \/ SyncReadTargets
             \/ SyncReadExpected \/ SyncRelated \/ (\E q \in left : SyncSearch(q))
             \/ SyncExplained \/ SyncSend \/ SyncCloseQuery
             \/ SyncCloseComment \/ SyncClosedAll \/ SyncOpenLookup \/ SyncOpenSend
             \/ SyncOpenComment \/ SyncRecord \/ SyncEnd
    BY <2>5, <1>1 DEF SyncReadOpening, SyncReadClosing, SyncStat, SyncStatFails, SyncReadTargets,
       SyncReadExpected, SyncRelated, SyncSearch, SyncExplained, SyncSend, SyncCloseQuery,
       SyncCloseComment, SyncClosedAll,
       SyncOpenLookup, SyncOpenSend, SyncOpenComment, SyncRecord, SyncEnd, shared
  <2> QED BY <1>1, <1>3, <2>1, <2>2, <2>3, <2>4, <2>5 DEF SyncNext
<1>4. ASSUME NEW r \in Req, ApiArrive(r) \/ ApiStep(r) \/ ApiDropped(r) PROVE FALSE
  <2>1. CASE ApiRelease(r)
    BY <1>2, <2>1 DEF ApiRelease
  <2>2. CASE ~ApiRelease(r)
    BY <1>1, <1>4, <2>2 DEF ApiArrive, ApiStep, ApiDropped, ApiOpen, ApiOpenInsert, ApiOpenSend,
       ApiOpenComment, ApiClose, ApiCloseWrite, ApiCloseComment, ApiCloseSend, ApiUpdate,
       ApiUpdateSend, ApiUpdateWrite, ApiCheck, ApiSearch, ApiDesired, ApiReleaseFails,
       ApiResumed, shared
  <2> QED BY <2>1, <2>2
<1> QED
  BY <1>1, <1>3, <1>4
  DEF Next, SyncTask, Arrive, ApiTask, Drop, Receive, Panic, Crash, Restart, Quiesce, vars, shared

LEMMA OfflineByPass ==
  ASSUME HandsOff, TypeInv, [Next]_vars, NEW n \in Name, ~pbs[n].offline, pbs'[n].offline
  PROVE  SyncOffline(n)
<1>0. pbs \in [Name -> Vnode]
  BY DEF TypeInv, TypeOK, SharedTypeOK
<1>1. CASE Environment
  <2>1. PICK m \in Name : NodeChanges(m)
    BY <1>1 DEF Environment
  <2>2. pbs[m] \in Vnode /\ "handOffline" \notin Happens[m]
    BY <1>0 DEF HandsOff
  <2>3. PICK v : pbs' = [pbs EXCEPT ![m] = v] /\ (v.offline => pbs[m].offline)
    BY <2>1, <2>2 DEF NodeChanges, Becomes, Gone, Vnode
  <2> QED BY <1>0, <2>3
<1> QED BY <1>1, TakenOffline

LEMMA UpIsNotOffline == \A v \in Vnode : StatusOf(v) = "Online" => ~v.offline
BY DEF StatusOf, Vnode, Absent

LEMMA NextUp == HandsOff /\ TypeInv /\ UpStays /\ [Next]_vars => UpStays'
<1> SUFFICES ASSUME HandsOff, TypeInv, UpStays, [Next]_vars PROVE UpStays'
  OBVIOUS
<1> USE DEF SinceStat, AfterReadings, SyncPc
<1>0. pbs \in [Name -> Vnode] /\ TypeInv'
  BY NextType DEF TypeInv, TypeOK, SharedTypeOK
<1>1. CASE SyncReset
  BY <1>1 DEF SyncReset, UpStays
<1>2. CASE SyncReadOpening \/ SyncReadClosing
  BY <1>2 DEF SyncReadOpening, SyncReadClosing, UpStays
<1>3. CASE SyncStat
  BY <1>0, <1>3, UpIsNotOffline DEF SyncStat, UpStays, NodesStatus, shared
<1>4. ASSUME NEW n \in Name, seen'[n] = "Online", ~pbs[n].offline,
             spc' \in AfterReadings => expected'[n] # "Offline",
             ~SyncOffline(n)
      PROVE  ~pbs'[n].offline
  BY <1>4, OfflineByPass
<1>5. CASE SyncReadTargets \/ SyncReadExpected
  <2>1. UNCHANGED <<seen, pbs>> /\ spc \in {"readTargets", "readExpected"}
    BY <1>5 DEF SyncReadTargets, SyncReadExpected, shared
  <2> QED BY <1>5, <2>1 DEF UpStays, SinceStat, SyncReadTargets, SyncReadExpected
<1>6. ASSUME PassGoesOn \/ UNCHANGED <<spc, seen, expected>> PROVE UpStays'
  <2> SUFFICES ASSUME spc' \in SinceStat, NEW n \in Name, seen'[n] = "Online",
                      spc' \in AfterReadings => expected'[n] # "Offline"
               PROVE  ~pbs'[n].offline
    BY DEF UpStays
  <2>1. /\ spc \in SinceStat /\ seen[n] = "Online"
        /\ spc \in AfterReadings => expected[n] # "Offline"
    BY <1>6 DEF PassGoesOn
  <2>2. ~SyncOffline(n)
    BY <2>1 DEF SyncOffline, AtNode
  <2> QED BY <2>1, <2>2, <1>4 DEF UpStays
<1>7. CASE SyncNext
  BY <1>1, <1>2, <1>3, <1>5, <1>6, <1>7, SyncPassFrame
<1>8. CASE UNCHANGED loop
  BY <1>6, <1>8 DEF loop
<1> QED
  BY <1>1, <1>7, <1>8
  DEF Next, SyncTask, Arrive, ApiTask, Drop, Receive, Environment, Panic, Crash, Restart, Quiesce,
      vars

(* Once all nodes are handled the pass handles no other before it ends.    *)
LEMMA PassStaysHandled ==
  ASSUME PassGoesOn, SyncNext, AllHandled
  PROVE  AllHandled'
<1>1. todo' = {} /\ todo = {} /\ spc = "node"
  BY DEF PassGoesOn, AllHandled
<1>2. spc' = "node"
  BY <1>1
  DEF SyncNext, SyncReadOpening, SyncReadClosing, SyncStat, SyncStatFails, SyncReadTargets,
      SyncReadExpected, SyncMissing, SyncAsExpected, SyncOffline, SyncUnexpected, SyncFoundUp,
      AtNode, SyncRelated, SyncSearch, SyncExplained, SyncRelease, SyncSend, SyncCloseQuery,
      SyncCloseIssue,
      SyncCloseComment, SyncClosedAll, SyncOpenLookup, SyncOpenInsert, SyncOpenSend,
      SyncOpenComment, SyncRecord, SyncSettleOpen, SyncSettleClosed, SyncEnd, SyncReset,
      PassGoesOn, AfterReadings
<1> QED BY <1>1, <1>2 DEF AllHandled

LEMMA NextToClose == TypeInv /\ ToCloseWaits /\ [Next]_vars => ToCloseWaits'
<1> SUFFICES ASSUME TypeInv, ToCloseWaits, [Next]_vars PROVE ToCloseWaits'
  OBVIOUS
<1> USE DEF ToCloseWaits, AfterReadings, SyncPc
<1>0. IssuesKeep /\ issue \in [IssueId -> IssueRow] /\ TypeInv'
  BY IssueFrame, NextType DEF TypeInv, TypeOK, SharedTypeOK
<1>1. CASE SyncReset
  BY <1>1 DEF SyncReset
<1>2. CASE SyncReadOpening
  BY <1>2 DEF SyncReadOpening, Inserted, shared
<1>3. CASE SyncReadClosing
  BY <1>3 DEF SyncReadClosing, ClosingRead, WithStatus, Inserted, Absent, shared
<1>4. ASSUME toClose' \subseteq toClose, AllHandled => AllHandled',
             spc' \in {"tick", "readClosing"} => UNCHANGED spc
      PROVE  ToCloseWaits'
  <2>1. \A i \in toClose : i \in Inserted /\ i \in Inserted'
    BY <1>0 DEF IssuesKeep
  <2>2. ASSUME ~AllHandled', NEW i \in toClose' PROVE issue'[i].status \in {"Closing", "Closed"}
    <3>1. ~AllHandled /\ i \in toClose /\ i \in Inserted
      BY <1>4, <2>1, <2>2
    <3>2. issue[i].status \in {"Closing", "Closed"} /\ ~SyncSettleOpen(i)
      BY <3>1 DEF SyncSettleOpen
    <3>3. issue'[i].status \in IssueStatus
      BY <1>0, <1>4, <2>1, <2>2 DEF TypeInv, TypeOK, SharedTypeOK, IssueRow, Inserted
    <3> QED BY <1>0, <3>1, <3>2, <3>3 DEF IssuesKeep, IssueStatus
  <2> QED BY <1>4, <2>1, <2>2
<1>5. CASE SyncStat \/ SyncReadTargets \/ SyncReadExpected
  BY <1>4, <1>5 DEF SyncStat, SyncReadTargets, SyncReadExpected, AllHandled
<1>6. CASE PassGoesOn /\ SyncNext
  BY <1>4, <1>6, PassStaysHandled DEF PassGoesOn
<1>7. CASE SyncNext
  BY <1>1, <1>2, <1>3, <1>5, <1>6, <1>7, SyncPassFrame
<1>8. CASE UNCHANGED loop
  BY <1>4, <1>8 DEF loop, AllHandled
<1> QED
  BY <1>1, <1>7, <1>8
  DEF Next, SyncTask, Arrive, ApiTask, Drop, Receive, Environment, Panic, Crash, Restart, Quiesce,
      vars

(* A node that is accounted for stays so as long as the pass goes on.      *)
LEMMA AccountedStays ==
  ASSUME HandsOff, TypeInv, ClosesOnlyOnDown, [Next]_vars, PassGoesOn \/ UNCHANGED loop,
         NEW n \in Name, Concerned(n), Accounted(n)
  PROVE  Accounted(n)'
<1>1. UNCHANGED <<seen, expected>> /\ toClose' \subseteq toClose
  BY DEF PassGoesOn, loop
<1>2. CASE ~pbs[n].offline
  BY <1>2, OfflineByPass DEF SyncOffline, Concerned, Accounted
<1>3. CASE HasTicket(n)
  <2>1. PICK i \in Live \ toClose : issue[i].target = n
    BY <1>3 DEF HasTicket
  <2>2. i \in Inserted /\ issue[i].status # "Closed" /\ ~SyncSettleClosed(i)
    BY <2>1 DEF Live, SyncSettleClosed
  <2>3. ~SyncCloseIssue(i)
    BY <2>1 DEF SyncCloseIssue, ClosesOnlyOnDown, Closers, Concerned
  <2>4. i \in Live' /\ issue'[i].target = n
    BY <2>1, <2>2, <2>3, IssueFrame DEF IssuesKeep, Live
  <2> QED BY <1>1, <2>1, <2>4 DEF Accounted, HasTicket
<1> QED BY <1>2, <1>3 DEF Accounted

(* What a step of a pass does for the node it is done with or has in hand. *)
LEMMA StepAccounts ==
  ASSUME HandsOff, TypeInv, ClosesOnlyOnDown, UpStays, ToCloseWaits, NodeAccounted,
         [Next]_vars, SyncNext, PassGoesOn
  PROVE  /\ \A n \in Real : n \in todo \ todo' /\ Concerned(n)' => Accounted(n)'
         /\ NodeAccounted'
<1> DEFINE Settles == \A n \in Real : n \in todo \ todo' /\ Concerned(n)' => Accounted(n)'
<1> USE DEF AfterReadings, SyncPc
<1>0. /\ issue \in [IssueId -> IssueRow] /\ pbs \in [Name -> Vnode] /\ todo \subseteq Name
      /\ spc \notin BetweenNodes => node \in todo /\ node \in Name
      /\ UNCHANGED <<seen, expected>> /\ toClose' \subseteq toClose
      /\ \A n \in Name : Concerned(n)' = Concerned(n)
  BY DEF TypeInv, TypeOK, SharedTypeOK, SyncTypeOK, NodeInTodo, PassGoesOn, Concerned
<1> PICK hand : hand = node
  OBVIOUS
<1>1. ASSUME NEW n \in Name, spc' = "node" \/ node' = n, todo' = todo \/ todo' = todo \ {n},
             Concerned(n) => Accounted(n)'
      PROVE  Settles /\ NodeAccounted'
  BY <1>0, <1>1 DEF NodeAccounted
<1>2. ASSUME spc' \notin {"send", "record", "openSend", "openComment"}, UNCHANGED todo
      PROVE  Settles /\ NodeAccounted'
  BY <1>2 DEF NodeAccounted
<1>3. ASSUME NEW n \in Name, SyncMissing(n) PROVE Settles /\ NodeAccounted'
  BY <1>0, <1>1, <1>2, <1>3 DEF SyncMissing, NextNode, Goto, Concerned
<1>4. ASSUME NEW n \in Name, SyncAsExpected(n) PROVE Settles /\ NodeAccounted'
  <2>1. Concerned(n) => ~pbs[n].offline
    BY <1>4 DEF SyncAsExpected, AsExpected, AtNode, Concerned, UpStays, SinceStat
  <2>2. Concerned(n) => Accounted(n)'
    BY <1>4, <2>1 DEF SyncAsExpected, Accounted, shared
  <2> QED BY <1>1, <1>4, <2>2 DEF SyncAsExpected, AtNode, Settle, NextNode
<1>5. ASSUME NEW n \in Name, SyncOffline(n) PROVE Settles /\ NodeAccounted'
  BY <1>1, <1>5 DEF SyncOffline, Concerned, Goto
<1>6. ASSUME NEW n \in Name, SyncUnexpected(n) \/ SyncFoundUp(n) PROVE Settles /\ NodeAccounted'
  BY <1>2, <1>6 DEF SyncUnexpected, SyncFoundUp, Goto
<1>7. CASE SyncRelated
  <2>1. CASE node \in Real
    <3>1. spc' = "search" /\ UNCHANGED todo
      BY <1>7, <2>1 DEF SyncRelated, Goto
    <3> QED BY <1>2, <3>1
  <2>2. CASE node \notin Real
    <3>1. ~Concerned(hand) /\ hand \in Name
      BY <1>0, <1>7, <2>2 DEF SyncRelated, BetweenNodes, Concerned
    <3>2. Settle(node, seen[node])
      BY <1>7, <2>2 DEF SyncRelated
    <3> QED BY <1>1, <3>1, <3>2 DEF Settle, NextNode
  <2> QED BY <2>1, <2>2
<1>8. CASE (\E q \in left : SyncSearch(q)) \/ SyncExplained
  <2>1. spc = "search" /\ spc' \in {"search", "release", "openLookup"} /\ UNCHANGED todo
    BY <1>8 DEF SyncSearch, SyncExplained, Goto
  <2> QED BY <1>2, <2>1
<1>9. CASE SyncRelease
  <2>1. hand \in Name /\ pbs'[hand] = [pbs[hand] EXCEPT !.offline = FALSE]
    BY <1>0, <1>9 DEF SyncRelease, ReleaseNode, BetweenNodes
  <2>2. ~pbs'[hand].offline
    BY <1>0, <2>1 DEF Vnode
  <2> QED BY <1>1, <1>9, <2>1, <2>2 DEF SyncRelease, Goto, Accounted
<1>10. ASSUME spc \in {"send", "record", "openSend", "openComment"},
             spc' = "node" \/ UNCHANGED node, UNCHANGED todo \/ todo' = todo \ {node}
      PROVE  Settles /\ NodeAccounted'
  <2>1. hand \in Name
    BY <1>0, <1>10 DEF BetweenNodes
  <2>2. Concerned(hand) => Accounted(hand)
    BY <1>10 DEF NodeAccounted
  <2>3. Concerned(hand) => Accounted(hand)'
    BY <2>1, <2>2, AccountedStays
  <2> QED BY <1>1, <1>10, <2>1, <2>3
<1>11. CASE SyncSend \/ SyncRecord \/ SyncOpenSend \/ SyncOpenComment
  BY <1>10, <1>11 DEF SyncSend, SyncRecord, SyncOpenSend, SyncOpenComment, Opened, Settle, NextNode,
                     Goto
<1>12. CASE SyncCloseQuery \/ SyncCloseComment
  BY <1>2, <1>12 DEF SyncCloseQuery, SyncCloseComment, Goto
<1>13. ASSUME NEW i \in IssueId, SyncCloseIssue(i) PROVE Settles /\ NodeAccounted'
  BY <1>2, <1>13 DEF SyncCloseIssue, Goto
<1>14. CASE SyncClosedAll
  <2>1. hand \in Name /\ ~Concerned(hand)
    BY <1>0, <1>14 DEF SyncClosedAll, ClosesOnlyOnDown, Closers, Concerned, BetweenNodes
  <2> QED BY <1>1, <1>14, <2>1 DEF SyncClosedAll, Settle, NextNode
<1>15. CASE SyncOpenLookup
  <2>1. CASE Duplicate(node, Reason)
    <3>1. PICK i \in IssueId : issue[i].status = "Open" /\ issue[i].target = hand
      BY <2>1 DEF Duplicate, DuplicateStatus, WithStatus
    <3>2. i \in Live \ toClose
      BY <1>15, <3>1 DEF SyncOpenLookup, Live, Inserted, Absent, ToCloseWaits, AllHandled
    <3>3. i \in Live' \ toClose' /\ issue'[i].target = hand
      BY <1>15, <3>1, <3>2 DEF SyncOpenLookup, readings, Live, Inserted
    <3>4. hand \in Name /\ Accounted(hand)'
      BY <1>0, <1>15, <3>3 DEF SyncOpenLookup, HasTicket, Accounted, BetweenNodes
    <3> QED BY <1>1, <1>15, <2>1, <3>4 DEF SyncOpenLookup, Opened, Settle, NextNode
  <2>2. CASE ~Duplicate(node, Reason)
    BY <1>2, <1>15, <2>2 DEF SyncOpenLookup, Goto
  <2> QED BY <2>1, <2>2
<1>16. ASSUME NEW i \in IssueId, SyncOpenInsert(i) PROVE Settles /\ NodeAccounted'
  <2>1. hand \in Name /\ i \notin toClose
    BY <1>0, <1>16 DEF SyncOpenInsert, InsertIssue, ToCloseWaits, BetweenNodes
  <2>2. issue'[i].status = "Opening" /\ issue'[i].target = hand
    BY <1>0, <1>16 DEF SyncOpenInsert, InsertIssue
  <2>3. Accounted(hand)'
    BY <1>0, <2>1, <2>2 DEF Accounted, HasTicket, Live, Inserted, Absent
  <2> QED BY <1>1, <1>16, <2>1, <2>3 DEF SyncOpenInsert, Goto
<1>17. ASSUME NEW i \in IssueId, SyncSettleOpen(i) \/ SyncSettleClosed(i)
       PROVE  Settles /\ NodeAccounted'
  BY <1>2, <1>17 DEF SyncSettleOpen, SyncSettleClosed, AllHandled
<1> QED
  BY <1>3, <1>4, <1>5, <1>6, <1>7, <1>9, <1>11, <1>12, <1>13, <1>14, <1>15, <1>16, <1>17,
     <1>8
  DEF SyncNext, PassGoesOn, SyncReadOpening, SyncReadClosing, SyncStat, SyncStatFails,
      SyncReadTargets, SyncReadExpected, SyncEnd, SyncReset

LEMMA NextStranded ==
  HandsOff /\ TypeInv /\ ClosesOnlyOnDown /\ StrandedInv /\ [Next]_vars => StrandedInv'
<1> SUFFICES ASSUME HandsOff, TypeInv, ClosesOnlyOnDown, StrandedInv, [Next]_vars
             PROVE  NoNodeStranded' /\ NodeAccounted'
  BY NextUp, NextToClose DEF StrandedInv
<1> USE DEF AfterReadings, SyncPc
<1> DEFINE Handled == spc \in AfterReadings =>
                        \A n \in Real \ todo : Concerned(n) => Accounted(n)
<1>0. Handled /\ (Handled' => NoNodeStranded')
  BY DEF StrandedInv, NoNodeStranded, Concerned, Accounted, HasTicket
<1> SUFFICES Handled' /\ NodeAccounted'
  BY <1>0
<1>1. CASE SyncReset \/ SyncReadOpening \/ SyncReadClosing \/ SyncStat \/ SyncReadTargets
  BY <1>1 DEF SyncReset, SyncReadOpening, SyncReadClosing, SyncStat, SyncReadTargets, NodeAccounted
<1>2. CASE SyncReadExpected
  <2>1. spc' = "node" /\ UNCHANGED seen /\ \A n \in Real \ todo' : seen[n] = Absent
    BY <1>2, NameAssumption DEF SyncReadExpected, Merged, Absent
  <2> QED BY <2>1 DEF NodeAccounted, Concerned
<1>3. ASSUME PassGoesOn \/ UNCHANGED loop, spc' \in AfterReadings,
             NEW n \in Real, n \notin todo, Concerned(n)'
      PROVE  Accounted(n)'
  <2>1. spc \in AfterReadings /\ Concerned(n) /\ n \in Name
    BY <1>3, NameAssumption DEF PassGoesOn, loop, Concerned
  <2> QED BY <1>0, <1>3, <2>1, AccountedStays
<1>4. CASE PassGoesOn /\ SyncNext
  <2>1. /\ \A n \in Real : n \in todo \ todo' /\ Concerned(n)' => Accounted(n)'
        /\ NodeAccounted'
    BY <1>4, StepAccounts DEF StrandedInv
  <2> QED BY <1>3, <1>4, <2>1
<1>5. CASE UNCHANGED loop
  <2> PICK hand : hand = node
    OBVIOUS
  <2>1. Handled'
    BY <1>3, <1>5 DEF loop
  <2>2. ASSUME spc' \in {"send", "record", "openSend", "openComment"}, Concerned(hand)'
        PROVE  Accounted(hand)'
    <3>1. hand \in Name /\ Concerned(hand) /\ Accounted(hand)
      BY <1>5, <2>2 DEF loop, Concerned, StrandedInv, NodeAccounted, TypeInv, TypeOK, SyncTypeOK,
                        NodeInTodo, BetweenNodes
    <3> QED BY <1>5, <3>1, AccountedStays
  <2> QED BY <1>5, <2>1, <2>2 DEF loop, NodeAccounted
<1>6. CASE SyncNext
  BY <1>1, <1>2, <1>4, <1>6, SyncPassFrame
<1> QED
  BY <1>1, <1>5, <1>6
  DEF Next, SyncTask, Arrive, ApiTask, Drop, Receive, Environment, Panic, Crash, Restart, Quiesce,
      vars

(* A pass strands no node, whatever is opened, closed or updated and       *)
(* whatever fails or vanishes while it runs, as long as no operator takes  *)
(* nodes offline by hand: each node it has handled and expected nothing of *)
(* is up, or has a ticket that this pass will not close.                   *)
THEOREM StrandedCorrect ==
  ASSUME HandsOff
  PROVE  Spec => []NoNodeStranded
<1>1. Init => ClosesOnlyOnDown /\ StrandedInv
  BY DEF Init, SyncInit, ClosesOnlyOnDown, Closers, StrandedInv, UpStays, SinceStat, AfterReadings,
         SyncPc, ToCloseWaits, NoNodeStranded, NodeAccounted
<1>2. TypeInv /\ ClosesOnlyOnDown /\ [Next]_vars => ClosesOnlyOnDown'
  BY NextCloses
<1>3. TypeInv /\ ClosesOnlyOnDown /\ StrandedInv /\ [Next]_vars => StrandedInv'
  BY NextStranded
<1>4. Init => TypeInv
  BY InitType
<1>5. TypeInv /\ [Next]_vars => TypeInv'
  BY NextType
<1>6. StrandedInv => NoNodeStranded
  BY DEF StrandedInv
<1> QED BY <1>1, <1>2, <1>3, <1>4, <1>5, <1>6, PTL DEF Spec

-----------------------------------------------------------------------------
(* ClosingWasReleased.  A ticket without a comment on an update keeps the  *)
(* nodes it speaks for, since issue_update comments first and writes then; *)
(* so none that related_closing has not asked for yet gets past it.        *)

GroupsSymmetric ==
  \A m, n \in Real : /\ n \in Siblings[m] => m \in Siblings[n]
                     /\ n \in Cousins[m] => m \in Cousins[n]

UpdatesNoted ==
  \A r \in Req : req[r].pc \in {"updateSend", "updateWrite"} /\ req[r].offline # NoOffline
                   => "updated" \in comment[req[r].issue]

(* What is to be settled is Closing, unless close_open_issues took it with *)
(* the others of a node found up, and then a comment says so.              *)
ToCloseIsClosing ==
  ~AllHandled =>
    \A i \in toClose :
      Untouched(i) => issue[i].status = "Closing" \/ (spc = "closeComment" /\ iss = i)

(* What the queries made so far have not shown is left to the others.      *)
Pending(i) ==
  \/ issue[i].toOffline = NoOffline /\ issue[i].target = node
  \/ <<issue[i].toOffline, issue[i].target>> \in left
SearchGoesOn ==
  spc = "search" =>
    /\ node \in Real
    /\ ~hit => \A i \in toClose : Untouched(i) /\ node \in Related(i) => Pending(i)

Freed(n) == ~pbs[n].offline \/ \A i \in toClose : Untouched(i) => n \notin Related(i)

InHand == {"send", "record", "openLookup", "openInsert", "openSend", "openComment"}
FreeAfterwards ==
  spc \in AfterReadings =>
    \A n \in Name : n \in Real \ todo \/ (spc \in InHand /\ n = node)
                    => (Concerned(n) => Freed(n))

FreedInv ==
  UpStays /\ ToCloseWaits /\ UpdatesNoted /\ ToCloseIsClosing /\ SearchGoesOn /\ FreeAfterwards

(* A request keeps the issue and the change it is about while it updates.  *)
LEMMA NextNoted == TypeInv /\ UpdatesNoted /\ [Next]_vars => UpdatesNoted'
<1> SUFFICES ASSUME TypeInv, UpdatesNoted, [Next]_vars PROVE UpdatesNoted'
  OBVIOUS
<1>0. /\ req \in [Req -> Handler] /\ issue \in [IssueId -> IssueRow]
      /\ comment \in [IssueId -> SUBSET CommentKind]
  BY DEF TypeInv, TypeOK, ApiTypeOK, SharedTypeOK
<1>1. ASSUME NEW r \in Req, req[r].pc \in {"updateSend", "updateWrite"}, req[r].offline # NoOffline
      PROVE  "updated" \in comment'[req[r].issue]
  <2>1. req[r].issue \in IssueId /\ "updated" \in comment[req[r].issue]
    BY <1>1 DEF UpdatesNoted, TypeInv, RequestLocals, KnowsItsArguments
  <2> QED BY <2>1, CommentsGrow
<1>2. CASE UNCHANGED req
  BY <1>1, <1>2 DEF UpdatesNoted
<1>3. ASSUME NEW r \in Req, NEW h, req' = [req EXCEPT ![r] = h],
             h.pc \in {"updateSend", "updateWrite"} /\ h.offline # NoOffline
               => "updated" \in comment'[h.issue]
      PROVE  UpdatesNoted'
  BY <1>0, <1>1, <1>3 DEF UpdatesNoted
<1>4. CASE Restart
  BY <1>4 DEF Restart, Idle, UpdatesNoted
<1>5. ASSUME NEW r \in Req, ApiArrive(r) \/ ApiStep(r) \/ ApiDropped(r) PROVE UpdatesNoted'
  <2>1. ASSUME NEW i \in IssueId, NEW t \in AskTitle \cup {Absent}, NEW off \in AskOffline,
               ApiUpdate(r, i, t, off)
        PROVE  UpdatesNoted'
    <3> DEFINE want == Wanted(issue[i].toOffline, off)
               h == [Idle EXCEPT !.pc = "updateSend", !.issue = i,
                       !.title = IF t = issue[i].title THEN Absent ELSE t,
                       !.offline = IF want = issue[i].toOffline THEN NoOffline ELSE want,
                       !.was = issue[i].toOffline]
    <3>1. req' = [req EXCEPT ![r] = h]
      BY <2>1 DEF ApiUpdate
    <3>2. h.issue = i /\ h.offline = IF want = issue[i].toOffline THEN NoOffline ELSE want
      BY DEF Idle
    <3>3. h.offline # NoOffline => AddComment(i, "updated")
      BY <2>1, <3>2 DEF ApiUpdate
    <3>4. h.offline # NoOffline => "updated" \in comment'[i]
      BY <1>0, <3>3 DEF AddComment
    <3> HIDE DEF h
    <3> QED BY <1>3, <3>1, <3>2, <3>4
  <2>2. CASE ApiUpdateSend(r)
    <3> PICK h : h = [req[r] EXCEPT !.pc = "updateWrite"]
      OBVIOUS
    <3>1. /\ req' = [req EXCEPT ![r] = h] /\ h.issue = req[r].issue /\ h.offline = req[r].offline
          /\ req[r].pc = "updateSend"
      BY <1>0, <2>2 DEF ApiUpdateSend, Step, At, Handler
    <3> QED BY <1>1, <1>3, <3>1
  <2>3. CASE Desires(r)
    <3>1. ASSUME NEW c PROVE Without(req[r], c).pc \in {"idle", "check"}
      BY <1>0 DEF Without, Idle, Handler
    <3> QED BY <1>3, <2>3, <3>1, DesireMoves
  <2>4. ASSUME NEW h, req' = [req EXCEPT ![r] = h], h.pc \notin {"updateSend", "updateWrite"}
        PROVE  UpdatesNoted'
    BY <1>3, <2>4
  <2>5. ASSUME NEW i \in IssueId, ApiOpenInsert(r, i) \/ ApiClose(r, i) PROVE UpdatesNoted'
    BY <2>4, <2>5 DEF ApiOpenInsert, ApiClose, Idle
  <2>6. ASSUME NEW n \in AskNode, NEW t \in AskTitle, NEW off \in AskOffline, ApiOpen(r, n, t, off)
        PROVE  UpdatesNoted'
    BY <1>2, <2>4, <2>6 DEF ApiOpen, Idle
  <2>7. ASSUME NEW pc, pc \notin {"updateSend", "updateWrite"}, Step(r, pc) PROVE UpdatesNoted'
    <3> PICK h : h = [req[r] EXCEPT !.pc = pc]
      OBVIOUS
    <3>1. h.pc = pc
      BY <1>0 DEF Handler
    <3> QED BY <2>4, <2>7, <3>1 DEF Step
  <2>8. CASE Done(r)
    BY <2>4, <2>8 DEF Done, Idle
  <2>9. CASE ApiUpdateWrite(r)
    <3> DEFINE dropped == Narrowed(issue[req[r].issue].target, req[r].was, req[r].offline)
               h == [req[r] EXCEPT !.pc = "check", !.todo = dropped]
    <3>1. Done(r) \/ req' = [req EXCEPT ![r] = h]
      BY <1>0, <2>9 DEF ApiUpdateWrite
    <3>2. h.pc = "check"
      BY <1>0 DEF Handler
    <3> HIDE DEF h
    <3> QED BY <2>4, <2>8, <3>1, <3>2
  <2>10. CASE ApiReleaseFails(r) \/ ApiResumed(r)
    <3> PICK h : h = Without(req[r], req[r].node)
      OBVIOUS
    <3>1. req' = [req EXCEPT ![r] = h] /\ h.pc \in {"idle", "check"}
      BY <1>0, <2>10 DEF ApiReleaseFails, ApiResumed, Without, Idle, Handler
    <3> QED BY <2>4, <3>1
  <2>11. CASE ApiOpenSend(r) \/ ApiOpenComment(r) \/ ApiCloseWrite(r) \/ ApiCloseComment(r)
              \/ ApiCloseSend(r) \/ ApiRelease(r) \/ ApiDropped(r)
    BY <2>7, <2>8, <2>11
    DEF ApiOpenSend, ApiOpenComment, ApiCloseWrite, ApiCloseComment, ApiCloseSend, ApiRelease,
        ApiDropped
  <2> QED
    BY <1>5, <2>1, <2>2, <2>3, <2>5, <2>6, <2>9, <2>10, <2>11 DEF ApiArrive, ApiStep, Desires
<1> QED
  BY <1>2, <1>4, <1>5
  DEF Next, SyncTask, Arrive, ApiTask, Drop, Receive, Environment, Panic, Crash, Quiesce, vars

(* A ticket without such a comment was without it before, and its row said *)
(* what it says.                                                           *)
LEMMA UntouchedKeeps ==
  ASSUME TypeInv, UpdatesNoted, [Next]_vars, NEW i \in Inserted, Untouched(i)'
  PROVE  /\ Untouched(i) /\ Related(i)' = Related(i)
         /\ issue'[i].toOffline = issue[i].toOffline /\ issue'[i].target = issue[i].target
<1>1. Untouched(i)
  BY CommentsGrow DEF Untouched, Inserted
<1>2. issue'[i].toOffline = issue[i].toOffline /\ issue'[i].target = issue[i].target
  BY <1>1, IssueFrame DEF IssuesKeep, UpdatesNoted, Untouched
<1> QED BY <1>1, <1>2 DEF Related

LEMMA FreedStays ==
  ASSUME HandsOff, TypeInv, UpdatesNoted, ToCloseWaits, [Next]_vars, PassGoesOn \/ UNCHANGED loop,
         NEW n \in Name, Concerned(n), Freed(n)
  PROVE  Freed(n)'
<1>1. toClose' \subseteq toClose /\ toClose \subseteq Inserted
  BY DEF PassGoesOn, loop, ToCloseWaits
<1>2. CASE ~pbs[n].offline
  BY <1>2, OfflineByPass DEF SyncOffline, Concerned, Freed
<1>3. CASE \A i \in toClose : Untouched(i) => n \notin Related(i)
  BY <1>1, <1>3, UntouchedKeeps DEF Freed
<1> QED BY <1>2, <1>3 DEF Freed

LEMMA NextToCloseIsClosing ==
  ASSUME TypeInv, UpdatesNoted, ToCloseWaits, ToCloseIsClosing, [Next]_vars
  PROVE  ToCloseIsClosing'
<1> USE DEF AfterReadings, SyncPc
<1>0. IssuesKeep /\ TypeInv' /\ comment \in [IssueId -> SUBSET CommentKind]
  BY IssueFrame, NextType DEF TypeInv, TypeOK, SharedTypeOK
<1>1. CASE SyncReset
  BY <1>1 DEF SyncReset, ToCloseIsClosing
<1>2. CASE SyncReadClosing
  BY <1>2 DEF SyncReadClosing, ClosingRead, WithStatus, ToCloseIsClosing, shared
<1>3. CASE SyncReadOpening
  BY <1>3 DEF SyncReadOpening, ToCloseWaits, ToCloseIsClosing
<1>4. ASSUME ~AllHandled', NEW i \in toClose', i \in toClose, Untouched(i)', ~AllHandled,
             spc # "closeComment" \/ UNCHANGED <<spc, iss>>
      PROVE  issue'[i].status = "Closing" \/ (spc' = "closeComment" /\ iss' = i)
  <2>1. i \in Inserted /\ i \in Inserted' /\ Untouched(i)
    BY <1>0, <1>4, UntouchedKeeps DEF ToCloseWaits, IssuesKeep
  <2>2. issue[i].status = "Closing" \/ (spc = "closeComment" /\ iss = i)
    BY <1>4, <2>1 DEF ToCloseIsClosing
  <2>3. CASE issue[i].status = "Closing" /\ ~SyncCloseIssue(i)
    <3>1. ~SyncSettleOpen(i) /\ ~SyncSettleClosed(i)
      BY <1>4 DEF SyncSettleOpen, SyncSettleClosed
    <3>2. issue'[i].status \in IssueStatus
      BY <1>0, <2>1 DEF TypeInv, TypeOK, SharedTypeOK, IssueRow, Inserted
    <3> QED BY <1>0, <2>1, <2>3, <3>1, <3>2 DEF IssuesKeep, IssueStatus
  <2>4. CASE SyncCloseIssue(i)
    BY <2>4 DEF SyncCloseIssue, Goto
  <2> QED BY <1>4, <2>2, <2>3, <2>4
<1>5. ASSUME toClose' \subseteq toClose, AllHandled => AllHandled',
             spc # "closeComment" \/ UNCHANGED <<spc, iss>>
      PROVE  ToCloseIsClosing'
  BY <1>4, <1>5 DEF ToCloseIsClosing
<1>6. CASE SyncStat \/ SyncReadTargets \/ SyncReadExpected
  BY <1>5, <1>6 DEF SyncStat, SyncReadTargets, SyncReadExpected, AllHandled
<1>7. CASE PassGoesOn /\ SyncNext /\ spc # "closeComment"
  BY <1>5, <1>7, PassStaysHandled DEF PassGoesOn
<1>8. CASE SyncNext /\ spc = "closeComment"
  <2>1. SyncCloseComment
    BY <1>8 DEF SyncNext, SyncReadOpening, SyncReadClosing, SyncStat, SyncStatFails,
       SyncReadTargets, SyncReadExpected, SyncMissing, SyncAsExpected, SyncOffline,
       SyncUnexpected, SyncFoundUp, AtNode, SyncRelated, SyncSearch, SyncExplained, SyncRelease,
       SyncSend, SyncCloseQuery, SyncCloseIssue, SyncClosedAll, SyncOpenLookup, SyncOpenInsert,
       SyncOpenSend, SyncOpenComment, SyncRecord, SyncSettleOpen, SyncSettleClosed, SyncEnd,
       AllHandled
  <2> SUFFICES ASSUME NEW i \in toClose, Untouched(i)' PROVE issue'[i].status = "Closing"
    BY <2>1 DEF SyncCloseComment, readings, ToCloseIsClosing
  <2>2. i \in Inserted /\ i \in IssueId
    BY DEF ToCloseWaits, Inserted
  <2>3. iss # i
    BY <1>0, <2>1, <2>2 DEF SyncCloseComment, AddComment, Untouched
  <2>4. Untouched(i)
    BY <2>2, UntouchedKeeps
  <2> QED BY <2>1, <2>3, <2>4 DEF ToCloseIsClosing, SyncCloseComment, AllHandled
<1>9. CASE SyncNext
  BY <1>1, <1>2, <1>3, <1>6, <1>7, <1>8, <1>9, SyncPassFrame
<1>10. CASE UNCHANGED loop
  BY <1>5, <1>10 DEF loop, AllHandled
<1> QED
  BY <1>1, <1>9, <1>10
  DEF Next, SyncTask, Arrive, ApiTask, Drop, Receive, Environment, Panic, Crash, Restart, Quiesce,
      vars

(* How the loop comes to look for the closing issues of a node, and what   *)
(* one of the queries finds.                                               *)
LEMMA SearchFrame ==
  ASSUME SyncNext, spc' = "search"
  PROVE  SyncRelated \/ \E q \in left : SyncSearch(q)
<1> USE DEF Goto, Settle, NextNode
<1>1. ASSUME NEW n \in Name, SyncMissing(n) \/ SyncAsExpected(n) \/ SyncOffline(n)
                             \/ SyncUnexpected(n) \/ SyncFoundUp(n)
      PROVE  FALSE
  BY <1>1 DEF SyncMissing, SyncAsExpected, SyncOffline, SyncUnexpected, SyncFoundUp
<1>2. ASSUME NEW i \in IssueId, SyncCloseIssue(i) \/ SyncOpenInsert(i) \/ SyncSettleOpen(i)
                                \/ SyncSettleClosed(i)
      PROVE  FALSE
  BY <1>2 DEF SyncCloseIssue, SyncOpenInsert, SyncSettleOpen, SyncSettleClosed, AllHandled
<1>3. CASE SyncReadOpening \/ SyncReadClosing \/ SyncStat \/ SyncStatFails \/ SyncReadTargets
           \/ SyncReadExpected \/ SyncExplained \/ SyncRelease \/ SyncSend \/ SyncCloseQuery
           \/ SyncCloseComment \/ SyncClosedAll \/ SyncOpenLookup \/ SyncOpenSend
           \/ SyncOpenComment \/ SyncRecord \/ SyncEnd
  BY <1>3 DEF SyncReadOpening, SyncReadClosing, SyncStat, SyncStatFails, SyncReadTargets,
     SyncReadExpected, SyncExplained, SyncRelease, SyncSend, SyncCloseQuery, SyncCloseComment,
     SyncClosedAll, SyncOpenLookup, SyncOpenSend, SyncOpenComment, SyncRecord, SyncEnd, SyncReset,
     Opened
<1> QED BY <1>1, <1>2, <1>3 DEF SyncNext

LEMMA ClosingIsShown ==
  ASSUME NEW i \in WithStatus({"Closing"}), NEW n \in Real, issue[i].target = n,
         NEW offs, issue[i].toOffline \in offs
  PROVE  ClosingOn(n, offs)
BY DEF ClosingOn, Shows

(* The groups being symmetric, an issue that speaks for the node is about  *)
(* the node itself or about one the node's own groups lead to.             *)
LEMMA SpeakerIsAsked ==
  ASSUME GroupsSymmetric, NEW i \in IssueId, issue[i] \in IssueRow, NEW n \in Real, n \in Related(i)
  PROVE  /\ issue[i].target \in Real
         /\ issue[i].target # n => <<issue[i].toOffline, issue[i].target>> \in Queries(n, {n})
<1> DEFINE t == issue[i].target
<1>1. t \in Name
  BY DEF IssueRow
<1>2. CASE issue[i].toOffline = "Card"
  <2>1. n \in Siblings[t]
    BY <1>2 DEF Related
  <2>2. t \in Real
    BY <1>1, <2>1, GroupAssumption
  <2>3. t \in Siblings[n]
    BY <2>1, <2>2 DEF GroupsSymmetric
  <2> QED BY <1>2, <2>2, <2>3 DEF Queries
<1>3. CASE issue[i].toOffline = "Blade"
  <2>1. n \in Cousins[t]
    BY <1>3 DEF Related
  <2>2. t \in Real
    BY <1>1, <2>1, GroupAssumption
  <2>3. t \in Cousins[n]
    BY <2>1, <2>2 DEF GroupsSymmetric
  <2> QED BY <1>3, <2>2, <2>3 DEF Queries
<1>4. CASE issue[i].toOffline \notin {"Card", "Blade"}
  BY <1>4 DEF Related
<1> QED BY <1>2, <1>3, <1>4

LEMMA NextSearch ==
  ASSUME GroupsSymmetric, TypeInv, UpdatesNoted, ToCloseWaits, ToCloseIsClosing, SearchGoesOn,
         [Next]_vars
  PROVE  SearchGoesOn'
<1>0. issue \in [IssueId -> IssueRow] /\ toClose \subseteq Inserted /\ Inserted \subseteq IssueId
  BY DEF TypeInv, TypeOK, SharedTypeOK, ToCloseWaits, Inserted
<1>1. ASSUME NEW i \in toClose, Untouched(i)
      PROVE  spc \in {"related", "search"} => i \in WithStatus({"Closing"})
  BY <1>0, <1>1 DEF ToCloseIsClosing, AllHandled, WithStatus
<1>2. CASE SyncRelated
  <2> SUFFICES ASSUME spc' = "search"
               PROVE  /\ node \in Real /\ node' = node
                      /\ ~hit' => \A i \in toClose' : Untouched(i)' /\ node \in Related(i)'
                                                        => Pending(i)'
    BY DEF SearchGoesOn
  <2>1. /\ node \in Real /\ spc = "related"
        /\ left' = Queries(node, {node}) /\ hit' = ClosingOn(node, ToOffline)
        /\ UNCHANGED <<node, toClose, issue>>
    BY <1>2 DEF SyncRelated, Settle, NextNode, readings
  <2>2. ASSUME ~hit', NEW i \in toClose, Untouched(i)', node \in Related(i)'
        PROVE  Pending(i)'
    <3>1. Untouched(i) /\ node \in Related(i)
      BY <1>0, <2>2, UntouchedKeeps
    <3>2. i \in WithStatus({"Closing"})
      BY <1>1, <2>1, <3>1
    <3>3. CASE issue[i].target = node
      <4>1. issue[i].toOffline \notin ToOffline
        BY <2>1, <2>2, <3>2, <3>3, ClosingIsShown
      <4> QED BY <1>0, <2>1, <3>3, <4>1 DEF IssueRow, Pending
    <3>4. CASE issue[i].target # node
      BY <1>0, <2>1, <3>1, <3>4, SpeakerIsAsked DEF Pending
    <3> QED BY <3>3, <3>4
  <2> QED BY <2>1, <2>2
<1>3. ASSUME NEW q \in left, SyncSearch(q) PROVE SearchGoesOn'
  <2>1. /\ spc = "search" /\ UNCHANGED <<spc, node, toClose, issue>>
        /\ left' = left \ {q} /\ hit' = (hit \/ ClosingOn(q[2], {q[1]}))
    BY <1>3 DEF SyncSearch, readings
  <2>2. ASSUME ~hit, ~ClosingOn(q[2], {q[1]}), NEW i \in toClose, Untouched(i)',
               node \in Related(i)'
        PROVE  Pending(i)'
    <3>1. Untouched(i) /\ node \in Related(i)
      BY <1>0, <2>2, UntouchedKeeps
    <3>2. i \in WithStatus({"Closing"}) /\ Pending(i) /\ node \in Real
      BY <1>1, <2>1, <2>2, <3>1 DEF SearchGoesOn
    <3>3. issue[i].target \in Real
      BY <1>0, <3>1, <3>2, SpeakerIsAsked
    <3>4. q # <<issue[i].toOffline, issue[i].target>>
      BY <2>2, <3>2, <3>3, ClosingIsShown
    <3> QED BY <2>1, <3>2, <3>4 DEF Pending
  <2> QED BY <2>1, <2>2 DEF SearchGoesOn
<1>4. CASE UNCHANGED loop
  <2> SUFFICES ASSUME spc = "search", ~hit, NEW i \in toClose, Untouched(i)', node \in Related(i)'
               PROVE  Pending(i)'
    BY <1>4 DEF loop, SearchGoesOn
  <2>1. /\ Untouched(i) /\ node \in Related(i)
        /\ issue'[i].toOffline = issue[i].toOffline /\ issue'[i].target = issue[i].target
    BY <1>0, UntouchedKeeps
  <2> QED BY <1>4, <2>1 DEF loop, SearchGoesOn, Pending
<1>5. CASE SyncNext
  BY <1>2, <1>3, <1>5, SearchFrame DEF SearchGoesOn
<1>6. CASE SyncReset
  BY <1>6 DEF SyncReset, SearchGoesOn
<1> QED
  BY <1>4, <1>5, <1>6
  DEF Next, SyncTask, Arrive, ApiTask, Drop, Receive, Environment, Panic, Crash, Restart, Quiesce,
      vars

(* How a node gets handled, or in hand: there are few ways for one the     *)
(* issues say nothing about.                                               *)
LEMMA HandFrame ==
  ASSUME TypeInv, ClosesOnlyOnDown, SyncNext, PassGoesOn,
         NEW n \in Name, n \in todo \ todo' \/ (spc' \in InHand /\ n = node'), Concerned(n)
  PROVE  \/ spc \in InHand /\ n = node
         \/ SyncAsExpected(n)
         \/ SyncRelease /\ n = node
         \/ SyncExplained /\ n = node /\ ~hit /\ ~ClosingOn(n, {NoOffline})
<1> USE DEF InHand, NextNode, Settle, Goto
<1>1. ASSUME NEW m \in Name, SyncMissing(m) PROVE FALSE
  <2>1. n = m
    BY <1>1 DEF SyncMissing
  <2> QED BY <1>1, <2>1 DEF SyncMissing, Concerned
<1>2. ASSUME NEW m \in Name, SyncAsExpected(m) PROVE n = m
  BY <1>2 DEF SyncAsExpected
<1>3. ASSUME NEW m \in Name, SyncOffline(m) PROVE FALSE
  BY <1>3 DEF SyncOffline, Concerned
<1>4. ASSUME NEW m \in Name, SyncUnexpected(m) \/ SyncFoundUp(m) PROVE FALSE
  BY <1>4 DEF SyncUnexpected, SyncFoundUp
<1>5. CASE SyncRelated
  <2>1. n = node /\ node \notin Real
    BY <1>5 DEF SyncRelated
  <2> QED BY <2>1 DEF Concerned
<1>6. CASE (\E q \in left : SyncSearch(q)) \/ SyncExplained
  BY <1>6 DEF SyncSearch, SyncExplained, readings
<1>7. CASE SyncRelease
  BY <1>7 DEF SyncRelease
<1>8. CASE SyncSend \/ SyncRecord \/ SyncOpenSend \/ SyncOpenComment \/ SyncOpenLookup
  BY <1>8 DEF SyncSend, SyncRecord, SyncOpenSend, SyncOpenComment, SyncOpenLookup, Opened
<1>9. ASSUME NEW i \in IssueId, SyncOpenInsert(i) PROVE spc \in InHand /\ n = node
  BY <1>9 DEF SyncOpenInsert
<1>10. CASE SyncCloseQuery \/ SyncCloseComment
  BY <1>10 DEF SyncCloseQuery, SyncCloseComment
<1>11. CASE SyncClosedAll
  <2>1. n = node
    BY <1>11 DEF SyncClosedAll
  <2> QED BY <1>11, <2>1 DEF SyncClosedAll, ClosesOnlyOnDown, Closers, Concerned
<1>12. ASSUME NEW i \in IssueId, SyncCloseIssue(i) \/ SyncSettleOpen(i) \/ SyncSettleClosed(i)
       PROVE  FALSE
  BY <1>12 DEF SyncCloseIssue, SyncSettleOpen, SyncSettleClosed, AllHandled
<1> QED
  BY <1>1, <1>2, <1>3, <1>4, <1>5, <1>6, <1>7, <1>8, <1>9, <1>10, <1>11, <1>12
  DEF SyncNext, PassGoesOn, AfterReadings, SyncReadOpening, SyncReadClosing, SyncStat,
      SyncStatFails, SyncReadTargets, SyncReadExpected, SyncEnd, SyncReset

LEMMA NextFree ==
  ASSUME HandsOff, GroupsSymmetric, TypeInv, ClosesOnlyOnDown, FreedInv, [Next]_vars
  PROVE  FreeAfterwards'
<1> USE DEF AfterReadings, SyncPc
<1>0. issue \in [IssueId -> IssueRow] /\ pbs \in [Name -> Vnode]
  BY DEF TypeInv, TypeOK, SharedTypeOK
<1>1. CASE SyncReset \/ SyncReadOpening \/ SyncReadClosing \/ SyncStat \/ SyncReadTargets
  BY <1>1 DEF SyncReset, SyncReadOpening, SyncReadClosing, SyncStat, SyncReadTargets,
              FreeAfterwards
<1>2. CASE SyncReadExpected
  <2>1. spc' = "node" /\ UNCHANGED seen /\ \A n \in Real \ todo' : seen[n] = Absent
    BY <1>2, NameAssumption DEF SyncReadExpected, Merged, Absent
  <2> QED BY <2>1 DEF FreeAfterwards, Concerned, InHand
<1>3. ASSUME PassGoesOn \/ UNCHANGED loop, spc \in AfterReadings, NEW n \in Name,
             Concerned(n)', n \in Real \ todo \/ (spc \in InHand /\ n = node)
      PROVE  Freed(n)'
  <2>1. Concerned(n)
    BY <1>3 DEF PassGoesOn, loop, Concerned
  <2> QED BY <1>3, <2>1, FreedStays DEF FreedInv, FreeAfterwards
<1>4. ASSUME PassGoesOn, SyncNext, NEW n \in Name, Concerned(n)',
             n \in Real \ todo' \/ (spc' \in InHand /\ n = node')
      PROVE  Freed(n)'
  <2>1. Concerned(n)
    BY <1>4 DEF PassGoesOn, Concerned
  <2>2. ASSUME SyncAsExpected(n) PROVE Freed(n)'
    <3>1. ~pbs[n].offline /\ UNCHANGED pbs
      BY <2>1, <2>2 DEF SyncAsExpected, AsExpected, AtNode, Concerned, FreedInv, UpStays,
                        SinceStat, shared
    <3> QED BY <3>1 DEF Freed
  <2>3. ASSUME SyncRelease, n = node PROVE Freed(n)'
    <3>1. pbs'[n] = [pbs[n] EXCEPT !.offline = FALSE]
      BY <1>0, <2>3 DEF SyncRelease, ReleaseNode
    <3> QED BY <1>0, <3>1 DEF Vnode, Freed
  <2>4. ASSUME SyncExplained, n = node, ~hit, ~ClosingOn(n, {NoOffline}) PROVE Freed(n)'
    <3>1. n \in Real /\ spc = "search" /\ left = {} /\ ~AllHandled
      BY <2>1, <2>4 DEF SyncExplained, Concerned, AllHandled
    <3>2. ASSUME NEW i \in toClose, Untouched(i), n \in Related(i) PROVE FALSE
      <4>1. issue[i].toOffline = NoOffline /\ issue[i].target = n
        BY <2>4, <3>1, <3>2 DEF FreedInv, SearchGoesOn, Pending
      <4>2. i \in WithStatus({"Closing"})
        BY <3>1, <3>2 DEF FreedInv, ToCloseWaits, ToCloseIsClosing, Inserted, WithStatus
      <4> QED BY <2>4, <3>1, <4>1, <4>2, ClosingIsShown
    <3>3. Freed(n)
      BY <3>2 DEF Freed
    <3> QED BY <2>1, <3>3, <1>4, FreedStays DEF FreedInv
  <2>5. CASE n \in todo \ todo' \/ (spc' \in InHand /\ n = node')
    BY <1>3, <1>4, <2>1, <2>2, <2>3, <2>4, <2>5, HandFrame DEF PassGoesOn
  <2>6. CASE n \in Real \ todo
    BY <1>3, <1>4, <2>6 DEF PassGoesOn
  <2> QED BY <1>4, <2>5, <2>6
<1>5. CASE PassGoesOn /\ SyncNext
  BY <1>4, <1>5 DEF FreeAfterwards
<1>6. CASE SyncNext
  BY <1>1, <1>2, <1>5, <1>6, SyncPassFrame
<1>7. CASE UNCHANGED loop
  <2> SUFFICES ASSUME NEW n \in Name, Concerned(n)',
                      n \in Real \ todo' \/ (spc' \in InHand /\ n = node'), spc' \in AfterReadings
               PROVE  Freed(n)'
    BY DEF FreeAfterwards
  <2> QED BY <1>3, <1>7 DEF loop
<1> QED
  BY <1>1, <1>6, <1>7
  DEF Next, SyncTask, Arrive, ApiTask, Drop, Receive, Environment, Panic, Crash, Restart, Quiesce,
      vars

(* Closing an issue puts its nodes back, if boards and slots are symmetric *)
(* and no operator takes nodes offline by hand: whatever becomes of other  *)
(* issues between the queries, a pass that settles one nobody has updated, *)
(* and close_open_issues has not met, has left none of its nodes out of    *)
(* service that no other issue holds.  Without these exceptions it is not  *)
(* so, see SafeToCloseAll and NoneOpenYet.                                 *)
THEOREM ClosingCorrect ==
  ASSUME HandsOff, GroupsSymmetric
  PROVE  Spec => []ClosingWasReleased
<1>1. Init => ClosesOnlyOnDown /\ FreedInv
  BY DEF Init, SyncInit, ApiInit, Idle, ClosesOnlyOnDown, Closers, FreedInv, UpStays, SinceStat,
         AfterReadings, SyncPc, ToCloseWaits, UpdatesNoted, ToCloseIsClosing, SearchGoesOn,
         FreeAfterwards, InHand
<1>2. TypeInv /\ ClosesOnlyOnDown /\ [Next]_vars => ClosesOnlyOnDown'
  BY NextCloses
<1>3. TypeInv /\ ClosesOnlyOnDown /\ FreedInv /\ [Next]_vars => FreedInv'
  BY NextUp, NextToClose, NextNoted, NextToCloseIsClosing, NextSearch, NextFree DEF FreedInv
<1>4. Init => TypeInv
  BY InitType
<1>5. TypeInv /\ [Next]_vars => TypeInv'
  BY NextType
<1>6. TypeInv /\ FreedInv => ClosingWasReleased
  <2> SUFFICES ASSUME TypeInv, FreedInv, AllHandled, NEW i \in toClose, Untouched(i),
                      NEW n \in Related(i), Concerned(n)
               PROVE  ~pbs[n].offline
    BY DEF ClosingWasReleased, Concerned
  <2>1. spc \in AfterReadings /\ todo = {} /\ n \in Real /\ n \in Name
    BY NameAssumption DEF AllHandled, AfterReadings, SyncPc, Concerned
  <2> QED BY <2>1 DEF FreedInv, FreeAfterwards, Freed
<1> QED BY <1>1, <1>2, <1>3, <1>4, <1>5, <1>6, PTL DEF Spec
=============================================================================

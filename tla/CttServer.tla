----------------------------- MODULE CttServer -----------------------------
(***************************************************************************)
(* The running process: the sync loop, the API requests, the change log    *)
(* task, which takes messages out of the channel, and around them PBS,     *)
(* whose nodes change on their own, and systemd, which restarts the        *)
(* process when it dies.                                                   *)
(***************************************************************************)
EXTENDS Sync, Api

CONSTANTS
  Happens,   \* what nodes do on their own, see Environment
  Faults,    \* subset of {"crash", "drop"}
  Reserve    \* bound: no new request or event unless more ids than this are left

VARIABLE quiet   \* TRUE once no request or event comes any more

vars == <<shared, loop, req, quiet>>

Init == SharedInit /\ SyncInit /\ ApiInit /\ quiet = FALSE

(* Room for the tickets the loop itself may open for what happens now.     *)
Busy == ~quiet /\ Cardinality(IssueId \ Inserted) > Reserve

-----------------------------------------------------------------------------
(* PBS and its operators.                                                  *)

Gone == [present |-> FALSE, offline |-> FALSE, down |-> FALSE, jobs |-> FALSE]

Becomes(what, n, v) == what \in Happens[n] /\ v # pbs[n] /\ pbs' = [pbs EXCEPT ![n] = v]

NodeChanges(n) ==
  \/ pbs[n].present /\ Becomes("fails", n, [pbs[n] EXCEPT !.down = TRUE])
  \/ pbs[n].present /\ Becomes("recovers", n, [pbs[n] EXCEPT !.down = FALSE])
  \/ StatusOf(pbs[n]) = "Online" /\ Becomes("jobStarts", n, [pbs[n] EXCEPT !.jobs = TRUE])
  \/ pbs[n].present /\ Becomes("jobsEnd", n, [pbs[n] EXCEPT !.jobs = FALSE])
  \/ pbs[n].present /\ Becomes("handOffline", n, [pbs[n] EXCEPT !.offline = TRUE])
  \/ pbs[n].present /\ Becomes("handOnline", n, [pbs[n] EXCEPT !.offline = FALSE])
  \/ Becomes("vanishes", n, Gone)
  \/ ~pbs[n].present /\ Becomes("appears", n, [Gone EXCEPT !.present = TRUE])

Environment ==
  /\ Busy
  /\ \E n \in Name : NodeChanges(n)
  /\ UNCHANGED <<issue, target, comment, chan, loop, req, quiet>>

-----------------------------------------------------------------------------
(* slack_updater's receive; what it posts does not come back.              *)
Receive ==
  /\ Taken
  /\ UNCHANGED <<issue, target, comment, pbs, loop, req, quiet>>

(* The panic hook exits the process and systemd starts it again; the       *)
(* database and PBS keep what was written, and nothing else survives.      *)
Restart ==
  /\ SyncReset
  /\ req' = [r \in Req |-> Idle]
  /\ Emptied
  /\ UNCHANGED <<issue, target, comment, pbs, quiet>>

Panic == (SyncPanics \/ ApiPanics) /\ Restart
Crash == "crash" \in Faults /\ Busy /\ Restart

SyncTask == SyncNext /\ UNCHANGED <<req, quiet>>
Arrive == Busy /\ (\E r \in Req : ApiArrive(r)) /\ UNCHANGED <<loop, quiet>>
ApiTask(r) == ApiStep(r) /\ UNCHANGED <<loop, quiet>>
Drop == "drop" \in Faults /\ (\E r \in Req : ApiDropped(r)) /\ UNCHANGED <<loop, quiet>>

Quiesce ==
  /\ ~quiet /\ quiet' = TRUE
  /\ UNCHANGED <<shared, loop, req>>

Next ==
  \/ SyncTask
  \/ Arrive \/ (\E r \in Req : ApiTask(r)) \/ Drop
  \/ Receive
  \/ Environment
  \/ Panic \/ Crash
  \/ Quiesce

Spec == Init /\ [][Next]_vars

(* The runtime keeps polling tasks that can go on, and PBS answers a pass  *)
(* now and then.                                                           *)
Fairness ==
  /\ WF_vars(SyncTask)
  /\ SF_vars(SyncStat /\ UNCHANGED <<req, quiet>>)
  /\ \A r \in Req : WF_vars(ApiTask(r))
  /\ WF_vars(Receive)
  /\ WF_vars(Panic)

FairSpec == Spec /\ Fairness
=============================================================================

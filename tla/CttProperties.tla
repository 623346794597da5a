--------------------------- MODULE CttProperties ---------------------------
(***************************************************************************)
(* What cttd should and should not do, over the whole server.              *)
(***************************************************************************)
EXTENDS CttServer

(* Every variable of the server has its type.                              *)
TypeOK ==
  /\ SharedTypeOK
  /\ SyncTypeOK
  /\ ApiTypeOK
  /\ quiet \in BOOLEAN

(* handle_transition compares the final status with the one read at the    *)
(* start of the pass and writes only a difference (sync.rs:353).  That is  *)
(* right only if nobody else changed the recorded status meanwhile: for    *)
(* each node still to be handled, the reading is the current row, or the   *)
(* row does not exist and would be created Online.                         *)
CompareIsCurrent ==
  spc \in AfterReadings =>
    \A n \in todo : old[n] = IF target[n] = Absent THEN "Online" ELSE target[n]

(* A pass takes a node out of service on a reading of the issues that may  *)
(* be old, but never for an issue that is over: some issue on a node of    *)
(* its board or slot still awaits its closing by a later step.             *)
Reach(n) == {n} \cup Siblings[n] \cup Cousins[n]
OfflineHasLiveIssue ==
  \A n \in todo :
    expected[n] = "Offline" =>
      \E i \in Live : n \in Reach(issue[i].target) /\ expected[issue[i].target] = "Offline"

(* When the pass settles an issue it found Opening, and nobody touched the *)
(* issue, the pass did act on it: its node was expected out of service.    *)
OpenedWasEnforced ==
  \A i \in toOpen :
    spc \in AfterReadings /\ issue[i].status = "Opening" /\ issue[i].target \in Real
      => expected[issue[i].target] # "Unset"

(* Closing an issue puts its nodes back: when the pass is about to settle  *)
(* one that no update and no close_open_issues has touched, each node it   *)
(* speaks for that nothing else holds is not offline, whatever happens to  *)
(* other issues while related_closing looks for this one (sync.rs:289).    *)
Untouched(i) == comment[i] \cap {"updated", "foundUp"} = {}
ClosingWasReleased ==
  \A i \in toClose :
    AllHandled /\ issue[i].status = "Closing" /\ Untouched(i) =>
      \A n \in Related(i) :
        n \in Real /\ seen[n] # Absent /\ expected[n] = "Unset" => ~pbs[n].offline

(* No node is left out of service unnoticed: one the pass has handled, and *)
(* that no open issue was expected to hold, is not offline or has a ticket *)
(* that outlives the pass.                                                 *)
NoNodeStranded ==
  spc \in AfterReadings =>
    \A n \in Real \ todo :
      seen[n] # Absent /\ expected[n] = "Unset" =>
        ~pbs[n].offline \/ \E i \in Live \ toClose : issue[i].target = n

(* The loop opens a ticket for a node missing from PBS each time it sees   *)
(* the ticket it opened before not settled, yet it never piles up more     *)
(* than two, as long as no crash keeps passes from settling them.          *)
MissingTickets(n) ==
  {i \in WithStatus(OpenStatus) : issue[i].target = n /\ issue[i].title = MissingTitle}
AtMostTwoMissing == \A n \in Name : Cardinality(MissingTickets(n)) <= 2

(* A closed ticket says why in a comment, or the one who closed it is      *)
(* about to write it.                                                      *)
Writing(i) ==
  \/ iss = i /\ spc = "closeComment"
  \/ \E r \in Req : req[r].issue = i /\ req[r].pc = "closeComment"
ClosedIsExplained ==
  \A i \in Inserted :
    issue[i].status \in {"Closing", "Closed"} =>
      comment[i] \cap {"closed", "foundUp"} # {} \/ Writing(i)

(* A name that is no longer real gets no ticket, keeps its recorded status *)
(* and is not put back in service, except by PBS's own operators: its row  *)
(* may still be read by the loop.                                          *)
RemovedIsLeftAlone ==
  [][\A n \in Name \ Real :
       /\ target'[n] = target[n]
       /\ pbs[n].offline => pbs'[n].offline \/ Environment
       /\ \A i \in IssueId \ Inserted : i \in Inserted' => issue'[i].target # n]_vars

(* Nodes change hands only for tickets, however old what the task read is: *)
(* the loop takes one out of service while a ticket on its board or slot   *)
(* is not over, and puts it back while one there is still being closed; a  *)
(* request puts back only the others a ticket it narrowed may have held.   *)
Near(n, m) == n \in Reach(m) \/ m \in Reach(n)
For(n, T) == \E i \in T : Near(n, issue[i].target)
NarrowedFrom(r, n) ==
  /\ At(r, "release")
  /\ n \in Reach(issue[req[r].issue].target) \ {issue[req[r].issue].target}
OnlyForTickets ==
  [][\A n \in Name :
       pbs'[n].offline # pbs[n].offline =>
         \/ Environment
         \/ pbs'[n].offline /\ For(n, Live)
         \/ ~pbs'[n].offline /\ For(n, WithStatus({"Closing"}))
         \/ ~pbs'[n].offline /\ \E r \in Req : NarrowedFrom(r, n)]_vars

(* Whatever nodes, groups and requests do, a ticket lives as TicketLife    *)
(* says, crashes and dropped requests included.                            *)
Pass == CASE spc = "tick" -> "idle"
          [] spc = "readClosing" -> "finding"
          [] AllHandled -> "settling"
          [] OTHER -> "acting"
Life == INSTANCE TicketLife WITH
          status <- [i \in IssueId |-> issue[i].status],
          pass <- Pass, opening <- toOpen, closing <- toClose, doomed <- closing,
          asked <- [r \in Req |-> IF At(r, "closeWrite") THEN req[r].issue ELSE NoIssue]
TicketsLive == Life!LifeSpec

(* Once nothing happens any more the tickets, the scheduler and the        *)
(* recorded statuses come to agree and stay so.                            *)
Holding(n) == {i \in WithStatus({"Open"}) : n \in Related(i) /\ issue[i].toOffline # NoOffline}
Ticketed(n) == \E i \in WithStatus({"Open"}) : issue[i].target = n

Agrees(n) ==
  LET status == StatusOf(pbs[n])
  IN  CASE Holding(n) # {} /\ pbs[n].present -> status \in {"Draining", "Offline"}
        [] ~pbs[n].present -> target[n] # Absent => Ticketed(n)
        [] OTHER -> status = "Online" <=> ~Ticketed(n)

Converged ==
  /\ WithStatus({"Opening", "Closing"}) = {}
  /\ \A n \in Real : Agrees(n) /\ (pbs[n].present =>
                        target[n] \in {Absent, StatusOf(pbs[n])})

Converges == quiet ~> []Converged

-----------------------------------------------------------------------------
(* What comments in the code and its answers say, and the code does not    *)
(* keep.                                                                   *)

(* sync.rs:346: it is safe to close all issues on a node found up, since   *)
(* none of them has to_offline set.                                        *)
SafeToCloseAll ==
  spc = "closeIssue" => \A i \in closing : issue[i].toOffline = NoOffline

(* mutation.rs:355 answers "closed", sync.rs:259 notes the issue resolved: *)
(* an issue on its way to be closed does not become open again.            *)
ClosedIsNotReopened ==
  [][\A i \in IssueId : issue[i].status \in {"Closing", "Closed"} =>
                         issue'[i].status \in {"Closing", "Closed"}]_vars

(* sync.rs:302: no issue is open any more where the loop opens one for a   *)
(* node it finds out of service.  Closing ones are open too, for them      *)
(* related_closing has just looked (sync.rs:290).                          *)
NoneOpenYet ==
  spc = "openInsert" /\ seen[node] # Absent => \A i \in Live : node \notin Related(i)
=============================================================================

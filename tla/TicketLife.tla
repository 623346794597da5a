----------------------------- MODULE TicketLife -----------------------------
(***************************************************************************)
(* What becomes of tickets, whatever they are about: a pass of the loop    *)
(* finds those on their way in or out and moves them on when it is over, a *)
(* client closes one it found open some time before, and the pass closes   *)
(* what it finds on a node that is up.  Nobody looks at the status again   *)
(* before writing it, so a ticket may go back to Open from Closing or      *)
(* Closed, and back to Closing from Closed, but only in these ways.        *)
(***************************************************************************)
EXTENDS TargetRows

CONSTANTS IssueId, NoIssue, Req

VARIABLES
  status,    \* issue id -> status, Absent before it is opened
  pass,      \* what the loop is at: "idle", "finding", "acting", "settling"
  opening,   \* found Opening by the pass, not yet Open
  closing,   \* found Closing by the pass, not yet Closed
  doomed,    \* found on a node that is up, not yet Closed
  asked      \* request -> the issue it found open and is about to close

found == <<opening, closing, doomed>>
lvars == <<status, pass, found, asked>>

LifeStatus == {"Opening", "Open", "Closing", "Closed"}
InStatus(S) == {i \in IssueId : status[i] \in S}
Turns(i, s) == status' = [status EXCEPT ![i] = s]

LifeInit ==
  /\ status \in [IssueId -> LifeStatus \cup {Absent}]
  /\ pass = "idle" /\ opening = {} /\ closing = {} /\ doomed = {}
  /\ asked = [r \in Req |-> NoIssue]

Opened(i) == status[i] = Absent /\ Turns(i, "Opening") /\ UNCHANGED <<pass, found, asked>>

(* The pass.                                                               *)
FindOpening ==
  /\ pass = "idle" /\ pass' = "finding"
  /\ opening' = InStatus({"Opening"})
  /\ UNCHANGED <<status, closing, doomed, asked>>

FindClosing ==
  /\ pass = "finding" /\ pass' = "acting"
  /\ closing' = InStatus({"Closing"})
  /\ UNCHANGED <<status, opening, doomed, asked>>

FindUp ==
  /\ pass = "acting" /\ doomed = {}
  /\ doomed' \subseteq InStatus(LifeStatus \ {"Closed"})
  /\ UNCHANGED <<status, pass, opening, closing, asked>>

CloseFoundUp(i) ==
  /\ pass = "acting" /\ i \in doomed
  /\ Turns(i, "Closed") /\ doomed' = doomed \ {i}
  /\ UNCHANGED <<pass, opening, closing, asked>>

Handled == pass = "acting" /\ doomed = {} /\ pass' = "settling" /\ UNCHANGED <<status, found, asked>>

SettleOpen(i) ==
  /\ pass = "settling" /\ i \in opening
  /\ Turns(i, "Open") /\ opening' = opening \ {i}
  /\ UNCHANGED <<pass, closing, doomed, asked>>

SettleClosed(i) ==
  /\ pass = "settling" /\ opening = {} /\ i \in closing
  /\ Turns(i, "Closed") /\ closing' = closing \ {i}
  /\ UNCHANGED <<pass, opening, doomed, asked>>

Over == pass = "settling" /\ opening \cup closing = {} /\ pass' = "idle" /\ UNCHANGED <<status, found, asked>>

(* The scheduler does not answer.                                          *)
GivenUp ==
  /\ pass = "acting" /\ doomed = {} /\ pass' = "idle"
  /\ opening' = {} /\ closing' = {}
  /\ UNCHANGED <<status, doomed, asked>>

(* The requests.                                                           *)
Asks(r, i) ==
  /\ asked[r] = NoIssue /\ status[i] \in {"Open", "Opening"}
  /\ asked' = [asked EXCEPT ![r] = i]
  /\ UNCHANGED <<status, pass, found>>

Closes(r) ==
  /\ asked[r] # NoIssue /\ Turns(asked[r], "Closing")
  /\ asked' = [asked EXCEPT ![r] = NoIssue]
  /\ UNCHANGED <<pass, found>>

Dropped(r) ==
  /\ asked' = [asked EXCEPT ![r] = NoIssue]
  /\ UNCHANGED <<status, pass, found>>

(* The process dies; only what is written remains.                         *)
Dies ==
  /\ pass' = "idle" /\ opening' = {} /\ closing' = {} /\ doomed' = {}
  /\ asked' = [r \in Req |-> NoIssue]
  /\ UNCHANGED status

LifeNext ==
  \/ FindOpening \/ FindClosing \/ FindUp \/ Handled \/ Over \/ GivenUp
  \/ \E i \in IssueId : \/ Opened(i) \/ CloseFoundUp(i)
                        \/ SettleOpen(i) \/ SettleClosed(i)
  \/ \E r \in Req : Closes(r) \/ Dropped(r) \/ \E i \in IssueId : Asks(r, i)
  \/ Dies

LifeSpec == LifeInit /\ [][LifeNext]_lvars
=============================================================================

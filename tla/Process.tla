------------------------------ MODULE Process ------------------------------
(***************************************************************************)
(* The life of the process seen by its clients: systemd starts it, it sets *)
(* up its database, serves who logged in, and ends.                        *)
(***************************************************************************)
EXTENDS Setup, Session

pvars == <<svars, sessions>>

ProcessInit == SetupInit /\ SessionInit

SettingUp == Starting /\ UNCHANGED sessions

LogsIn(c) == Serving /\ Login(c) /\ UNCHANGED svars

(* With any of its tokens, or with anything else.                          *)
Requests(c) ==
  /\ Serving
  /\ \E what \in {"query", "mutation"}, t \in tokens[c] \cup {Other} : Asks(c, what, t)
  /\ UNCHANGED svars

Query(c) ==
  /\ Serving /\ asked[c].what = "query" /\ Executes(c)
  /\ Answer(c)
  /\ UNCHANGED svars

Mutation(c) ==
  /\ Serving /\ asked[c].what = "mutation" /\ Executes(c)
  /\ Answer(c)
  /\ tickets' = TRUE
  /\ UNCHANGED <<tables, recorded, start, crashes, hand>>

Refusal(c) == Serving /\ Refuses(c) /\ Answer(c) /\ UNCHANGED svars

(* What is no token, has expired or is of an earlier process ends it.      *)
TokenPanics(c) ==
  /\ Serving /\ DecodeFails(c)
  /\ Exits
  /\ Disconnected
  /\ UNCHANGED <<disk, crashes, hand>>

Dies == Crash /\ Disconnected

Outside ==
  \/ (\E t \in Table : TableLost(t)) /\ UNCHANGED sessions
  \/ FileLost /\ UNCHANGED sessions
  \/ (\E c \in Client : Regroup(c)) /\ UNCHANGED svars
  \/ Tick /\ UNCHANGED svars
  \/ (WindowOver \/ StartedByHand) /\ UNCHANGED sessions

ProcessNext ==
  \/ SettingUp
  \/ \E c \in Client :
       LogsIn(c) \/ Requests(c) \/ Query(c) \/ Mutation(c) \/ Refusal(c) \/ TokenPanics(c)
  \/ Dies
  \/ Outside

ProcessSpec == ProcessInit /\ [][ProcessNext]_pvars

(* Restart=on-failure until the limit of starts, and the process goes on   *)
(* with its start.                                                         *)
ProcessFairSpec == ProcessSpec /\ WF_pvars(SettingUp)

-----------------------------------------------------------------------------
(* A token tells its age, and its holder was an admin when it was issued.  *)
TokensTrue ==
  \A c \in Client : \A t \in tokens[c] \cup {asked[c].token} :
    t.role = "Admin" => since[c] <= t.age

(* Types; it serves on complete tables, rows are in a table, and tokens    *)
(* say what was true.                                                      *)
ProcessTypeOK ==
  /\ tables \subseteq Table /\ recorded \in BOOLEAN /\ tickets \in BOOLEAN
  /\ at \in {"exited", "failed", "check", "down", "up", "assert", "serving"}
  /\ work \in Seq(Table)
  /\ starts \in 0 .. StartLimit /\ crashes \in 0 .. MaxCrash /\ hand \in 0 .. MaxHand
  /\ groups \in [Client -> SUBSET Group]
  /\ tokens \in [Client -> SUBSET Token]
  /\ asked \in [Client -> Request \cup {Nothing}]
  /\ since \in [Client -> 0 .. Span + 1]
  /\ Serving => AllThere
  /\ tickets => "issue" \in tables
  /\ TokensTrue

(* The role is read from the token (auth.rs:205), not from the groups: a   *)
(* change is still carried out for somebody who is no admin any more, but  *)
(* only within the lifetime of a token after being one, through whatever   *)
(* restarts and logins.                                                    *)
OnlyRecentAdmins == [][\A c \in Client : Mutation(c) => since[c] <= Span]_pvars

(* setup.rs:23: a start that finds a table missing drops the others, but   *)
(* the tickets only when the targets they are about are lost already.      *)
TicketsSurvive ==
  [][tickets /\ ~tickets' => hand' # hand \/ "target" \notin tables]_pvars

(* Wherever starts are broken off, and whoever comes with which token, the *)
(* process serves again and again, or systemd gives it up after too many   *)
(* starts in a row; unless a table is lost of a migration that is recorded:*)
(* then no start succeeds any more.                                        *)
ComesUp == <>[](recorded => AllThere) => []<>(Serving \/ GivenUp)
=============================================================================

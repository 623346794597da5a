------------------------------- MODULE Setup -------------------------------
(***************************************************************************)
(* setup_and_connect: a start of the process looks for its three tables    *)
(* and, when one is missing, takes its migration down and up again.  The   *)
(* database has no transaction around that: a crash leaves any part of it. *)
(***************************************************************************)
EXTENDS Naturals, Sequences

CONSTANTS
  MaxCrash,   \* bound: crashes during a start
  MaxHand,    \* bound: tables or files that somebody removes
  StartLimit  \* starts systemd allows in ten seconds, 5 by default

ASSUME MaxCrashAssumption == MaxCrash \in Nat
ASSUME MaxHandAssumption == MaxHand \in Nat
ASSUME StartLimitAssumption == StartLimit \in Nat \ {0}

VARIABLES
  tables,     \* the tables there are
  recorded,   \* seaql_migrations says that the migration was applied
  tickets,    \* the issue table has rows
  at,         \* where the process is
  work,       \* the tables yet to be dropped or created
  starts,     \* starts in the last ten seconds
  crashes, hand

disk == <<tables, recorded, tickets>>
start == <<at, work, starts>>
svars == <<disk, start, crashes, hand>>

Table == {"issue", "comment", "target"}
Serving == at = "serving"
GivenUp == at = "failed"

SetupInit ==
  /\ tables = {} /\ recorded = FALSE /\ tickets = FALSE
  /\ at = "exited" /\ work = <<>> /\ starts = 0
  /\ crashes = 0 /\ hand = 0

-----------------------------------------------------------------------------
Moves(where, with) == at' = where /\ work' = with
Goes(where, with) == Moves(where, with) /\ UNCHANGED starts

(* systemd starts it, unless it did so too often just now.  A database     *)
(* file that is not there is created.                                      *)
Started ==
  /\ at = "exited"
  /\ IF starts < StartLimit THEN Moves("check", <<>>) /\ starts' = starts + 1
     ELSE Goes("failed", <<>>)
  /\ UNCHANGED <<disk, crashes, hand>>

(* An error or a failed assertion in main.                                 *)
Exits == Goes("exited", <<>>)

(* Mutated: comment is not looked for.                                     *)
AllButComment == {"issue", "target"} \subseteq tables

AllThere == Table \subseteq tables

(* Mutated: tickets before their comments.                                 *)
DownIssueFirst == <<"issue", "comment", "target">>

Down == <<"comment", "issue", "target">>
Up == <<"target", "issue", "comment">>

(* Migrator::refresh takes down what is recorded as applied.               *)
Check ==
  /\ at = "check"
  /\ IF AllThere THEN Goes("assert", <<>>)
     ELSE IF recorded THEN Goes("down", Down) ELSE Goes("up", Up)
  /\ UNCHANGED <<disk, crashes, hand>>

(* drop_table without if_exists: an error when the table is not there.  As *)
(* this only starts when one is missing, it never gets to the end, where   *)
(* the record would be taken back and the migration go up again.           *)
DropTable ==
  /\ at = "down" /\ work # <<>>
  /\ IF Head(work) \in tables
     THEN /\ tables' = tables \ {Head(work)}
          /\ tickets' = (tickets /\ Head(work) # "issue")
          /\ Goes("down", Tail(work))
     ELSE Exits /\ UNCHANGED <<tables, tickets>>
  /\ UNCHANGED <<recorded, crashes, hand>>

(* if_not_exists                                                           *)
CreateTable ==
  /\ at = "up" /\ work # <<>>
  /\ tables' = tables \cup {Head(work)}
  /\ Goes("up", Tail(work))
  /\ UNCHANGED <<recorded, tickets, crashes, hand>>

Recorded ==
  /\ at = "up" /\ work = <<>>
  /\ recorded' = TRUE
  /\ Goes("assert", <<>>)
  /\ UNCHANGED <<tables, tickets, crashes, hand>>

Assert ==
  /\ at = "assert"
  /\ IF Table \subseteq tables THEN Goes("serving", <<>>) ELSE Exits
  /\ UNCHANGED <<disk, crashes, hand>>

(* Ten seconds without counting further; an operator starts it again.      *)
WindowOver ==
  /\ starts # 0 /\ starts' = 0
  /\ UNCHANGED <<disk, at, work, crashes, hand>>

StartedByHand ==
  /\ at = "failed" /\ starts < StartLimit
  /\ Moves("check", <<>>) /\ starts' = starts + 1
  /\ UNCHANGED <<disk, crashes, hand>>

Starting == Started \/ Check \/ DropTable \/ CreateTable \/ Recorded \/ Assert

-----------------------------------------------------------------------------
Crash ==
  /\ at \notin {"exited", "failed"} /\ crashes < MaxCrash
  /\ crashes' = crashes + 1
  /\ Exits
  /\ UNCHANGED <<disk, hand>>

(* While the process is down, somebody drops a table or removes the file.  *)
TableLost(t) ==
  /\ at \in {"exited", "failed"} /\ t \in tables /\ hand < MaxHand
  /\ tables' = tables \ {t}
  /\ tickets' = (tickets /\ t # "issue")
  /\ hand' = hand + 1
  /\ UNCHANGED <<recorded, start, crashes>>

FileLost ==
  /\ at \in {"exited", "failed"} /\ tables # {} /\ hand < MaxHand
  /\ tables' = {} /\ recorded' = FALSE /\ tickets' = FALSE
  /\ hand' = hand + 1
  /\ UNCHANGED <<start, crashes>>
=============================================================================

# A TLA+ verification project for cttd

`cttd` (the `ctt_server` repository) keeps tickets ("issues") about the nodes of
a cluster and keeps the PBS scheduler in line with them: an open issue can take
a node, its board or its whole slot out of service, closing the issue brings
them back, and a node found out of service without an issue gets one.  These
modules model the server as it is written, check it with TLC on small instances
and prove part of it with TLAPS for every instance.  File names below are
relative to the repository; the Rust code is in its `src/`.

## 1. Inventory

| Component | Code | State it keeps | Operations |
|---|---|---|---|
| Sync loop | `sync.rs` | locals of a pass: `to_open`, `to_close`, `pbs_node_state`, `ctt_node_state`, `desired_state` | a pass every `poll_interval` seconds: read, treat each node (`handle_transition`), settle the issues |
| GraphQL mutations | `model/mutation.rs` | locals of each request | `open`, `close`, `update_issue` |
| Tables | `entities/`, `migrator/` | issues (status, `to_offline`, target, title), targets (name, recorded status), comments | queries, `from_name` (which creates a missing target), row updates |
| PBS adapter | `cluster/scheduler/` | none; PBS has vnodes with offline/down flags and jobs | `nodes_status`, `offline_node`, `release_node` |
| Topology | `cluster/regex_cluster.rs`, `conf.rs` | the configured node types | `real_node`, `siblings` (board), `cousins` (slot) |
| Change log | `changelog.rs` | what happened since the last post | receive a message, post on a tick |
| Process | `main.rs`, `cttd.service` | tasks, the channel of 10 messages | panic hook exits, systemd restarts, 60 s request timeout, graceful shutdown |
| Authentication | `auth.rs` | the JWT secret | login (munge, groups), bearer check, role guards |
| Queries | `model/query.rs` | none | reads for clients |
| Setup | `setup.rs`, `migrator/` | the tables' existence | create or refresh at start |
| Configuration | `conf.rs`, `conf_ex*.yaml` | what was read at start | read the file |

**How they interact.**  The sync loop and every request are tokio tasks of one
process.  They share the database (one query or row update at a time, no
transactions anywhere), PBS (blocking calls), and the change log channel, where
a sender waits for room.  The loop opens issues through the same `issue_open` as
clients.  A failed `unwrap` in any task ends the process.  The only division of
labour is in the issue status: clients put issues in `Opening` and `Closing`,
the loop turns these into `Open` and `Closed` at the end of a pass.

**What is hard.**  A pass works on readings taken at different moments and acts
on them much later, with requests, PBS and its operators running in between; a
crash or a dropped request can leave any prefix of an operation behind.  The
`hazards` in `PROJECT.json` list the places one by one, with the property that
would fail.  In short:

* *sync loop*: stale readings (`old_state`, expected states, open issues),
  order of reading against order of settling, updates that commit between two
  queries of one question, duplicate tickets, convergence;
* *mutations*: status written before its comment, closing and settling that
  cross, releases while a pass runs, releases that fail, dropped requests;
* *tables*: ids of new targets, issues of names configured away;
* *PBS*: vnodes that leave between two calls, offline and down and jobs combined;
* *change log*: full channel, what counts as worth posting;
* *topology*: first and last numbers, numbers too large to be read, incomplete last
  group, overlapping types;
* *process*: restart at any point, and systemd's limit on restarts; *auth*: expired
  tokens and those of an earlier process, roles that have changed since the login;
  *setup*: partial tables.

**What correct means.**

* nodes change hands only for tickets: one is taken out of service while a ticket
  near it is alive, and comes back while one near it is closed or after one was narrowed;
* a ticket goes back to an earlier status only because somebody wrote what he had
  decided on an earlier reading, and in no other way;
* an issue is settled only when what it asks for was done (opening: enforced,
  closing: nodes resumed);
* no node stays out of service without a ticket that says so;
* the recorded status is written when, and only when, it changed;
* tickets of the loop do not pile up; closed tickets carry an explanation;
* a name configured away is left alone and does not come back;
* `from_name` is one step to its callers, however many tasks look names up;
* a board or slot means the same nodes from whichever of its nodes it is looked at;
* what was told to the change log is posted before it is forgotten;
* changes are made for those who were admins a token's lifetime ago at most;
* a start drops no tickets it could keep, and ends up serving unless systemd gives up;
* and, when nothing happens any more, tickets, PBS and recorded statuses agree.

## 2. Modules

| Module | Models | Extends |
|---|---|---|
| `Channel` | the bounded channel, as its senders see it | |
| `TargetRows` | the rows of the target table, and what `from_name` leaves behind | |
| `CttState` | tables, PBS, the channel and the queries on them | `TargetRows`, `Channel` |
| `Sync` | `cluster_sync`, `handle_transition`, `close_open_issues`, `issue_open` as the loop calls it | `CttState` |
| `Api` | the three mutations, one slot of `req` per request in progress | `CttState` |
| `CttServer` | the process: both of them, the change log task, PBS changing on its own, panic and crash, dropped requests; `Spec`, `FairSpec` | `Sync`, `Api` |
| `TicketLife` | abstract: what becomes of a ticket, whatever it is about | `TargetRows` |
| `CttProperties` | what is claimed of it | `CttServer`; instances `TicketLife` |
| `MCServer` | values of the constants for TLC | `CttProperties` |
| `Topology` | node types, real names, boards and slots, as pure operators | |
| `TargetTable` | abstract: `from_name` as one step | `TargetRows` |
| `Registry` | the target table in detail: find, highest id, insert, by several tasks; conf.yaml and rows changed by hand | `Topology`, `TargetRows`; instances `TargetTable` |
| `MCRegistry` | configurations of the repository for TLC | `Registry` |
| `ChangeLog` | the channel with its waiting senders, and what `slack_updater` collects, posts and resets | instances `Channel` |
| `MCChangeLog` | senders and messages for TLC | `ChangeLog` |
| `Setup` | `setup_and_connect` and the migration, table by table | |
| `Session` | roles, tokens and guards | |
| `Process` | starting, serving, ending: both of them together | `Setup`, `Session` |
| `CttProofs` | types of the server, what a pass relies on | `CttProperties` |
| `PassProofs`, `TicketProofs` | what a pass leaves behind on nodes; tickets | `CttProofs` |
| `ServiceProofs` | why nodes change hands | `PassProofs`, `TicketProofs` |
| `TopologyProofs`, `ChangeLogProofs`, `ProcessProofs` | theorems on the module of that name | `Topology`, `ChangeLog`, `Process` |
| `RegistryProofs` | theorems on the target table and its configurations | `Registry`, `TopologyProofs` |

Definitions headed "Mutated" are variants of the definition that follows or is
named with them, with a plausible slip; no specification uses them.  They show
that each property can fail.

### The server

**State.**  `issue`, `target`, `comment` are the tables (a row that does not
exist has status `Absent`), `pbs` the vnodes, `chan` the number of messages in
the channel.  `spc` is where the loop is, `toOpen`, `toClose`, `seen`, `old`,
`expected` the readings of the pass under the code's roles, `todo` the nodes it
still has to treat in the order a hash map gives (any), `node`, `final`,
`closing`, `iss` the locals of the node being treated.  `req[r]` holds the
locals of a request.  `quiet` is a device of the liveness runs: once TRUE,
clients and nodes do nothing more.

**Grain.**  An action is the code from one await to the next that other tasks
can tell apart: one query, one insert or update, one send, one PBS call.  The
readings of a pass are five steps (`SyncReadOpening` ... `SyncReadExpected`),
because their order is what its correctness rests on.  The steps follow the
code: `SyncMissing`, `SyncAsExpected`, `SyncOffline`, `SyncUnexpected` and
`SyncFoundUp` are the cases of `handle_transition` and of the missing node;
`SyncRelated`/`SyncSearch`/`SyncExplained`/`SyncRelease`/`SyncSend`, `SyncClose...` and
`SyncOpen...` their continuations; `SyncRecord` the write of the status;
`SyncSettle...` the end.

`related_closing` and `desired_state` ask one node after the other, and requests
commit in between.  So each query is a step: `SyncRelated` and `ApiCheck` ask for the
node itself, `SyncSearch` and `ApiSearch` go through `Queries`, the nodes of the board
for issues on a board and then those of the slot for issues on a slot, each in the
order of their numbers, and `SyncExplained` and `ApiDesired` ask for the rest and
decide.  What is still to be asked is in `left`, and whether a closing issue was
found in `hit`.  `related_closing` goes on to the end whatever it finds,
`desired_state` ends with the first issue found.

**What is abstracted.**

* `from_name` and the query on its result are one step; `Registry` shows that this is
  what `from_name` amounts to.  All of one `get_expected_state` is a step too: it reads
  the issues in one query, and what it asks after that are names, not issues.
* Names are numbers, groups are constants; names outside `Real` are those no
  node type accepts.  `Topology` says where groups come from.  Comments are
  reduced to their kind, titles to three values; the title of a loop ticket is
  the vnode's comment, one value here.
* Assignee and description are columns and comments no decision reads; left out.
* Issues of one settling, and nodes freed by one update, are treated in any order.
* `release_node` called twice in a row for a sibling is one step.
* A request for an unknown issue id panics in `issue_close`: part of `Crash`.
  An update of one is refused and changes nothing, so it is no step.
* Errors of SQLite are unwrapped everywhere: part of `Crash`.  So are a token
  that does not decode, a number that does not parse and two inserts of the same
  target id, which `Process` and `Registry` model.
* A restart comes at once (`Restart`).  That systemd may refuse it is in `Process`; here
  the few ends of the process that a run has are passes apart.
* Rows deleted by hand while the server runs are in `Registry` only.  SQLite
  deletes the tickets and comments of such a row with it (`ON DELETE CASCADE`).

**The life of a ticket.**  `TicketLife` forgets nodes, groups, comments and PBS.
It keeps the status of each ticket, the tickets a pass has found `Opening` and
`Closing` and not settled yet, those found on a node that is up (`doomed`), and
for each request the ticket it found open and will set to `Closing` (`asked`).
Nobody reads a status again before writing it, so `SettleOpen`, `SettleClosed`,
`CloseFoundUp` and `Closes` have no guard on it: a ticket can go from `Closing`
or `Closed` back to `Open`, and from `Closed` to `Closing`, but only because it is
in one of these sets.  `TicketsLive` maps `asked` to the requests that are between
their check and their write, and the program counter of the loop to the four
phases of a pass.  TLC checks it without faults, where requests cross each other
and the pass; `LifeCorrect` proves it with crashes and dropped requests.

### The target table

`Topology` has a name as prefix, number and the width it is written in, which is
all that the two regular expressions of `get_node_type` look at (a prefix with
special characters would be more; the configurations have none).  The number is
read as a 32-bit word and unwrapped: a larger one matches a type without `digits`
and ends the process (`Overflows`, `NumberPanics`).  A node type is
the record serde makes of an entry: optional keys are sets of at most one, keys
it does not know are passed over (`NodeType`).  `BlockStart` and `GetRelated`
compute modulo `Word`, as a release build does.

`Registry` has a task look up a set of names, in any order: `Find`, then for a real
name without a row `FindMax` and `Insert`.  Between any two of them other tasks
run, rows are deleted and conf.yaml is edited (`hand` counts these).  Two tasks
that create a target at once choose the same id; `Insert` then needs the id and
the name to be free, else `InsertPanics` ends the process.  A restart reads
conf.yaml again.

`TargetTable` is the abstract specification: `from_name` gives a real name a row
`Online` in one step.  `Implements` is the refinement, with `target` mapped to the
statuses of the rows and `real` to the names the process accepts.

### The change log

`chan` and `waiters` are the messages in the channel and the senders waiting for
room in order of arrival, as tokio serves them; a dropped request takes its
message, wherever it stands in the queue, with it (`GivesUp`).  `what` and `who` are the
five collections and the operators.  A post holds the text (`post`) while it awaits
slack, and no message is received then.  An answer, or an error, ends the post and
resets all.  The text does not repeat what is in a set already, and the comment of a
closing is dropped.

The comment at `changelog.rs:132` names what is not worth a post: ctt doing anything
but taking nodes offline, and anything that changes no node's state.  The code
asks only whether there is an operator, so it posts more: nodes resumed by ctt
alone, and tickets opened, updated or closed with no node concerned.
`AllIsPosted` demands no more than the comment does: when a node was taken out of
service, or put back with a client acting (`Due`), that is posted with all that waited.

`ServesChannel` refines `Channel`, in whose terms `CttState` sends and `CttServer`
receives: what the server's model assumes of the channel, with the fairness of
`Receive`, is what the change log provides.

### The process

`Setup` follows `setup_and_connect`.  `Migrator::refresh` first takes down the
migrations that are recorded as applied, then goes up; SQLite gives it no
transaction.  `Up` uses `if_not_exists`, so a start that was broken off while
creating is completed by the next.  `Down` has no `if_exists`, and is only reached
with a table missing, so it always ends in an error.  That has a consequence
worth knowing: once the migration is recorded, a table that is lost stops every
later start (`ComesUp` excludes this case), and if it is `target`, the first such
start drops the comments and tickets before it fails (`TicketsSurvive` excludes it).

`Session` has time as the age of tokens (`tokens`) and the time since a client was an
admin (`since`).  A client may log in again and hold several tokens; all of them end
with the process, as the secret is drawn at each start.  A request carries one of
them or any other string (`Other`), tokens of earlier processes included.
`check_auth` unwraps the result of decoding, so `Other` and a token that has expired
end the process (`TokenPanics`), whoever sends them.

systemd starts the process again, but `cttd.service` sets no start limit, so that
of systemd holds: after five starts in ten seconds the unit is given up, until an
operator starts it (`StartLimit`, `starts`, `GivenUp`, `StartedByHand`).  After one end of
the process every token its clients hold is one that ends the next, so a few
busy clients are enough for that; `ComesUp` therefore claims that the process
serves again or is given up.

## 3. Runs

Deadlock is checked in every run: some task always has a next step, unless every
task waits for another.

| Run | Instance | Question |
|---|---|---|
| `requests` | 2 nodes on one board, 2 concurrent requests of any kind, databases as left by an earlier run | `TypeOK`; `ClosedIsExplained`; `OfflineHasLiveIssue`; `OpenedWasEnforced`; `NoNodeStranded`; `TicketsLive`: the server implements `TicketLife` |
| `closing` | 3 nodes, a board each; two of them make a slot held by a `Blade` issue that is closed, and updated to its node and back, as are the loop's own tickets; the third is apart; a node runs jobs and leaves PBS, a failed release is passed over | `ClosingWasReleased`; `OnlyForTickets` |
| `nodes` | 1 real node that leaves and comes back; a name configured away with row, ticket and vnode, which is switched by hand | `AtMostTwoMissing`; `RemovedIsLeftAlone` |
| `converge` | 2 nodes on one board, an issue on it closed or updated to its node, requests dropped, a node that leaves PBS so that a failed release ends the process | `Converges` |
| `converge_faults` | 1 node without a row that fails and recovers, issues opened and closed, crashes and dropped requests | `CompareIsCurrent`; `Converges` |
| `registry` | 3 names and one with a number too large, the loop and a request, three configurations (all machines; casper20 left out; `conf_ex.yaml` with the stanzas of another cluster), 2 changes by hand | `RegistryTypeOK`; `GroupsAgree`; `Implements` `TargetTable`; `RemovedStaysAway`; `Registered` |
| `changelog` | the loop and two clients, 5 messages, a channel of 2, one restart | `ChangeLogTypeOK`; `EntryHasOperator`; `ForgottenAfterPost`; `AllIsPosted`; `ServesChannel` refines `Channel` with its fairness |
| `process` | a client with several tokens, an admin and a guest group, a crash, a lost table or file, 2 starts until systemd gives up | `ProcessTypeOK`; `OnlyRecentAdmins`; `TicketsSurvive`; `ComesUp` |
| `v_safe_to_close` | 2 nodes on one board, empty database | `SafeToCloseAll` fails |
| `v_reopened` | an issue opened and closed during one pass | `ClosedIsNotReopened` fails |
| `v_closing` | 2 nodes on one board, an issue on their slot closed and updated | `NoneOpenYet` fails |
| `v_recipe` | the stanzas of `README.md:18` | `RemovedStaysAway` fails |

**What the failing runs show.**  Comments, answers and the README say more than
the code keeps.

* `sync.rs:346`: "know it is safe to simply close all issue open against the
  node because expected status would be Offline if there were any issues with
  ToOffline set".  The expected status is that of an earlier reading.  An issue
  with `to_offline` opened since then is closed with the others, unread.
* `mutation.rs:355` answers "closed": an issue the running pass found
  `Opening` is set to `Open` again at its end (`sync.rs:134`), and the client's
  close is lost.
* `README.md:18` removes a machine with stanzas that have `start` and `end`.
  `conf.rs:36` knows `first_num` and `last_num` and passes over other keys, so the
  name stays real and a row for it is created.  The run `registry` has the same
  recipe with the keys that are read, and there it works.
* `sync.rs:302`: "we know no issues are currently open since expected state would not
  be online if there were".  The expected state is that of an earlier reading, and
  `related_closing`, which looks for issues that are closing, asks board and slot in
  separate queries.  An issue on the slot that is narrowed to the board in between
  is seen by neither: the node is not resumed, and a second issue is opened for it.

Two more comments are at odds with the code, without a run of their own:
`sync.rs:63` wants one thread only to steer the scheduler, but `update_issue`
releases nodes while a pass runs; `changelog.rs:132` promises fewer posts than there
are (section 2).

Three properties have exceptions worth knowing.  `ClosedIsExplained` holds while
the process lives and requests are not dropped: the status is written before
the comment, so either can leave an unexplained issue.  `AtMostTwoMissing` is 2
and not 1: `issue_open` looks for an `Open` duplicate, and the loop's first
ticket is still `Opening` when the next pass opens the second.  A third gets in
when the process dies, in a panic or a crash, after a pass opened the second and
before it settled the first: both are `Opening` then, and the first pass after
the restart opens one more.  `MissingCorrect` shows that this is the only way.
`ClosingWasReleased` speaks of issues that no update has touched and that
`close_open_issues` has not met (`Untouched`), as `v_closing` and `v_safe_to_close` show
what happens to those; all others may be updated and closed next to it.

**Bounds of the server's runs.**

* *Nodes*: at most two names, and three in `closing`.  An issue reaches other nodes
  only over a group, and two names give a node with and a node without a relation
  of each kind (`Alone`, `Together`).  `closing` tells board from slot, and its third
  name (`ThirdApart`) is one whose service no ticket of the others may touch.
* *Issues* (`IssueId`): 4 to 8 in all.  `Reserve` ids are kept back: no request
  or event once only that many are left, so that the loop can always insert the
  tickets it owes and never stops for lack of an id of the model.  The loop's
  own tickets count: two for a missing node, one for each node found offline.
  Two or three issues of clients and events can thus interleave in a run; to
  have every status raced within that, the initial databases hold issues in the
  states a restart can find them in (`OneIssue`, `RemovedIssue`,
  `OpenCard`, `OpenBlade`), so that a close or an update can meet the first pass,
  and `nodes` and `converge_faults` leave room to close or drop what they opened
  themselves.  One row of `RemovedIssue` is closed without a comment, as a process
  that died between the two writes leaves it.  Events are not counted: a node may fail
  and recover any number of times.
* *Channel* (`ChanCap`): 1 instead of 10, so that senders do wait.
* *Requests* (`Req`): two slots in `requests`, where requests meet each
  other (with symmetry, as slots are alike; no liveness is checked there, and
  `TicketsLive` has no fairness), and one elsewhere, where they meet the loop.  A slot
  is used again and again.
* *Arguments* (`AskNode`, `AskTitle`, `AskOffline`) and *events* (`Happens`, per
  node) are chosen for the question of each run.

**Bounds of the others.**

* `registry`: `MaxHand` 2 lets a machine be configured away and its row deleted, in
  either order, with tasks in between; a number that ends the process counts too.
  Passes and requests are not counted.  The loop visits two of three names, so that a
  name on the same board is created only by requests.  `Word` is 2^16, as TLC's integers
  have no room for 2^32; the other numbers are far below.  `Probe` are the names whose
  groups are compared, across two blocks of each size and around the machine left out.
* `changelog`: `ChanCap` 2 so that order in the channel and among the waiters
  matters; `MaxLives` 2 for one restart.
* `process`: `MaxCrash` 1 crash at any step besides the restarts that tokens cause,
  which are not counted, `MaxHand` 1 loss, `Lifetime` 1 and `Leeway` 0, as only their
  sum counts, and ages up to one more.  `StartLimit` 2 instead of 5: one start that is
  allowed after another, and one that is not.  One client, as clients share nothing
  but the process, and any client may send `Other`.

## 4. Fairness

`FairSpec` is used by the runs that check `Converges`.

* `WF(SyncTask)`, `WF(ApiTask(r))`: the runtime keeps polling a task that can go on.
* `SF(SyncStat)`: a stat of PBS may fail any number of times and the pass is then
  given up (`sync.rs:84`), but not for ever.
* `WF(Receive)`: `slack_updater` comes back to its `select!` after every post.  This
  is what `ServesChannel` shows of `ChangeLog`.
* `WF(Panic)`: a failed unwrap happens, it is not put off.

`RegistryFairSpec`: the loop makes its passes, and a task that can go on does.
`ChangeLogFairSpec`: `select!` picks at random among its branches that are ready, so
neither is passed over for ever (`WF` of `ReceiveLog` and `Tick`); a waiting sender is
let in when there is room; slack answers some day (`WF(Answered)`).  The last is an
assumption on slack, as the post has no timeout: without it senders, the sync
loop among them, do stop.
`ProcessFairSpec`: systemd starts the process again (`Restart=on-failure`) or gives it
up at its start limit, and a start that has begun goes on.  Nothing brings the
operator who starts a unit that was given up, and nothing keeps tokens from
running into the limit, so `ComesUp` allows for that end.

Nothing is assumed of clients, nodes, hands, crashes or dropped requests: they may
happen or not.  `Converges` speaks of what follows the last of them (`quiet`),
and a crash does not come after it.  Without such a point nothing converges, since
every pass may be overtaken by the next event.

## 5. Proofs

Every safety property of a passing run is a theorem, for any values of the
constants: any nodes and groups, issues and requests, channel capacity, events
and faults, and so on for the other modules.  Where a theorem has a hypothesis
of its own it is given below, with what goes wrong without it.

### The server: what a pass relies on (`CttProofs`)

* `TypeCorrect`: `Spec => []TypeOK`.  `TypeOK` is inductive together with what the
  locals refer to.  The channel bound needs that every sender waits (`Send`).
* `CompareCorrect`: `Spec => []CompareIsCurrent`.  The inductive invariant adds
  that between reading the targets and handling the first node the reading is
  the table apart from rows created since (as `Online`), and it needs from
  `TypeInv` that the node in hand stays in `todo` until its status is settled.
  It holds because the loop is the only one that rewrites a status, and only
  that of the node it then takes out of `todo`.
* `OpenedCorrect`: `Spec => []OpenedWasEnforced`.  The argument is in the order of
  the readings: an issue in `toOpen` that is still `Opening` was so when the
  expected states were computed, and no title or `to_offline` change takes its
  own node out of what it relates to.
* `OfflineCorrect`: `Spec => []OfflineHasLiveIssue`.  Issues go from `Opening`/`Open`
  to `Closing` by clients, which keeps them alive, and to `Closed` only by the
  loop: at the end of a pass (when `todo` is empty) or by `close_open_issues`, on
  a node whose expected state is `Down`.  The invariant `ClosesOnlyOnDown` says
  so; the issue behind an expected `Offline` is then on another node.

### What a pass leaves behind (`PassProofs`)

* `StrandedCorrect`: `HandsOff` implies `Spec => []NoNodeStranded`.  The invariant
  (`StrandedInv`) adds that a node the pass saw up, and does not expect
  `Offline`, is still up (`UpStays`), that issues to be closed wait, `Closing` or
  `Closed`, until all nodes are handled (`ToCloseWaits`), and that the node in hand
  has its ticket or is released before the pass goes on (`NodeAccounted`).
  `HandsOff` says that operators take no node offline by hand; one that does so
  after the stat is out of service without a ticket until the next pass.
* `ClosingCorrect`: `HandsOff` and `GroupsSymmetric` imply `Spec => []ClosingWasReleased`.  The
  invariant (`FreedInv`) follows a closing issue that is `Untouched` through the queries of
  `related_closing`.  It stays `Closing` until it is settled (`ToCloseIsClosing`), and its
  `to_offline` cannot change unnoticed, since `issue_update` leaves its comment before it
  writes the column (`UpdatesNoted`).  So as long as nothing was found for a node it speaks
  for, the query that will show it is still to come (`SearchGoesOn`, `Pending`), and the node
  is released; a node that was handled, or released just now, is up or no such issue
  speaks for it (`FreeAfterwards`, `Freed`).  `GroupsSymmetric` is what `Topology` gives for
  regular names: the ticket's node must be asked for each node of its group.  Other
  issues may be widened, narrowed, closed and closed again as the code allows.

### Why nodes change hands (`ServiceProofs`)

* `ServiceCorrect`: `Spec => OnlyForTickets`, with no hypothesis.  It needs
  `OfflineHasLiveIssue` for the way out of service.  For the way back, the invariant
  (`ServiceInv`) says that a pass about to release a node still has a `Closing`
  issue near it, since only the loop itself turns `Closing` into anything else, and
  that a request works through nodes its issue reaches.

### Tickets (`TicketProofs`)

* `RemovedCorrect`: `Spec => RemovedIsLeftAlone`.  The invariant (`Grounded`) is that loop
  and requests create issues, release and record only nodes they found real, and
  that the issues they refer to are in the table.
* `ExplainedCorrect`: `ExplainedStart` implies
  `Spec /\ [][~Interrupts]_vars => []ClosedIsExplained`.  `ExplainedStart`: no earlier
  process left a ticket without its comment.  `Interrupts` is a panic, crash or dropped
  request while somebody is between a close and its comment; the two are separate
  writes, so there the ticket does stay unexplained. The invariant extends the claim to
  the issues in `toClose`, which a pass closes even if they went back to `Open`
  meanwhile.
* `MissingCorrect`: `OwnTitle` and `TidyStart` imply
  `Spec /\ [][~LosesPass]_vars => []AtMostTwoMissing`.  The invariant (`MissingInv`)
  counts, of the loop's tickets for a missing node, those this pass found `Opening` and
  those opened since: at most one each.  When the loop looks for an `Open` duplicate and
  inserts, no ticket has turned `Open` in between, as only the loop does that.
  `OwnTitle`: clients do not use the title of those tickets, `TidyStart`: the database
  keeps the bounds at start, `LosesPass`: the way a third gets in, above.
* `LifeCorrect`: `Spec => TicketsLive`, step by step: each action of the server is an
  action of `TicketLife` or changes nothing it knows (`ActingLives`, `LoopLives`,
  `RequestLives`).  The invariant `DoomedAtOnce` says that the loop is done with the issues of
  a node found up before it treats the next.

### The target table and the topology (`TopologyProofs`, `RegistryProofs`)

`TopologyProofs` is about the operators, for any node types, sizes and names whose
numbers stay below `Word`: `InOwnGroups` gives what `CttState` assumes of its groups
(`GroupAssumption`), `GroupsShared` that the nodes of a board or slot agree on it,
also if different stanzas with the same sizes (`Alike`) accept them.  The
arithmetic is in `DivUnique` and `Start`.  A name must be written as its type writes it
(`Regular`): without `digits`, `casper01` is real but its board has `casper1`.

* `FromNameIsAtomic`: `RegistrySpec => Implements`, for any names, configurations, tasks and
  hands.  The invariant is small: a task that is about to insert a name looked at
  `Real` when it found it, and a restart that changes `Real` forgets all lookups;
  `Insert` itself finds the name unused.  Then `Insert` is `FromName`, `Restart` is
  `Reconfigured`, `DeleteRow` is `RemovedByHand`, and all else stutters.
* `RegistryTypes`: `RegistrySpec => []RegistryTypeOK`: among others, no two rows share an id.
  That `Highest` exists is proved by well-founded descent from a bound
  (`Bounded`), which each insert moves by one.
* `RemovedAway`: `AsRead` implies `RegistrySpec => RemovedStaysAway`.  `AsRead` says
  that stanzas use keys `conf.rs` reads; `v_recipe` shows what other keys do.
* `GroupsCorrect`: `WellGrouped` implies `RegistrySpec => []GroupsAgree`.  `WellGrouped`
  says that the real names of a board or slot are `Regular` and of types that are
  `Alike`; the configurations of the run `registry` satisfy both hypotheses.

### The change log (`ChangeLogProofs`)

* `OperatorSays`: `ChangeLogSpec => []EntryHasOperator`, which is inductive.
* `ForgetsOnlyPosted`: `ChangeLogSpec => ForgottenAfterPost`, with the invariant that
  the text of a post under way says all that is collected, as nothing is received
  meanwhile.
* `CountsMessages`: the safety part of `ServesChannel`.
* `LogTypes`: `ChangeLogSpec => []ChangeLogTypeOK`: senders wait only for a full channel, each
  once.  The lemmas on the queue are about joining it, being served in order and
  giving up from any place in it.

### The process (`ProcessProofs`)

* `ProcessTypes`: `ProcessSpec => []ProcessTypeOK`.
* `RecentAdmins`: `ProcessSpec => OnlyRecentAdmins`.  The invariant is that a token of an
  admin is at least as old as the time since its holder was one, and that who is
  one now was one just now; a valid token is no older than its lifetime.
* `TicketsKept`: `ProcessSpec => TicketsSurvive`.  While the migration is taken down, a
  table that is yet to be dropped is missing; when it comes to the tickets, that
  can only be the targets.

### Assumptions, and what is only model-checked

The proofs rest on the named assumptions of the modules (`NameAssumption`,
`GroupAssumption`, `IssueAssumption`, `TitleAssumption`, `ChanAssumption`,
`InitAssumption`, `RequestAssumption`, `NoTitleAssumption`, and those of `Topology`,
`Registry`, `ChangeLog`, `Setup` and `Session`), which TLC evaluates in every run.

Only model-checked is what is liveness under fairness, and so out of the prover's
reach: `Converges`, `Registered`, `AllIsPosted`, `ComesUp` and the fairness in
`ServesChannel`.  The properties of the `v_` runs fail, so there is nothing to prove.

## 6. Not modelled

* `query.rs`: what a query returns; it changes nothing.  Who may ask is in `Process`.
* `conf.rs` but for the node types and groups, TLS, routing, logging: I/O.
* Graceful shutdown: to the tables and PBS it is an end of the process like any
  other; that axum lets requests finish first is not modelled.
* Munge and the user database: `Session` takes the client for who munge says it is.
* Regular expressions in a prefix; the text of posts, comments and titles.
* `slack_updater` without the feature `slack`: it takes another message type than
  `main.rs` sends.
* `node_group` and `to_offline` in `mutation.rs` are never called.

## 7. Plan

Done: the server (tables, PBS, loop, mutations, process), the topology, the
target table in detail, the change log, set-up and sessions; each with its
refinement; and a theorem for every safety property that a run checks.  Next:

1. Theorems about `TicketLife` itself, which the server inherits by `LifeCorrect`: a
   ticket that nobody has in hand does not go back, and in particular stays
   `Closed` over the passes that follow.
2. `GroupsSymmetric` for names of well-grouped configurations from `GroupsShared`, so that
   `ClosingCorrect` rests on the configuration alone.
3. The hazards in `PROJECT.json` that no property covers yet.

--------------------------- MODULE ProcessProofs ---------------------------
(***************************************************************************)
(* For any clients, groups, lifetimes, crashes and losses: changes are     *)
(* made for recent admins only, and no start drops tickets it could keep.  *)
(***************************************************************************)
EXTENDS Process, TLAPS

(* The sessions' part: an admin was one just now.                          *)
SessionInv ==
  /\ groups \in [Client -> SUBSET Group]
  /\ tokens \in [Client -> SUBSET Token]
  /\ asked \in [Client -> Request \cup {Nothing}]
  /\ since \in [Client -> 0 .. Span + 1]
  /\ TokensTrue
  /\ \A c \in Client : IsAdmin(c) => since[c] = 0

(* The set-up's part: when the migration is taken down, a table that is    *)
(* yet to be dropped is missing.                                           *)
Missing(ts) == ~(ts \subseteq tables)
SetupInv ==
  /\ tables \subseteq Table /\ recorded \in BOOLEAN /\ tickets \in BOOLEAN
  /\ at \in {"exited", "failed", "check", "down", "up", "assert", "serving"}
  /\ starts \in 0 .. StartLimit
  /\ crashes \in 0 .. MaxCrash /\ hand \in 0 .. MaxHand
  /\ Serving => AllThere
  /\ tickets => "issue" \in tables
  /\ at \notin {"down", "up"} => work = <<>>
  /\ at = "up" => work \in {Up, <<"issue", "comment">>, <<"comment">>, <<>>}
  /\ at = "down" => \/ work = Down /\ Missing(Table)
                    \/ work = <<"issue", "target">> /\ Missing({"issue", "target"})
                    \/ work = <<"target">> /\ Missing({"target"})

PInv == SessionInv /\ SetupInv

LEMMA Whole == PInv => ProcessTypeOK
<1> SUFFICES ASSUME PInv PROVE ProcessTypeOK
  OBVIOUS
<1>1. work \in {Down, <<"issue", "target">>, <<"target">>, Up, <<"issue", "comment">>,
                <<"comment">>, <<>>}
  BY DEF PInv, SetupInv
<1>2. work \in Seq(Table)
  <2>1. /\ {<<>>, <<"target">>, <<"comment">>} \subseteq Seq(Table)
        /\ {<<"issue", "target">>, <<"issue", "comment">>} \subseteq Seq(Table)
    BY DEF Table
  <2>2. Down \in Seq(Table) /\ Up \in Seq(Table)
    BY DEF Down, Up, Table
  <2> QED BY <1>1, <2>1, <2>2
<1> QED BY <1>2 DEF PInv, SessionInv, SetupInv, ProcessTypeOK

-----------------------------------------------------------------------------
LEMMA SpanNat == Span \in Nat
BY LifetimeAssumption DEF Span

LEMMA RoleNone == None \notin Role
BY DEF None, Role

(* What a client can present.                                              *)
LEMMA Presented ==
  ASSUME SessionInv, NEW c \in Client
  PROVE  /\ asked[c].token \in Token \cup {Other}
         /\ asked[c] # Nothing => asked[c].what \in {"query", "mutation"}
         /\ \A t \in tokens[c] \cup {asked[c].token} :
              t.age \in 0 .. Span + 1 /\ (t.role = "Admin" => t \in Token)
BY SpanNat DEF SessionInv, Request, Nothing, Other, Token, None

LEMMA SessionInit0 == SessionInit => SessionInv
<1> SUFFICES ASSUME SessionInit PROVE SessionInv
  OBVIOUS
<1>1. since \in [Client -> 0 .. Span + 1] /\ \A c \in Client : IsAdmin(c) => since[c] = 0
  BY SpanNat DEF SessionInit
<1>2. TokensTrue
  BY DEF SessionInit, TokensTrue, Nothing, Other, None
<1> QED BY <1>1, <1>2 DEF SessionInit, SessionInv

(* A token lasts as long as those in it remember.                          *)
LEMMA LoginKeeps == ASSUME SessionInv, NEW c \in Client, Login(c) PROVE SessionInv'
<1> DEFINE new == [role |-> CheckRole(groups[c]), age |-> 0]
<1>1. new \in Token
  BY SpanNat DEF Login, CheckRole, Token, Role, None
<1>2. tokens' \in [Client -> SUBSET Token] /\ asked' = asked
  BY <1>1 DEF Login, SessionInv
<1>3. new.role = "Admin" => since[c] = 0
  BY DEF CheckRole, IsAdmin, SessionInv, None
<1>4. \A d \in Client : \A t \in tokens'[d] : t \in tokens[d] \/ (d = c /\ t = new)
  BY DEF Login, SessionInv
<1>5. TokensTrue'
  <2>1. UNCHANGED since
    BY DEF Login
  <2> QED BY <1>2, <1>3, <1>4, <2>1 DEF TokensTrue, SessionInv
<1> QED BY <1>2, <1>5 DEF Login, SessionInv, IsAdmin

LEMMA DisconnectedKeeps == ASSUME SessionInv, Disconnected PROVE SessionInv'
<1>1. TokensTrue'
  BY DEF Disconnected, TokensTrue, Nothing, Other, None
<1> QED BY <1>1 DEF Disconnected, SessionInv, IsAdmin

LEMMA RegroupKeeps == ASSUME SessionInv, NEW c \in Client, Regroup(c) PROVE SessionInv'
<1>1. groups' \in [Client -> SUBSET Group]
  BY DEF Regroup, SessionInv
<1>2. /\ since' \in [Client -> 0 .. Span + 1]
      /\ \A d \in Client : since'[d] <= since[d]
      /\ \A d \in Client : IsAdmin(d)' => since'[d] = 0
  BY SpanNat DEF Regroup, SessionInv, IsAdmin
<1>3. \A d \in Client : \A t \in tokens[d] \cup {asked[d].token} : t.age \in Nat
  BY SpanNat, Presented
<1>4. TokensTrue'
  BY SpanNat, <1>2, <1>3 DEF Regroup, SessionInv, TokensTrue
<1> QED BY <1>1, <1>2, <1>4 DEF Regroup, SessionInv

LEMMA OlderRises ==
  ASSUME NEW m \in 0 .. Span + 1, NEW n \in 0 .. Span + 1
  PROVE  Older(n) \in 0 .. Span + 1 /\ (m <= n => Older(m) <= Older(n))
BY SpanNat DEF Older

(* A token ages with the memory of its holder.                             *)
LEMMA AgedToken ==
  ASSUME NEW t \in Token
  PROVE  /\ Aged(t) \in Token /\ Aged(t).role = t.role /\ Aged(t).age = Older(t.age)
         /\ t.age \in 0 .. Span + 1
<1>1. t # Other /\ t.age \in 0 .. Span + 1
  BY RoleNone DEF Token, Other
<1> QED BY <1>1, OlderRises, SpanNat DEF Aged, Token

LEMMA AgedOther == Aged(Other) = Other /\ Other \notin Token /\ Other.role # "Admin"
BY RoleNone DEF Aged, Other, Token, None

LEMMA TickKeeps == ASSUME SessionInv, Tick PROVE SessionInv'
<1>1. /\ since' \in [Client -> 0 .. Span + 1]
      /\ \A c \in Client : since'[c] \in {0, Older(since[c])}
      /\ \A c \in Client : IsAdmin(c)' => since'[c] = 0
  BY SpanNat, OlderRises DEF Tick, SessionInv, IsAdmin
<1>2. tokens' \in [Client -> SUBSET Token]
  <2>1. \A c \in Client : {Aged(t) : t \in tokens[c]} \subseteq Token
    BY AgedToken DEF SessionInv
  <2> QED BY <2>1 DEF Tick
<1>3. \A c \in Client : asked'[c] = [asked[c] EXCEPT !.token = Aged(@)]
  BY DEF Tick
<1>4. asked' \in [Client -> Request \cup {Nothing}]
  <2>1. ASSUME NEW c \in Client PROVE asked'[c] \in Request \cup {Nothing}
    <3>1. CASE asked[c] \in Request
      <4>1. asked[c].token \in Token \cup {Other} /\ asked[c].what \in {"query", "mutation"}
        BY <3>1 DEF Request
      <4>2. Aged(asked[c].token) \in Token \cup {Other}
        BY <4>1, AgedToken, AgedOther
      <4> QED BY <1>3, <3>1, <4>2 DEF Request
    <3>2. CASE asked[c] = Nothing
      BY <1>3, <3>2, AgedOther DEF Nothing
    <3> QED BY <3>1, <3>2 DEF SessionInv
  <2> QED BY <2>1 DEF Tick
<1>5. ASSUME NEW c \in Client, NEW t \in tokens'[c] \cup {asked'[c].token}, t.role = "Admin"
      PROVE  since'[c] <= t.age
  <2>1. PICK u \in tokens[c] \cup {asked[c].token} : t = Aged(u)
    <3>1. CASE t \in tokens'[c]
      BY <3>1 DEF Tick
    <3>2. CASE t = asked'[c].token
      <4>1. asked[c] \in Request \cup {Nothing}
        BY DEF SessionInv
      <4>2. asked'[c].token = Aged(asked[c].token)
        BY <1>3, <4>1 DEF Request, Nothing
      <4> QED BY <3>2, <4>2
    <3> QED BY <3>1, <3>2
  <2>2. u \in Token
    <3>1. u \in Token \cup {Other}
      BY <2>1, Presented DEF SessionInv
    <3> QED BY <1>5, <2>1, <3>1, AgedOther
  <2>3. t.role = u.role /\ t.age = Older(u.age) /\ u.age \in 0 .. Span + 1
    BY <2>1, <2>2, AgedToken
  <2>4. since[c] <= u.age /\ since[c] \in 0 .. Span + 1
    BY <1>5, <2>1, <2>3 DEF SessionInv, TokensTrue
  <2>5. Older(since[c]) <= Older(u.age) /\ Older(u.age) \in 0 .. Span + 1
    BY <2>3, <2>4, OlderRises
  <2> QED BY <1>1, <2>3, <2>5, SpanNat
<1> QED BY <1>1, <1>2, <1>4, <1>5 DEF Tick, SessionInv, TokensTrue

-----------------------------------------------------------------------------
LEMMA SetupInit0 == SetupInit => SetupInv
<1> SUFFICES ASSUME SetupInit PROVE SetupInv
  OBVIOUS
<1>1. starts \in 0 .. StartLimit /\ crashes \in 0 .. MaxCrash /\ hand \in 0 .. MaxHand
  BY StartLimitAssumption, MaxCrashAssumption, MaxHandAssumption DEF SetupInit
<1>2. at \notin {"serving", "down", "up"}
  BY DEF SetupInit
<1>3. tables \subseteq Table /\ recorded \in BOOLEAN /\ tickets \in BOOLEAN /\ ~tickets
  BY DEF SetupInit
<1> QED BY <1>1, <1>2, <1>3 DEF SetupInit, SetupInv, Serving

(* What there is to drop, table by table.                                  *)
LEMMA Drops ==
  /\ Head(Down) = "comment" /\ Tail(Down) = <<"issue", "target">>
  /\ Head(<<"issue", "target">>) = "issue" /\ Tail(<<"issue", "target">>) = <<"target">>
  /\ Head(<<"target">>) = "target"
BY DEF Down

LEMMA Creates ==
  /\ Head(Up) \in Table /\ Tail(Up) = <<"issue", "comment">>
  /\ Head(<<"issue", "comment">>) \in Table /\ Tail(<<"issue", "comment">>) = <<"comment">>
  /\ Head(<<"comment">>) \in Table /\ Tail(<<"comment">>) = <<>>
BY DEF Up, Table

LEMMA StartingKeeps == ASSUME SetupInv, Starting PROVE SetupInv'
<1> USE DEF SetupInv, Goes, Moves, Exits, Serving, AllThere, Missing, disk
<1>1. CASE Started
  BY <1>1, StartLimitAssumption DEF Started
<1>2. CASE Check
  BY <1>2 DEF Check, Table
<1>3. CASE DropTable
  <2>1. /\ tables' \subseteq Table /\ recorded' \in BOOLEAN /\ tickets' \in BOOLEAN
        /\ starts' \in 0 .. StartLimit /\ crashes' \in 0 .. MaxCrash /\ hand' \in 0 .. MaxHand
        /\ tickets' => "issue" \in tables'
    BY <1>3 DEF DropTable
  <2>2. CASE Head(work) \notin tables
    BY <1>3, <2>1, <2>2 DEF DropTable
  <2>3. CASE Head(work) \in tables
    <3>1. at' = "down" /\ work' = Tail(work) /\ tables' = tables \ {Head(work)}
      BY <1>3, <2>3 DEF DropTable
    <3>2. CASE work = Down
      <4>1. work' = <<"issue", "target">> /\ "comment" \in tables
        BY <2>3, <3>1, <3>2, Drops
      <4>2. Missing({"issue", "target"})'
        BY <1>3, <3>1, <3>2, <4>1, Drops DEF DropTable, Table
      <4> QED BY <2>1, <3>1, <4>1, <4>2
    <3>3. CASE work = <<"issue", "target">>
      <4>1. work' = <<"target">> /\ "issue" \in tables
        BY <2>3, <3>1, <3>3, Drops
      <4>2. Missing({"target"})'
        BY <1>3, <3>1, <3>3, <4>1, Drops DEF DropTable, Down
      <4> QED BY <2>1, <3>1, <4>1, <4>2
    <3>4. CASE work = <<"target">>
      BY <1>3, <2>3, <3>4, Drops DEF DropTable, Down
    <3> QED BY <1>3, <3>2, <3>3, <3>4 DEF DropTable
  <2> QED BY <2>2, <2>3
<1>4. CASE CreateTable
  <2>1. /\ tables' \subseteq Table /\ at' = "up" /\ tables \subseteq tables'
        /\ UNCHANGED <<recorded, tickets, starts, crashes, hand>>
    BY <1>4, Creates DEF CreateTable
  <2>2. work' \in {Up, <<"issue", "comment">>, <<"comment">>, <<>>}
    BY <1>4, Creates DEF CreateTable
  <2> QED BY <2>1, <2>2
<1>5. CASE Recorded
  BY <1>5 DEF Recorded
<1>6. CASE Assert
  BY <1>6 DEF Assert
<1> QED BY <1>1, <1>2, <1>3, <1>4, <1>5, <1>6 DEF Starting

LEMMA CrashKeeps == ASSUME SetupInv, Crash PROVE SetupInv'
<1>1. crashes' \in 0 .. MaxCrash
  BY MaxCrashAssumption DEF SetupInv, Crash
<1>2. at' = "exited" /\ work' = <<>> /\ UNCHANGED <<starts, tables, recorded, tickets, hand>>
  BY DEF Crash, Exits, Goes, Moves, disk
<1> QED BY <1>1, <1>2 DEF SetupInv, Serving

LEMMA LossKeeps ==
  ASSUME SetupInv, (\E t \in Table : TableLost(t)) \/ FileLost
  PROVE  SetupInv'
<1>1. hand' \in 0 .. MaxHand
  BY MaxHandAssumption DEF SetupInv, TableLost, FileLost
<1>2. at \in {"exited", "failed"} /\ UNCHANGED <<at, work, starts, crashes>>
  BY DEF TableLost, FileLost, start
<1>3. /\ tables' \subseteq Table /\ recorded' \in BOOLEAN /\ tickets' \in BOOLEAN
      /\ tickets' => "issue" \in tables'
  BY DEF SetupInv, TableLost, FileLost
<1> QED BY <1>1, <1>2, <1>3 DEF SetupInv, Serving

LEMMA AgainKeeps == ASSUME SetupInv, WindowOver \/ StartedByHand PROVE SetupInv'
<1>1. CASE WindowOver
  BY <1>1, StartLimitAssumption DEF WindowOver, SetupInv, disk, Missing, Serving, AllThere
<1>2. CASE StartedByHand
  BY <1>2, StartLimitAssumption DEF StartedByHand, Moves, SetupInv, disk, Serving, AllThere
<1> QED BY <1>1, <1>2

-----------------------------------------------------------------------------
LEMMA SameSessions == SessionInv /\ UNCHANGED sessions => SessionInv'
BY DEF SessionInv, sessions, TokensTrue, IsAdmin

LEMMA SameSetup == SetupInv /\ UNCHANGED svars => SetupInv'
BY DEF SetupInv, svars, disk, start, Missing, Serving, AllThere

LEMMA AsksKeeps ==
  ASSUME SessionInv, NEW c \in Client, NEW what \in {"query", "mutation"},
         NEW t \in tokens[c] \cup {Other}, Asks(c, what, t)
  PROVE  SessionInv'
<1>1. t \in Token \cup {Other}
  BY DEF SessionInv
<1>2. asked' \in [Client -> Request \cup {Nothing}]
  BY <1>1 DEF Asks, SessionInv, Request
<1>3. \A d \in Client : asked'[d] = asked[d] \/ (d = c /\ asked'[d].token = t)
  BY DEF Asks, SessionInv
<1>4. TokensTrue'
  BY <1>3, AgedOther DEF Asks, SessionInv, TokensTrue
<1> QED BY <1>2, <1>4 DEF Asks, SessionInv, IsAdmin

LEMMA AnswerKeeps == ASSUME SessionInv, NEW c \in Client, Answer(c) PROVE SessionInv'
<1>1. \A d \in Client : asked'[d] = asked[d] \/ asked'[d].token = Other
  BY DEF Answer, SessionInv, Nothing
<1>2. TokensTrue'
  BY <1>1, AgedOther DEF Answer, SessionInv, TokensTrue
<1> QED BY <1>2 DEF Answer, SessionInv, IsAdmin

LEMMA PInvNext == PInv /\ [ProcessNext]_pvars => PInv'
<1> SUFFICES ASSUME SessionInv, SetupInv, [ProcessNext]_pvars PROVE SessionInv' /\ SetupInv'
  BY DEF PInv
<1>1. CASE SettingUp
  BY <1>1, StartingKeeps, SameSessions DEF SettingUp
<1>2. ASSUME NEW c \in Client, LogsIn(c) PROVE SessionInv' /\ SetupInv'
  BY <1>2, LoginKeeps, SameSetup DEF LogsIn
<1>3. ASSUME NEW c \in Client, Requests(c) PROVE SessionInv' /\ SetupInv'
  BY <1>3, AsksKeeps, SameSetup DEF Requests
<1>4. ASSUME NEW c \in Client, Query(c) \/ Refusal(c) PROVE SessionInv' /\ SetupInv'
  BY <1>4, AnswerKeeps, SameSetup DEF Query, Refusal
<1>5. ASSUME NEW c \in Client, Mutation(c) PROVE SessionInv' /\ SetupInv'
  <2>1. SessionInv'
    BY <1>5, AnswerKeeps DEF Mutation
  <2>2. "issue" \in tables
    BY <1>5 DEF Mutation, SetupInv, AllThere, Table
  <2> QED BY <1>5, <2>1, <2>2 DEF Mutation, SetupInv, start, Missing, Serving, AllThere
<1>6. ASSUME NEW c \in Client, TokenPanics(c) PROVE SessionInv' /\ SetupInv'
  <2>1. SessionInv'
    BY <1>6, DisconnectedKeeps DEF TokenPanics
  <2> QED BY <1>6, <2>1 DEF TokenPanics, Exits, Goes, Moves, SetupInv, disk, Serving
<1>7. CASE Dies
  BY <1>7, CrashKeeps, DisconnectedKeeps DEF Dies
<1>8. CASE Outside
  BY <1>8, LossKeeps, AgainKeeps, SameSessions, SameSetup, RegroupKeeps, TickKeeps DEF Outside
<1>9. CASE UNCHANGED pvars
  BY <1>9, SameSessions, SameSetup DEF pvars
<1> QED BY <1>1, <1>2, <1>3, <1>4, <1>5, <1>6, <1>7, <1>8, <1>9 DEF ProcessNext

LEMMA PInvAlways == ProcessSpec => []PInv
<1>1. ProcessInit => PInv
  BY SessionInit0, SetupInit0 DEF ProcessInit, PInv
<1> QED BY <1>1, PInvNext, PTL DEF ProcessSpec

(* Whatever happens, every variable has its type, the process only serves  *)
(* on complete tables, and tokens say what was true.                       *)
THEOREM ProcessTypes == ProcessSpec => []ProcessTypeOK
BY PInvAlways, Whole, PTL

-----------------------------------------------------------------------------
LEMMA MutationIsRecent ==
  ASSUME PInv, NEW c \in Client, Mutation(c)
  PROVE  since[c] <= Span
<1> DEFINE t == asked[c].token
<1>1. t.role = "Admin" /\ t.age <= Span
  BY DEF Mutation, Executes, Valid, Allowed
<1>2. since[c] <= t.age /\ since[c] \in Nat
  BY <1>1, SpanNat DEF PInv, SessionInv, TokensTrue
<1>3. t.age \in Nat
  BY SpanNat, Presented DEF PInv
<1> QED BY <1>1, <1>2, <1>3, SpanNat

(* auth.rs:205: for any groups and lifetime, a mutation is only carried    *)
(* out for somebody who was an admin within the lifetime of a token.       *)
THEOREM RecentAdmins == ProcessSpec => OnlyRecentAdmins
<1>1. PInv /\ [ProcessNext]_pvars => [\A c \in Client : Mutation(c) => since[c] <= Span]_pvars
  BY MutationIsRecent
<1> QED BY <1>1, PInvAlways, PTL DEF ProcessSpec, OnlyRecentAdmins

LEMMA StepKeepsTickets ==
  PInv /\ [ProcessNext]_pvars =>
    (tickets /\ ~tickets' => hand' # hand \/ "target" \notin tables)
<1> SUFFICES ASSUME PInv, [ProcessNext]_pvars, tickets, ~tickets'
             PROVE  hand' # hand \/ "target" \notin tables
  OBVIOUS
<1>1. \/ DropTable \/ FileLost \/ \E t \in Table : TableLost(t)
  BY DEF ProcessNext, SettingUp, Starting, Started, Check, CreateTable, Recorded, Assert,
         LogsIn, Requests, Query, Mutation, Refusal, TokenPanics, Dies, Crash, Outside,
         WindowOver, StartedByHand, pvars, svars, disk
<1>2. ASSUME DropTable PROVE "target" \notin tables
  <2>1. "issue" \in tables /\ Head(work) = "issue"
    BY <1>2 DEF DropTable, PInv, SetupInv
  <2>2. work = <<"issue", "target">>
    BY <1>2, <2>1 DEF DropTable, PInv, SetupInv, Down
  <2> QED BY <1>2, <2>1, <2>2 DEF DropTable, PInv, SetupInv, Missing, Down
<1>3. hand \in Nat
  BY MaxHandAssumption DEF PInv, SetupInv
<1>4. FileLost \/ (\E t \in Table : TableLost(t)) => hand' = hand + 1
  BY DEF FileLost, TableLost
<1> QED BY <1>1, <1>2, <1>3, <1>4

(* setup.rs:23: a start that takes the migration down drops the tickets    *)
(* only when the targets are lost already.                                 *)
THEOREM TicketsKept == ProcessSpec => TicketsSurvive
<1>1. PInv /\ [ProcessNext]_pvars =>
        [tickets /\ ~tickets' => hand' # hand \/ "target" \notin tables]_pvars
  BY StepKeepsTickets
<1> QED BY <1>1, PInvAlways, PTL DEF ProcessSpec, TicketsSurvive
=============================================================================

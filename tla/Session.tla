------------------------------ MODULE Session ------------------------------
(***************************************************************************)
(* Logging in and asking: a token tells the role its holder had at login,  *)
(* is good for an hour and for the process that issued it, as the secret   *)
(* it is signed with is drawn anew at each start.                          *)
(***************************************************************************)
EXTENDS Naturals

CONSTANTS
  Client,
  Group,           \* groups of the operating system
  AdminGroups,     \* conf.auth.admin
  GuestGroups,     \* conf.auth.guest
  Lifetime,        \* 60 minutes
  Leeway           \* what jsonwebtoken adds for clocks that disagree

ASSUME GroupsAssumption == AdminGroups \subseteq Group /\ GuestGroups \subseteq Group
ASSUME LifetimeAssumption == Lifetime \in Nat \ {0} /\ Leeway \in Nat

VARIABLES
  groups,   \* the groups each user is in
  tokens,   \* the tokens each client got from this process
  asked,    \* the request each client has sent, if any
  since     \* time since each user was last in a group of admins

sessions == <<groups, tokens, asked, since>>

None == "None"
Role == {"Admin", "Guest"}
Span == Lifetime + Leeway
Token == [role : Role, age : 0 .. Span + 1]

(* Any other string after "Bearer ", tokens of an earlier process among    *)
(* them.  A request without one is answered at once and does nothing.      *)
Other == [role |-> None, age |-> 0]

Nothing == [what |-> "nothing", token |-> Other]
Request == [what : {"query", "mutation"}, token : Token \cup {Other}]

IsAdmin(c) == groups[c] \cap AdminGroups # {}

SessionInit ==
  /\ groups \in [Client -> SUBSET Group]
  /\ tokens = [c \in Client |-> {}]
  /\ asked = [c \in Client |-> Nothing]
  /\ since = [c \in Client |-> IF IsAdmin(c) THEN 0 ELSE Span + 1]

-----------------------------------------------------------------------------
(* Mutated: the two lists are swapped.                                     *)
CheckRoleSwapped(gs) ==
  IF gs \cap GuestGroups # {} THEN "Admin"
  ELSE IF gs \cap AdminGroups # {} THEN "Guest" ELSE None

(* check_role                                                              *)
CheckRole(gs) ==
  IF gs \cap AdminGroups # {} THEN "Admin"
  ELSE IF gs \cap GuestGroups # {} THEN "Guest" ELSE None

(* login_handler; who is in no group is refused.                           *)
Login(c) ==
  /\ CheckRole(groups[c]) # None
  /\ tokens' = [tokens EXCEPT ![c] = @ \cup {[role |-> CheckRole(groups[c]), age |-> 0]}]
  /\ UNCHANGED <<groups, asked, since>>

(* Mutated: the time of a token is not looked at.                          *)
ValidAnytime(t) == t # Other

(* What decode checks: the signature and the time.                         *)
Valid(t) == t # Other /\ t.age <= Span

(* RoleChecker: mutations are for admins, queries for both.                *)
Allowed(role, what) == what = "mutation" => role = "Admin"

Asks(c, what, t) ==
  /\ asked[c] = Nothing
  /\ asked' = [asked EXCEPT ![c] = [what |-> what, token |-> t]]
  /\ UNCHANGED <<groups, tokens, since>>

(* An answer: what was asked for, or Insufficient Permission.              *)
Waits(c) == asked[c] # Nothing
Executes(c) == Waits(c) /\ Valid(asked[c].token) /\ Allowed(asked[c].token.role, asked[c].what)
Refuses(c) == Waits(c) /\ Valid(asked[c].token) /\ ~Allowed(asked[c].token.role, asked[c].what)
Answer(c) ==
  /\ asked' = [asked EXCEPT ![c] = Nothing]
  /\ UNCHANGED <<groups, tokens, since>>

(* check_auth unwraps what decode says of any other token.                 *)
DecodeFails(c) == Waits(c) /\ ~Valid(asked[c].token)

(* The connections go, and no token is good for the next process.          *)
Disconnected ==
  /\ asked' = [c \in Client |-> Nothing]
  /\ tokens' = [c \in Client |-> {}]
  /\ UNCHANGED <<groups, since>>

-----------------------------------------------------------------------------
(* People join and leave groups, time passes.                              *)
Regroup(c) ==
  /\ groups' \in {[groups EXCEPT ![c] = gs] : gs \in SUBSET Group}
  /\ since' = [since EXCEPT ![c] = IF IsAdmin(c)' THEN 0 ELSE @]
  /\ UNCHANGED <<tokens, asked>>

Older(n) == IF n > Span THEN n ELSE n + 1

Aged(t) == IF t = Other THEN t ELSE [t EXCEPT !.age = Older(@)]

Tick ==
  /\ since' = [c \in Client |-> IF IsAdmin(c) THEN 0 ELSE Older(since[c])]
  /\ tokens' = [c \in Client |-> {Aged(t) : t \in tokens[c]}]
  /\ asked' = [c \in Client |-> [asked[c] EXCEPT !.token = Aged(@)]]
  /\ UNCHANGED groups
=============================================================================

----------------------------- MODULE ChangeLog -----------------------------
(***************************************************************************)
(* The change log in detail: the sync loop and the requests send what they *)
(* did into a bounded channel, waiting for room; slack_updater collects it *)
(* and posts what it has at a tick.  While it posts it receives nothing.   *)
(***************************************************************************)
EXTENDS Naturals, Sequences, SequencesExt

CONSTANTS
  Task,       \* the sync loop and the requests
  Says,       \* task -> the messages it may send
  Loop,       \* the sync loop
  ChanCap,    \* 10 in the code
  MaxLives    \* bound: times the process is started

Ctt == "ctt"   \* the operator of the loop's own messages

Kind == {"Offline", "Resume", "Close", "Open", "Update"}
ChangeLogMsg == UNION {Says[t] : t \in Task}
NoMsg == [kind |-> "None"]

(* An entry: a name, or an issue with the title it is listed under.        *)
Entry(m) == [kind |-> m.kind, about |-> m.about]
Entries == {Entry(m) : m \in ChangeLogMsg}
Operators == {m.operator : m \in ChangeLogMsg}

ASSUME SaysAssumption ==
  /\ Loop \in Task
  /\ DOMAIN Says = Task
  /\ \A m \in ChangeLogMsg : m.kind \in Kind
ASSUME CapAssumption == ChanCap \in Nat \ {0}
ASSUME LivesAssumption == MaxLives \in Nat \ {0}

VARIABLES
  chan,      \* what is in the channel
  waiters,   \* the tasks waiting for room, in the order they came
  held,      \* task -> what it waits to send
  what,      \* the five collections of slack_updater
  who,       \* operators
  post,      \* the text being posted, if one is
  lives      \* how often the process was started

cvars == <<chan, waiters, held, what, who, post, lives>>

NoPost == [what |-> {}, who |-> {}]
Posting == post # NoPost

ChangeLogInit ==
  /\ chan = <<>> /\ waiters = <<>> /\ held = [t \in Task |-> NoMsg]
  /\ what = {} /\ who = {} /\ post = NoPost
  /\ lives = 1

-----------------------------------------------------------------------------
(* Senders: tx.send(..).await, which is served in order of arrival.        *)

(* Mutated: an unbounded channel.                                          *)
RoomAlways == TRUE

Room == Len(chan) < ChanCap

SendLog(t, m) ==
  /\ held[t] = NoMsg
  /\ IF Room /\ waiters = <<>>
     THEN chan' = Append(chan, m) /\ UNCHANGED <<waiters, held>>
     ELSE /\ waiters' = Append(waiters, t)
          /\ held' = [held EXCEPT ![t] = m]
          /\ UNCHANGED chan
  /\ UNCHANGED <<what, who, post, lives>>

Through ==
  /\ Room /\ waiters # <<>>
  /\ chan' = Append(chan, held[Head(waiters)])
  /\ held' = [held EXCEPT ![Head(waiters)] = NoMsg]
  /\ waiters' = Tail(waiters)
  /\ UNCHANGED <<what, who, post, lives>>

(* A request is dropped after its 60 s, its message with it.               *)
GivesUp(t) ==
  /\ t # Loop /\ held[t] # NoMsg
  /\ \E k \in DOMAIN waiters : waiters[k] = t /\ waiters' = RemoveAt(waiters, k)
  /\ held' = [held EXCEPT ![t] = NoMsg]
  /\ UNCHANGED <<chan, what, who, post, lives>>

-----------------------------------------------------------------------------
(* slack_updater                                                           *)

(* Tickets that ctt opens and closes itself are not collected.             *)
Counts(m) == m.kind \in {"Close", "Open"} => m.operator # Ctt

(* Mutated: only the operator is left out.                                 *)
CollectEntry(m) ==
  /\ what' = what \cup {Entry(m)}
  /\ who' = who \cup (IF Counts(m) THEN {m.operator} ELSE {})

Collect(m) ==
  IF Counts(m)
  THEN what' = what \cup {Entry(m)} /\ who' = who \cup {m.operator}
  ELSE UNCHANGED <<what, who>>

(* Mutated: messages are taken while a post is under way.                  *)
ReceiveAnytime ==
  /\ chan # <<>>
  /\ chan' = Tail(chan) /\ Collect(Head(chan))
  /\ UNCHANGED <<waiters, held, post, lives>>

ReceiveLog ==
  /\ ~Posting /\ chan # <<>>
  /\ chan' = Tail(chan) /\ Collect(Head(chan))
  /\ UNCHANGED <<waiters, held, post, lives>>

(* Mutated: ctt does not count as an operator.                             *)
TickByClients ==
  /\ ~Posting /\ who \ {Ctt} # {}
  /\ post' = [what |-> what, who |-> who]
  /\ UNCHANGED <<chan, waiters, held, what, who, lives>>

(* With no operator known the tick passes.                                 *)
Tick ==
  /\ ~Posting /\ who # {}
  /\ post' = [what |-> what, who |-> who]
  /\ UNCHANGED <<chan, waiters, held, what, who, lives>>

(* Mutated: the reset is forgotten.                                        *)
AnsweredOnly ==
  /\ Posting
  /\ post' = NoPost
  /\ UNCHANGED <<chan, waiters, held, what, who, lives>>

(* Slack's answer, be it an error, ends the post.                          *)
Answered ==
  /\ Posting
  /\ post' = NoPost /\ what' = {} /\ who' = {}
  /\ UNCHANGED <<chan, waiters, held, lives>>

-----------------------------------------------------------------------------
(* The process ends, by a panic or a signal, and is started again.         *)
Ends ==
  /\ lives < MaxLives /\ lives' = lives + 1
  /\ chan' = <<>> /\ waiters' = <<>> /\ held' = [t \in Task |-> NoMsg]
  /\ what' = {} /\ who' = {} /\ post' = NoPost

SlackUpdater == ReceiveLog \/ Tick \/ Answered

ChangeLogNext ==
  \/ \E t \in Task : (\E m \in Says[t] : SendLog(t, m)) \/ GivesUp(t)
  \/ Through
  \/ SlackUpdater
  \/ Ends

ChangeLogSpec == ChangeLogInit /\ [][ChangeLogNext]_cvars

(* select! draws among the branches that are ready, so neither messages    *)
(* nor ticks keep the other away; slack answers some day, as the post has  *)
(* no timeout of its own.                                                  *)
ChangeLogFairness ==
  WF_cvars(Through) /\ WF_cvars(ReceiveLog) /\ WF_cvars(Tick) /\ WF_cvars(Answered)

ChangeLogFairSpec == ChangeLogSpec /\ ChangeLogFairness

-----------------------------------------------------------------------------
(* Types; and who waits is exactly who holds a message, once in the queue. *)
ChangeLogTypeOK ==
  /\ chan \in Seq(ChangeLogMsg) /\ Len(chan) <= ChanCap
  /\ waiters \in Seq(Task) /\ IsInjective(waiters)
  /\ held \in [Task -> ChangeLogMsg \cup {NoMsg}]
  /\ \A t \in Task : held[t] # NoMsg <=> t \in Range(waiters)
  /\ what \subseteq Entries /\ who \subseteq Operators
  /\ post \in [what : SUBSET Entries, who : SUBSET Operators]
  /\ lives \in 1 .. MaxLives

(* changelog.rs:134 goes by the operators alone: that must say whether     *)
(* anything was collected, or entries would lie about until somebody else  *)
(* acts, and be listed under that other's name.                            *)
EntryHasOperator == what # {} <=> who # {}

(* What is still to be told: sent to the channel, or collected.            *)
Untold == {Entry(m) : m \in {c \in Range(chan) : Counts(c)}} \cup what
UntoldWho == {m.operator : m \in {c \in Range(chan) : Counts(c)}} \cup who

(* The reset after the post (changelog.rs:164-169) comes an await after    *)
(* its text was put together: nothing is forgotten that was not in that    *)
(* text, unless the process ends, and nobody's name is.                    *)
ForgottenAfterPost ==
  [][lives' = lives => /\ Untold \ Untold' \subseteq post.what
                       /\ UntoldWho \ UntoldWho' \subseteq post.who]_cvars

(* changelog.rs:132 tells what is worth a post: nodes taken out of service,*)
(* or put back with somebody besides ctt acting.  When there is such news, *)
(* it is posted, and so is whatever was waiting with it; everyone who      *)
(* waits for room gets on, however small the channel.                      *)
Due ==
  \/ \E e \in Untold : e.kind = "Offline"
  \/ UntoldWho \ {Ctt} # {} /\ \E e \in Untold : e.kind = "Resume"
AllIsPosted ==
  /\ \A e \in Entries, k \in 1 .. MaxLives :
       e \in Untold /\ Due /\ lives = k ~> e \in post.what \/ lives > k
  /\ \A t \in Task : held[t] # NoMsg ~> held[t] = NoMsg

(* The rest of the server (CttState, CttServer) takes all this for a       *)
(* counter with room, out of which messages keep being taken: neither      *)
(* ticks nor posts without end keep slack_updater from its channel.        *)
Counter == INSTANCE Channel WITH chan <- Len(chan)
ServesChannel == Counter!ChannelSpec
=============================================================================

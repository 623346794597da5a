-------------------------- MODULE ChangeLogProofs --------------------------
(***************************************************************************)
(* That the change log forgets nothing it has not posted, for any tasks,   *)
(* messages and channel size.                                              *)
(***************************************************************************)
EXTENDS ChangeLog, TLAPS

(* The post under way says all that was collected.                         *)
IsSeq(s) == \E S : s \in Seq(S)
PostIsAll == Posting => post.what = what /\ post.who = who

LogInv ==
  /\ IsSeq(chan) /\ lives \in Nat
  /\ EntryHasOperator
  /\ PostIsAll

-----------------------------------------------------------------------------
(* What Append and Tail do to the messages in a channel.                   *)
LEMMA AppendRange ==
  ASSUME NEW s, IsSeq(s), NEW x
  PROVE  IsSeq(Append(s, x)) /\ Range(Append(s, x)) = Range(s) \cup {x}
<1>1. PICK S : s \in Seq(S)
  BY DEF IsSeq
<1>2. s \in Seq(S \cup {x}) /\ Append(s, x) \in Seq(S \cup {x})
  BY <1>1
<1>3. /\ DOMAIN s = 1 .. Len(s) /\ Len(s) \in Nat
      /\ DOMAIN Append(s, x) = 1 .. Len(s) + 1
      /\ \A k \in 1 .. Len(s) : Append(s, x)[k] = s[k]
      /\ Append(s, x)[Len(s) + 1] = x
  BY <1>2
<1>4. IsSeq(Append(s, x))
  BY <1>2 DEF IsSeq
<1>5. ASSUME NEW y \in Range(s)
      PROVE  y \in Range(Append(s, x))
  <2>1. PICK k \in 1 .. Len(s) : y = s[k]
    BY <1>3 DEF Range
  <2>2. k \in DOMAIN Append(s, x) /\ Append(s, x)[k] = y
    BY <1>3, <2>1
  <2> QED BY <2>2 DEF Range
<1>6. x \in Range(Append(s, x))
  <2>1. Len(s) + 1 \in DOMAIN Append(s, x)
    BY <1>3
  <2> QED BY <2>1, <1>3 DEF Range
<1>7. ASSUME NEW y \in Range(Append(s, x)), y # x
      PROVE  y \in Range(s)
  <2>1. PICK k \in 1 .. Len(s) + 1 : y = Append(s, x)[k]
    BY <1>3 DEF Range
  <2>2. k \in DOMAIN s /\ y = s[k]
    BY <1>3, <1>7, <2>1
  <2> QED BY <2>2 DEF Range
<1> QED BY <1>4, <1>5, <1>6, <1>7

LEMMA TailRange ==
  ASSUME NEW s, IsSeq(s), s # <<>>
  PROVE  IsSeq(Tail(s)) /\ Range(s) \subseteq {Head(s)} \cup Range(Tail(s))
<1>1. PICK S : s \in Seq(S)
  BY DEF IsSeq
<1>2. Tail(s) \in Seq(S)
  BY <1>1
<1>3. /\ DOMAIN s = 1 .. Len(s) /\ Len(s) \in Nat
      /\ Head(s) = s[1]
      /\ DOMAIN Tail(s) = 1 .. Len(s) - 1
      /\ \A k \in 1 .. Len(s) - 1 : Tail(s)[k] = s[k + 1]
  BY <1>1
<1>4. ASSUME NEW y \in Range(s), y # Head(s)
      PROVE  y \in Range(Tail(s))
  <2>1. PICK k \in 1 .. Len(s) : y = s[k]
    BY <1>3 DEF Range
  <2>2. k # 1
    BY <1>3, <1>4, <2>1
  <2>3. k - 1 \in 1 .. Len(s) - 1 /\ (k - 1) + 1 = k
    BY <1>3, <2>1, <2>2
  <2>4. k - 1 \in DOMAIN Tail(s) /\ Tail(s)[k - 1] = y
    BY <1>3, <2>1, <2>3
  <2> QED BY <2>4 DEF Range
<1> QED BY <1>2, <1>4 DEF IsSeq

-----------------------------------------------------------------------------
LEMMA LogInvInit == ChangeLogInit => LogInv
<1> SUFFICES ASSUME ChangeLogInit PROVE LogInv
  OBVIOUS
<1>1. <<>> \in Seq({})
  OBVIOUS
<1>2. IsSeq(chan)
  BY <1>1 DEF ChangeLogInit, IsSeq
<1> QED BY <1>2 DEF ChangeLogInit, LogInv, EntryHasOperator, PostIsAll, Posting

LEMMA LogInvNext == LogInv /\ [ChangeLogNext]_cvars => LogInv'
<1> SUFFICES ASSUME LogInv, [ChangeLogNext]_cvars PROVE LogInv'
  OBVIOUS
<1> USE DEF LogInv
<1>1. ASSUME NEW t \in Task, NEW m \in Says[t], SendLog(t, m) PROVE LogInv'
  <2>1. /\ chan' = chan \/ chan' = Append(chan, m)
        /\ UNCHANGED <<what, who, post, lives>>
    BY <1>1 DEF SendLog
  <2>2. IsSeq(chan')
    BY <2>1, AppendRange
  <2> QED BY <2>1, <2>2 DEF EntryHasOperator, PostIsAll, Posting
<1>2. ASSUME NEW t \in Task, GivesUp(t) PROVE LogInv'
  BY <1>2 DEF GivesUp, EntryHasOperator, PostIsAll, Posting
<1>3. CASE Through
  BY <1>3, AppendRange DEF Through, EntryHasOperator, PostIsAll, Posting
<1>4. CASE ReceiveLog
  BY <1>4, TailRange DEF ReceiveLog, Collect, EntryHasOperator, PostIsAll, Posting
<1>5. CASE Tick
  BY <1>5 DEF Tick, EntryHasOperator, PostIsAll, Posting
<1>6. CASE Answered
  BY <1>6 DEF Answered, EntryHasOperator, PostIsAll, Posting
<1>7. CASE Ends
  <2>1. <<>> \in Seq({})
    OBVIOUS
  <2> QED BY <1>7, <2>1 DEF Ends, IsSeq, EntryHasOperator, PostIsAll, Posting
<1>8. CASE UNCHANGED cvars
  BY <1>8 DEF cvars, EntryHasOperator, PostIsAll, Posting
<1> QED BY <1>1, <1>2, <1>3, <1>4, <1>5, <1>6, <1>7, <1>8 DEF ChangeLogNext, SlackUpdater

(* changelog.rs:134: whether an operator is known says whether anything    *)
(* was collected.                                                          *)
THEOREM OperatorSays == ChangeLogSpec => []EntryHasOperator
<1>1. LogInv => EntryHasOperator
  BY DEF LogInv
<1> QED BY <1>1, LogInvInit, LogInvNext, PTL DEF ChangeLogSpec

-----------------------------------------------------------------------------
(* What happens in a step to what is still to be told.                     *)
Kept ==
  lives' = lives => /\ Untold \ Untold' \subseteq post.what
                    /\ UntoldWho \ UntoldWho' \subseteq post.who

(* More in the channel and as much collected: nothing is forgotten.        *)
LEMMA GrowsIsKept ==
  ASSUME Range(chan) \subseteq Range(chan'), UNCHANGED <<what, who>>
  PROVE  Kept
<1>1. Untold \subseteq Untold'
  BY DEF Untold
<1>2. UntoldWho \subseteq UntoldWho'
  BY DEF UntoldWho
<1> QED BY <1>1, <1>2 DEF Kept

LEMMA StepKeeps == LogInv /\ [ChangeLogNext]_cvars => Kept
<1> SUFFICES ASSUME LogInv, [ChangeLogNext]_cvars PROVE Kept
  OBVIOUS
<1> USE DEF LogInv
<1>1. ASSUME NEW t \in Task, NEW m \in Says[t], SendLog(t, m) PROVE Kept
  <2>1. /\ chan' = chan \/ chan' = Append(chan, m)
        /\ UNCHANGED <<what, who>>
    BY <1>1 DEF SendLog
  <2>2. IsSeq(chan)
    OBVIOUS
  <2>3. CASE chan' = chan
    BY <2>1, <2>3, GrowsIsKept DEF Range
  <2>4. CASE chan' = Append(chan, m)
    <3>1. Range(Append(chan, m)) = Range(chan) \cup {m}
      BY <2>2, AppendRange
    <3>2. Range(chan) \subseteq Range(chan')
      BY <2>4, <3>1
    <3> QED BY <2>1, <3>2, GrowsIsKept
  <2> QED BY <2>1, <2>3, <2>4
<1>2. ASSUME NEW t \in Task, GivesUp(t) PROVE Kept
  BY <1>2, GrowsIsKept DEF GivesUp
<1>3. CASE Through
  BY <1>3, AppendRange, GrowsIsKept DEF Through
<1>4. CASE ReceiveLog
  <2>1. Range(chan) \subseteq {Head(chan)} \cup Range(chan')
    BY <1>4, TailRange DEF ReceiveLog
  <2>2. /\ what \subseteq what' /\ who \subseteq who'
        /\ Counts(Head(chan)) => Entry(Head(chan)) \in what' /\ Head(chan).operator \in who'
    BY <1>4 DEF ReceiveLog, Collect
  <2> QED BY <2>1, <2>2 DEF Kept, Untold, UntoldWho
<1>5. CASE Tick
  BY <1>5, GrowsIsKept DEF Tick
<1>6. CASE Answered
  BY <1>6 DEF Answered, Kept, Untold, UntoldWho, PostIsAll
<1>7. CASE Ends
  BY <1>7 DEF Ends, Kept
<1>8. CASE UNCHANGED cvars
  BY <1>8, GrowsIsKept DEF cvars
<1> QED BY <1>1, <1>2, <1>3, <1>4, <1>5, <1>6, <1>7, <1>8 DEF ChangeLogNext, SlackUpdater

(* changelog.rs:164-169: the reset after the await of a post forgets only  *)
(* what the text of that post says.                                        *)
THEOREM ForgetsOnlyPosted == ChangeLogSpec => ForgottenAfterPost
<1>1. LogInv /\ [ChangeLogNext]_cvars =>
        [lives' = lives => /\ Untold \ Untold' \subseteq post.what
                           /\ UntoldWho \ UntoldWho' \subseteq post.who]_cvars
  BY StepKeeps DEF Kept
<1> QED BY <1>1, LogInvInit, LogInvNext, PTL DEF ChangeLogSpec, ForgottenAfterPost

-----------------------------------------------------------------------------
LEMMA LengthOf ==
  ASSUME NEW s, IsSeq(s), NEW x
  PROVE  /\ Len(s) \in Nat
         /\ Len(Append(s, x)) = Len(s) + 1
         /\ s # <<>> => Len(s) > 0 /\ Len(Tail(s)) = Len(s) - 1
<1>1. PICK S : s \in Seq(S)
  BY DEF IsSeq
<1>2. s \in Seq(S \cup {x})
  BY <1>1
<1>3. Len(s) \in Nat /\ Len(Append(s, x)) = Len(s) + 1
  BY <1>2
<1>4. s # <<>> => Len(s) > 0 /\ Len(Tail(s)) = Len(s) - 1
  BY <1>1
<1> QED BY <1>3, <1>4

LEMMA StepCounts == LogInv /\ [ChangeLogNext]_cvars => [Counter!ChannelNext]_(Len(chan))
<1> SUFFICES ASSUME LogInv, [ChangeLogNext]_cvars
             PROVE  \/ Len(chan') = Len(chan)
                    \/ Len(chan) < ChanCap /\ Len(chan') = Len(chan) + 1
                    \/ Len(chan) > 0 /\ Len(chan') = Len(chan) - 1
                    \/ Len(chan') = 0
  BY DEF Counter!ChannelNext, Counter!Send, Counter!Taken, Counter!Emptied
<1>0. IsSeq(chan)
  BY DEF LogInv
<1>1. ASSUME NEW t \in Task, NEW m \in Says[t], SendLog(t, m)
      PROVE  Len(chan') = Len(chan) \/ (Len(chan) < ChanCap /\ Len(chan') = Len(chan) + 1)
  <2>1. chan' = chan \/ (Len(chan) < ChanCap /\ chan' = Append(chan, m))
    BY <1>1 DEF SendLog, Room
  <2>2. Len(Append(chan, m)) = Len(chan) + 1
    BY <1>0, LengthOf
  <2> QED BY <2>1, <2>2
<1>2. CASE Through
  <2>1. Len(chan) < ChanCap /\ chan' = Append(chan, held[Head(waiters)])
    BY <1>2 DEF Through, Room
  <2>2. Len(Append(chan, held[Head(waiters)])) = Len(chan) + 1
    BY <1>0, LengthOf
  <2> QED BY <2>1, <2>2
<1>3. CASE ReceiveLog
  <2>1. chan # <<>> /\ chan' = Tail(chan)
    BY <1>3 DEF ReceiveLog
  <2>2. chan # <<>> => Len(chan) > 0 /\ Len(Tail(chan)) = Len(chan) - 1
    BY <1>0, LengthOf
  <2> QED BY <2>1, <2>2
<1>4. CASE Ends
  BY <1>4 DEF Ends
<1>5. ASSUME UNCHANGED chan PROVE Len(chan') = Len(chan)
  BY <1>5
<1> QED
  BY <1>1, <1>2, <1>3, <1>4, <1>5
  DEF ChangeLogNext, SlackUpdater, GivesUp, Tick, Answered, cvars

(* main.rs:74: for everybody else the channel is a counter that waits at   *)
(* its capacity (the safety part of ServesChannel).                        *)
THEOREM CountsMessages ==
  ChangeLogSpec => Counter!ChannelInit /\ [][Counter!ChannelNext]_(Len(chan))
<1>1. ChangeLogInit => Counter!ChannelInit
  BY DEF ChangeLogInit, Counter!ChannelInit
<1> QED BY <1>1, LogInvInit, LogInvNext, StepCounts, PTL DEF ChangeLogSpec

-----------------------------------------------------------------------------
(* Types, and who waits.                                                   *)

LEMMA RemoveAtIs ==
  ASSUME NEW S, NEW s \in Seq(S), NEW k \in 1 .. Len(s)
  PROVE  /\ RemoveAt(s, k) \in Seq(S)
         /\ Len(RemoveAt(s, k)) = Len(s) - 1
         /\ \A i \in 1 .. Len(s) - 1 : RemoveAt(s, k)[i] = IF i < k THEN s[i] ELSE s[i + 1]
<1> DEFINE a == SubSeq(s, 1, k - 1)
           b == SubSeq(s, k + 1, Len(s))
<1>0. Len(s) \in Nat /\ k \in Nat /\ 1 <= k /\ k <= Len(s)
  OBVIOUS
<1>1. a \in Seq(S) /\ Len(a) = k - 1 /\ \A i \in 1 .. k - 1 : a[i] = s[i]
  BY <1>0
<1>2. b \in Seq(S) /\ Len(b) = Len(s) - k /\ \A i \in 1 .. Len(s) - k : b[i] = s[k + i]
  BY <1>0
<1>3. RemoveAt(s, k) = a \o b
  BY DEF RemoveAt
<1> HIDE DEF a, b
<1>4. a \o b \in Seq(S) /\ Len(a \o b) = Len(s) - 1
  <2>1. a \o b \in Seq(S) /\ Len(a \o b) = Len(a) + Len(b)
    <3>1. a \in Seq(S) /\ b \in Seq(S)
      BY <1>1, <1>2
    <3> QED BY <3>1
  <2> QED BY <1>0, <1>1, <1>2, <2>1
<1>5. ASSUME NEW i \in 1 .. Len(s) - 1
      PROVE  (a \o b)[i] = IF i < k THEN s[i] ELSE s[i + 1]
  <2>1. CASE i < k
    BY <1>0, <1>1, <1>2, <2>1
  <2>2. CASE ~(i < k)
    <3>1. i - (k - 1) \in 1 .. Len(s) - k /\ k + (i - (k - 1)) = i + 1
      BY <1>0, <2>2
    <3>2. (a \o b)[i] = b[i - (k - 1)]
      BY <1>0, <1>1, <1>2, <2>2
    <3>3. b[i - (k - 1)] = s[i + 1]
      BY <1>2, <3>1
    <3> QED BY <2>2, <3>2, <3>3
  <2> QED BY <2>1, <2>2
<1> QED BY <1>3, <1>4, <1>5

(* A queue in which everyone stands once, and who stands in it.            *)
Queue(w) == w \in Seq(Task) /\ IsInjective(w)

LEMMA JoinQueue ==
  ASSUME NEW w, Queue(w), NEW t \in Task, t \notin Range(w)
  PROVE  Queue(Append(w, t)) /\ Range(Append(w, t)) = Range(w) \cup {t}
<1>1. w \in Seq(Task) /\ Append(w, t) \in Seq(Task)
  BY DEF Queue
<1>2. /\ DOMAIN w = 1 .. Len(w) /\ Len(w) \in Nat /\ DOMAIN Append(w, t) = 1 .. Len(w) + 1
      /\ \A i \in 1 .. Len(w) : Append(w, t)[i] = w[i]
      /\ Append(w, t)[Len(w) + 1] = t
  BY <1>1
<1>3. \A i \in 1 .. Len(w) : w[i] # t
  BY <1>2 DEF Range
<1>4. IsInjective(Append(w, t))
  <2> SUFFICES ASSUME NEW i \in 1 .. Len(w) + 1, NEW j \in 1 .. Len(w) + 1,
                      Append(w, t)[i] = Append(w, t)[j]
               PROVE  i = j
    BY <1>2 DEF IsInjective
  <2>1. (i = Len(w) + 1 \/ i \in 1 .. Len(w)) /\ (j = Len(w) + 1 \/ j \in 1 .. Len(w))
    BY <1>2
  <2> QED BY <1>2, <1>3, <2>1 DEF Queue, IsInjective
<1>5. Range(Append(w, t)) = Range(w) \cup {t}
  BY <1>1, AppendRange DEF IsSeq
<1> QED BY <1>1, <1>4, <1>5 DEF Queue

LEMMA LeaveQueue ==
  ASSUME NEW w, Queue(w), NEW k \in DOMAIN w
  PROVE  Queue(RemoveAt(w, k)) /\ Range(RemoveAt(w, k)) = Range(w) \ {w[k]}
<1> DEFINE r == RemoveAt(w, k)
<1>1. /\ w \in Seq(Task) /\ DOMAIN w = 1 .. Len(w) /\ Len(w) \in Nat /\ k \in 1 .. Len(w)
      /\ \A i, j \in 1 .. Len(w) : w[i] = w[j] => i = j
  BY DEF Queue, IsInjective
<1>2. /\ r \in Seq(Task) /\ Len(r) = Len(w) - 1
      /\ \A i \in 1 .. Len(w) - 1 : r[i] = IF i < k THEN w[i] ELSE w[i + 1]
  BY <1>1, RemoveAtIs
<1>3. DOMAIN r = 1 .. Len(w) - 1
  BY <1>2
<1> HIDE DEF r
<1>4. ASSUME NEW i \in DOMAIN r
      PROVE  \E j \in 1 .. Len(w) : r[i] = w[j] /\ j # k /\ j = IF i < k THEN i ELSE i + 1
  BY <1>1, <1>2, <1>3
<1>5. IsInjective(r)
  <2> SUFFICES ASSUME NEW i \in DOMAIN r, NEW j \in DOMAIN r, r[i] = r[j] PROVE i = j
    BY DEF IsInjective
  <2>1. PICK p \in 1 .. Len(w) : r[i] = w[p] /\ p = IF i < k THEN i ELSE i + 1
    BY <1>4
  <2>2. PICK q \in 1 .. Len(w) : r[j] = w[q] /\ q = IF j < k THEN j ELSE j + 1
    BY <1>4
  <2>3. p = q
    BY <1>1, <2>1, <2>2
  <2> QED BY <1>1, <1>3, <2>1, <2>2, <2>3
<1>6. Range(r) \subseteq Range(w) \ {w[k]}
  BY <1>1, <1>4 DEF Range
<1>7. ASSUME NEW j \in 1 .. Len(w), w[j] # w[k] PROVE w[j] \in Range(r)
  <2> DEFINE i == IF j < k THEN j ELSE j - 1
  <2>1. j # k
    BY <1>7
  <2>2. i \in 1 .. Len(w) - 1 /\ j = IF i < k THEN i ELSE i + 1
    BY <1>1, <2>1
  <2> HIDE DEF i
  <2>3. i \in DOMAIN r /\ r[i] = w[j]
    BY <1>2, <1>3, <2>2
  <2> QED BY <2>3 DEF Range
<1>8. Range(w) \ {w[k]} \subseteq Range(r)
  BY <1>1, <1>7 DEF Range
<1> QED BY <1>2, <1>5, <1>6, <1>8 DEF Queue, r

(* Being served is to leave it from the front.                             *)
LEMMA ServeQueue ==
  ASSUME NEW w, Queue(w), w # <<>>
  PROVE  /\ Head(w) \in Range(w)
         /\ Queue(Tail(w)) /\ Range(Tail(w)) = Range(w) \ {Head(w)}
<1>1. /\ w \in Seq(Task) /\ DOMAIN w = 1 .. Len(w) /\ Len(w) \in Nat /\ Len(w) > 0
      /\ Head(w) = w[1] /\ Tail(w) \in Seq(Task) /\ DOMAIN Tail(w) = 1 .. Len(w) - 1
      /\ \A i \in 1 .. Len(w) - 1 : Tail(w)[i] = w[i + 1]
  BY DEF Queue
<1>2. \A i, j \in 1 .. Len(w) : w[i] = w[j] => i = j
  BY <1>1 DEF Queue, IsInjective
<1>3. 1 \in DOMAIN w
  BY <1>1
<1>4. IsInjective(Tail(w))
  <2> SUFFICES ASSUME NEW i \in 1 .. Len(w) - 1, NEW j \in 1 .. Len(w) - 1, w[i + 1] = w[j + 1]
               PROVE  i = j
    BY <1>1 DEF IsInjective
  <2>1. i + 1 \in 1 .. Len(w) /\ j + 1 \in 1 .. Len(w)
    BY <1>1
  <2>2. i + 1 = j + 1
    BY <1>2, <2>1
  <2> QED BY <1>1, <2>2
<1>5. Range(w) \subseteq {Head(w)} \cup Range(Tail(w))
  BY <1>1, TailRange DEF IsSeq
<1>6. ASSUME NEW i \in 1 .. Len(w) - 1 PROVE Tail(w)[i] \in Range(w) \ {Head(w)}
  <2>1. i + 1 \in 1 .. Len(w) /\ i + 1 # 1 /\ 1 \in 1 .. Len(w)
    BY <1>1
  <2>2. w[i + 1] # w[1]
    BY <1>2, <2>1
  <2> QED BY <1>1, <2>1, <2>2 DEF Range
<1>7. Range(Tail(w)) \subseteq Range(w) \ {Head(w)}
  BY <1>1, <1>6 DEF Range
<1> QED BY <1>1, <1>3, <1>4, <1>5, <1>7 DEF Queue, Range

Waits(w, h) == Queue(w) /\ \A t \in Task : h[t] # NoMsg <=> t \in Range(w)

LEMMA MessageIsSomething == ASSUME NEW m \in ChangeLogMsg PROVE m # NoMsg
BY SaysAssumption DEF NoMsg, Kind

LEMMA NextWaits ==
  ASSUME held \in [Task -> ChangeLogMsg \cup {NoMsg}], Waits(waiters, held), [ChangeLogNext]_cvars
  PROVE  held' \in [Task -> ChangeLogMsg \cup {NoMsg}] /\ Waits(waiters', held')
<1>0. Queue(waiters)
  BY DEF Waits
<1>1. ASSUME NEW t \in Task, NEW m \in Says[t], SendLog(t, m)
      PROVE  held' \in [Task -> ChangeLogMsg \cup {NoMsg}] /\ Waits(waiters', held')
  <2>1. m \in ChangeLogMsg /\ m # NoMsg
    BY MessageIsSomething DEF ChangeLogMsg
  <2>2. CASE UNCHANGED <<waiters, held>>
    BY <2>2
  <2>3. CASE waiters' = Append(waiters, t) /\ held' = [held EXCEPT ![t] = m]
    <3>1. t \notin Range(waiters)
      BY <1>1 DEF SendLog, Waits
    <3>2. Queue(waiters') /\ Range(waiters') = Range(waiters) \cup {t}
      BY <1>0, <2>3, <3>1, JoinQueue
    <3> QED BY <2>1, <2>3, <3>2 DEF Waits
  <2> QED BY <1>1, <2>2, <2>3 DEF SendLog
<1>2. CASE Through
  <2>1. /\ waiters # <<>> /\ waiters' = Tail(waiters)
        /\ held' = [held EXCEPT ![Head(waiters)] = NoMsg]
    BY <1>2 DEF Through
  <2>2. /\ Head(waiters) \in Range(waiters)
        /\ Queue(waiters') /\ Range(waiters') = Range(waiters) \ {Head(waiters)}
    BY <1>0, <2>1, ServeQueue
  <2> QED BY <2>1, <2>2 DEF Waits
<1>3. ASSUME NEW t \in Task, GivesUp(t)
      PROVE  held' \in [Task -> ChangeLogMsg \cup {NoMsg}] /\ Waits(waiters', held')
  <2>1. PICK k \in DOMAIN waiters : waiters[k] = t /\ waiters' = RemoveAt(waiters, k)
    BY <1>3 DEF GivesUp
  <2>2. Queue(waiters') /\ Range(waiters') = Range(waiters) \ {t}
    BY <1>0, <2>1, LeaveQueue
  <2>3. held' = [held EXCEPT ![t] = NoMsg]
    BY <1>3 DEF GivesUp
  <2> QED BY <2>2, <2>3 DEF Waits
<1>4. CASE Ends
  <2>1. waiters' = <<>> /\ held' = [t \in Task |-> NoMsg]
    BY <1>4 DEF Ends
  <2> QED BY <2>1 DEF Waits, Queue, IsInjective, Range
<1>5. CASE UNCHANGED <<waiters, held>>
  BY <1>5
<1> QED
  BY <1>1, <1>2, <1>3, <1>4, <1>5
  DEF ChangeLogNext, SlackUpdater, ReceiveLog, Tick, Answered, cvars

LEMMA NextLogTypes == ChangeLogTypeOK /\ [ChangeLogNext]_cvars => ChangeLogTypeOK'
<1> SUFFICES ASSUME ChangeLogTypeOK, [ChangeLogNext]_cvars PROVE ChangeLogTypeOK'
  OBVIOUS
<1>0. /\ chan \in Seq(ChangeLogMsg) /\ Len(chan) <= ChanCap /\ ChanCap \in Nat
      /\ held \in [Task -> ChangeLogMsg \cup {NoMsg}]
      /\ what \subseteq Entries /\ who \subseteq Operators
      /\ post \in [what : SUBSET Entries, who : SUBSET Operators]
      /\ lives \in 1 .. MaxLives /\ MaxLives \in Nat
  BY CapAssumption, LivesAssumption DEF ChangeLogTypeOK
<1>1. /\ held' \in [Task -> ChangeLogMsg \cup {NoMsg}]
      /\ waiters' \in Seq(Task) /\ IsInjective(waiters')
      /\ \A t \in Task : held'[t] # NoMsg <=> t \in Range(waiters')
  BY NextWaits DEF ChangeLogTypeOK, Waits, Queue
<1> DEFINE Rest == /\ chan' \in Seq(ChangeLogMsg) /\ Len(chan') <= ChanCap
                   /\ what' \subseteq Entries /\ who' \subseteq Operators
                   /\ post' \in [what : SUBSET Entries, who : SUBSET Operators]
                   /\ lives' \in 1 .. MaxLives
<1>2. ASSUME NEW m \in ChangeLogMsg, Room
      PROVE  Append(chan, m) \in Seq(ChangeLogMsg) /\ Len(Append(chan, m)) <= ChanCap
  BY <1>0, <1>2 DEF Room
<1>3. ASSUME NEW t \in Task, NEW m \in Says[t], SendLog(t, m) PROVE Rest
  <2>1. m \in ChangeLogMsg
    BY DEF ChangeLogMsg
  <2>2. Room => Append(chan, m) \in Seq(ChangeLogMsg) /\ Len(Append(chan, m)) <= ChanCap
    BY <1>2, <2>1
  <2> QED BY <1>0, <1>3, <2>2 DEF SendLog
<1>4. ASSUME Through PROVE Rest
  <2>1. Room /\ waiters # <<>> /\ chan' = Append(chan, held[Head(waiters)])
        /\ UNCHANGED <<what, who, post, lives>>
    BY <1>4 DEF Through
  <2>2. Head(waiters) \in Range(waiters)
    BY <2>1, ServeQueue DEF ChangeLogTypeOK, Queue
  <2>3. Head(waiters) \in Task
    BY <2>1 DEF ChangeLogTypeOK
  <2>4. held[Head(waiters)] \in ChangeLogMsg
    BY <1>0, <2>2, <2>3 DEF ChangeLogTypeOK
  <2> QED BY <1>0, <1>2, <2>1, <2>4
<1>5. ASSUME ReceiveLog PROVE Rest
  <2>1. chan # <<>> /\ chan' = Tail(chan) /\ Collect(Head(chan)) /\ UNCHANGED <<post, lives>>
    BY <1>5 DEF ReceiveLog
  <2>2. Head(chan) \in ChangeLogMsg /\ Tail(chan) \in Seq(ChangeLogMsg) /\ Len(Tail(chan)) <= ChanCap
    BY <1>0, <2>1
  <2>3. Entry(Head(chan)) \in Entries /\ Head(chan).operator \in Operators
    BY <2>2 DEF Entries, Operators
  <2> QED BY <1>0, <2>1, <2>2, <2>3 DEF Collect
<1>6. ASSUME Tick \/ Answered PROVE Rest
  BY <1>0, <1>6 DEF Tick, Answered, NoPost
<1>7. ASSUME Ends PROVE Rest
  BY <1>0, <1>7 DEF Ends, NoPost
<1>8. ASSUME UNCHANGED <<chan, what, who, post, lives>> PROVE Rest
  BY <1>0, <1>8
<1>9. Rest
  BY <1>3, <1>4, <1>5, <1>6, <1>7, <1>8 DEF ChangeLogNext, SlackUpdater, GivesUp, cvars
<1> QED BY <1>1, <1>9 DEF ChangeLogTypeOK

(* The channel never holds more than it has room for, and the tasks that   *)
(* wait for room are those with a message to send, each once in the queue: *)
(* whoever comes, is served, gives up after its 60 s or dies with the      *)
(* process (main.rs:74, 113).                                              *)
THEOREM LogTypes == ChangeLogSpec => []ChangeLogTypeOK
<1>1. ChangeLogInit => ChangeLogTypeOK
  BY CapAssumption, LivesAssumption
  DEF ChangeLogInit, ChangeLogTypeOK, NoPost, IsInjective, Range
<1> QED BY <1>1, NextLogTypes, PTL DEF ChangeLogSpec
=============================================================================

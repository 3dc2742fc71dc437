------------------------- MODULE TelegramPollProofs -------------------------
(***************************************************************************)
(* Proof that TelegramPoll implements HandOver, for any number of updates  *)
(* and slips and any length of an answer.  What carries it: no offset the  *)
(* adapter has anywhere - in its process, in KV, at Telegram - is past an  *)
(* update that is not accounted for, and what awaits settling begins where *)
(* everything before it is.                                                *)
(***************************************************************************)
EXTENDS TelegramPoll, FiniteSetTheorems, TLAPS

PollSpec == PollInit /\ [][PollNext]_pollVars

Came      == 1 .. updates
Accounted == (mute \cap Came) \cup trusted \cup holds

\* Every update below n is accounted for.
Reached(n) == n \in Nat /\ \A u \in 1 .. n - 1 : u \in Accounted

\* Updates in a row, from one that may be passed on.
Batch(p) ==
    /\ p \in Seq(Nat)
    /\ \E b \in Nat \ {0} : /\ Reached(b)
                            /\ \A i \in 1 .. Len(p) : p[i] = b + i - 1 /\ p[i] \in Came

PollTypeOK ==
    /\ updates \in Nat /\ updates <= MaxUpdates
    /\ forgotten \in Nat \ {0}
    /\ bot \in [offset : Nat, saved : Nat, loaded : BOOLEAN, pending : Seq(Nat)]
    /\ holds \subseteq Came /\ trusted \subseteq Came

Offsets == Reached(forgotten) /\ Reached(offsetKV) /\ Reached(bot.offset)

Waiting ==
    /\ Batch(bot.pending)
    /\ poll.at = "settle" => poll.recorded \subseteq holds
    /\ poll.at = "given" => Batch(poll.updates)
    /\ poll.at = "answer" => poll.arrivals \subseteq Came

PollInv == PollTypeOK /\ Offsets /\ Waiting

Grows == /\ updates' \in Nat /\ updates <= updates' /\ mute' = mute
         /\ holds \subseteq holds' /\ trusted \subseteq trusted'

\* What is accounted for stays so.
LEMMA AccountedStays ==
    ASSUME updates \in Nat, Grows
    PROVE  /\ Accounted \subseteq Accounted'
           /\ \A n : Reached(n) => Reached(n)'
           /\ \A p : Batch(p) => Batch(p)'
<1>1. Came \subseteq Came'
  BY DEF Grows, Came
<1>2. Accounted \subseteq Accounted'
  BY <1>1 DEF Grows, Accounted
<1>3. ASSUME NEW n, Reached(n) PROVE Reached(n)'
  BY <1>2, <1>3 DEF Reached
<1>4. ASSUME NEW p, Batch(p) PROVE Batch(p)'
  <2>1. PICK b \in Nat \ {0} : /\ Reached(b)
                               /\ \A i \in 1 .. Len(p) : p[i] = b + i - 1 /\ p[i] \in Came
    BY <1>4 DEF Batch
  <2>2. Reached(b)'
    BY <2>1, <1>3
  <2>3. \A i \in 1 .. Len(p) : p[i] = b + i - 1 /\ p[i] \in Came'
    BY <2>1, <1>1
  <2> QED BY <2>2, <2>3, <1>4 DEF Batch
<1> QED BY <1>2, <1>3, <1>4

\* The updates of one answer: no more than came.
LEMMA AnswerFits ==
    ASSUME NEW f \in Nat \ {0}, NEW n \in Nat, NEW limit \in Nat,
           NEW given, given = {u \in f .. n : u < f + limit}
    PROVE  Cardinality(given) \in Nat /\ \A i \in 1 .. Cardinality(given) : f + i - 1 <= n
<1>1. PICK m \in Int : m <= n /\ given = f .. m
  <2>1. CASE n < f + limit
    <3>1. given = f .. n
      BY <2>1
    <3> QED BY <3>1
  <2>2. CASE ~(n < f + limit)
    <3>1. given = f .. (f + limit - 1) /\ f + limit - 1 \in Int /\ f + limit - 1 <= n
      BY <2>2
    <3> QED BY <3>1
  <2> QED BY <2>1, <2>2
<1>2. f \in Int
  OBVIOUS
<1>3. Cardinality(f .. m) = IF f > m THEN 0 ELSE m - f + 1
  BY <1>2, FS_Interval
<1>4. PICK c : c = Cardinality(given)
  OBVIOUS
<1>5. c = IF f > m THEN 0 ELSE m - f + 1
  BY <1>1, <1>3, <1>4, Zenon
<1>6. c \in Nat /\ \A i \in 1 .. c : f + i - 1 <= n
  BY <1>1, <1>5
<1> QED BY <1>4, <1>6, Zenon

\* Nothing below an empty or the first offset is left out.
LEMMA NothingBelow ==
    ASSUME updates \in Nat
    PROVE  Reached(0) /\ Reached(1) /\ Batch(<<>>)
<1>1. Reached(0) /\ Reached(1)
  BY DEF Reached
<1>2. <<>> \in Seq(Nat) /\ Len(<<>>) = 0
  OBVIOUS
<1> QED BY <1>1, <1>2 DEF Batch

\* settle: the offset moves past updates that make no arrival, that the host
\* holds, or that an older host is trusted with.
LEMMA SettlePasses ==
    ASSUME MaxUpdates \in Nat, PollInv, Settle
    PROVE  PollInv'
<1> DEFINE p == bot.pending
           past == {p[i] : i \in Settled(p)}
<1>1. PICK next \in bot.offset .. MaxUpdates + 1 :
          /\ \A u \in past : u < next
          /\ next = bot.offset \/ next - 1 \in past
          /\ bot' = [bot EXCEPT !.offset = next, !.pending = <<>>]
  BY DEF Settle
<1>0. /\ poll.at = "settle"
      /\ trusted' = IF tells THEN trusted ELSE trusted \cup {p[i] : i \in DOMAIN p}
      /\ poll' \in {[at |-> "commit"], [at |-> "load"]}
      /\ UNCHANGED <<updates, mute, forgotten, offsetKV, tells, answered, holds, slips>>
  BY DEF Settle
<1>2. PICK b \in Nat \ {0} : /\ Reached(b)
                             /\ \A i \in 1 .. Len(p) : p[i] = b + i - 1 /\ p[i] \in Came
  BY DEF PollInv, Waiting, Batch
<1>3. p \in Seq(Nat) /\ Len(p) \in Nat /\ DOMAIN p = 1 .. Len(p)
  BY DEF PollInv, PollTypeOK
<1>4. {p[i] : i \in DOMAIN p} \subseteq Came
  BY <1>2, <1>3
<1>5. Grows
  BY <1>0 DEF PollInv, PollTypeOK, Grows
<1>6. updates \in Nat /\ bot.offset \in Nat
  BY DEF PollInv, PollTypeOK
<1>8. next \in Nat
  BY <1>1, <1>6
<1>9. Reached(next)'
  <2>1. CASE next = bot.offset
    <3>1. Reached(bot.offset)
      BY DEF PollInv, Offsets
    <3> QED BY <3>1, <2>1, <1>5, <1>6, AccountedStays
  <2>2. CASE next - 1 \in past
    <3>1. PICK i \in Settled(p) : next - 1 = p[i]
      BY <2>2
    <3>2. i \in 1 .. Len(p) /\ \A j \in 1 .. i : Passable(p[j])
      BY <3>1, <1>3 DEF Settled
    <3>4. next = b + i
      BY <3>1, <3>2, <1>2, <1>8
    <3>3. ASSUME NEW u \in 1 .. next - 1 PROVE u \in Accounted'
      <4>1. CASE u < b
        <5>1. u \in Accounted
          BY <4>1, <1>2, <3>3 DEF Reached
        <5> QED BY <5>1, <1>5, <1>6, AccountedStays
      <4>2. CASE u >= b
        <5>0. u - b + 1 \in 1 .. i /\ u - b + 1 \in 1 .. Len(p)
          BY <4>2, <3>2, <3>3, <3>4, <1>3, <1>8
        <5>1. u = p[u - b + 1] /\ u \in Came
          BY <5>0, <1>2, <3>3
        <5>2. Passable(u)
          BY <5>0, <5>1, <3>2
        <5>3. u \in mute \/ u \in trusted' \/ u \in holds
          BY <5>0, <5>1, <5>2, <1>0, <1>3 DEF Passable, PollInv, Waiting
        <5> QED BY <5>1, <5>3, <1>0 DEF Accounted, Came
      <4> QED BY <4>1, <4>2, <1>2, <3>3, <1>8
    <3> QED BY <3>3, <1>8 DEF Reached
  <2> QED BY <2>1, <2>2, <1>1
<1>10. bot'.offset = next /\ bot'.pending = <<>>
  BY <1>1 DEF PollInv, PollTypeOK
<1>11. PollTypeOK'
  <2>1. bot' \in [offset : Nat, saved : Nat, loaded : BOOLEAN, pending : Seq(Nat)]
    <3>1. bot' = [bot EXCEPT !.offset = next, !.pending = <<>>]
      BY <1>1
    <3>2. bot \in [offset : Nat, saved : Nat, loaded : BOOLEAN, pending : Seq(Nat)]
      BY DEF PollInv, PollTypeOK
    <3>3. <<>> \in Seq(Nat)
      OBVIOUS
    <3> HIDE DEF p, past
    <3> QED BY <3>1, <3>2, <3>3, <1>8
  <2>2. trusted' \subseteq Came
    BY <1>0, <1>4 DEF PollInv, PollTypeOK
  <2> QED BY <1>0, <2>1, <2>2 DEF PollInv, PollTypeOK, Came
<1>12. Offsets'
  BY <1>0, <1>5, <1>6, <1>9, <1>10, AccountedStays DEF PollInv, Offsets
<1>13. Waiting'
  <2>1. Batch(<<>>)'
    BY <1>5, <1>6, NothingBelow, AccountedStays
  <2> QED BY <2>1, <1>0, <1>10 DEF Waiting
<1> QED BY <1>11, <1>12, <1>13 DEF PollInv

\* The other steps; `Given` takes the updates of an answer, which follow each
\* other from the first one Telegram keeps (`Ask`).
LEMMA StepKeeps ==
    ASSUME MaxUpdates \in Nat, PollLimit \in Nat, PollInv, [PollNext]_pollVars
    PROVE  PollInv'
<1> USE DEF PollInv
<1>1. CASE UpdateComes
  <2>1. Grows
    BY <1>1 DEF UpdateComes, PollTypeOK, Grows
  <2>2. PollTypeOK'
    BY <1>1 DEF UpdateComes, PollTypeOK, Came
  <2>3. Offsets'
    BY <1>1, <2>1, AccountedStays DEF UpdateComes, PollTypeOK, Offsets
  <2>4. Waiting'
    BY <1>1, <2>1, AccountedStays DEF UpdateComes, PollTypeOK, Waiting, Came
  <2> QED BY <2>2, <2>3, <2>4
<1>2. CASE Receive
  BY <1>2 DEF Receive, PollTypeOK, Offsets, Waiting, Reached, Batch, Accounted, Came
<1>3. CASE Settle
  BY <1>3, SettlePasses
<1>4. CASE Load
  <2>1. PollTypeOK' /\ Offsets'
    BY <1>4 DEF Load, PollTypeOK, Offsets, Reached, Accounted, Came
  <2>2. bot'.pending = bot.pending /\ poll'.at = "commit"
    BY <1>4 DEF Load, PollTypeOK
  <2> QED BY <1>4, <2>1, <2>2 DEF Load, Waiting, Batch, Reached, Accounted, Came
<1>5. CASE CommitOffset
  <2>1. PollTypeOK' /\ Offsets'
    BY <1>5 DEF CommitOffset, PollTypeOK, Offsets, Reached, Accounted, Came
  <2>2. bot'.pending = bot.pending /\ poll'.at = "ask"
    BY <1>5 DEF CommitOffset, PollTypeOK
  <2> QED BY <1>5, <2>1, <2>2 DEF CommitOffset, Waiting, Batch, Reached, Accounted, Came
<1>6. CASE Ask
  <2> DEFINE first == forgotten'
             given == {u \in first .. updates : u < first + PollLimit}
  <2>1. first \in Nat \ {0} /\ Reached(first)
    BY <1>6 DEF Ask, PollTypeOK, Offsets
  <2> DEFINE batch == [i \in 1 .. Cardinality(given) |-> first + i - 1]
  <2>4. Cardinality(given) \in Nat /\ \A i \in 1 .. Cardinality(given) : first + i - 1 <= updates
    <3>1. updates \in Nat
      BY DEF PollTypeOK
    <3> HIDE DEF first
    <3> QED BY <2>1, <3>1, AnswerFits
  <2>5. batch \in Seq(Nat) /\ Len(batch) = Cardinality(given)
    BY <2>1, <2>4
  <2>6. Batch(batch)
    <3> HIDE DEF first, given
    <3> QED BY <2>1, <2>4, <2>5 DEF Batch, Came, PollTypeOK
  <2>7. poll' = [at |-> "given", updates |-> batch]
    BY <1>6 DEF Ask
  <2>8. UNCHANGED <<updates, mute, offsetKV, bot, tells, answered, holds, trusted, slips>>
    BY <1>6 DEF Ask
  <2> HIDE DEF first, batch
  <2>9. PollTypeOK' /\ Offsets'
    BY <2>1, <2>8 DEF PollTypeOK, Offsets, Reached, Accounted, Came, first
  <2>10. Waiting'
    BY <2>6, <2>7, <2>8 DEF Waiting, Batch, Reached, Accounted, Came
  <2> QED BY <2>9, <2>10
<1>7. CASE Given
  <2>1. poll.updates \in Seq(Nat) /\ {poll.updates[i] : i \in DOMAIN poll.updates} \subseteq Came
    <3>1. Batch(poll.updates)
      BY <1>7 DEF Given, Waiting
    <3>2. poll.updates \in Seq(Nat) /\ \A i \in 1 .. Len(poll.updates) : poll.updates[i] \in Came
      BY <3>1 DEF Batch
    <3> QED BY <3>2
  <2>2. PollTypeOK' /\ Offsets'
    BY <1>7, <2>1 DEF Given, PollTypeOK, Offsets, Reached, Accounted, Came
  <2>3. bot'.pending = poll.updates /\ Batch(poll.updates)
    BY <1>7, <2>1 DEF Given, PollTypeOK, Waiting
  <2>4. Waiting'
    BY <1>7, <2>1, <2>3 DEF Given, Waiting, Batch, Reached, Accounted, Came
  <2> QED BY <2>2, <2>4
<1>8. CASE AskFails
  BY <1>8 DEF AskFails, NoPoll, PollTypeOK, Offsets, Waiting, Reached, Batch, Accounted, Came
<1>9. CASE Answers
  <2>1. PICK kept \in SUBSET poll.arrivals : holds' = holds \cup kept
    BY <1>9 DEF Answers
  <2>2. Grows
    BY <1>9, <2>1 DEF Answers, PollTypeOK, Grows
  <2>3. PollTypeOK'
    BY <1>9, <2>1 DEF Answers, PollTypeOK, Waiting, Came
  <2>4. Offsets'
    BY <1>9, <2>2, AccountedStays DEF Answers, PollTypeOK, Offsets
  <2>5. Waiting'
    BY <1>9, <2>2, AccountedStays DEF Answers, PollTypeOK, Waiting, NoPoll
  <2> QED BY <2>3, <2>4, <2>5
<1>10. CASE AnswerLost
  BY <1>10 DEF AnswerLost, NoPoll, PollTypeOK, Offsets, Waiting, Reached, Batch, Accounted, Came
<1>11. CASE BotKilled
  <2>1. bot' = Fresh /\ poll' = NoPoll
        /\ UNCHANGED <<updates, mute, forgotten, offsetKV, tells, answered, holds, trusted>>
    BY <1>11 DEF BotKilled
  <2>2. Reached(0) /\ Batch(<<>>)
    BY NothingBelow DEF PollTypeOK
  <2>3. PollTypeOK'
    BY <2>1 DEF Fresh, PollTypeOK, Came
  <2>4. Offsets'
    BY <2>1, <2>2 DEF Fresh, Offsets, Reached, Accounted, Came
  <2>5. Waiting'
    BY <2>1, <2>2 DEF Fresh, NoPoll, Waiting, Batch, Reached, Accounted, Came
  <2> QED BY <2>3, <2>4, <2>5
<1>12. CASE UNCHANGED pollVars
  BY <1>12 DEF pollVars, PollTypeOK, Offsets, Waiting, Reached, Batch, Accounted, Came
<1> QED
  BY <1>1, <1>2, <1>3, <1>4, <1>5, <1>6, <1>7, <1>8, <1>9, <1>10, <1>11, <1>12
  DEF PollNext, PollStep

LEMMA StartsInOrder ==
    ASSUME MaxUpdates \in Nat, PollInit
    PROVE  PollInv
<1>1. updates = 0 /\ forgotten = 1 /\ offsetKV = 0 /\ bot = Fresh /\ poll = NoPoll
      /\ holds = {} /\ trusted = {}
  BY DEF PollInit
<1>2. Reached(0) /\ Reached(1) /\ Batch(<<>>)
  BY <1>1, NothingBelow
<1>3. PollTypeOK
  BY <1>1 DEF Fresh, PollTypeOK, Came
<1> QED BY <1>1, <1>2, <1>3 DEF Fresh, NoPoll, PollInv, Offsets, Waiting

\* The invariant for every number of updates, answers and slips.
THEOREM OffsetsAreEarned ==
    ASSUME MaxUpdates \in Nat, PollLimit \in Nat
    PROVE  PollSpec => []PollInv
<1>1. PollInit => PollInv
  BY StartsInOrder
<1>2. PollInv /\ [PollNext]_pollVars => PollInv'
  BY StepKeeps
<1> QED BY <1>1, <1>2, PTL DEF PollSpec

\* receive implements HandOver: whatever is lost, refused or killed, Telegram is
\* never asked to forget an update that the host does not hold, unless it makes no
\* arrival or an older host was trusted with it.
THEOREM PollImplementsHandOver ==
    ASSUME MaxUpdates \in Nat, PollLimit \in Nat
    PROVE  PollSpec => PollHandOver!Spec
<1>1. PollInit => PollHandOver!Init
  BY DEF PollInit, PollHandOver!Init
<1>2. ASSUME PollInv, PollInv', [PollNext]_pollVars
      PROVE  [PollHandOver!Next]_PollHandOver!handVars
  <2>1. /\ updates' >= updates /\ holds \subseteq holds' /\ trusted \subseteq trusted'
        /\ mute' = mute /\ holds' \subseteq Came
    <3>1. CASE Answers
      BY <1>2, <3>1 DEF Answers, PollInv, PollTypeOK, Waiting, Came
    <3>2. CASE Settle
      BY <1>2, <3>2 DEF Settle, PollInv, PollTypeOK
    <3>3. CASE UpdateComes
      BY <1>2, <3>3 DEF UpdateComes, PollInv, PollTypeOK
    <3>4. CASE ~(Answers \/ Settle \/ UpdateComes)
      BY <1>2, <3>4 DEF PollNext, PollStep, Receive, Load, CommitOffset, Ask, Given, AskFails,
         AnswerLost, BotKilled, pollVars, PollInv, PollTypeOK
    <3> QED BY <3>1, <3>2, <3>3, <3>4
  <2>2. PollHandOver!Arrives /\ PollHandOver!Keeps
    BY <2>1 DEF PollHandOver!Arrives, PollHandOver!Keeps, Came
  <2>3. PollHandOver!Excuses
    <3>1. updates \in Nat /\ updates' \in Nat /\ trusted' \subseteq Came'
      BY <1>2 DEF PollInv, PollTypeOK
    <3>2. 1 .. updates \subseteq 1 .. updates'
      BY <3>1, <2>1
    <3>3. ((mute \cap (1 .. updates)) \cup trusted) \subseteq ((mute' \cap (1 .. updates')) \cup trusted')
      BY <3>2, <2>1
    <3>4. ((mute' \cap (1 .. updates')) \cup trusted') \subseteq 1 .. updates'
      BY <3>1 DEF Came
    <3> QED BY <3>3, <3>4 DEF PollHandOver!Excuses
  <2>4. PollHandOver!Passes
    BY <1>2 DEF PollHandOver!Passes, PollInv, Offsets, Reached, Accounted, Came
  <2> QED BY <2>2, <2>3, <2>4 DEF PollHandOver!Next
<1> QED
  BY <1>1, <1>2, OffsetsAreEarned, PTL DEF PollSpec, PollHandOver!Spec
=============================================================================

---------------------------- MODULE TelegramPoll ----------------------------
(***************************************************************************)
(* receive of examples/telegram: one long poll of getUpdates a call.  The  *)
(* offset a poll asks from is Telegram's word to forget what is below it;  *)
(* the adapter moves it past an update once the next receive says that the *)
(* host holds the arrival it made, and keeps it in KV.                     *)
(*                                                                         *)
(* The bot API is external: updates are numbered as they come, and some    *)
(* (`mute`) carry no message.  The worker is killed in any state; `bot` is *)
(* what it has in memory.                                                  *)
(***************************************************************************)
EXTENDS Integers, Sequences, FiniteSets

CONSTANTS PollLimit,   \* pollLimit: the updates of one answer
          MaxUpdates,  \* bound: updates ever
          MaxSlips     \* bound: kills, failed calls, lost answers, refusals

VARIABLES updates,     \* how many updates came
          mute,        \* updates that make no arrival
          forgotten,   \* Telegram keeps the updates from here on
          offsetKV,    \* the durable offset
          bot,         \* offset, saved, loaded and pending of the process
          poll,        \* the receive in progress
          tells,       \* the host names what it recorded (an older one does not)
          answered,    \* the arrivals of the last answer the host got
          holds,       \* the arrivals the host recorded
          trusted,     \* ghost: arrivals an older host's next receive counted as held
          slips

pollVars == <<updates, mute, forgotten, offsetKV, bot, poll, tells, answered, holds, trusted, slips>>

NoPoll == [at |-> "none"]
Fresh == [offset |-> 0, saved |-> 0, loaded |-> FALSE, pending |-> <<>>]

PollInit ==
    /\ updates = 0 /\ mute \in SUBSET (1 .. MaxUpdates) /\ tells \in BOOLEAN
    /\ forgotten = 1 /\ offsetKV = 0
    /\ bot = Fresh /\ poll = NoPoll
    /\ answered = {} /\ holds = {} /\ trusted = {} /\ slips = 0

UpdateComes ==
    /\ updates < MaxUpdates
    /\ updates' = updates + 1
    /\ UNCHANGED <<mute, forgotten, offsetKV, bot, poll, tells, answered, holds, trusted, slips>>

\* The host's next receive: of its last answer, the arrivals it holds.
Receive ==
    /\ poll = NoPoll
    /\ poll' = [at |-> "settle", recorded |-> answered \cap holds]
    /\ UNCHANGED <<updates, mute, forgotten, offsetKV, bot, tells, answered, holds, trusted, slips>>

\* Mutant: an update that made no arrival stops the offset too.
PassableArrival(u) == ~tells \/ u \in poll.recorded

\* settle: up to the first arrival the host does not hold; all of it for an older host.
Passable(u) == u \in mute \/ ~tells \/ u \in poll.recorded

\* Mutant: an arrival the host does not hold is skipped, not stopped at.
SettledSkipping(p) == {i \in DOMAIN p : Passable(p[i])}

Settled(p) == {i \in DOMAIN p : \A j \in 1 .. i : Passable(p[j])}

Settle ==
    /\ poll.at = "settle"
    /\ LET past == {bot.pending[i] : i \in Settled(bot.pending)}
       IN \E next \in bot.offset .. MaxUpdates + 1 :
            /\ \A u \in past : u < next
            /\ next = bot.offset \/ next - 1 \in past
            /\ bot' = [bot EXCEPT !.offset = next, !.pending = <<>>]
    /\ trusted' = IF tells THEN trusted ELSE trusted \cup {bot.pending[i] : i \in DOMAIN bot.pending}
    /\ poll' = [at |-> IF bot.loaded THEN "commit" ELSE "load"]
    /\ UNCHANGED <<updates, mute, forgotten, offsetKV, tells, answered, holds, slips>>

\* commitOffset: once a process, KV's offset is taken over if it can be read.
Load ==
    /\ poll.at = "load"
    /\ \E ok \in BOOLEAN :
         /\ ~ok => slips < MaxSlips
         /\ slips' = IF ok THEN slips ELSE slips + 1
         /\ bot' = IF ok /\ offsetKV # 0
                   THEN [bot EXCEPT !.loaded = TRUE, !.offset = offsetKV, !.saved = offsetKV]
                   ELSE [bot EXCEPT !.loaded = TRUE]
    /\ poll' = [at |-> "commit"]
    /\ UNCHANGED <<updates, mute, forgotten, offsetKV, tells, answered, holds, trusted>>

\* The offset counts as saved though the put may have failed.
CommitOffset ==
    /\ poll.at = "commit"
    /\ \E ok \in BOOLEAN :
         /\ ~ok => slips < MaxSlips /\ bot.offset # bot.saved
         /\ slips' = IF ok THEN slips ELSE slips + 1
         /\ offsetKV' = IF ok /\ bot.offset # bot.saved THEN bot.offset ELSE offsetKV
    /\ bot' = [bot EXCEPT !.saved = bot.offset]
    /\ poll' = [at |-> "ask"]
    /\ UNCHANGED <<updates, mute, forgotten, tells, answered, holds, trusted>>

\* getUpdates reaches Telegram: it forgets what is below the offset.
Ask ==
    /\ poll.at = "ask"
    /\ forgotten' = IF bot.offset > forgotten THEN bot.offset ELSE forgotten
    /\ LET given == {u \in forgotten' .. updates : u < forgotten' + PollLimit}
       IN poll' = [at |-> "given", updates |-> [i \in 1 .. Cardinality(given) |-> forgotten' + i - 1]]
    /\ UNCHANGED <<updates, mute, offsetKV, bot, tells, answered, holds, trusted, slips>>

\* The answer arrives: it is held in memory and its messages are the arrivals.
Given ==
    /\ poll.at = "given"
    /\ bot' = [bot EXCEPT !.pending = poll.updates]
    /\ poll' = [at |-> "answer",
                arrivals |-> {poll.updates[i] : i \in DOMAIN poll.updates} \ mute]
    /\ UNCHANGED <<updates, mute, forgotten, offsetKV, tells, answered, holds, trusted, slips>>

\* The call fails: not sent, its answer lost, or not one that can be read.
AskFails ==
    /\ poll.at \in {"ask", "given"} /\ slips < MaxSlips
    /\ poll' = NoPoll /\ slips' = slips + 1
    /\ UNCHANGED <<updates, mute, forgotten, offsetKV, bot, tells, answered, holds, trusted>>

\* The host takes the answer; its record may refuse some of it.
Answers ==
    /\ poll.at = "answer"
    /\ \E kept \in SUBSET poll.arrivals :
         /\ kept # poll.arrivals => slips < MaxSlips
         /\ slips' = IF kept = poll.arrivals THEN slips ELSE slips + 1
         /\ holds' = holds \cup kept
    /\ answered' = IF poll.arrivals = {} THEN answered ELSE poll.arrivals
    /\ poll' = NoPoll
    /\ UNCHANGED <<updates, mute, forgotten, offsetKV, bot, tells, trusted>>

\* The host does not get the answer (its own deadline), and the process lives on.
AnswerLost ==
    /\ poll.at = "answer" /\ slips < MaxSlips
    /\ poll' = NoPoll /\ slips' = slips + 1
    /\ UNCHANGED <<updates, mute, forgotten, offsetKV, bot, tells, answered, holds, trusted>>

BotKilled ==
    /\ slips < MaxSlips
    /\ bot' = Fresh /\ poll' = NoPoll /\ slips' = slips + 1
    /\ UNCHANGED <<updates, mute, forgotten, offsetKV, tells, answered, holds, trusted>>

PollStep == Receive \/ Settle \/ Load \/ CommitOffset \/ Ask \/ Given \/ Answers

PollNext == PollStep \/ UpdateComes \/ AskFails \/ AnswerLost \/ BotKilled

PollHandOver == INSTANCE HandOver WITH
    arrived <- updates, kept <- holds,
    excused <- ((mute \cap (1 .. updates)) \cup trusted), passed <- (1 .. forgotten - 1)
=============================================================================

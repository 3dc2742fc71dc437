----------------------------- MODULE SendWindow -----------------------------
(***************************************************************************)
(* SendWindow of pkg/aiiosdk and the three channel senders that wrap a     *)
(* send in it: Admit, the request, Record.  The times of the recent sends  *)
(* are in KV; the clock is the host's, one reading a call.                 *)
(*                                                                         *)
(* The service is external: what it did and what the host's answer says of *)
(* it is one of Outcomes.  A call is killed between any two steps.         *)
(***************************************************************************)
EXTENDS Integers, Sequences, FiniteSets, SequencesExt

CONSTANTS Limits,       \* values the operator gives send_limit
          Windows,      \* and send_window_minutes
          Skew,         \* sendClockSkew
          MaxSendLimit,
          MaxClock,     \* bound: the host's clock
          MaxSends,     \* bound: sends that went out
          MaxMisses     \* bound: kills, failed KV calls, sends that may have gone and did not

VARIABLES via,          \* the adapter; each has a key of its own
          ahead,        \* ghost: the furthest the clock was at a call
          times,        \* the KV key: times of recent sends
          sender,       \* the send in progress, or Resting
          went,         \* ghost: the sends that reached somebody, in order, and why one of
                        \* them is not counted
          pruned,       \* ghost: the latest start of a window Record wrote
          misses

sendVars == <<via, ahead, times, sender, went, pruned, misses>>

Via == {"telegram", "twilio", "gmail"}
Resting == [at |-> "rest"]

\* What became of a request, and whether the message went.  "passed" is an error of the
\* host the adapter does not translate.
Outcomes == {"taken", "garbled", "refused", "denied", "unreached", "lost", "error5xx", "unread"}
MayGo == {"garbled", "lost", "error5xx", "unread"}
Goes(o) == IF o = "taken" THEN {TRUE} ELSE IF o \in MayGo THEN BOOLEAN ELSE {FALSE}

\* sent and unanswered (telegram), the tail of send (twilio), channelSend (gmail).
Said(o) ==
    CASE o = "taken" -> "sent"
      [] o = "garbled" -> IF via = "twilio" THEN "sent" ELSE "unknown"
      [] o = "lost" -> "unknown"
      [] o \in {"error5xx", "unread"} -> IF via = "twilio" THEN "passed" ELSE "unknown"
      [] o \in {"refused", "unreached"} -> IF via = "twilio" THEN "passed" ELSE "notSent"
      [] o = "denied" -> "notSent"

\* Mutant: a send that may have gone is not counted.
CountsSent(said) == said = "sent"

Counts(said) == said \in {"sent", "unknown"}

SendInit ==
    /\ via \in Via
    /\ ahead = 0 /\ times = <<>> /\ sender = Resting /\ went = <<>>
    /\ pruned = 0 - MaxClock /\ misses = 0

Later(a, b) == IF a > b THEN a ELSE b

\* recent: the times of the window, none of them from a clock that ran ahead, in order.
InWindow(now, window) == {i \in DOMAIN times : times[i] > now - window /\ times[i] <= now + Skew}
Ordered(order) == \A i, j \in DOMAIN order : i < j => times[order[i]] <= times[order[j]]
Recent(now, window) ==
    LET order == CHOOSE o \in SetToSeqs(InWindow(now, window)) : Ordered(o)
    IN  [i \in DOMAIN order |-> times[order[i]]]

----------------------------------------------------------------------------
\* A call brings the clock's reading, which goes on, or was set back by no more than
\* the skew allowed for.
SendStarts ==
    /\ sender = Resting /\ Len(went) < MaxSends
    /\ \E now \in Later(0, ahead - Skew) .. MaxClock :
         /\ sender' = [at |-> "admit", now |-> now]
         /\ ahead' = Later(ahead, now)
    /\ UNCHANGED <<via, times, went, pruned, misses>>

\* Mutant: the oldest time, though the limit was lowered below their number.
RoomAtOldest(recent, limit, window) == recent[1] + window

\* When so many of the recent times have left the window that there is room.
RoomAt(recent, limit, window) == recent[Len(recent) - limit + 1] + window

\* Admit, under the settings the operator has given by now.
Admit ==
    /\ sender.at = "admit"
    /\ \E limit \in Limits, window \in Windows :
         LET recent == Recent(sender.now, window)
         IN sender' = IF Len(recent) < limit
                      THEN [at |-> "ask", now |-> sender.now, limit |-> limit, window |-> window]
                      ELSE [at |-> "refused", now |-> sender.now, limit |-> limit, window |-> window,
                            retryAt |-> RoomAt(recent, limit, window)]
    /\ UNCHANGED <<via, ahead, times, went, pruned, misses>>

\* The settings, the clock or KV cannot be had: refused, nothing sent.
AdmitFails ==
    /\ sender.at = "admit" /\ misses < MaxMisses
    /\ sender' = Resting /\ misses' = misses + 1
    /\ UNCHANGED <<via, ahead, times, went, pruned>>

Refused ==
    /\ sender.at = "refused"
    /\ sender' = Resting
    /\ UNCHANGED <<via, ahead, times, went, pruned, misses>>

\* The request and its answer.  An error passed on as the host gave it is not counted,
\* whether the message went or not.
Entry(lost) == [now |-> sender.now, limit |-> sender.limit,
                from |-> Later(sender.now - sender.window, pruned), lost |-> lost]

Post ==
    /\ sender.at = "ask"
    /\ \E o \in Outcomes : \E gone \in Goes(o) :
         /\ o \in MayGo /\ ~gone => misses < MaxMisses
         /\ misses' = IF o \in MayGo /\ ~gone THEN misses + 1 ELSE misses
         /\ went' = IF gone THEN Append(went, Entry(IF Said(o) = "passed" THEN "passed" ELSE "no")) ELSE went
         /\ sender' = IF Counts(Said(o))
                      THEN [at |-> "record", now |-> sender.now, window |-> sender.window, gone |-> gone]
                      ELSE Resting
    /\ UNCHANGED <<via, ahead, times, pruned>>

\* Record: the window is read again, and at most MaxSendLimit times are kept.
Kept(s) == IF Len(s) > MaxSendLimit THEN SubSeq(s, Len(s) - MaxSendLimit + 1, Len(s)) ELSE s

Record ==
    /\ sender.at = "record"
    /\ times' = Kept(Append(Recent(sender.now, sender.window), sender.now))
    /\ pruned' = Later(pruned, sender.now - sender.window)
    /\ sender' = Resting
    /\ UNCHANGED <<via, ahead, went, misses>>

\* KV fails, which the answer then says, or the call is killed: the send is not counted.
NotCounted ==
    /\ sender.at = "record" /\ misses < MaxMisses
    /\ went' = IF sender.gone THEN [went EXCEPT ![Len(went)].lost = "trouble"] ELSE went
    /\ sender' = Resting /\ misses' = misses + 1
    /\ UNCHANGED <<via, ahead, times, pruned>>

\* Killed with the request written and no answer.
KilledAsking ==
    /\ sender.at = "ask" /\ misses < MaxMisses
    /\ \E gone \in BOOLEAN :
         went' = IF gone THEN Append(went, Entry("trouble")) ELSE went
    /\ sender' = Resting /\ misses' = misses + 1
    /\ UNCHANGED <<via, ahead, times, pruned>>

SendNext == SendStarts \/ Admit \/ AdmitFails \/ Refused
            \/ Post \/ Record \/ NotCounted \/ KilledAsking

----------------------------------------------------------------------------
\* Of the sends that were counted, no more than the limit went in any window: those of
\* send i's window up to and with i.  A time is no longer counted once a send was
\* recorded whose window began after it, of a shorter window or a clock set back since.
WindowOf(i) == {j \in 1 .. i : j = i \/ (went[j].now > went[i].from /\ went[j].lost = "no")}

WindowHolds == \A i \in DOMAIN went : Cardinality(WindowOf(i)) <= went[i].limit

\* The time a refusal names is the first at which a send is admitted, if none goes and
\* nothing is set in between (SendVerdict.RetryAt).
RetryIsFirst ==
    sender.at = "refused" =>
        \A t \in sender.now .. sender.retryAt :
            (Len(Recent(t, sender.window)) < sender.limit) = (t = sender.retryAt)

\* A send that may have gone counts, whatever its answer said: only a kill, or KV that
\* fails under Record, leaves one out.
SendsCount == \A i \in DOMAIN went : went[i].lost # "passed"

\* All of them: the window is never passed and never longer than it must be, and no
\* adapter leaves a send out for its answer, save the twilio adapter (SendsCount is false
\* of it).
WindowIsExact == WindowHolds /\ RetryIsFirst /\ (via # "twilio" => SendsCount)
=============================================================================

---------------------------- MODULE MCChannels ----------------------------
(***************************************************************************)
(* The channel adapters and the calendar, one small instance of each: a    *)
(* behaviour is one of them, `part`, and the others rest in an initial     *)
(* state of theirs.                                                        *)
(***************************************************************************)
EXTENDS Integers, Sequences, FiniteSets

CONSTANTS Room, Page, MaxMail, MaxRecords, MaxTrouble,
          PollLimit, MaxUpdates, MaxSlips,
          Limits, Windows, Skew, MaxSendLimit, MaxClock, MaxSends, MaxMisses,
          MaxAsks, MaxHitches, MaxWrites, MaxTurns,
          PageSize, Pages, Span, Most, Needs, MaxMishaps

VARIABLES part,
          box, floor, gone, mailKV, call, lastIds, recorded, told, unsaid, start, offered, trouble,
          updates, mute, forgotten, offsetKV, bot, poll, tells, answered, holds, trusted, slips,
          via, ahead, times, sender, went, pruned, misses,
          op, asks, act, replies, drafts, saved, sent, touched, late, hitches,
          events, repeating, write, writes, outcome, known, effects, underway, turns,
          zone, ask, calendar, reading, items, free,
          topic, policy, sub, watching, run, ready, pending, meddled, overwritten, mishaps

\* What the proofs need of the bounds: an answer of history.list is not empty, the code's
\* limits are numbers, calendar writes happen, a send limit that is out of bounds is
\* refused (windowSettings), and so are minutes that are no number (availability).
ASSUME ChannelsAssumption ==
    /\ Room \in Nat /\ Page \in Nat \ {0} /\ MaxMail \in Nat
    /\ PollLimit \in Nat /\ MaxUpdates \in Nat
    /\ MaxWrites \in Nat \ {0}
    /\ MaxSendLimit \in Nat /\ Limits \subseteq 1 .. MaxSendLimit
    /\ Windows \subseteq Nat /\ Skew \in Nat /\ MaxClock \in Nat
    /\ PageSize \in Nat /\ Span \in Nat /\ Needs \subseteq Nat

Mail   == INSTANCE MailSync
Poll   == INSTANCE TelegramPoll
Window == INSTANCE SendWindow
Send   == INSTANCE MailSend
Cal    == INSTANCE CalendarWrite
Avail  == INSTANCE Availability
Setup  == INSTANCE MailSetup

mailVars == <<box, floor, gone, mailKV, call, lastIds, recorded, told, unsaid, start, offered, trouble>>
pollVars == <<updates, mute, forgotten, offsetKV, bot, poll, tells, answered, holds, trusted, slips>>
sendVars == <<via, ahead, times, sender, went, pruned, misses>>
sendMailVars == <<op, asks, act, replies, drafts, saved, sent, touched, late, hitches>>
calVars == <<events, repeating, write, writes, outcome, known, effects, underway, turns>>
freeVars == <<zone, ask, calendar, reading, items, free>>
setupVars == <<topic, policy, sub, watching, run, ready, pending, meddled, overwritten, mishaps>>
vars == <<part, mailVars, pollVars, sendVars, sendMailVars,
          calVars, freeVars, setupVars>>

Init ==
    /\ part \in {"mail", "poll", "window", "send", "calendar", "free", "setup"}
    /\ Mail!MailInit
    /\ Poll!PollInit /\ (part = "poll" \/ (mute = {} /\ tells))
    /\ Window!SendInit /\ (part = "window" \/ via = "gmail")
    /\ Send!MailSendInit /\ (part = "send" \/ op = "send")
    /\ Cal!CalInit /\ (part = "calendar" \/ ~repeating)
    /\ Avail!AvailInit /\ (part = "free" \/ (zone = 0 /\ ask.from = 0 /\ ask.to = 1 /\ ask.need = 1))
    /\ Setup!SetupInit /\ (part = "setup" \/ sub = "none")

NotMail   == UNCHANGED <<part, pollVars, sendVars, sendMailVars, calVars,
                         freeVars, setupVars>>
NotPoll   == UNCHANGED <<part, mailVars, sendVars, sendMailVars, calVars,
                         freeVars, setupVars>>
NotSetup  == UNCHANGED <<part, mailVars, pollVars, sendVars, sendMailVars,
                         calVars, freeVars>>

Next ==
    \/ part = "mail" /\ Mail!MailNext /\ NotMail
    \/ part = "poll" /\ Poll!PollNext /\ NotPoll
    \/ /\ part = "window" /\ Window!SendNext
       /\ UNCHANGED <<part, mailVars, pollVars, sendMailVars, calVars,
                      freeVars, setupVars>>
    \/ /\ part = "send" /\ Send!MailSendNext
       /\ UNCHANGED <<part, mailVars, pollVars, sendVars, calVars,
                      freeVars, setupVars>>
    \/ /\ part = "calendar" /\ Cal!CalNext
       /\ UNCHANGED <<part, mailVars, pollVars, sendVars, sendMailVars,
                      freeVars, setupVars>>
    \/ /\ part = "free" /\ Avail!AvailNext
       /\ UNCHANGED <<part, mailVars, pollVars, sendVars, sendMailVars,
                      calVars, setupVars>>
    \/ part = "setup" /\ Setup!SetupNext /\ NotSetup

\* The host keeps calling the adapters and an operation goes on; setup is asked again.
Steps ==
    \/ part = "mail" /\ Mail!MailStep /\ NotMail
    \/ part = "poll" /\ Poll!PollStep /\ NotPoll
    \/ part = "setup" /\ Setup!SetupStep /\ NotSetup

Fairness == WF_vars(Steps) /\ SF_vars(part = "mail" /\ Mail!Start("sync") /\ NotMail)

FairSpec == Init /\ [][Next]_vars /\ Fairness

\* Bound: a zone that moves its clock is tried on calendars of one event.
OneAtATime == zone = 0 \/ Len(calendar) <= 1

----------------------------------------------------------------------------
\* The inbox of examples/gmail and the updates of examples/telegram implement HandOver:
\* the cursor and the offset pass no message that the host does not hold and nobody was
\* told of, whatever is lost, refused or killed.
InboxesAreHandedOver == Mail!MailHandOver!Spec /\ Poll!PollHandOver!Spec

\* Every message that reached a service comes to be held by the host, or is one of those
\* that are gone, made no arrival or were said to be left out; setup, asked again, gets
\* there unless the subscription's name is taken.  (What happens to a service is bounded,
\* so that this is so again and again.)
Settled ==
    CASE part = "mail" -> Mail!AllMail \subseteq Mail!MailKept \cup Mail!MailExcused
      [] part = "poll" -> 1 .. updates \subseteq holds \cup mute \cup trusted
      [] part = "setup" -> ready \/ sub = "foreign"
      [] OTHER -> TRUE
ChannelsGoOn == []<>Settled

\* The properties of the components' own modules.
WindowIsExact == Window!WindowIsExact
AnswersAreTrue == Send!AnswersAreTrue
ChangesWhatWasRead == Cal!ChangesWhatWasRead
WritesAreTrue == Cal!WritesAreTrue
FreeTimeIsExact == part = "free" => Avail!FreeTimeIsExact
SetupIsClean == Setup!SetupIsClean
===========================================================================

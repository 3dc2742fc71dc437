------------------------------ MODULE MailSend ------------------------------
(***************************************************************************)
(* gmail.send, gmail.draft and the channel's send of examples/gmail: the   *)
(* mail is staged as a draft, the draft is sent, and a send whose outcome  *)
(* is not known is settled by deleting the draft, which Gmail takes away   *)
(* when it sends it.                                                       *)
(*                                                                         *)
(* Gmail is external: a request it may have received takes effect at once, *)
(* later, or never; a person may send or delete a draft meanwhile.  The    *)
(* caller asks for one mail, and asks again only when it was told that     *)
(* nothing was sent (for gmail.draft: saved).                              *)
(***************************************************************************)
EXTENDS Naturals, Sequences, FiniteSets

CONSTANTS MaxAsks,      \* bound: how often the caller asks
          MaxHitches    \* bound: requests that go wrong, people and kills

VARIABLES op,           \* what the caller asks for: "send" or "draft"
          asks,         \* how often it asked; an ask's draft has its number
          act,          \* the call in progress, or NoAct
          replies,         \* what each answer said
          drafts,       \* the drafts Gmail holds
          saved,        \* ghost: the drafts ever saved
          sent,         \* the drafts that were sent as mails by a call
          touched,      \* the drafts a person sent or deleted
          late,         \* requests that may yet take effect
          hitches

sendMailVars == <<op, asks, act, replies, drafts, saved, sent, touched, late, hitches>>

NoAct == [at |-> "none"]

\* How a request ends for the caller (ended, and the status of an answer).
NoEffect == {"refused", "unreached", "s400", "s403", "s429", "s4xx"}
Uncertain == {"wasLost", "unread", "s5xx", "garbled"}
Unsaid == NoEffect \cup Uncertain \cup {"s404"}

MailSendInit ==
    /\ op \in {"send", "draft"}
    /\ asks = 0 /\ act = NoAct /\ replies = <<>>
    /\ drafts = {} /\ saved = {} /\ sent = {} /\ touched = {} /\ late = {}
    /\ hitches = 0

----------------------------------------------------------------------------
\* Gmail.  A request is <<what, draft>>; sending or deleting a draft that is not there
\* does nothing.
Apply(request) ==
    LET d == request[2] IN
    /\ drafts' = IF request[1] = "create" THEN drafts \cup {d} ELSE drafts \ {d}
    /\ saved' = IF request[1] = "create" THEN saved \cup {d} ELSE saved
    /\ sent' = IF request[1] = "send" /\ d \in drafts THEN sent \cup {d} ELSE sent

TakesEffectLate ==
    /\ \E request \in late : Apply(request) /\ late' = late \ {request}
    /\ UNCHANGED <<op, asks, act, replies, touched, hitches>>

Person ==
    /\ hitches < MaxHitches
    /\ \E d \in drafts : drafts' = drafts \ {d} /\ touched' = touched \cup {d}
    /\ hitches' = hitches + 1
    /\ UNCHANGED <<op, asks, act, replies, saved, sent, late>>

Exists(request) == request[1] = "create" \/ request[2] \in drafts

\* A request and its answer: `good` is the step after a 2xx, `bad[e]` after anything else.
Asked(request, good, bad) ==
    \/ /\ Exists(request) /\ Apply(request)
       /\ act' = good
       /\ UNCHANGED <<late, hitches>>
    \/ /\ ~Exists(request)
       /\ act' = bad["s404"]
       /\ UNCHANGED <<drafts, saved, sent, late, hitches>>
    \/ /\ hitches < MaxHitches /\ hitches' = hitches + 1
       /\ \E e \in NoEffect : act' = bad[e]
       /\ UNCHANGED <<drafts, saved, sent, late>>
    \/ /\ hitches < MaxHitches /\ hitches' = hitches + 1
       /\ \E e \in Uncertain : act' = bad[e]
       /\ \/ Apply(request) /\ UNCHANGED late
          \/ late' = late \cup {request} /\ UNCHANGED <<drafts, saved, sent>>
          \/ UNCHANGED <<drafts, saved, sent, late>>

----------------------------------------------------------------------------
\* The operations.
Answer(what) == [at |-> "answer", says |-> what]

AskAgain == \A i \in DOMAIN replies : replies[i] = "nothing"

Asks ==
    /\ act = NoAct /\ asks < MaxAsks /\ asks = Len(replies) /\ AskAgain
    /\ asks' = asks + 1
    /\ act' = [at |-> "prepare"]
    /\ UNCHANGED <<op, replies, drafts, saved, sent, touched, late, hitches>>

\* confirmed, composed, settings, joinThread: whatever stops the call here says that
\* nothing was sent.
Prepare ==
    /\ act.at = "prepare"
    /\ \/ act' = [at |-> "stage"] /\ UNCHANGED hitches
       \/ /\ hitches < MaxHitches /\ hitches' = hitches + 1
          /\ act' = Answer("nothing")
    /\ UNCHANGED <<op, asks, replies, drafts, saved, sent, touched, late>>

\* staged: a draft whose fate is not known cannot send, so a send says nothing was sent
\* and a draft says that it may have been saved.
Staged(e) ==
    IF e \in NoEffect \/ op = "send" THEN Answer("nothing") ELSE Answer("unknown")

Stage ==
    /\ act.at = "stage"
    /\ Asked(<<"create", asks>>, IF op = "draft" THEN Answer("done") ELSE [at |-> "send"],
             [e \in Unsaid |-> Staged(e)])
    /\ UNCHANGED <<op, asks, replies, touched>>

\* Mutant: a server error is taken for a refusal.
AfterSendRefused(e) == IF e \in Uncertain \ {"s5xx"} THEN [at |-> "settle"] ELSE [at |-> "withdraw"]

\* sent: a refusal withdraws the draft, an outcome not known settles it.
AfterSend(e) == IF e \in Uncertain THEN [at |-> "settle"] ELSE [at |-> "withdraw"]

SendDraft ==
    /\ act.at = "send"
    /\ Asked(<<"send", asks>>, [at |-> "readback"], [e \in Unsaid |-> AfterSend(e)])
    /\ UNCHANGED <<op, asks, replies, touched>>

\* withdraw: what becomes of the draft is said, and the answer stays "nothing was sent".
Withdrawn(e) == Answer("nothing")

Withdraw ==
    /\ act.at = "withdraw"
    /\ Asked(<<"delete", asks>>, Answer("nothing"), [e \in Unsaid |-> Withdrawn(e)])
    /\ UNCHANGED <<op, asks, replies, touched>>

\* settle: a draft that could be deleted was not sent and cannot be; one that is gone was.
Settled(e) == IF e = "s404" THEN Answer("done") ELSE Answer("unknown")

Settle ==
    /\ act.at = "settle"
    /\ Asked(<<"delete", asks>>, Answer("nothing"), [e \in Unsaid |-> Settled(e)])
    /\ UNCHANGED <<op, asks, replies, touched>>

\* readBack only reads: its outcome is in the words of the answer.
ReadBack ==
    /\ act.at = "readback"
    /\ act' = Answer("done")
    /\ UNCHANGED <<op, asks, replies, drafts, saved, sent, touched, late, hitches>>

Answered ==
    /\ act.at = "answer"
    /\ replies' = Append(replies, act.says)
    /\ act' = NoAct
    /\ UNCHANGED <<op, asks, drafts, saved, sent, touched, late, hitches>>

\* A call that dies is an outcome the caller does not know; what it wrote stays.
Dies ==
    /\ act # NoAct /\ hitches < MaxHitches
    /\ replies' = Append(replies, "unknown")
    /\ act' = NoAct /\ hitches' = hitches + 1
    /\ UNCHANGED <<op, asks, drafts, saved, sent, touched, late>>

MailSendNext == TakesEffectLate \/ Person \/ Asks \/ Prepare \/ Stage \/ SendDraft \/ Withdraw
                \/ Settle \/ ReadBack \/ Answered \/ Dies

----------------------------------------------------------------------------
\* What an answer says holds from then on, whatever takes effect late: "nothing" was sent
\* (for gmail.draft: saved), or it is "done" unless a person took the draft away.  So a
\* caller that asks again only when told that it may ("asking again is safe", settle) has
\* the mail sent once at most, and the draft saved once at most.
AnswersAreTrue ==
    LET did == IF op = "send" THEN sent ELSE saved IN
    /\ Cardinality(did) <= 1
    /\ \A i \in DOMAIN replies :
         /\ replies[i] = "nothing" => i \notin did
         /\ replies[i] = "done" => i \in did \cup touched
=============================================================================

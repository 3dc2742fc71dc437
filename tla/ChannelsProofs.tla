-------------------------- MODULE ChannelsProofs --------------------------
(***************************************************************************)
(* Proofs about the channel adapters and the calendar of MCChannels: the   *)
(* setup and the sends of gmail, the calendar's writes and free times, the *)
(* send window, and the two inboxes.  Each has an inductive invariant of   *)
(* its own, which holds in the other parts too since they leave its        *)
(* variables alone.                                                        *)
(***************************************************************************)
EXTENDS MCChannels, FiniteSetTheorems, SequenceTheorems, TLAPS

----------------------------------------------------------------------------
(* gmail.setup.                                                            *)

Requests == {"topic", "grant", "subscribe", "point", "watch"}

\* A grant that is written or under way carries the etag of the policy it was
\* made from: as long as that etag is the policy's, it adds Gmail and no more.
GrantIsOfPolicy(q) ==
    q.what = "grant" => /\ q.etag \in Nat /\ q.etag >= 1 /\ q.etag <= policy.etag
                        /\ q.etag = policy.etag => q.members = policy.members \cup {Setup!Gmail}

\* What a setup that got this far has made or found, if nobody meddled.
SetupSoFar ==
    ~meddled =>
      /\ run.at \in {"policy", "grant", "subscribe", "found", "point", "watch", "ready"} => topic
      /\ run.at \in {"subscribe", "found", "point", "watch", "ready"} => Setup!Granted
      /\ run.at = "point" => sub \in {"old", "ours"}
      /\ run.at \in {"watch", "ready"} => sub = "ours"
      /\ run.at = "ready" => watching
      /\ ready => topic /\ Setup!Granted /\ sub = "ours" /\ watching

SetupInv ==
    /\ policy.etag \in Nat /\ policy.etag >= 1
    /\ \A q \in pending : q.what \in Requests /\ GrantIsOfPolicy(q)
    /\ run.at = "grant" => run.q.what = "grant" /\ GrantIsOfPolicy(run.q)
    /\ ready => run = Setup!NoRun
    /\ ~overwritten
    /\ SetupSoFar

LEMMA SetupStart == Setup!SetupInit => SetupInv
<1> SUFFICES ASSUME Setup!SetupInit PROVE SetupInv
  OBVIOUS
<1> USE DEF Setup!SetupInit, Setup!NoRun
<1>1. run.at = "none" /\ policy.etag = 1 /\ pending = {} /\ ~ready /\ ~overwritten
  OBVIOUS
<1>2. SetupSoFar
  BY <1>1 DEF SetupSoFar
<1>3. \A q \in pending : q.what \in Requests /\ GrantIsOfPolicy(q)
  BY <1>1
<1> QED
  BY <1>1, <1>2, <1>3 DEF SetupInv

\* What a request does not undo, taken at once, late or never.
Onward ==
    /\ policy'.etag \in Nat /\ ~overwritten'
    /\ policy' = policy \/ policy'.etag > policy.etag
    /\ topic => topic'
    /\ watching => watching'
    /\ Setup!Granted => Setup!Granted'
    /\ sub = "ours" => sub' = "ours"
    /\ sub = "old" => sub' \in {"old", "ours"}

\* The policy a request finds is the one it was made from, or it is refused.
LEMMA SetupTakes ==
    ASSUME SetupInv, NEW q, q.what \in Requests, GrantIsOfPolicy(q),
           IF Setup!Taken(q) THEN Setup!Takes(q) ELSE Setup!Leaves
    PROVE  Onward
<1> USE DEF Onward
<1> USE DEF Requests, SetupInv, Setup!Taken, Setup!Takes, Setup!Leaves, Setup!Granted
<1>1. CASE ~Setup!Taken(q)
  <2>1. UNCHANGED <<topic, policy, overwritten, sub, watching>>
    BY <1>1
  <2> QED
    BY <2>1
<1>2. CASE Setup!Taken(q) /\ q.what = "grant"
  <2>1. q.etag = policy.etag /\ q.members = policy.members \cup {Setup!Gmail}
    BY <1>2 DEF GrantIsOfPolicy
  <2>2. /\ policy' = [etag |-> policy.etag + 1, members |-> q.members]
        /\ ~overwritten' /\ sub' = sub /\ (topic => topic') /\ (watching => watching')
    BY <1>2, <2>1
  <2> QED
    BY <2>1, <2>2
<1>3. CASE Setup!Taken(q) /\ q.what # "grant"
  <2>1. /\ policy' = policy /\ ~overwritten'
        /\ (topic => topic') /\ (watching => watching')
        /\ sub' = sub \/ sub' = "ours"
    BY <1>3
  <2>2. sub = "ours" => sub' = "ours"
    BY <2>1
  <2> QED
    BY <2>1, <2>2
<1> QED
  BY <1>1, <1>2, <1>3

\* The grants that are under way stay what they are.
LEMMA GrantsKeep ==
    ASSUME SetupInv, Onward, NEW q, GrantIsOfPolicy(q)
    PROVE  GrantIsOfPolicy(q)'
  BY DEF SetupInv, Onward, GrantIsOfPolicy

\* A request of setup: it was taken, it was answered otherwise, or setup ends.
LEMMA SetupAsks ==
    ASSUME SetupInv, NEW q, q.what \in Requests, GrantIsOfPolicy(q), NEW good, NEW other,
           Setup!Calls(q, good, other)
    PROVE  /\ Onward
           /\ \A p \in pending' : p.what \in Requests /\ GrantIsOfPolicy(p)'
           /\ \/ run' = good /\ Setup!Taken(q) /\ Setup!Takes(q)
              \/ run' = other /\ ~Setup!Taken(q) /\ Setup!Leaves
              \/ run' = Setup!NoRun
<1>1. CASE /\ Setup!Taken(q) /\ Setup!Takes(q) /\ run' = good /\ UNCHANGED pending
  <2>1. Onward
    BY <1>1, SetupTakes
  <2> QED
    BY <1>1, <2>1, GrantsKeep DEF SetupInv
<1>2. CASE ~Setup!Taken(q) /\ Setup!Leaves /\ run' = other /\ UNCHANGED pending
  <2>1. Onward
    BY <1>2, SetupTakes
  <2> QED
    BY <1>2, <2>1, GrantsKeep DEF SetupInv
<1>3. CASE /\ run' = Setup!NoRun
           /\ \/ Setup!Taken(q) /\ Setup!Takes(q) /\ UNCHANGED pending
              \/ Setup!Leaves /\ pending' \in {pending, pending \cup {q}}
  <2>1. Onward
    <3>1. CASE Setup!Taken(q) /\ Setup!Takes(q)
      BY <3>1, SetupTakes
    <3>2. CASE Setup!Leaves
      BY <3>2 DEF Setup!Leaves, Onward, SetupInv, Setup!Granted
    <3> QED
      BY <1>3, <3>1, <3>2
  <2>2. pending' \subseteq pending \cup {q}
    BY <1>3
  <2> QED
    BY <1>3, <2>1, <2>2, GrantsKeep DEF SetupInv
<1> QED
  BY <1>1, <1>2, <1>3 DEF Setup!Calls

LEMMA SetupStays ==
    SetupInv /\ [Setup!SetupNext]_setupVars => SetupInv'
<1> SUFFICES ASSUME SetupInv, [Setup!SetupNext]_setupVars PROVE SetupInv'
  OBVIOUS
<1>e. policy.etag \in Nat /\ policy.etag >= 1
  BY DEF SetupInv
\* What a step of setup that asks leaves to show: what it may count on next.
<1>s. ASSUME NEW q, NEW good, NEW other, q.what \in Requests, GrantIsOfPolicy(q),
             Setup!Calls(q, good, other), run.at # "none", UNCHANGED <<ready, meddled>>,
             good.at # "grant", other.at # "grant",
             Onward /\ run' = good /\ Setup!Taken(q) /\ Setup!Takes(q) => SetupSoFar',
             Onward /\ run' = other /\ ~Setup!Taken(q) /\ Setup!Leaves => SetupSoFar'
      PROVE  SetupInv'
  <2>1. /\ Onward
        /\ \A p \in pending' : p.what \in Requests /\ GrantIsOfPolicy(p)'
        /\ \/ run' = good /\ Setup!Taken(q) /\ Setup!Takes(q)
           \/ run' = other /\ ~Setup!Taken(q) /\ Setup!Leaves
           \/ run' = Setup!NoRun
    BY <1>s, SetupAsks
  <2>2. ~ready /\ ~ready'
    BY <1>s DEF SetupInv, Setup!NoRun
  <2>3. SetupSoFar'
    <3>1. CASE run' = Setup!NoRun
      BY <3>1, <2>2 DEF SetupSoFar, Setup!NoRun
    <3>2. CASE run' = good /\ Setup!Taken(q) /\ Setup!Takes(q)
      BY <3>2, <2>1, <1>s
    <3>3. CASE run' = other /\ ~Setup!Taken(q) /\ Setup!Leaves
      BY <3>3, <2>1, <1>s
    <3> QED
      BY <3>1, <3>2, <3>3, <2>1
  <2>4. policy'.etag \in Nat /\ policy'.etag >= 1 /\ ~overwritten'
    BY <2>1, <1>e DEF Onward
  <2>5. run'.at # "grant"
    BY <2>1, <1>s DEF Setup!NoRun
  <2> QED
    BY <2>1, <2>2, <2>3, <2>4, <2>5 DEF SetupInv
<1>p. SetupSoFar
  BY DEF SetupInv
<1> DEFINE Ask(w) == [what |-> w]
<1>a. \A w \in Requests \ {"grant"} : Ask(w).what \in Requests /\ GrantIsOfPolicy(Ask(w))
  BY DEF GrantIsOfPolicy
<1>1. CASE Setup!SetupAsked
  BY <1>1 DEF Setup!SetupAsked, SetupInv, SetupSoFar, GrantIsOfPolicy
<1>2. CASE Setup!MakeTopic
  <2> DEFINE q == Ask("topic")
  <2>1. /\ run.at = "topic" /\ Setup!Calls(q, [at |-> "policy"], [at |-> "policy"])
        /\ UNCHANGED <<ready, meddled>>
    BY <1>2 DEF Setup!MakeTopic
  <2>2. ~ready
    BY <2>1 DEF SetupInv, Setup!NoRun
  <2>3. Setup!Takes(q) => topic'
    BY DEF Setup!Takes
  <2>4. ~Setup!Taken(q) /\ Setup!Leaves => topic'
    BY DEF Setup!Taken, Setup!Leaves
  <2>5. run' = [at |-> "policy"] /\ topic' => SetupSoFar'
    BY <2>1, <2>2 DEF SetupSoFar
  <2>6. q.what \in Requests /\ GrantIsOfPolicy(q)
    BY <1>a DEF Requests
  <2> HIDE DEF q
  <2> QED
    BY <2>1, <2>3, <2>4, <2>5, <2>6, <1>s
<1>3. CASE Setup!ReadPolicy
  BY <1>3, <1>e DEF Setup!ReadPolicy, Setup!ETag, Setup!NoRun, SetupInv, SetupSoFar, GrantIsOfPolicy, Setup!Granted
<1>4. CASE Setup!WritePolicy
  <2> DEFINE q == run.q
  <2>1. /\ run.at = "grant" /\ Setup!Calls(q, [at |-> "subscribe"], Setup!NoRun)
        /\ UNCHANGED <<ready, meddled>>
    BY <1>4 DEF Setup!WritePolicy
  <2>2. ~ready
    BY <2>1 DEF SetupInv, Setup!NoRun
  <2>3. q.what = "grant" /\ GrantIsOfPolicy(q)
    BY <2>1 DEF SetupInv
  <2>4. Setup!Taken(q) /\ Setup!Takes(q) => Setup!Granted'
    BY <2>3, <1>e DEF Setup!Taken, Setup!Takes, Setup!Granted, GrantIsOfPolicy
  <2>5. Setup!Taken(q) => topic
    BY <2>3 DEF Setup!Taken
  <2>6. Onward /\ run' = [at |-> "subscribe"] /\ Setup!Taken(q) /\ Setup!Takes(q) => SetupSoFar'
    BY <2>1, <2>2, <2>4, <2>5 DEF SetupSoFar, Onward
  <2>7. run' = Setup!NoRun => SetupSoFar'
    BY <2>1, <2>2 DEF SetupSoFar, Setup!NoRun
  <2>8. q.what \in Requests /\ Setup!NoRun.at # "grant"
    BY <2>3 DEF Requests, Setup!NoRun
  <2> HIDE DEF q
  <2> QED
    BY <2>1, <2>3, <2>6, <2>7, <2>8, <1>s
<1>5. CASE Setup!Subscribe
  <2> DEFINE q == Ask("subscribe")
  <2>1. /\ run.at = "subscribe" /\ Setup!Calls(q, [at |-> "watch"], [at |-> "found"])
        /\ UNCHANGED <<ready, meddled>>
    BY <1>5 DEF Setup!Subscribe
  <2>2. ~ready
    BY <2>1 DEF SetupInv, Setup!NoRun
  <2>3. ~meddled => topic /\ Setup!Granted
    BY <2>1, <1>p DEF SetupSoFar
  <2>4. Setup!Takes(q) => sub' = "ours"
    BY DEF Setup!Takes
  <2>5. Onward /\ run' = [at |-> "watch"] /\ Setup!Takes(q) => SetupSoFar'
    BY <2>1, <2>2, <2>3, <2>4 DEF SetupSoFar, Onward
  <2>6. Onward /\ run' = [at |-> "found"] => SetupSoFar'
    BY <2>1, <2>2, <2>3 DEF SetupSoFar, Onward
  <2>7. q.what \in Requests /\ GrantIsOfPolicy(q)
    BY <1>a DEF Requests
  <2> HIDE DEF q
  <2> QED
    BY <2>1, <2>5, <2>6, <2>7, <1>s
<1>6. CASE Setup!Found
  <2>1. /\ run.at = "found" /\ UNCHANGED <<topic, policy, sub, watching, ready, pending, meddled, overwritten>>
        /\ \/ sub = "ours" /\ run' = [at |-> "watch"]
           \/ sub = "old" /\ run' = [at |-> "point"]
           \/ run' = Setup!NoRun
    BY <1>6 DEF Setup!Found
  <2>2. ~ready
    BY <2>1 DEF SetupInv, Setup!NoRun
  <2>3. SetupSoFar'
    BY <2>1, <2>2, <1>p DEF SetupSoFar, Setup!NoRun, Setup!Granted
  <2> QED
    BY <2>1, <2>2, <2>3 DEF SetupInv, GrantIsOfPolicy, Setup!NoRun
<1>7. CASE Setup!Point
  <2> DEFINE q == Ask("point")
  <2>1. /\ run.at = "point" /\ Setup!Calls(q, [at |-> "watch"], Setup!NoRun)
        /\ UNCHANGED <<ready, meddled>>
    BY <1>7 DEF Setup!Point
  <2>2. ~ready
    BY <2>1 DEF SetupInv, Setup!NoRun
  <2>3. ~meddled => topic /\ Setup!Granted /\ sub \in {"old", "ours"}
    BY <2>1, <1>p DEF SetupSoFar
  <2>4. ~meddled /\ Setup!Takes(q) => sub' = "ours"
    BY <2>3 DEF Setup!Takes
  <2>5. Onward /\ run' = [at |-> "watch"] /\ Setup!Takes(q) => SetupSoFar'
    BY <2>1, <2>2, <2>3, <2>4 DEF SetupSoFar, Onward
  <2>6. run' = Setup!NoRun => SetupSoFar'
    BY <2>1, <2>2 DEF SetupSoFar, Setup!NoRun
  <2>7. q.what \in Requests /\ GrantIsOfPolicy(q) /\ Setup!NoRun.at # "grant"
    BY <1>a DEF Requests, Setup!NoRun
  <2> HIDE DEF q
  <2> QED
    BY <2>1, <2>5, <2>6, <2>7, <1>s
<1>8. CASE Setup!StartWatch
  <2> DEFINE q == Ask("watch")
  <2>1. /\ run.at = "watch" /\ Setup!Calls(q, [at |-> "ready"], Setup!NoRun)
        /\ UNCHANGED <<ready, meddled>>
    BY <1>8 DEF Setup!StartWatch
  <2>2. ~ready
    BY <2>1 DEF SetupInv, Setup!NoRun
  <2>3. ~meddled => topic /\ Setup!Granted /\ sub = "ours"
    BY <2>1, <1>p DEF SetupSoFar
  <2>4. Setup!Takes(q) => watching'
    BY DEF Setup!Takes
  <2>5. Onward /\ run' = [at |-> "ready"] /\ Setup!Takes(q) => SetupSoFar'
    BY <2>1, <2>2, <2>3, <2>4 DEF SetupSoFar, Onward
  <2>6. run' = Setup!NoRun => SetupSoFar'
    BY <2>1, <2>2 DEF SetupSoFar, Setup!NoRun
  <2>7. q.what \in Requests /\ GrantIsOfPolicy(q) /\ Setup!NoRun.at # "grant"
    BY <1>a DEF Requests, Setup!NoRun
  <2> HIDE DEF q
  <2> QED
    BY <2>1, <2>5, <2>6, <2>7, <1>s
<1>9. CASE Setup!SetUp
  BY <1>9 DEF Setup!SetUp, SetupInv, SetupSoFar, GrantIsOfPolicy, Setup!Granted, Setup!NoRun
<1>10. CASE Setup!TakenLate
  <2>1. PICK q \in pending : /\ IF Setup!Taken(q) THEN Setup!Takes(q) ELSE Setup!Leaves
                             /\ pending' = pending \ {q}
    BY <1>10 DEF Setup!TakenLate
  <2>2. UNCHANGED <<run, ready, meddled>>
    BY <1>10 DEF Setup!TakenLate
  <2>3. Onward
    BY <2>1, SetupTakes DEF SetupInv
  <2>4. SetupSoFar'
    BY <2>2, <2>3, <1>p DEF SetupSoFar, Onward
  <2>5. \A p \in pending' : p.what \in Requests /\ GrantIsOfPolicy(p)'
    BY <2>1, <2>3, GrantsKeep DEF SetupInv
  <2>6. ASSUME NEW p, GrantIsOfPolicy(p) PROVE GrantIsOfPolicy(p)'
    BY <2>3, <2>6, GrantsKeep
  <2>7. run'.at = "grant" => run'.q.what = "grant" /\ GrantIsOfPolicy(run.q)'
    BY <2>2, <2>6 DEF SetupInv
  <2>8. policy'.etag \in Nat /\ policy'.etag >= 1 /\ ~overwritten'
    BY <2>3, <1>e DEF Onward
  <2>9. ready' => run' = Setup!NoRun
    BY <2>2 DEF SetupInv
  <2> QED
    BY <2>2, <2>4, <2>5, <2>7, <2>8, <2>9 DEF SetupInv, GrantIsOfPolicy
<1>11. CASE Setup!Others
  <2>1. /\ policy' = policy \/ policy'.etag = policy.etag + 1
        /\ meddled' /\ UNCHANGED <<run, ready, pending, overwritten>>
    BY <1>11 DEF Setup!Others
  <2>2. ASSUME NEW q, GrantIsOfPolicy(q) PROVE GrantIsOfPolicy(q)'
    BY <2>1, <2>2, <1>e DEF GrantIsOfPolicy
  <2>3. run'.at = "grant" => run'.q.what = "grant" /\ GrantIsOfPolicy(run.q)'
    BY <2>1, <2>2 DEF SetupInv
  <2>4. \A p \in pending' : p.what \in Requests /\ GrantIsOfPolicy(p)'
    BY <2>1, <2>2 DEF SetupInv
  <2>5. SetupSoFar'
    BY <2>1 DEF SetupSoFar
  <2>6. policy'.etag \in Nat /\ policy'.etag >= 1 /\ ~overwritten' /\ (ready' => run' = Setup!NoRun)
    BY <2>1, <1>e DEF SetupInv
  <2> QED
    BY <2>1, <2>3, <2>4, <2>5, <2>6 DEF SetupInv, GrantIsOfPolicy
<1>12. CASE UNCHANGED setupVars
  BY <1>12 DEF setupVars, SetupInv, SetupSoFar, GrantIsOfPolicy, Setup!Granted
<1> QED
  BY <1>1, <1>2, <1>3, <1>4, <1>5, <1>6, <1>7, <1>8, <1>9, <1>10, <1>11, <1>12
  DEF Setup!SetupNext, Setup!SetupStep

\* A step of the adapters is a step of setup, or setup rests.
LEMMA SetupSteps == [Next]_vars => [Setup!SetupNext]_setupVars
  BY DEF Next, vars, NotMail, NotPoll, setupVars

\* Whatever requests are lost, taken late or refused, and whatever other admins change,
\* no write of the policy undoes another's change, and a setup that answers "ready" has
\* made or found all it says (writePolicy, setup).
THEOREM SetupClean == FairSpec => []SetupIsClean
<1>1. Init => SetupInv
  BY SetupStart DEF Init
<1>2. SetupInv /\ [Next]_vars => SetupInv'
  BY SetupStays, SetupSteps
<1>3. SetupInv => SetupIsClean
  BY DEF SetupInv, SetupSoFar, SetupIsClean, Setup!SetupIsClean
<1> QED
  BY <1>1, <1>2, <1>3, PTL DEF FairSpec

----------------------------------------------------------------------------
(* gmail.send and gmail.draft.                                             *)

\* Requests that may yet take effect: each is about a draft of some ask, and a draft
\* that may yet be saved was not.
MailKnown ==
    /\ op \in {"send", "draft"} /\ asks \in Nat
    /\ late \subseteq {"create", "send", "delete"} \X (1 .. asks)
    /\ drafts \cup sent \cup touched \subseteq saved /\ saved \subseteq 1 .. asks
    /\ drafts \cap sent = {}
    /\ \A d \in saved : <<"create", d>> \notin late

\* Draft d is not sent (for gmail.draft: saved), and nothing that is late can do it.
NeverDone(d) ==
    IF op = "send"
    THEN d \notin sent /\ (<<"send", d>> \in late => d \notin drafts /\ <<"create", d>> \notin late)
    ELSE d \notin saved /\ <<"create", d>> \notin late

Did(d) == d \in touched \cup (IF op = "send" THEN sent ELSE saved)

Holds(d, says) == (says = "nothing" => NeverDone(d)) /\ (says = "done" => Did(d))

Says == {"nothing", "done", "unknown"}

NothingLate(d) == \A what \in {"create", "send", "delete"} : <<what, d>> \notin late

\* Where the call in progress is, and what became of its draft so far.
CallInStep ==
    \/ act = Send!NoAct
    \/ act.at \in {"prepare", "stage"} /\ asks \notin saved /\ NothingLate(asks)
    \/ act.at = "send" /\ op = "send" /\ asks \in drafts \cup touched /\ asks \notin sent /\ NothingLate(asks)
    \/ act.at = "readback" /\ op = "send" /\ asks \in sent
    \/ act.at = "withdraw" /\ op = "send" /\ asks \in saved \ sent /\ NothingLate(asks)
    \/ /\ act.at = "settle" /\ op = "send" /\ asks \in drafts \cup sent \cup touched
       /\ asks \in saved /\ <<"delete", asks>> \notin late
    \/ act.at = "answer" /\ act.says \in Says /\ Holds(asks, act.says)

\* Every ask was answered but the one in progress; the caller asks again only when told
\* that nothing was done.
AsksInOrder ==
    /\ replies \in Seq(Says)
    /\ asks = Len(replies) + (IF act = Send!NoAct THEN 0 ELSE 1)
    /\ \A i \in DOMAIN replies : Holds(i, replies[i])
    /\ \A i \in 1 .. asks - 1 : replies[i] = "nothing"

SendInv == MailKnown /\ CallInStep /\ AsksInOrder

LEMMA SendStarts == Send!MailSendInit => SendInv
<1> SUFFICES ASSUME Send!MailSendInit PROVE SendInv
  OBVIOUS
<1>1. MailKnown /\ CallInStep
  BY DEF Send!MailSendInit, MailKnown, CallInStep
<1>2. AsksInOrder
  BY DEF Send!MailSendInit, AsksInOrder
<1> QED
  BY <1>1, <1>2 DEF SendInv

\* A request takes effect, is late, or is lost: what was answered goes on to hold.
LEMMA MailMoves ==
    ASSUME MailKnown, NEW what \in {"create", "send", "delete"}, NEW e \in 1 .. asks,
           what = "create" => e \notin saved,
           UNCHANGED <<op, asks, touched>>,
           \/ Send!Apply(<<what, e>>) /\ late' = late \ {<<what, e>>}
           \/ late' \in {late, late \cup {<<what, e>>}} /\ UNCHANGED <<drafts, saved, sent>>
    PROVE  /\ MailKnown'
           /\ \A d : (d # e \/ <<what, e>> \in late \/ what = "delete") /\ NeverDone(d) => NeverDone(d)'
           /\ \A d : Did(d) => Did(d)'
<1> DEFINE r == <<what, e>>
<1>0. r[1] = what /\ r[2] = e
  OBVIOUS
<1>1. CASE Send!Apply(r) /\ late' = late \ {r}
  <2>1. /\ drafts' = IF what = "create" THEN drafts \cup {e} ELSE drafts \ {e}
        /\ saved' = IF what = "create" THEN saved \cup {e} ELSE saved
        /\ sent' = IF what = "send" /\ e \in drafts THEN sent \cup {e} ELSE sent
    BY <1>1 DEF Send!Apply
  <2>2. MailKnown'
    BY <1>1, <2>1 DEF MailKnown
  <2>3. ASSUME NEW d, d # e \/ r \in late \/ what = "delete", NeverDone(d) PROVE NeverDone(d)'
    BY <1>1, <2>1, <2>3 DEF MailKnown, NeverDone
  <2>4. ASSUME NEW d, Did(d) PROVE Did(d)'
    BY <2>1, <2>4 DEF Did
  <2> QED
    BY <2>2, <2>3, <2>4
<1>2. CASE late' \in {late, late \cup {r}} /\ UNCHANGED <<drafts, saved, sent>>
  <2>1. MailKnown'
    BY <1>2 DEF MailKnown
  <2>2. ASSUME NEW d, d # e \/ r \in late \/ what = "delete", NeverDone(d) PROVE NeverDone(d)'
    BY <1>2, <2>2 DEF NeverDone
  <2>3. ASSUME NEW d, Did(d) PROVE Did(d)'
    BY <1>2, <2>3 DEF Did
  <2> QED
    BY <2>1, <2>2, <2>3
<1> QED
  BY <1>1, <1>2

\* A step of the call in progress that asks Gmail about its own draft.
LEMMA MailAsks ==
    ASSUME SendInv, NEW what \in {"create", "send", "delete"}, NEW good, NEW bad,
           act # Send!NoAct, act'.at # "none", UNCHANGED <<op, asks, replies, touched>>,
           what = "create" => asks \notin saved, <<what, asks>> \notin late,
           Send!Asked(<<what, asks>>, good, bad)
    PROVE  MailKnown' /\ AsksInOrder'
<1> DEFINE r == <<what, asks>>
<1>1. asks \in 1 .. asks /\ asks = Len(replies) + 1
  BY DEF SendInv, AsksInOrder, MailKnown
<1>2. \/ Send!Apply(r) /\ late' = late \ {r}
      \/ late' \in {late, late \cup {r}} /\ UNCHANGED <<drafts, saved, sent>>
  BY DEF Send!Asked
<1>3. /\ MailKnown'
      /\ \A d : d # asks /\ NeverDone(d) => NeverDone(d)'
      /\ \A d : Did(d) => Did(d)'
  BY <1>1, <1>2, MailMoves DEF SendInv
<1>4. ASSUME NEW d, d # asks, NEW says, Holds(d, says) PROVE Holds(d, says)'
  BY <1>3, <1>4 DEF Holds
<1>5. \A i \in DOMAIN replies : i # asks /\ Holds(i, replies[i])
  BY <1>1 DEF SendInv, AsksInOrder
<1>6. \A i \in DOMAIN replies : Holds(i, replies[i])'
  BY <1>4, <1>5
<1>7. act' # Send!NoAct
  BY DEF Send!NoAct
<1> QED
  BY <1>1, <1>3, <1>6, <1>7 DEF SendInv, AsksInOrder

\* What a request of the call leaves Gmail and the call with.
LEMMA MailAnswered ==
    ASSUME NEW what \in {"create", "send", "delete"}, NEW good, NEW bad,
           Send!Asked(<<what, asks>>, good, bad)
    PROVE  \/ /\ what = "create" \/ asks \in drafts
              /\ Send!Apply(<<what, asks>>) /\ act' = good /\ late' = late
           \/ /\ what # "create" /\ asks \notin drafts /\ act' = bad["s404"]
              /\ UNCHANGED <<drafts, saved, sent, late>>
           \/ /\ \E e \in Send!NoEffect : act' = bad[e]
              /\ UNCHANGED <<drafts, saved, sent, late>>
           \/ \E e \in Send!Uncertain : act' = bad[e]
<1> DEFINE r == <<what, asks>>
<1>1. r[1] = what /\ r[2] = asks
  OBVIOUS
<1> QED
  BY <1>1 DEF Send!Asked, Send!Exists

LEMMA SendStays ==
    SendInv /\ [Send!MailSendNext]_sendMailVars => SendInv'
<1> SUFFICES ASSUME SendInv, [Send!MailSendNext]_sendMailVars PROVE SendInv'
  OBVIOUS
<1>a. MailKnown /\ CallInStep /\ AsksInOrder
  BY DEF SendInv
<1>0. Send!NoAct.at = "none"
  BY DEF Send!NoAct
\* Every end of a request that the code tells apart is one of Unsaid.
<1>u. Send!NoEffect \subseteq Send!Unsaid /\ Send!Uncertain \subseteq Send!Unsaid /\ "s404" \in Send!Unsaid
  BY DEF Send!Unsaid
<1>t. "s404" \notin Send!NoEffect /\ "s404" \notin Send!Uncertain /\ Send!NoEffect \cap Send!Uncertain = {}
  BY DEF Send!NoEffect, Send!Uncertain
<1>1. CASE Send!TakesEffectLate
  <2>1. PICK r \in late : Send!Apply(r) /\ late' = late \ {r}
    BY <1>1 DEF Send!TakesEffectLate
  <2>2. PICK what \in {"create", "send", "delete"}, e \in 1 .. asks : r = <<what, e>>
    BY <2>1, <1>a DEF MailKnown
  <2>3. UNCHANGED <<op, asks, act, replies, touched>>
    BY <1>1 DEF Send!TakesEffectLate
  <2>4. /\ MailKnown'
        /\ \A d : NeverDone(d) => NeverDone(d)'
        /\ \A d : Did(d) => Did(d)'
    BY <2>1, <2>2, <2>3, <1>a, MailMoves DEF MailKnown
  <2>5. ASSUME NEW d, NEW says, Holds(d, says) PROVE Holds(d, says)'
    BY <2>4, <2>5 DEF Holds
  <2>6. AsksInOrder'
    BY <2>3, <2>5, <1>a DEF AsksInOrder
  <2>7. /\ drafts' = IF what = "create" THEN drafts \cup {e} ELSE drafts \ {e}
        /\ saved' = IF what = "create" THEN saved \cup {e} ELSE saved
        /\ sent' = IF what = "send" /\ e \in drafts THEN sent \cup {e} ELSE sent
    BY <2>1, <2>2 DEF Send!Apply
  <2>8. ASSUME NothingLate(asks) PROVE e # asks /\ NothingLate(asks)'
    BY <2>1, <2>2, <2>3, <2>8 DEF NothingLate
  <2>9. CallInStep'
    <3>1. CASE act.at \in {"prepare", "stage"} /\ asks \notin saved /\ NothingLate(asks)
      BY <3>1, <2>3, <2>7, <2>8 DEF CallInStep
    <3>2. CASE act.at = "send" /\ op = "send" /\ asks \in drafts \cup touched /\ asks \notin sent /\ NothingLate(asks)
      BY <3>2, <2>3, <2>7, <2>8 DEF CallInStep
    <3>3. CASE act.at = "readback" /\ op = "send" /\ asks \in sent
      BY <3>3, <2>3, <2>7 DEF CallInStep
    <3>4. CASE act.at = "withdraw" /\ op = "send" /\ asks \in saved \ sent /\ NothingLate(asks)
      BY <3>4, <2>3, <2>7, <2>8 DEF CallInStep
    <3>5. CASE /\ act.at = "settle" /\ op = "send" /\ asks \in drafts \cup sent \cup touched
               /\ asks \in saved /\ <<"delete", asks>> \notin late
      <4>1. e = asks => what # "delete"
        BY <3>5, <2>1, <2>2
      <4>2. e = asks => what # "create"
        BY <3>5, <2>1, <2>2, <1>a DEF MailKnown
      <4> QED
        BY <3>5, <4>1, <4>2, <2>1, <2>3, <2>7 DEF CallInStep
    <3>6. CASE act.at = "answer" /\ act.says \in Says /\ Holds(asks, act.says)
      BY <3>6, <2>3, <2>5 DEF CallInStep
    <3>7. CASE act = Send!NoAct
      BY <3>7, <2>3 DEF CallInStep
    <3> QED
      BY <3>1, <3>2, <3>3, <3>4, <3>5, <3>6, <3>7, <1>a DEF CallInStep
  <2> QED
    BY <2>4, <2>6, <2>9 DEF SendInv
<1>2. CASE Send!Person
  <2>1. PICK d \in drafts : drafts' = drafts \ {d} /\ touched' = touched \cup {d}
    BY <1>2 DEF Send!Person
  <2>2. UNCHANGED <<op, asks, act, replies, saved, sent, late>>
    BY <1>2 DEF Send!Person
  <2>3. MailKnown'
    BY <2>1, <2>2, <1>a DEF MailKnown
  <2>4. ASSUME NEW e, NEW says, Holds(e, says) PROVE Holds(e, says)'
    BY <2>1, <2>2, <2>4 DEF Holds, NeverDone, Did
  <2>5. AsksInOrder'
    BY <2>2, <2>4, <1>a DEF AsksInOrder
  <2>6. CallInStep'
    BY <2>1, <2>2, <2>4, <1>a DEF CallInStep, NothingLate
  <2> QED
    BY <2>3, <2>5, <2>6 DEF SendInv
<1>3. CASE Send!Asks
  <2>1. /\ act = Send!NoAct /\ asks = Len(replies) /\ \A i \in DOMAIN replies : replies[i] = "nothing"
        /\ asks' = asks + 1 /\ act' = [at |-> "prepare"]
        /\ UNCHANGED <<op, replies, drafts, saved, sent, touched, late>>
    BY <1>3 DEF Send!Asks, Send!AskAgain
  <2>2. MailKnown'
    BY <2>1, <1>a DEF MailKnown
  <2>3. asks + 1 \notin saved /\ NothingLate(asks + 1)
    BY <1>a DEF MailKnown, NothingLate
  <2>4. CallInStep'
    BY <2>1, <2>3 DEF CallInStep, NothingLate
  <2>5. \A i \in DOMAIN replies : Holds(i, replies[i])'
    BY <2>1, <1>a DEF AsksInOrder, Holds, NeverDone, Did
  <2>6. act' # Send!NoAct /\ DOMAIN replies = 1 .. Len(replies)
    BY <2>1, <1>0, <1>a DEF AsksInOrder
  <2>7. AsksInOrder'
    BY <2>1, <2>5, <2>6, <1>a DEF AsksInOrder, MailKnown
  <2> QED
    BY <2>2, <2>4, <2>7 DEF SendInv
\* A step of the call that changes nothing but the call.
<1>g. ASSUME act.at # "none", act'.at # "none", CallInStep',
             UNCHANGED <<op, asks, replies, drafts, saved, sent, touched, late>>
      PROVE  SendInv'
  <2>1. MailKnown'
    BY <1>g, <1>a DEF MailKnown
  <2>2. ASSUME NEW d, NEW says, Holds(d, says) PROVE Holds(d, says)'
    BY <1>g, <2>2 DEF Holds, NeverDone, Did
  <2>3. AsksInOrder'
    BY <1>g, <2>2, <1>0, <1>a DEF AsksInOrder
  <2> QED
    BY <1>g, <2>1, <2>3 DEF SendInv
<1>n. ASSUME asks \notin saved /\ NothingLate(asks) PROVE NeverDone(asks)
  BY <1>n, <1>a DEF NeverDone, NothingLate, MailKnown
<1>4. CASE Send!Prepare
  <2>1. /\ act.at = "prepare"
        /\ act' = [at |-> "stage"] \/ act' = [at |-> "answer", says |-> "nothing"]
        /\ UNCHANGED <<op, asks, replies, drafts, saved, sent, touched, late>>
    BY <1>4 DEF Send!Prepare, Send!Answer
  <2>2. asks \notin saved /\ NothingLate(asks)
    BY <2>1, <1>0, <1>a DEF CallInStep
  <2>3. NeverDone(asks)'
    BY <2>1, <2>2, <1>n DEF NeverDone
  <2>4. CallInStep'
    BY <2>1, <2>2, <2>3 DEF CallInStep, Holds, Says, NothingLate
  <2> QED
    BY <2>1, <2>4, <1>g
<1>5. CASE Send!Stage
  <2> DEFINE good == IF op = "draft" THEN Send!Answer("done") ELSE [at |-> "send"]
             bad == [e \in Send!Unsaid |-> Send!Staged(e)]
  <2>1. /\ act.at = "stage" /\ Send!Asked(<<"create", asks>>, good, bad)
        /\ UNCHANGED <<op, asks, replies, touched>>
    BY <1>5 DEF Send!Stage
  <2>2. asks \notin saved /\ NothingLate(asks) /\ op \in {"send", "draft"}
    BY <2>1, <1>0, <1>a DEF CallInStep, MailKnown
  <2>3. \/ /\ Send!Apply(<<"create", asks>>) /\ act' = good /\ late' = late
        \/ /\ \E e \in Send!NoEffect : act' = bad[e]
           /\ UNCHANGED <<drafts, saved, sent, late>>
        \/ \E e \in Send!Uncertain : act' = bad[e]
    BY <2>1, MailAnswered
  <2>4. ASSUME Send!Apply(<<"create", asks>>) /\ act' = good /\ late' = late
       PROVE  CallInStep' /\ act'.at # "none"
    <3>1. drafts' = drafts \cup {asks} /\ saved' = saved \cup {asks} /\ sent' = sent
      BY <2>4 DEF Send!Apply
    <3>2. NothingLate(asks)' /\ asks' = asks /\ op' = op
      BY <2>1, <2>2, <2>4 DEF NothingLate
    <3>3. ASSUME op = "draft" PROVE CallInStep' /\ act'.at # "none"
      <4>1. act'.at = "answer" /\ act'.says = "done" /\ Did(asks)'
        BY <3>1, <3>2, <3>3, <2>4 DEF Send!Answer, Did
      <4> QED
        BY <3>2, <4>1 DEF CallInStep, Holds, Says, NeverDone, Did, NothingLate
    <3>4. ASSUME op = "send" PROVE CallInStep' /\ act'.at # "none"
      <4>1. act'.at = "send" /\ asks \in drafts' /\ asks \notin sent'
        BY <3>1, <3>4, <2>2, <2>4, <1>a DEF MailKnown
      <4> QED
        BY <3>2, <3>4, <4>1 DEF CallInStep, Holds, NeverDone, Did, NothingLate
    <3> QED
      BY <3>3, <3>4, <2>2
  <2>5. ASSUME (\E e \in Send!NoEffect : act' = bad[e]) /\ UNCHANGED <<drafts, saved, sent, late>>
       PROVE  CallInStep' /\ act'.at # "none"
    <3>1. act'.at = "answer" /\ act'.says = "nothing"
      BY <2>5, <1>u DEF Send!Staged, Send!Answer
    <3>2. NeverDone(asks)'
      BY <2>1, <2>2, <2>5, <1>n DEF NeverDone
    <3> QED
      BY <3>1, <3>2, <2>1 DEF CallInStep, Holds, Says, NeverDone, Did, NothingLate
  <2>6. ASSUME \E e \in Send!Uncertain : act' = bad[e]
       PROVE  CallInStep' /\ act'.at # "none"
    <3>1. act'.at = "answer" /\ act'.says = IF op = "send" THEN "nothing" ELSE "unknown"
      BY <2>6, <1>u, <1>t DEF Send!Staged, Send!Answer
    <3>2. op = "send" => NeverDone(asks)'
      <4>1. \/ Send!Apply(<<"create", asks>>) /\ late' \subseteq late
            \/ sent' = sent /\ late' \subseteq late \cup {<<"create", asks>>}
        BY <2>1 DEF Send!Asked
      <4>2. sent' = sent /\ <<"send", asks>> \notin late'
        BY <4>1, <2>2 DEF Send!Apply, NothingLate
      <4> QED
        BY <4>2, <2>1, <2>2, <1>a DEF NeverDone, MailKnown
    <3> QED
      BY <3>1, <3>2, <2>1 DEF CallInStep, Holds, Says, NeverDone, Did, NothingLate
  <2>7. CallInStep' /\ act'.at # "none"
    BY <2>3, <2>4, <2>5, <2>6
  <2>8. MailKnown' /\ AsksInOrder'
    <3>1. <<"create", asks>> \notin late
      BY <2>2 DEF NothingLate
    <3> HIDE DEF good, bad
    <3> QED
      BY <3>1, <2>1, <2>2, <2>7, <1>0, MailAsks
  <2> QED
    BY <2>7, <2>8 DEF SendInv
<1>6. CASE Send!SendDraft
  <2> DEFINE bad == [e \in Send!Unsaid |-> Send!AfterSend(e)]
  <2>1. /\ act.at = "send" /\ Send!Asked(<<"send", asks>>, [at |-> "readback"], bad)
        /\ UNCHANGED <<op, asks, replies, touched>>
    BY <1>6 DEF Send!SendDraft
  <2>2. /\ op = "send" /\ asks \in drafts \cup touched /\ asks \notin sent /\ NothingLate(asks)
        /\ asks \in saved
    BY <2>1, <1>0, <1>a DEF CallInStep, MailKnown
  <2>3. /\ <<"send", asks>> \notin late /\ MailKnown' /\ (act'.at # "none" => AsksInOrder')
    <3>1. <<"send", asks>> \notin late
      BY <2>2 DEF NothingLate
    <3>2. CASE act'.at = "none"
      <4>1. CASE act' = [at |-> "readback"]
        BY <3>2, <4>1
      <4>2. CASE \E e \in Send!Unsaid : act' = bad[e]
        BY <3>2, <4>2 DEF Send!AfterSend
      <4> QED
        BY <4>1, <4>2, <2>1, MailAnswered, <1>u
    <3> HIDE DEF bad
    <3> QED
      BY <3>1, <3>2, <2>1, <1>0, MailAsks
  <2>4. \/ /\ asks \in drafts /\ Send!Apply(<<"send", asks>>) /\ act' = [at |-> "readback"] /\ late' = late
        \/ /\ act' = bad["s404"]
           /\ UNCHANGED <<drafts, saved, sent, late>>
        \/ /\ \E e \in Send!NoEffect : act' = bad[e]
           /\ UNCHANGED <<drafts, saved, sent, late>>
        \/ \E e \in Send!Uncertain : act' = bad[e]
    BY <2>1, MailAnswered
  <2>5. ASSUME asks \in drafts /\ Send!Apply(<<"send", asks>>) /\ act' = [at |-> "readback"]
       PROVE  CallInStep' /\ act'.at # "none"
    <3>1. asks \in sent'
      BY <2>5 DEF Send!Apply
    <3> QED
      BY <3>1, <2>1, <2>2, <2>5 DEF CallInStep, Holds, NeverDone, Did, NothingLate
  <2>6. ASSUME (act' = bad["s404"] \/ \E e \in Send!NoEffect : act' = bad[e]) /\ UNCHANGED <<drafts, saved, sent, late>>
       PROVE  CallInStep' /\ act'.at # "none"
    <3>0. \E e \in Send!Unsaid : e \notin Send!Uncertain /\ act' = bad[e]
      BY <2>6, <1>u, <1>t
    <3>1. act' = [at |-> "withdraw"]
      BY <3>0 DEF Send!AfterSend
    <3> QED
      BY <3>1, <2>1, <2>2, <2>6 DEF CallInStep, NothingLate, Holds, NeverDone, Did
  <2>7. ASSUME \E e \in Send!Uncertain : act' = bad[e]
       PROVE  CallInStep' /\ act'.at # "none"
    <3>1. act'.at = "settle"
      BY <2>7, <1>u, <1>t DEF Send!AfterSend
    <3>2. \/ /\ Send!Apply(<<"send", asks>>) /\ late' = late
          \/ /\ late' \subseteq late \cup {<<"send", asks>>} /\ UNCHANGED <<drafts, saved, sent>>
      BY <2>1 DEF Send!Asked
    <3>3. /\ asks \in drafts' \cup sent' \cup touched'
          /\ <<"delete", asks>> \notin late' /\ asks \in saved'
      BY <3>2, <2>1, <2>2 DEF Send!Apply, NothingLate
    <3> QED
      BY <3>1, <3>3, <2>1, <2>2 DEF CallInStep, Holds, NeverDone, Did, NothingLate
  <2>8. CallInStep' /\ act'.at # "none"
    BY <2>4, <2>5, <2>6, <2>7
  <2> QED
    BY <2>3, <2>8 DEF SendInv
<1>7. CASE Send!Withdraw
  <2> DEFINE bad == [e \in Send!Unsaid |-> Send!Withdrawn(e)]
  <2>1. /\ act.at = "withdraw" /\ Send!Asked(<<"delete", asks>>, Send!Answer("nothing"), bad)
        /\ UNCHANGED <<op, asks, replies, touched>>
    BY <1>7 DEF Send!Withdraw
  <2>2. op = "send" /\ asks \in saved \ sent /\ NothingLate(asks)
    BY <2>1, <1>0, <1>a DEF CallInStep
  <2>3. act'.at = "answer" /\ act'.says = "nothing"
    <3>1. act' = Send!Answer("nothing") \/ \E e \in Send!Unsaid : act' = bad[e]
      BY <2>1, MailAnswered, <1>u
    <3> QED
      BY <3>1 DEF Send!Withdrawn, Send!Answer
  <2>4. sent' = sent /\ <<"send", asks>> \notin late'
    <3>1. \/ Send!Apply(<<"delete", asks>>) /\ late' = late
          \/ late' \subseteq late \cup {<<"delete", asks>>} /\ UNCHANGED sent
      BY <2>1 DEF Send!Asked
    <3> QED
      BY <3>1, <2>2 DEF Send!Apply, NothingLate
  <2>5. CallInStep'
    BY <2>1, <2>2, <2>3, <2>4 DEF CallInStep, Holds, NeverDone, Says
  <2>6. MailKnown' /\ AsksInOrder'
    <3>1. <<"delete", asks>> \notin late
      BY <2>2 DEF NothingLate
    <3> HIDE DEF bad
    <3> QED
      BY <3>1, <2>1, <2>3, <1>0, MailAsks
  <2> QED
    BY <2>5, <2>6 DEF SendInv
<1>8. CASE Send!Settle
  <2> DEFINE bad == [e \in Send!Unsaid |-> Send!Settled(e)]
  <2>1. /\ act.at = "settle" /\ Send!Asked(<<"delete", asks>>, Send!Answer("nothing"), bad)
        /\ UNCHANGED <<op, asks, replies, touched>>
    BY <1>8 DEF Send!Settle
  <2>2. /\ op = "send" /\ asks \in drafts \cup sent \cup touched
        /\ asks \in saved /\ <<"delete", asks>> \notin late
    BY <2>1, <1>0, <1>a DEF CallInStep
  <2>3. \/ /\ asks \in drafts /\ Send!Apply(<<"delete", asks>>) /\ act' = Send!Answer("nothing") /\ late' = late
        \/ /\ asks \notin drafts /\ act' = bad["s404"]
           /\ UNCHANGED <<drafts, saved, sent, late>>
        \/ \E e \in Send!NoEffect \cup Send!Uncertain : act' = bad[e]
    BY <2>1, MailAnswered
  <2>4. ASSUME asks \in drafts /\ Send!Apply(<<"delete", asks>>) /\ act' = Send!Answer("nothing") /\ late' = late
       PROVE  CallInStep' /\ act'.at # "none"
    <3>1. act'.at = "answer" /\ act'.says = "nothing"
      BY <2>4 DEF Send!Answer
    <3>2. asks \notin drafts' /\ asks \notin sent' /\ <<"create", asks>> \notin late'
      BY <2>2, <2>4, <1>a DEF Send!Apply, MailKnown
    <3> QED
      BY <3>1, <3>2, <2>1, <2>2 DEF CallInStep, Holds, NeverDone, Says, Did, NothingLate
  <2>5. ASSUME asks \notin drafts /\ act' = bad["s404"] /\ UNCHANGED <<drafts, saved, sent, late>>
       PROVE  CallInStep' /\ act'.at # "none"
    <3>1. act'.at = "answer" /\ act'.says = "done"
      BY <2>5, <1>u DEF Send!Settled, Send!Answer
    <3>2. Did(asks)'
      BY <2>1, <2>2, <2>5 DEF Did
    <3> QED
      BY <3>1, <3>2, <2>1 DEF CallInStep, Holds, Says, NeverDone, Did, NothingLate
  <2>6. ASSUME \E e \in Send!NoEffect \cup Send!Uncertain : act' = bad[e]
       PROVE  CallInStep' /\ act'.at # "none"
    <3>1. act'.at = "answer" /\ act'.says = "unknown"
      BY <2>6, <1>u, <1>t DEF Send!Settled, Send!Answer
    <3> QED
      BY <3>1, <2>1 DEF CallInStep, Holds, Says, NeverDone, Did, NothingLate
  <2>7. CallInStep' /\ act'.at # "none"
    BY <2>3, <2>4, <2>5, <2>6
  <2>8. MailKnown' /\ AsksInOrder'
    <3> HIDE DEF bad
    <3> QED
      BY <2>1, <2>2, <2>7, <1>0, MailAsks
  <2> QED
    BY <2>7, <2>8 DEF SendInv
<1>9. CASE Send!ReadBack
  <2>1. /\ act.at = "readback" /\ act' = [at |-> "answer", says |-> "done"]
        /\ UNCHANGED <<op, asks, replies, drafts, saved, sent, touched, late>>
    BY <1>9 DEF Send!ReadBack, Send!Answer
  <2>2. op = "send" /\ asks \in sent
    BY <2>1, <1>0, <1>a DEF CallInStep
  <2>3. CallInStep'
    BY <2>1, <2>2 DEF CallInStep, Holds, Did, Says
  <2> QED
    BY <2>1, <2>3, <1>g
\* The call ends: its answer is the last of replies, and there is no call.
<1>r. ASSUME NEW says \in Says, act # Send!NoAct, Holds(asks, says),
             replies' = Append(replies, says), act' = Send!NoAct,
             UNCHANGED <<op, asks, drafts, saved, sent, touched, late>>
      PROVE  SendInv'
  <2>1. MailKnown' /\ CallInStep'
    BY <1>r, <1>a DEF MailKnown, CallInStep
  <2>3. replies \in Seq(Says) /\ asks = Len(replies) + 1
    BY <1>r, <1>a DEF AsksInOrder
  <2>4. /\ replies' \in Seq(Says) /\ Len(replies') = asks /\ DOMAIN replies' = 1 .. asks
        /\ replies'[asks] = says /\ \A i \in 1 .. asks - 1 : replies'[i] = replies[i]
        /\ DOMAIN replies = 1 .. asks - 1
    BY <1>r, <2>3
  <2>5. \A i \in DOMAIN replies' : Holds(i, replies'[i])
    BY <2>4, <1>r, <1>a DEF AsksInOrder
  <2>6. \A i \in DOMAIN replies' : Holds(i, replies[i])'
    BY <1>r, <2>5 DEF Holds, NeverDone, Did
  <2>7. AsksInOrder'
    BY <1>r, <2>3, <2>4, <2>6, <1>a DEF AsksInOrder, Holds, NeverDone, Did
  <2> QED
    BY <2>1, <2>7 DEF SendInv
<1>10. CASE Send!Answered
  <2>1. act.says \in Says /\ Holds(asks, act.says) /\ act # Send!NoAct
    BY <1>10, <1>0, <1>a DEF Send!Answered, CallInStep
  <2> QED
    BY <2>1, <1>10, <1>r DEF Send!Answered
<1>11. CASE Send!Dies
  <2>1. "unknown" \in Says /\ Holds(asks, "unknown")
    BY DEF Says, Holds
  <2> QED
    BY <2>1, <1>11, <1>r DEF Send!Dies
<1>12. CASE UNCHANGED sendMailVars
  <2>1. UNCHANGED <<op, asks, act, replies, drafts, saved, sent, touched, late>>
    BY <1>12 DEF sendMailVars
  <2> QED
    BY <2>1, <1>a DEF SendInv, MailKnown, CallInStep, AsksInOrder, Holds, NeverDone, Did, NothingLate
<1> QED
  BY <1>1, <1>2, <1>3, <1>4, <1>5, <1>6, <1>7, <1>8, <1>9, <1>10, <1>11, <1>12
  DEF Send!MailSendNext

\* A step of the adapters is a step of the mail that is sent, or it rests.
LEMMA SendSteps == [Next]_vars => [Send!MailSendNext]_sendMailVars
  BY DEF Next, vars, NotMail, NotPoll, NotSetup, sendMailVars

\* An answer of gmail.send or gmail.draft holds from then on, whatever takes effect late:
\* "nothing" was sent, or it is "done"; one mail at most is sent, however often a caller
\* that was told it may asks again (settle, withdraw).
THEOREM AnswersStayTrue == FairSpec => []AnswersAreTrue
<1>1. Init => SendInv
  BY SendStarts DEF Init
<1>2. SendInv /\ [Next]_vars => SendInv'
  BY SendStays, SendSteps
<1>3. SendInv => AnswersAreTrue
  <2> SUFFICES ASSUME SendInv PROVE AnswersAreTrue
    OBVIOUS
  <2> DEFINE did == IF op = "send" THEN sent ELSE saved
  <2>1. MailKnown /\ AsksInOrder
    BY DEF SendInv
  <2>2. ASSUME NEW i, NeverDone(i) PROVE i \notin did
    BY <2>2 DEF NeverDone
  <2>3. \A i \in 1 .. asks - 1 : i \in DOMAIN replies /\ replies[i] = "nothing"
    BY <2>1 DEF AsksInOrder, MailKnown
  <2>4. \A i \in 1 .. asks - 1 : i \notin did
    BY <2>1, <2>2, <2>3 DEF AsksInOrder, Holds
  <2>5. did \subseteq {asks}
    <3>1. did \subseteq 1 .. asks /\ asks \in Nat
      BY <2>1 DEF MailKnown
    <3> HIDE DEF did
    <3> QED
      BY <3>1, <2>4
  <2>6. Cardinality(did) <= 1
    <3> HIDE DEF did
    <3>1. did = {} \/ did = {asks}
      BY <2>5
    <3>2. Cardinality({}) = 0 /\ Cardinality({asks}) = 1
      BY FS_EmptySet, FS_Singleton
    <3> QED
      BY <3>1, <3>2
  <2>7. \A i \in DOMAIN replies : /\ replies[i] = "nothing" => i \notin did
                                  /\ replies[i] = "done" => i \in did \cup touched
    BY <2>1, <2>2 DEF AsksInOrder, Holds, Did
  <2>8. ASSUME NEW S PROVE Send!Cardinality(S) = Cardinality(S)
    BY DEF Send!Cardinality, Cardinality
  <2>9. Send!AnswersAreTrue
    BY <2>6, <2>7, <2>8, Zenon DEF Send!AnswersAreTrue
  <2> QED
    BY <2>9 DEF AnswersAreTrue
<1> QED
  BY <1>1, <1>2, <1>3, PTL DEF FairSpec

----------------------------------------------------------------------------
(* calendar.create, calendar.update and calendar.delete.                   *)

Versions == [st : {"absent", "live", "cancelled"}, ver : Nat,
             body : {"none", "intended", "edited", "retitled"}]

\* A request that was made: it is about the one event, and an update carries the
\* version its caller read.
Made(q) ==
    /\ q.what \in {"create", "update", "delete"} /\ q.id = 1 /\ q.n \in 1 .. writes
    /\ q.what = "update" => q.version = q.read /\ q.version # 0

\* What took effect: a create only where there was no event, an update only on the
\* version that was read.
EffectsAreOnes ==
    /\ \A f \in effects : f.n \in 1 .. writes
    /\ \A f \in effects : f.what = "update" => f.on = f.read
    /\ \A f \in effects : f.what = "create" => events[1].st # "absent"
    /\ \A f, g \in effects : f.what = "create" /\ g.what = "create" => f = g

Words == {"nothing", "before", "done", "unknown"}

Undone(n) == \A f \in effects \cup underway : f.n # n
Done(n) == \E f \in effects : f.n = n

Stands(n, says) == (says \in {"nothing", "before"} => Undone(n)) /\ (says = "done" => Done(n))

\* Where the write in progress is, and whether it took effect.
WriteInStep ==
    \/ write = Cal!NoWrite
    \/ /\ write.at \in {"current", "write", "settle", "confirm"}
       /\ write = [at |-> write.at, q |-> write.q]
       /\ Made(write.q) /\ write.q.n = writes
       /\ write.at = "confirm" => Done(writes)
       /\ write.at # "confirm" => Undone(writes)
    \/ write.at = "answer" /\ write.says \in Words /\ Stands(writes, write.says)

WritesInOrder ==
    /\ outcome \in Seq(Words) /\ writes \in Nat /\ writes <= MaxWrites
    /\ writes = Len(outcome) + (IF write = Cal!NoWrite THEN 0 ELSE 1)
    /\ \A i \in DOMAIN outcome : Stands(i, outcome[i])

CalInv ==
    /\ events \in [1 .. MaxWrites -> Versions] /\ known \in Nat
    /\ \A q \in underway : Made(q)
    /\ EffectsAreOnes /\ WriteInStep /\ WritesInOrder

LEMMA CalStarts == Cal!CalInit => CalInv
<1> SUFFICES ASSUME Cal!CalInit PROVE CalInv
  OBVIOUS
<1>1. events \in [1 .. MaxWrites -> Versions] /\ known \in Nat /\ underway = {} /\ effects = {}
  BY DEF Cal!CalInit, Cal!Nobody, Versions
<1>2. WriteInStep
  BY DEF Cal!CalInit, WriteInStep
<1>3. WritesInOrder
  BY ChannelsAssumption DEF Cal!CalInit, WritesInOrder
<1> QED
  BY <1>1, <1>2, <1>3 DEF CalInv, EffectsAreOnes

\* A request takes effect, stays under way, or is lost: what was answered stands.
LEMMA CalMoves ==
    ASSUME CalInv, NEW q, Made(q), writes' = writes,
           \/ Cal!Effect(q) /\ underway' \subseteq underway
           \/ UNCHANGED <<events, effects>> /\ underway' \subseteq underway \cup {q}
    PROVE  /\ events' \in [1 .. MaxWrites -> Versions]
           /\ \A p \in underway' : Made(p)'
           /\ EffectsAreOnes'
           /\ \A n : Done(n) => Done(n)'
           /\ \A n : n # q.n /\ Undone(n) => Undone(n)'
<1>a. /\ events \in [1 .. MaxWrites -> Versions] /\ \A p \in underway : Made(p)
      /\ EffectsAreOnes /\ writes \in Nat /\ writes <= MaxWrites
  BY DEF CalInv, WritesInOrder
<1>q. /\ q.what \in {"create", "update", "delete"} /\ q.id = 1 /\ q.n \in 1 .. writes
      /\ q.what = "update" => q.version = q.read /\ q.version # 0
  BY DEF Made
<1>1. CASE UNCHANGED <<events, effects>> /\ underway' \subseteq underway \cup {q}
  BY <1>1, <1>a DEF EffectsAreOnes, Made, Done, Undone
<1>2. CASE Cal!Effect(q) /\ Cal!Takes(q) /\ underway' \subseteq underway
  <2> DEFINE f == [n |-> q.n, what |-> q.what, id |-> q.id, on |-> events[q.id].ver, read |-> q.read]
  <2>1. events' = [events EXCEPT ![1] = Cal!After(q)] /\ effects' = effects \cup {f}
    BY <1>2, <1>q DEF Cal!Effect
  <2>2. 1 \in 1 .. MaxWrites /\ events[1] \in Versions
    BY <1>a, <1>q, ChannelsAssumption
  <2>3. Cal!After(q) \in Versions /\ Cal!After(q).st # "absent"
    <3>1. CASE q.what = "create"
      BY <3>1 DEF Cal!After, Versions
    <3>2. CASE q.what = "update"
      <4>1. Cal!After(q) = [events[1] EXCEPT !.ver = @ + 1] /\ events[1].st = "live"
        BY <3>2, <1>2, <1>q DEF Cal!After, Cal!Takes
      <4> QED
        BY <4>1, <2>2 DEF Versions
    <3>3. CASE q.what = "delete"
      <4>1. Cal!After(q) = [events[1] EXCEPT !.st = "cancelled", !.ver = @ + 1]
        BY <3>3, <1>2, <1>q DEF Cal!After
      <4>2. Cal!After(q) = [st |-> "cancelled", ver |-> events[1].ver + 1, body |-> events[1].body]
        BY <4>1, <2>2 DEF Versions
      <4> QED
        BY <4>2, <2>2 DEF Versions
    <3> QED
      BY <3>1, <3>2, <3>3, <1>q
  <2>4. events' \in [1 .. MaxWrites -> Versions] /\ events'[1].st # "absent"
    BY <2>1, <2>2, <2>3, <1>a
  <2>5. f.n = q.n /\ f.n \in 1 .. writes /\ f.what = q.what /\ f.on = events[1].ver /\ f.read = q.read
    BY <1>q
  <2>6. f.what = "update" => f.on = f.read
    BY <2>5, <1>2, <1>q DEF Cal!Takes
  <2>7. f.what = "create" => \A g \in effects : g.what # "create"
    BY <2>5, <1>2, <1>q, <1>a DEF Cal!Takes, EffectsAreOnes
  <2> HIDE DEF f
  <2>8. EffectsAreOnes'
    BY <2>1, <2>4, <2>5, <2>6, <2>7, <1>a DEF EffectsAreOnes
  <2>9. \A p \in underway' : Made(p)'
    BY <1>2, <1>a DEF Made
  <2>10. /\ \A n : Done(n) => Done(n)'
         /\ \A n : n # q.n /\ Undone(n) => Undone(n)'
    BY <2>1, <2>5, <1>2 DEF Done, Undone
  <2> QED
    BY <2>4, <2>8, <2>9, <2>10
<1>3. CASE Cal!Effect(q) /\ ~Cal!Takes(q) /\ underway' \subseteq underway
  <2>1. UNCHANGED <<events, effects>> /\ underway' \subseteq underway \cup {q}
    BY <1>3 DEF Cal!Effect
  <2> QED
    BY <2>1, <1>1
<1> QED
  BY <1>1, <1>2, <1>3

\* What people make of an event is an event.
LEMMA EventsChange ==
    ASSUME NEW e \in Versions
    PROVE  /\ \A b \in {"edited", "retitled"} :
                [e EXCEPT !.ver = @ + 1, !.body = b] \in Versions /\ [e EXCEPT !.ver = @ + 1, !.body = b].st = e.st
           /\ \A s \in {"live", "cancelled"} :
                [e EXCEPT !.ver = @ + 1, !.st = s] \in Versions /\ [e EXCEPT !.ver = @ + 1, !.st = s].st = s
<1>0. [e EXCEPT !.ver = @ + 1] \in Versions /\ [e EXCEPT !.ver = @ + 1].st = e.st
  BY DEF Versions
<1>1. PICK f \in Versions : f = [e EXCEPT !.ver = @ + 1] /\ f.st = e.st
  BY <1>0
<1>2. ASSUME NEW b \in {"edited", "retitled"}
      PROVE  [f EXCEPT !.body = b] \in Versions /\ [f EXCEPT !.body = b].st = f.st
  BY DEF Versions
<1>3. ASSUME NEW s \in {"live", "cancelled"}
      PROVE  [f EXCEPT !.st = s] \in Versions /\ [f EXCEPT !.st = s].st = s
  BY DEF Versions
<1> QED
  BY <1>1, <1>2, <1>3

LEMMA CalStays ==
    CalInv /\ [Cal!CalNext]_calVars => CalInv'
<1> SUFFICES ASSUME CalInv, [Cal!CalNext]_calVars PROVE CalInv'
  OBVIOUS
<1>a. /\ events \in [1 .. MaxWrites -> Versions] /\ known \in Nat
      /\ \A q \in underway : Made(q)
      /\ EffectsAreOnes /\ WriteInStep /\ WritesInOrder
  BY DEF CalInv
<1>0. Cal!NoWrite.at = "none"
  BY DEF Cal!NoWrite
\* A step that changes the write in progress and nothing it is held against.
<1>g. ASSUME write # Cal!NoWrite, write'.at # "none", WriteInStep',
             UNCHANGED <<events, writes, outcome, known, effects, underway>>
      PROVE  CalInv'
  <2>1. events' \in [1 .. MaxWrites -> Versions] /\ known' \in Nat /\ EffectsAreOnes'
        /\ \A q \in underway' : Made(q)'
    BY <1>g, <1>a DEF EffectsAreOnes, Made
  <2>2. WritesInOrder'
    BY <1>g, <1>a, <1>0 DEF WritesInOrder, Stands, Done, Undone
  <2> QED
    BY <1>g, <2>1, <2>2 DEF CalInv
\* A write is asked: it has a number of its own.
<1>b. ASSUME write = Cal!NoWrite, writes < MaxWrites, writes' = writes + 1,
             write'.at \in {"current", "write"}, write' = [at |-> write'.at, q |-> write'.q],
             write'.q.what \in {"create", "update", "delete"}, write'.q.id = 1,
             write'.q.n = writes + 1,
             write'.q.what = "update" => write'.q.version = write'.q.read /\ write'.q.version # 0,
             UNCHANGED <<events, outcome, known, effects, underway>>
      PROVE  CalInv'
  <2>1. writes \in Nat /\ writes = Len(outcome)
    BY <1>b, <1>a DEF WritesInOrder
  <2>2. Undone(writes + 1)
    BY <2>1, <1>a DEF Undone, EffectsAreOnes, Made
  <2>3. \A q \in underway' : Made(q)'
    BY <1>b, <2>1, <1>a DEF Made
  <2>4. WriteInStep'
    BY <1>b, <2>1, <2>2 DEF WriteInStep, Made, Undone
  <2>5. EffectsAreOnes'
    BY <1>b, <2>1, <1>a DEF EffectsAreOnes
  <2>6. WritesInOrder'
    BY <1>b, <2>1, <1>a, <1>0, ChannelsAssumption DEF WritesInOrder, Stands, Done, Undone
  <2> QED
    BY <1>b, <2>3, <2>4, <2>5, <2>6, <1>a DEF CalInv
\* The write ends: its answer is the last outcome.
<1>r. ASSUME NEW says \in Words, write # Cal!NoWrite, Stands(writes, says),
             outcome' = Append(outcome, says), write' = Cal!NoWrite,
             UNCHANGED <<events, writes, known, effects, underway>>
      PROVE  CalInv'
  <2>1. EffectsAreOnes' /\ WriteInStep' /\ \A q \in underway' : Made(q)'
    BY <1>r, <1>a DEF EffectsAreOnes, WriteInStep, Made
  <2>2. outcome \in Seq(Words) /\ writes = Len(outcome) + 1
    BY <1>r, <1>a DEF WritesInOrder
  <2>3. /\ outcome' \in Seq(Words) /\ Len(outcome') = writes /\ DOMAIN outcome' = 1 .. writes
        /\ outcome'[writes] = says /\ \A i \in 1 .. writes - 1 : outcome'[i] = outcome[i]
        /\ DOMAIN outcome = 1 .. writes - 1
    BY <1>r, <2>2
  <2>4. \A i \in DOMAIN outcome' : Stands(i, outcome'[i])
    BY <2>3, <1>r, <1>a DEF WritesInOrder
  <2>5. WritesInOrder'
    BY <1>r, <2>3, <2>4, <1>a DEF WritesInOrder, Stands, Done, Undone
  <2> QED
    BY <1>r, <2>1, <2>5, <1>a DEF CalInv
\* The calendar changes: a request took effect late, or people changed it.
<1>m. ASSUME events' \in [1 .. MaxWrites -> Versions], \A q \in underway' : Made(q)', EffectsAreOnes',
             \A n : Done(n) => Done(n)', \A n : Undone(n) => Undone(n)', known' \in Nat,
             UNCHANGED <<write, writes, outcome>>
      PROVE  CalInv'
  <2>1. ASSUME NEW n, NEW says, Stands(n, says) PROVE Stands(n, says)'
    BY <1>m, <2>1 DEF Stands
  <2>2. WritesInOrder'
    BY <1>m, <2>1, <1>a DEF WritesInOrder
  <2>3. WriteInStep'
    <3>1. CASE write.at \in {"current", "write", "settle", "confirm"}
      <4>1. write # Cal!NoWrite /\ write.at # "answer"
        BY <3>1, <1>0
      <4>2. (write.at = "confirm" => Done(writes)') /\ (write.at # "confirm" => Undone(writes)')
        BY <4>1, <1>m, <1>a DEF WriteInStep
      <4> QED
        BY <3>1, <4>1, <4>2, <1>m, <1>a DEF WriteInStep, Made, Done, Undone
    <3>2. CASE write.at = "answer" /\ write.says \in Words /\ Stands(writes, write.says)
      <4>1. Stands(writes, write.says)'
        BY <3>2, <1>m DEF Stands
      <4> QED
        BY <3>2, <4>1, <1>m DEF WriteInStep, Stands, Done, Undone
    <3>3. CASE write = Cal!NoWrite
      BY <3>3, <1>m DEF WriteInStep
    <3> QED
      BY <3>1, <3>2, <3>3, <1>a DEF WriteInStep
  <2> QED
    BY <1>m, <2>2, <2>3 DEF CalInv
<1>u. /\ Cal!NoEffect \subseteq Cal!Unsaid /\ Cal!Uncertain \subseteq Cal!Unsaid
      /\ {"s409", "s412", "gone"} \subseteq Cal!Unsaid
      /\ Cal!NoEffect \cap Cal!Uncertain = {} /\ {"s409", "s412", "gone"} \cap (Cal!NoEffect \cup Cal!Uncertain) = {}
  BY DEF Cal!Unsaid, Cal!NoEffect, Cal!Uncertain
<1>1. CASE Cal!TakesEffect
  <2>1. PICK q \in underway : Cal!Effect(q) /\ underway' = underway \ {q}
    BY <1>1 DEF Cal!TakesEffect
  <2>2. UNCHANGED <<write, writes, outcome, known>>
    BY <1>1 DEF Cal!TakesEffect
  <2>3. /\ events' \in [1 .. MaxWrites -> Versions] /\ (\A p \in underway' : Made(p)') /\ EffectsAreOnes'
    BY <2>1, <2>2, <1>a, CalMoves
  <2>4. /\ \A n : Done(n) => Done(n)'
        /\ \A n : n # q.n /\ Undone(n) => Undone(n)'
    BY <2>1, <2>2, <1>a, CalMoves
  <2>5. \A n : Undone(n) => n # q.n
    BY <2>1 DEF Undone
  <2>6. \A n : Undone(n) => Undone(n)'
    BY <2>4, <2>5
  <2>7. known' \in Nat
    BY <2>2, <1>a
  <2> QED
    BY <2>2, <2>3, <2>4, <2>6, <2>7, <1>m
<1>2. CASE Cal!People
  <2>1. PICK id \in 1 .. MaxWrites :
          /\ events[id].st # "absent"
          /\ \/ \E b \in {"edited", "retitled"} :
                  events' = [events EXCEPT ![id] = [events[id] EXCEPT !.ver = @ + 1, !.body = b]]
             \/ events' = [events EXCEPT ![id] = [events[id] EXCEPT !.ver = @ + 1,
                                !.st = IF events[id].st = "live" THEN "cancelled" ELSE "live"]]
    BY <1>2 DEF Cal!People
  <2>2. UNCHANGED <<write, writes, outcome, known, effects, underway>>
    BY <1>2 DEF Cal!People
  <2>3. events[id] \in Versions
    BY <1>a
  <2>4. PICK e \in Versions : e.st # "absent" /\ events' = [events EXCEPT ![id] = e]
    <3> DEFINE e == events[id]
               edited(b) == [e EXCEPT !.ver = @ + 1, !.body = b]
               restored(s) == [e EXCEPT !.ver = @ + 1, !.st = s]
    <3>1. \A b \in {"edited", "retitled"} : edited(b) \in Versions /\ edited(b).st = e.st
      BY <2>3, EventsChange
    <3>2. \A s \in {"live", "cancelled"} : restored(s) \in Versions /\ restored(s).st = s
      BY <2>3, EventsChange
    <3>3. \/ \E b \in {"edited", "retitled"} : events' = [events EXCEPT ![id] = edited(b)]
          \/ \E s \in {"live", "cancelled"} : events' = [events EXCEPT ![id] = restored(s)]
      BY <2>1
    <3> HIDE DEF edited, restored
    <3> QED
      BY <2>1, <3>1, <3>2, <3>3
  <2>5. events' \in [1 .. MaxWrites -> Versions] /\ (events[1].st # "absent" => events'[1].st # "absent")
    BY <2>1, <2>4, <1>a
  <2>6. EffectsAreOnes' /\ \A q \in underway' : Made(q)'
    BY <2>2, <2>5, <1>a DEF EffectsAreOnes, Made
  <2>7. (\A n : Done(n) => Done(n)') /\ (\A n : Undone(n) => Undone(n)')
    BY <2>2 DEF Done, Undone
  <2> QED
    BY <2>2, <2>5, <2>6, <2>7, <1>a, <1>m
<1>3. CASE Cal!Reads
  <2>1. write = Cal!NoWrite /\ events[1].st = "live" /\ known' = events[1].ver
        /\ UNCHANGED <<events, write, writes, outcome, effects, underway>>
    BY <1>3 DEF Cal!Reads
  <2>2. known' \in Nat
    <3>1. 1 \in 1 .. MaxWrites
      BY ChannelsAssumption
    <3> QED
      BY <3>1, <2>1, <1>a DEF Versions
  <2>3. EffectsAreOnes' /\ \A q \in underway' : Made(q)'
    BY <2>1, <1>a DEF EffectsAreOnes, Made
  <2>4. (\A n : Done(n) => Done(n)') /\ (\A n : Undone(n) => Undone(n)')
    BY <2>1 DEF Done, Undone
  <2> QED
    BY <2>1, <2>2, <2>3, <2>4, <1>a, <1>m
<1>4. CASE Cal!AskCreate
  <2>1. /\ write = Cal!NoWrite /\ writes < MaxWrites /\ writes' = writes + 1
        /\ write' = [at |-> "write", q |-> [what |-> "create", id |-> 1, n |-> writes + 1, version |-> 0, read |-> known]]
        /\ UNCHANGED <<events, outcome, known, effects, underway>>
    BY <1>4 DEF Cal!AskCreate, Cal!Request, Cal!EventId
  <2> QED
    BY <2>1, <1>b
<1>5. CASE Cal!AskChange
  <2>1. /\ write = Cal!NoWrite /\ writes < MaxWrites /\ writes' = writes + 1
        /\ UNCHANGED <<events, outcome, known, effects, underway>>
    BY <1>5 DEF Cal!AskChange
  <2>2. CASE /\ known # 0
             /\ write' = [at |-> "current", q |-> [what |-> "update", id |-> 1, n |-> writes + 1,
                                                   version |-> known, read |-> known]]
    BY <2>1, <2>2, <1>b
  <2>3. CASE write' = [at |-> "current", q |-> [what |-> "delete", id |-> 1, n |-> writes + 1,
                                                version |-> 0, read |-> known]]
    BY <2>1, <2>3, <1>b
  <2> QED
    BY <2>2, <2>3, <1>5 DEF Cal!AskChange, Cal!Request, Cal!EventId, Cal!IfMatch
<1>6. CASE Cal!Current
  <2>1. /\ write.at = "current" /\ UNCHANGED <<events, writes, outcome, known, effects, underway>>
        /\ \/ \E w \in {"nothing", "before"} : write' = [at |-> "answer", says |-> w]
           \/ write' = [write EXCEPT !.at = "write"]
    BY <1>6 DEF Cal!Current, Cal!Told
  <2>2. /\ write = [at |-> write.at, q |-> write.q] /\ Made(write.q) /\ write.q.n = writes
        /\ Undone(writes) /\ write # Cal!NoWrite
    BY <2>1, <1>0, <1>a DEF WriteInStep
  <2>3. write' = [write EXCEPT !.at = "write"] => write' = [at |-> "write", q |-> write.q]
    BY <2>2
  <2>4. WriteInStep' /\ write'.at # "none"
    BY <2>1, <2>2, <2>3 DEF WriteInStep, Made, Stands, Done, Undone, Words
  <2> QED
    BY <2>1, <2>2, <2>4, <1>g
<1>7. CASE Cal!Write
  <2> DEFINE q == write.q
             good == IF q.what = "delete" THEN [write EXCEPT !.at = "confirm"] ELSE Cal!Told("done")
             bad == [e \in Cal!Unsaid |-> Cal!Settled(e)]
  <2>1. /\ write.at = "write" /\ Cal!Goes(q, good, bad) /\ UNCHANGED <<writes, outcome, known>>
    BY <1>7 DEF Cal!Write
  <2>2. /\ write = [at |-> write.at, q |-> q] /\ Made(q) /\ q.n = writes
        /\ Undone(writes) /\ write # Cal!NoWrite
    BY <2>1, <1>0, <1>a DEF WriteInStep
  <2>3. /\ \/ Cal!Effect(q) /\ underway' \subseteq underway
           \/ UNCHANGED <<events, effects>> /\ underway' \subseteq underway \cup {q}
        /\ \/ write' = good /\ Cal!Takes(q) /\ Cal!Effect(q)
           \/ /\ \E e \in Cal!NoEffect \cup {"s409", "s412", "gone"} : write' = bad[e]
              /\ UNCHANGED <<effects, underway>>
           \/ \E e \in Cal!Uncertain : write' = bad[e]
    BY <2>1 DEF Cal!Goes, Cal!Refusal
  <2>4. /\ events' \in [1 .. MaxWrites -> Versions] /\ (\A p \in underway' : Made(p)') /\ EffectsAreOnes'
    BY <2>1, <2>2, <2>3, <1>a, CalMoves
  <2>5. /\ \A n : Done(n) => Done(n)'
        /\ \A n : n # writes /\ Undone(n) => Undone(n)'
    BY <2>1, <2>2, <2>3, <1>a, CalMoves
  <2>6. ASSUME write' = good /\ Cal!Takes(q) /\ Cal!Effect(q) PROVE WriteInStep' /\ write'.at # "none"
    <3>1. Done(writes)'
      <4> DEFINE f == [n |-> q.n, what |-> q.what, id |-> q.id, on |-> events[q.id].ver, read |-> q.read]
      <4>1. f \in effects' /\ f.n = q.n
        BY <2>6 DEF Cal!Effect
      <4>2. q.n = writes /\ writes' = writes
        BY <2>1, <2>2
      <4> HIDE DEF q, good, bad, f
      <4> QED
        BY <4>1, <4>2 DEF Done
    <3>2. write' = [at |-> "confirm", q |-> q] \/ write' = [at |-> "answer", says |-> "done"]
      BY <2>2, <2>6 DEF Cal!Told
    <3> HIDE DEF q, good, bad
    <3> QED
      BY <3>1, <3>2, <2>1, <2>2 DEF WriteInStep, Made, Stands, Done, Words
  <2>7. ASSUME /\ \E e \in Cal!NoEffect \cup {"s409", "s412", "gone"} : write' = bad[e]
               /\ UNCHANGED <<effects, underway>>
        PROVE  WriteInStep' /\ write'.at # "none"
    <3>1. PICK e \in Cal!NoEffect \cup {"s409", "s412", "gone"} : write' = Cal!Settled(e)
      BY <2>7, <1>u
    <3>2. \/ write' = [at |-> "settle", q |-> q]
          \/ \E w \in {"nothing", "before"} : write' = [at |-> "answer", says |-> w]
      BY <3>1, <2>2, <1>u DEF Cal!Settled, Cal!Told
    <3> HIDE DEF q, good, bad
    <3> QED
      BY <3>2, <2>1, <2>2, <2>7 DEF WriteInStep, Made, Stands, Done, Undone, Words
  <2>8. ASSUME \E e \in Cal!Uncertain : write' = bad[e] PROVE WriteInStep' /\ write'.at # "none"
    <3>1. write' = [at |-> "answer", says |-> "unknown"]
      BY <2>8, <1>u DEF Cal!Settled, Cal!Told
    <3> QED
      BY <3>1 DEF WriteInStep, Stands, Words
  <2>9. WriteInStep' /\ write' # Cal!NoWrite
    BY <2>3, <2>6, <2>7, <2>8, <1>0
  <2>10. \A i \in DOMAIN outcome : i # writes
    BY <2>2, <1>a DEF WritesInOrder
  <2>11. WritesInOrder'
    <3>1. \A i \in DOMAIN outcome : Stands(i, outcome[i])'
      BY <2>1, <2>5, <2>10, <1>a DEF WritesInOrder, Stands
    <3> QED
      BY <3>1, <2>1, <2>2, <2>9, <1>a DEF WritesInOrder
  <2>12. known' \in Nat
    BY <2>1, <1>a
  <2> HIDE DEF q, good, bad
  <2> QED
    BY <2>4, <2>9, <2>11, <2>12 DEF CalInv
<1>8. CASE Cal!Settle
  <2>1. /\ write.at = "settle" /\ UNCHANGED <<events, writes, outcome, known, effects, underway>>
        /\ \E w \in {"nothing", "before", "unknown"} : write' = [at |-> "answer", says |-> w]
    BY <1>8 DEF Cal!Settle, Cal!Told
  <2>2. Undone(writes) /\ write # Cal!NoWrite
    BY <2>1, <1>0, <1>a DEF WriteInStep
  <2>3. WriteInStep' /\ write'.at # "none"
    BY <2>1, <2>2 DEF WriteInStep, Stands, Done, Undone, Words
  <2> QED
    BY <2>1, <2>2, <2>3, <1>g
<1>9. CASE Cal!ConfirmDelete
  <2>1. /\ write.at = "confirm" /\ UNCHANGED <<events, writes, outcome, known, effects, underway>>
        /\ \E w \in {"done", "unknown"} : write' = [at |-> "answer", says |-> w]
    BY <1>9 DEF Cal!ConfirmDelete, Cal!Told
  <2>2. Done(writes) /\ write # Cal!NoWrite
    BY <2>1, <1>0, <1>a DEF WriteInStep
  <2>3. WriteInStep' /\ write'.at # "none"
    BY <2>1, <2>2 DEF WriteInStep, Stands, Done, Undone, Words
  <2> QED
    BY <2>1, <2>2, <2>3, <1>g
<1>10. CASE Cal!WriteAnswered
  <2>1. write.says \in Words /\ Stands(writes, write.says) /\ write # Cal!NoWrite
    BY <1>10, <1>0, <1>a DEF Cal!WriteAnswered, WriteInStep
  <2> QED
    BY <2>1, <1>10, <1>r DEF Cal!WriteAnswered
<1>11. CASE Cal!WriteDies
  <2>1. "unknown" \in Words /\ Stands(writes, "unknown")
    BY DEF Words, Stands
  <2> QED
    BY <2>1, <1>11, <1>r DEF Cal!WriteDies
<1>12. CASE UNCHANGED calVars
  <2>1. UNCHANGED <<events, write, writes, outcome, known, effects, underway>>
    BY <1>12 DEF calVars
  <2>2. EffectsAreOnes' /\ \A q \in underway' : Made(q)'
    BY <2>1, <1>a DEF EffectsAreOnes, Made
  <2>3. (\A n : Done(n) => Done(n)') /\ (\A n : Undone(n) => Undone(n)')
    BY <2>1 DEF Done, Undone
  <2> QED
    BY <2>1, <2>2, <2>3, <1>a, <1>m
<1> QED
  BY <1>1, <1>2, <1>3, <1>4, <1>5, <1>6, <1>7, <1>8, <1>9, <1>10, <1>11, <1>12
  DEF Cal!CalNext

\* A step of the adapters is a step of the calendar, or it rests.
LEMMA CalSteps == [Next]_vars => [Cal!CalNext]_calVars
  BY DEF Next, vars, NotMail, NotPoll, NotSetup, calVars

\* CalInv holds in every reachable state, whichever part runs.
LEMMA CalAlways == FairSpec => []CalInv
<1>1. Init => CalInv
  BY CalStarts DEF Init
<1>2. CalInv /\ [Next]_vars => CalInv'
  BY CalStays, CalSteps
<1> QED
  BY <1>1, <1>2, PTL DEF FairSpec

\* A change is made to the version of the event its caller read and to no later one,
\* though others write between the plugin's read and its own request (update, If-Match).
THEOREM ChangesAreBound == FairSpec => []ChangesWhatWasRead
<1>1. CalInv => ChangesWhatWasRead
  BY DEF CalInv, EffectsAreOnes, ChangesWhatWasRead, Cal!ChangesWhatWasRead
<1> QED
  BY <1>1, CalAlways, PTL

\* The same create asked any number of times makes one event, and what a write answered
\* holds whatever takes effect later (created, updated, deleted, settle).
THEOREM WritesStayTrue == FairSpec => []WritesAreTrue
<1>1. CalInv => WritesAreTrue
  <2> SUFFICES ASSUME CalInv PROVE WritesAreTrue
    OBVIOUS
  <2> DEFINE creates == {f \in effects : f.what = "create"}
  <2>1. Cardinality(creates) <= 1
    <3>1. creates = {} \/ \E f : creates = {f}
      BY DEF CalInv, EffectsAreOnes
    <3> HIDE DEF creates
    <3>2. CASE creates = {}
      BY <3>2, FS_EmptySet
    <3>3. CASE \E f : creates = {f}
      <4>1. PICK f : creates = {f}
        BY <3>3
      <4>2. Cardinality({f}) = 1
        BY FS_Singleton
      <4> QED
        BY <4>1, <4>2
    <3> QED
      BY <3>1, <3>2, <3>3
  <2>2. \A i \in DOMAIN outcome : /\ outcome[i] \in {"nothing", "before"} => \A f \in effects : f.n # i
                                  /\ outcome[i] = "done" => \E f \in effects : f.n = i
    BY DEF CalInv, WritesInOrder, Stands, Undone, Done
  <2>3. ASSUME NEW S PROVE Cal!Cardinality(S) = Cardinality(S)
    BY DEF Cal!Cardinality, Cardinality
  <2>4. Cal!WritesAreTrue
    BY <2>1, <2>2, <2>3, Zenon DEF Cal!WritesAreTrue
  <2> QED
    BY <2>4 DEF WritesAreTrue
<1> QED
  BY <1>1, CalAlways, PTL

----------------------------------------------------------------------------
(* The send window.                                                        *)

\* A finite set with a strict order that compares any two of it has an enumeration in that
\* order: what the sort of SendWindow.recent returns.
LEMMA AnOrderSorts ==
    ASSUME NEW S, IsFiniteSet(S), NEW R,
           \A x \in S : <<x, x>> \notin R,
           \A x, y, z \in S : <<x, y>> \in R /\ <<y, z>> \in R => <<x, z>> \in R,
           \A x, y \in S : x = y \/ <<x, y>> \in R \/ <<y, x>> \in R
    PROVE  \E f \in [1 .. Cardinality(S) -> S] :
             /\ \A i, j \in 1 .. Cardinality(S) : i # j => f[i] # f[j]
             /\ \A i, j \in 1 .. Cardinality(S) : i < j => <<f[i], f[j]>> \in R
<1> DEFINE n == Cardinality(S)
           N == 1 .. n
           below(x) == {y \in S : <<y, x>> \in R}
           rank == [x \in S |-> Cardinality(below(x)) + 1]
<1>1. IsFiniteSet(S) /\ Cardinality(S) = n /\ n \in Nat
  BY FS_CardinalityType
<1> HIDE DEF n
<1>0. IsFiniteSet(N) /\ Cardinality(N) = n
  BY <1>1, FS_Interval
<1>2. \A x \in S : IsFiniteSet(below(x)) /\ Cardinality(below(x)) \in 0 .. n - 1
  <2> SUFFICES ASSUME NEW x \in S PROVE IsFiniteSet(below(x)) /\ Cardinality(below(x)) \in 0 .. n - 1
    OBVIOUS
  <2>1. below(x) \in SUBSET S /\ x \notin below(x)
    OBVIOUS
  <2> HIDE DEF below
  <2>2. IsFiniteSet(below(x)) /\ Cardinality(below(x)) <= n /\ (Cardinality(S) = Cardinality(below(x)) => S = below(x))
    BY <1>1, <2>1, FS_Subset
  <2>3. Cardinality(below(x)) \in Nat
    BY <2>2, FS_CardinalityType
  <2>4. Cardinality(below(x)) # n
    BY <1>1, <2>1, <2>2
  <2> QED
    BY <1>1, <2>2, <2>3, <2>4
<1>3. \A x, y \in S : <<x, y>> \in R => Cardinality(below(x)) < Cardinality(below(y))
  <2> SUFFICES ASSUME NEW x \in S, NEW y \in S, <<x, y>> \in R
               PROVE  Cardinality(below(x)) < Cardinality(below(y))
    OBVIOUS
  <2>1. below(x) \in SUBSET below(y) /\ x \in below(y) /\ x \notin below(x)
    OBVIOUS
  <2>2. /\ Cardinality(below(x)) <= Cardinality(below(y))
        /\ Cardinality(below(y)) = Cardinality(below(x)) => below(y) = below(x)
    <3> HIDE DEF below
    <3> QED
      BY <1>2, <2>1, FS_Subset
  <2>3. Cardinality(below(x)) # Cardinality(below(y))
    BY <2>1, <2>2
  <2> HIDE DEF below
  <2>4. Cardinality(below(x)) \in Int /\ Cardinality(below(y)) \in Int
    BY <1>2
  <2> QED
    BY <2>2, <2>3, <2>4
<1> HIDE DEF below
<1>4. rank \in [S -> N] /\ \A x \in S : rank[x] = Cardinality(below(x)) + 1
  <2>1. \A x \in S : Cardinality(below(x)) + 1 \in N
    BY <1>1, <1>2
  <2> QED
    BY <2>1
<1> HIDE DEF rank
<1>5. \A x, y \in S : <<x, y>> \in R => rank[x] < rank[y]
  BY <1>2, <1>3, <1>4
<1>6. \A x, y \in S : rank[x] = rank[y] => x = y
  <2> SUFFICES ASSUME NEW x \in S, NEW y \in S, rank[x] = rank[y], x # y PROVE FALSE
    OBVIOUS
  <2>1. <<x, y>> \in R \/ <<y, x>> \in R
    OBVIOUS
  <2>2. rank[x] \in Int /\ rank[y] \in Int
    BY <1>4
  <2> QED
    BY <1>5, <2>1, <2>2
<1>7. rank \in Injection(S, N)
  BY <1>4, <1>6 DEF Injection, IsInjective
<1>8. rank \in Surjection(S, N)
  BY <1>0, <1>1, <1>7, FS_Injection
<1>9. \A i \in N : \E x \in S : rank[x] = i
  BY <1>8 DEF Surjection
<1> DEFINE f == [i \in N |-> CHOOSE x \in S : rank[x] = i]
<1>10. \A i \in N : f[i] \in S /\ rank[f[i]] = i
  BY <1>9
<1>11. f \in [N -> S]
  BY <1>10
<1> HIDE DEF f
<1>12. \A i, j \in N : i # j => f[i] # f[j]
  BY <1>10
<1>13. \A i, j \in N : i < j => <<f[i], f[j]>> \in R
  <2> SUFFICES ASSUME NEW i \in N, NEW j \in N, i < j PROVE <<f[i], f[j]>> \in R
    OBVIOUS
  <2>1. f[i] \in S /\ f[j] \in S /\ rank[f[i]] = i /\ rank[f[j]] = j
    BY <1>10
  <2>2. <<f[j], f[i]>> \notin R
    BY <1>5, <2>1
  <2>3. f[i] # f[j]
    BY <2>1
  <2> QED
    BY <2>1, <2>2, <2>3
<1> QED
  BY <1>1, <1>11, <1>12, <1>13

\* A set into which a set is mapped one to one has as many elements at least.
LEMMA NoFewer ==
    ASSUME NEW S, NEW T, IsFiniteSet(T), NEW f \in [S -> T],
           \A x, y \in S : x # y => f[x] # f[y]
    PROVE  IsFiniteSet(S) /\ Cardinality(S) <= Cardinality(T)
<1>1. f \in Injection(S, T)
  BY DEF Injection, IsInjective
<1> QED
  BY <1>1, FS_Injection

WindowEntry == [now : Int, limit : Nat, from : Int, lost : {"no", "trouble", "passed"}]
OnTime(now) == now \in Int /\ now <= ahead /\ ahead <= now + Skew

\* Where a send is: it is let go on only while there is room, at a time that the clock has
\* not passed by more than the skew, and a refusal names the time it worked out.
SenderFits ==
    \/ sender = Window!Resting
    \/ \E now \in Int : sender = [at |-> "admit", now |-> now] /\ OnTime(now)
    \/ \E now \in Int, limit \in Limits, window \in Windows :
         /\ sender = [at |-> "ask", now |-> now, limit |-> limit, window |-> window]
         /\ OnTime(now) /\ Len(Window!Recent(now, window)) < limit
    \/ \E now \in Int, limit \in Limits, window \in Windows :
         /\ sender = [at |-> "refused", now |-> now, limit |-> limit, window |-> window,
                      retryAt |-> Window!RoomAt(Window!Recent(now, window), limit, window)]
         /\ OnTime(now) /\ ~(Len(Window!Recent(now, window)) < limit)
    \/ \E now \in Int, window \in Windows, out \in BOOLEAN :
         /\ sender = [at |-> "record", now |-> now, window |-> window, gone |-> out]
         /\ OnTime(now) /\ Len(Window!Recent(now, window)) < MaxSendLimit
         /\ out => Len(went) # 0 /\ went[Len(went)].now = now

\* The sends that are counted: not lost, in a window that is still kept, and recorded.
Pending == IF sender.at = "record" /\ sender.gone THEN {Len(went)} ELSE {}
Counted == {j \in DOMAIN went : went[j].lost = "no" /\ went[j].now > pruned} \ Pending

\* Each of them has a time of its own in KV.
TimesOf(C, t) ==
    \E f \in [C -> DOMAIN t] : /\ \A j, k \in C : j # k => f[j] # f[k]
                               /\ \A j \in C : t[f[j]] = went[j].now

\* Only the twilio adapter leaves out a send for its answer.
LeftOut == \A i \in DOMAIN went : went[i].lost = "passed" => via = "twilio"

WindowInv ==
    /\ times \in Seq(Int) /\ went \in Seq(WindowEntry) /\ ahead \in Int /\ pruned \in Int
    /\ SenderFits
    /\ \A i \in DOMAIN times : times[i] <= ahead
    /\ TimesOf(Counted, times)
    /\ Window!WindowHolds
    /\ LeftOut

\* recent: the times of the window, each once and in order.
LEMMA RecentSorts ==
    ASSUME times \in Seq(Int), NEW now \in Int, NEW window \in Int
    PROVE  LET kept == Window!InWindow(now, window)
               n == Cardinality(kept)
           IN  /\ IsFiniteSet(kept) /\ n \in Nat
               /\ Window!Recent(now, window) \in Seq(Int) /\ Len(Window!Recent(now, window)) = n
               /\ \E order \in [1 .. n -> kept] :
                    /\ \A i, j \in 1 .. n : i # j => order[i] # order[j]
                    /\ \A k \in kept : \E i \in 1 .. n : order[i] = k
                    /\ \A i, j \in 1 .. n : i < j => times[order[i]] <= times[order[j]]
                    /\ \A i \in 1 .. n : Window!Recent(now, window)[i] = times[order[i]]
<1> DEFINE kept == Window!InWindow(now, window)
           n == Cardinality(kept)
           R == {p \in kept \X kept : times[p[1]] < times[p[2]] \/ (times[p[1]] = times[p[2]] /\ p[1] < p[2])}
<1>1. /\ kept \in SUBSET (1 .. Len(times)) /\ Len(times) \in Nat
      /\ \A k \in kept : k \in Int /\ times[k] \in Int
  BY DEF Window!InWindow
<1> HIDE DEF kept
<1>2. IsFiniteSet(kept) /\ n \in Nat
  <2>1. IsFiniteSet(1 .. Len(times))
    BY <1>1, FS_Interval
  <2>2. IsFiniteSet(kept)
    BY <1>1, <2>1, FS_Subset
  <2> QED
    BY <2>2, FS_CardinalityType
<1>3. PICK f \in [1 .. n -> kept] :
        /\ \A i, j \in 1 .. n : i # j => f[i] # f[j]
        /\ \A i, j \in 1 .. n : i < j => <<f[i], f[j]>> \in R
  <2>1. /\ \A x \in kept : <<x, x>> \notin R
        /\ \A x, y, z \in kept : <<x, y>> \in R /\ <<y, z>> \in R => <<x, z>> \in R
        /\ \A x, y \in kept : x = y \/ <<x, y>> \in R \/ <<y, x>> \in R
    BY <1>1
  <2> HIDE DEF R
  <2> QED
    BY <1>2, <2>1, AnOrderSorts
<1>4. Window!Cardinality(kept) = n
  BY DEF Window!Cardinality, Cardinality
<1>5. Window!SetToSeqs(kept) = {g \in [1 .. n -> kept] : \A i, j \in 1 .. n : i # j => g[i] # g[j]}
  BY <1>4 DEF Window!SetToSeqs
<1> DEFINE order == CHOOSE o \in Window!SetToSeqs(kept) : Window!Ordered(o)
<1>6. order \in Window!SetToSeqs(kept) /\ Window!Ordered(order)
  <2>1. f \in Window!SetToSeqs(kept)
    BY <1>3, <1>5
  <2>2. Window!Ordered(f)
    <3>1. ASSUME NEW i \in 1 .. n, NEW j \in 1 .. n, i < j PROVE times[f[i]] <= times[f[j]]
      <4>1. <<f[i], f[j]>> \in R /\ f[i] \in kept /\ f[j] \in kept
        BY <1>3, <3>1
      <4>2. times[f[i]] \in Int /\ times[f[j]] \in Int
        BY <1>1, <4>1
      <4>3. times[f[i]] < times[f[j]] \/ times[f[i]] = times[f[j]]
        BY <4>1
      <4> QED
        BY <4>2, <4>3
    <3> QED
      BY <1>3, <3>1 DEF Window!Ordered
  <2> QED
    BY <2>1, <2>2
<1>7. Window!Recent(now, window) = [i \in DOMAIN order |-> times[order[i]]]
  BY DEF Window!Recent, kept
<1> HIDE DEF order, n
<1>8. /\ order \in [1 .. n -> kept] /\ \A i, j \in 1 .. n : i # j => order[i] # order[j]
      /\ \A i, j \in 1 .. n : i < j => times[order[i]] <= times[order[j]]
  BY <1>5, <1>6 DEF Window!Ordered
<1>9. \A k \in kept : \E i \in 1 .. n : order[i] = k
  <2>1. order \in Injection(1 .. n, kept)
    BY <1>8 DEF Injection, IsInjective
  <2>2. IsFiniteSet(1 .. n) /\ Cardinality(1 .. n) = n
    BY <1>2, FS_Interval
  <2>3. order \in Surjection(1 .. n, kept)
    BY <1>2, <2>1, <2>2, FS_Injection DEF n
  <2> QED
    BY <2>3 DEF Surjection
<1>10. /\ Window!Recent(now, window) = [i \in 1 .. n |-> times[order[i]]]
       /\ Window!Recent(now, window) \in Seq(Int) /\ Len(Window!Recent(now, window)) = n
  <2>1. \A i \in 1 .. n : times[order[i]] \in Int
    BY <1>1, <1>8
  <2> QED
    BY <1>2, <1>7, <1>8, <2>1
<1> QED
  BY <1>2, <1>8, <1>9, <1>10 DEF kept, n

\* The same, of one sequence, one set and one order.
AsRecent(K, s, n, now, window) ==
    /\ K = Window!InWindow(now, window) /\ s = Window!Recent(now, window)
    /\ IsFiniteSet(K) /\ n = Cardinality(K) /\ Len(s) = n
    /\ \E order \in [1 .. n -> K] :
         /\ \A i, j \in 1 .. n : i # j => order[i] # order[j]
         /\ \A k \in K : \E i \in 1 .. n : order[i] = k
         /\ \A i, j \in 1 .. n : i < j => times[order[i]] <= times[order[j]]
         /\ \A i \in 1 .. n : s[i] = times[order[i]]

LEMMA RecentIsInOrder ==
    ASSUME times \in Seq(Int), NEW now \in Int, NEW window \in Int
    PROVE  \E K \in SUBSET DOMAIN times, s \in Seq(Int), n \in Nat : AsRecent(K, s, n, now, window)
<1> DEFINE K == Window!InWindow(now, window)
           s == Window!Recent(now, window)
           n == Cardinality(K)
<1>1. K \in SUBSET DOMAIN times
  BY DEF Window!InWindow
<1>2. /\ IsFiniteSet(K) /\ n \in Nat /\ s \in Seq(Int) /\ Len(s) = n
      /\ \E order \in [1 .. n -> K] :
           /\ \A i, j \in 1 .. n : i # j => order[i] # order[j]
           /\ \A k \in K : \E i \in 1 .. n : order[i] = k
           /\ \A i, j \in 1 .. n : i < j => times[order[i]] <= times[order[j]]
           /\ \A i \in 1 .. n : s[i] = times[order[i]]
  BY RecentSorts
<1>3. PICK kept, recent, many :
        /\ kept = Window!InWindow(now, window) /\ recent = Window!Recent(now, window)
        /\ many = Cardinality(kept)
  OBVIOUS
<1>4. kept \in SUBSET DOMAIN times /\ recent \in Seq(Int) /\ many \in Nat
  BY <1>1, <1>2, <1>3
<1>5. IsFiniteSet(kept) /\ Len(recent) = many
  BY <1>2, <1>3
<1>6. kept = K /\ recent = s /\ many = n
  BY <1>3
<1>7. \E order \in [1 .. n -> K] :
        /\ \A i, j \in 1 .. n : i # j => order[i] # order[j]
        /\ \A k \in K : \E i \in 1 .. n : order[i] = k
        /\ \A i, j \in 1 .. n : i < j => times[order[i]] <= times[order[j]]
        /\ \A i \in 1 .. n : s[i] = times[order[i]]
  BY <1>2
<1> HIDE DEF K, s, n
<1>8. \E order \in [1 .. many -> kept] :
        /\ \A i, j \in 1 .. many : i # j => order[i] # order[j]
        /\ \A k \in kept : \E i \in 1 .. many : order[i] = k
        /\ \A i, j \in 1 .. many : i < j => times[order[i]] <= times[order[j]]
        /\ \A i \in 1 .. many : recent[i] = times[order[i]]
  BY <1>6, <1>7
<1>9. /\ kept = Window!InWindow(now, window) /\ recent = Window!Recent(now, window)
      /\ IsFiniteSet(kept) /\ many = Cardinality(kept) /\ Len(recent) = many
  BY <1>3, <1>5
<1>10. AsRecent(kept, recent, many, now, window)
  BY <1>8, <1>9 DEF AsRecent
<1> QED
  BY <1>4, <1>10

\* The sends of a window that is still kept, up to now, are no more than recent lists.
LEMMA CountedAreRecent ==
    ASSUME WindowInv, NEW now, OnTime(now), NEW window \in Int, NEW from \in Int,
           from >= pruned, from >= now - window
    PROVE  LET C == {j \in Counted : went[j].now > from}
           IN  IsFiniteSet(C) /\ Cardinality(C) <= Len(Window!Recent(now, window))
<1> DEFINE C == {j \in Counted : went[j].now > from}
           kept == Window!InWindow(now, window)
<1>1. PICK f \in [Counted -> DOMAIN times] :
        /\ \A j, k \in Counted : j # k => f[j] # f[k]
        /\ \A j \in Counted : times[f[j]] = went[j].now
  BY DEF WindowInv, TimesOf
<1>2. \A j \in C : f[j] \in kept
  <2> SUFFICES ASSUME NEW j \in C PROVE f[j] \in kept
    OBVIOUS
  <2>1. f[j] \in DOMAIN times /\ times[f[j]] = went[j].now /\ went[j].now > from
    BY <1>1
  <2>2. times[f[j]] \in Int /\ times[f[j]] <= ahead /\ ahead \in Int /\ now \in Int /\ ahead <= now + Skew
    BY <2>1 DEF WindowInv, OnTime
  <2> QED
    BY <2>1, <2>2, ChannelsAssumption DEF Window!InWindow
<1> DEFINE g == [j \in C |-> f[j]]
<1>3. g \in [C -> kept] /\ \A j, k \in C : j # k => g[j] # g[k]
  <2> HIDE DEF kept
  <2> QED
    BY <1>1, <1>2
<1>4. IsFiniteSet(kept) /\ Len(Window!Recent(now, window)) = Cardinality(kept)
  BY RecentSorts DEF WindowInv, OnTime
<1> HIDE DEF g, kept, C
<1>5. IsFiniteSet(C) /\ Cardinality(C) <= Cardinality(kept)
  BY <1>3, <1>4, NoFewer
<1> QED
  BY <1>4, <1>5 DEF C

LEMMA Latest == \A a, b \in Int : /\ Window!Later(a, b) \in Int /\ a <= Window!Later(a, b) /\ b <= Window!Later(a, b)
                                  /\ Window!Later(a, b) = a \/ Window!Later(a, b) = b
  BY DEF Window!Later

\* What a step leaves alone if it touches neither KV nor the sends.
LEMMA WindowRests ==
    ASSUME WindowInv, UNCHANGED <<via, times, went, pruned>>, ahead' \in Int, ahead <= ahead',
           SenderFits', Pending = {}, Pending' = {}
    PROVE  WindowInv'
<1>1. \A i \in DOMAIN times' : times'[i] <= ahead'
  BY DEF WindowInv
<1>2. Counted' = Counted
  BY DEF Counted
<1>3. TimesOf(Counted, times)'
  BY <1>2 DEF WindowInv, TimesOf
<1>4. Window!WindowHolds'
  BY DEF WindowInv, Window!WindowHolds, Window!WindowOf
<1>5. LeftOut'
  BY DEF WindowInv, LeftOut
<1> QED
  BY <1>1, <1>3, <1>4, <1>5 DEF WindowInv

LEMMA WindowStarts == Window!SendInit => WindowInv
<1> SUFFICES ASSUME Window!SendInit PROVE WindowInv
  OBVIOUS
<1>1. times = <<>> /\ went = <<>> /\ ahead = 0 /\ pruned = 0 - MaxClock /\ sender = Window!Resting
  BY DEF Window!SendInit
<1>2. times \in Seq(Int) /\ went \in Seq(WindowEntry) /\ DOMAIN times = {} /\ DOMAIN went = {}
  BY <1>1
<1>3. pruned \in Int
  BY <1>1, ChannelsAssumption
<1>4. TimesOf(Counted, times)
  <2>1. Counted = {}
    BY <1>2 DEF Counted
  <2>2. [j \in {} |-> 0] \in [{} -> DOMAIN times]
    OBVIOUS
  <2> QED
    BY <2>1, <2>2 DEF TimesOf
<1> QED
  BY <1>1, <1>2, <1>3, <1>4 DEF WindowInv, SenderFits, LeftOut, Window!WindowHolds

\* Admit, up to its verdict (SendWindow.Admit).
LEMMA AdmitKeeps ==
    ASSUME WindowInv, Window!SendStarts \/ Window!Admit \/ Window!AdmitFails \/ Window!Refused
    PROVE  WindowInv'
<1>0. Skew \in Nat /\ Windows \subseteq Nat /\ Limits \subseteq 1 .. MaxSendLimit /\ MaxSendLimit \in Nat
  BY ChannelsAssumption
<1>1. CASE Window!SendStarts
  <2>1. sender = Window!Resting /\ UNCHANGED <<via, times, went, pruned>>
    BY <1>1 DEF Window!SendStarts
  <2>2. PICK now \in Window!Later(0, ahead - Skew) .. MaxClock :
          sender' = [at |-> "admit", now |-> now] /\ ahead' = Window!Later(ahead, now)
    BY <1>1 DEF Window!SendStarts
  <2>3. now \in Int /\ ahead - Skew <= now /\ ahead' \in Int /\ ahead <= ahead' /\ now <= ahead' /\ ahead' <= now + Skew
    <3>1. ahead \in Int /\ ahead - Skew \in Int
      BY <1>0 DEF WindowInv
    <3>2. Window!Later(0, ahead - Skew) \in Int /\ ahead - Skew <= Window!Later(0, ahead - Skew)
      BY <3>1, Latest
    <3>3. now \in Int /\ ahead - Skew <= now
      BY <3>1, <3>2
    <3>4. ahead' \in Int /\ ahead <= ahead' /\ now <= ahead' /\ (ahead' = ahead \/ ahead' = now)
      BY <2>2, <3>1, <3>3, Latest
    <3> QED
      BY <1>0, <3>1, <3>3, <3>4
  <2>4. OnTime(now)'
    BY <2>3 DEF OnTime
  <2>5. SenderFits'
    BY <2>2, <2>3, <2>4 DEF SenderFits
  <2> QED
    BY <2>1, <2>2, <2>3, <2>5, WindowRests DEF Pending, Window!Resting
<1>2. CASE Window!Admit
  <2>1. sender.at = "admit" /\ UNCHANGED <<via, ahead, times, went, pruned>>
    BY <1>2 DEF Window!Admit
  <2>2. PICK now \in Int : sender = [at |-> "admit", now |-> now] /\ OnTime(now)
    BY <2>1 DEF WindowInv, SenderFits, Window!Resting
  <2>3. PICK limit \in Limits, window \in Windows :
          sender' = IF Len(Window!Recent(now, window)) < limit
                    THEN [at |-> "ask", now |-> now, limit |-> limit, window |-> window]
                    ELSE [at |-> "refused", now |-> now, limit |-> limit, window |-> window,
                          retryAt |-> Window!RoomAt(Window!Recent(now, window), limit, window)]
    BY <1>2, <2>2 DEF Window!Admit
  <2>4. OnTime(now)' /\ Window!Recent(now, window)' = Window!Recent(now, window)
    BY <2>1, <2>2 DEF OnTime, Window!Recent, Window!InWindow, Window!Ordered
  <2>5. SenderFits'
    <3>1. CASE Len(Window!Recent(now, window)) < limit
      <4>1. sender' = [at |-> "ask", now |-> now, limit |-> limit, window |-> window]
        BY <2>3, <3>1
      <4>2. Len(Window!Recent(now, window)') < limit
        BY <2>4, <3>1
      <4> QED
        BY <2>2, <2>3, <2>4, <4>1, <4>2 DEF SenderFits
    <3>2. CASE ~(Len(Window!Recent(now, window)) < limit)
      <4>1. sender' = [at |-> "refused", now |-> now, limit |-> limit, window |-> window,
                       retryAt |-> Window!RoomAt(Window!Recent(now, window)', limit, window)]
        BY <2>3, <2>4, <3>2
      <4>2. ~(Len(Window!Recent(now, window)') < limit)
        BY <2>4, <3>2
      <4>3. Window!RoomAt(Window!Recent(now, window), limit, window)'
              = Window!RoomAt(Window!Recent(now, window)', limit, window)
        BY DEF Window!RoomAt
      <4> QED
        BY <2>2, <2>3, <2>4, <4>1, <4>2, <4>3 DEF SenderFits
    <3> QED
      BY <3>1, <3>2
  <2>6. sender'.at # "record"
    BY <2>3
  <2> QED
    BY <2>1, <2>5, <2>6, WindowRests DEF Pending, WindowInv
<1>3. CASE Window!AdmitFails \/ Window!Refused
  <2>1. sender.at \in {"admit", "refused"} /\ sender' = Window!Resting /\ UNCHANGED <<via, ahead, times, went, pruned>>
    BY <1>3 DEF Window!AdmitFails, Window!Refused
  <2>2. SenderFits' /\ Pending = {} /\ Pending' = {}
    BY <2>1 DEF SenderFits, Pending, Window!Resting
  <2> QED
    BY <2>1, <2>2, WindowRests DEF WindowInv
<1> QED
  BY <1>1, <1>2, <1>3

\* A send that goes when there was room for it stays within its limit, and until it is
\* recorded it is not counted.
LEMMA OneWent ==
    ASSUME WindowInv, NEW now \in Int, NEW limit \in Limits, NEW window \in Windows,
           NEW lost \in {"no", "trouble", "passed"},
           sender = [at |-> "ask", now |-> now, limit |-> limit, window |-> window],
           OnTime(now), Len(Window!Recent(now, window)) < limit,
           went' = Append(went, [now |-> now, limit |-> limit,
                                 from |-> Window!Later(now - window, pruned), lost |-> lost])
    PROVE  /\ went' \in Seq(WindowEntry) /\ Len(went') = Len(went) + 1 /\ went'[Len(went) + 1].now = now
           /\ went'[Len(went) + 1].lost = lost
           /\ DOMAIN went' = DOMAIN went \cup {Len(went) + 1} /\ Len(went) + 1 \notin DOMAIN went
           /\ \A j \in DOMAIN went : went'[j] = went[j]
           /\ Counted \subseteq DOMAIN went
           /\ Window!WindowHolds'
<1> DEFINE from == Window!Later(now - window, pruned)
           e == [now |-> now, limit |-> limit, from |-> from, lost |-> lost]
           C == {j \in Counted : went[j].now > from}
<1>n. PICK n \in Nat : n = Len(went)
  BY DEF WindowInv
<1>0. Skew \in Nat /\ Windows \subseteq Nat /\ limit \in Nat /\ pruned \in Int /\ n \in Nat /\ went \in Seq(WindowEntry)
  BY <1>n, ChannelsAssumption DEF WindowInv
<1>1. from \in Int /\ from >= pruned /\ from >= now - window
  <2>1. now - window \in Int
    BY <1>0
  <2> QED
    BY <1>0, <2>1, Latest
<1> HIDE DEF from
<1>2. e \in WindowEntry
  BY <1>0, <1>1 DEF WindowEntry
<1>3. /\ went' \in Seq(WindowEntry) /\ Len(went') = n + 1 /\ went'[n + 1] = e
      /\ \A j \in 1 .. n : went'[j] = went[j]
      /\ DOMAIN went = 1 .. n /\ DOMAIN went' = 1 .. n + 1 /\ 1 .. n + 1 = (1 .. n) \cup {n + 1}
  <2> HIDE DEF e
  <2>1. went' = Append(went, e)
    BY DEF e, from
  <2> QED
    BY <1>n, <1>0, <1>2, <2>1
<1>4. IsFiniteSet(C) /\ Cardinality(C) < limit
  <2>0. window \in Int
    BY <1>0
  <2>1. IsFiniteSet(C) /\ Cardinality(C) <= Len(Window!Recent(now, window))
    BY <1>1, <2>0, CountedAreRecent
  <2>2. Len(Window!Recent(now, window)) \in Nat
    BY <1>0, RecentSorts DEF WindowInv
  <2> HIDE DEF C
  <2>3. Cardinality(C) \in Nat
    BY <2>1, FS_CardinalityType
  <2> QED
    BY <1>0, <2>1, <2>2, <2>3
<1>5. Counted = {j \in DOMAIN went : went[j].lost = "no" /\ went[j].now > pruned}
  BY DEF Counted, Pending
<1>6. Window!WindowOf(n + 1)' = C \cup {n + 1} /\ n + 1 \notin C
  <2>1. \A j \in 1 .. n : (went[j].now > from /\ went[j].lost = "no") <=> j \in C
    <3> SUFFICES ASSUME NEW j \in 1 .. n PROVE (went[j].now > from /\ went[j].lost = "no") <=> j \in C
      OBVIOUS
    <3>1. went[j] \in WindowEntry
      BY <1>n, <1>0
    <3>2. went[j].now \in Int
      BY <3>1 DEF WindowEntry
    <3>3. went[j].now > from => went[j].now > pruned
      BY <1>0, <1>1, <3>2
    <3> QED
      BY <1>3, <1>5, <3>3
  <2>2. Window!WindowOf(n + 1)' = {j \in 1 .. n + 1 : j = n + 1 \/ (went'[j].now > went'[n + 1].from /\ went'[j].lost = "no")}
    BY DEF Window!WindowOf
  <2>3. went'[n + 1].from = from
    BY <1>3
  <2>4. C \subseteq 1 .. n
    BY <1>3, <1>5
  <2>5. \A j \in 1 .. n : (went'[j].now > went'[n + 1].from /\ went'[j].lost = "no") <=> j \in C
    BY <1>3, <2>1, <2>3
  <2> HIDE DEF C, e
  <2>6. n + 1 \notin C
    BY <1>0, <2>4
  <2>7. ASSUME NEW j PROVE j \in Window!WindowOf(n + 1)' <=> j \in C \cup {n + 1}
    <3>1. j \in 1 .. n + 1 <=> j \in 1 .. n \/ j = n + 1
      BY <1>0
    <3> QED
      BY <2>2, <2>4, <2>5, <3>1
  <2> QED
    BY <2>6, <2>7
<1>7. Cardinality(C \cup {n + 1}) <= limit
  <2> HIDE DEF C
  <2>1. Cardinality(C \cup {n + 1}) = Cardinality(C) + 1 /\ Cardinality(C) \in Nat
    BY <1>4, <1>6, FS_AddElement, FS_CardinalityType
  <2> QED
    BY <1>0, <1>4, <2>1
<1>8. \A S : Window!Cardinality(S) = Cardinality(S)
  BY DEF Window!Cardinality, Cardinality
<1>9. ASSUME NEW i \in 1 .. n PROVE Window!WindowOf(i)' = Window!WindowOf(i)
  <2>1. \A j \in 1 .. i : went'[j] = went[j]
    BY <1>0, <1>3, <1>9
  <2>2. i \in 1 .. i
    BY <1>0, <1>9
  <2>3. Window!WindowOf(i)' = {j \in 1 .. i : j = i \/ (went'[j].now > went'[i].from /\ went'[j].lost = "no")}
    BY DEF Window!WindowOf
  <2>4. \A j \in 1 .. i : (went'[j].now > went'[i].from /\ went'[j].lost = "no")
                           <=> (went[j].now > went[i].from /\ went[j].lost = "no")
    BY <2>1, <2>2
  <2> QED
    BY <2>3, <2>4 DEF Window!WindowOf
<1>10. Window!WindowHolds'
  <2> SUFFICES ASSUME NEW i \in DOMAIN went' PROVE Window!Cardinality(Window!WindowOf(i)') <= went'[i].limit
    BY DEF Window!WindowHolds
  <2>1. CASE i = n + 1
    <3>1. went'[i].limit = limit
      BY <1>3, <2>1
    <3> QED
      BY <1>6, <1>7, <1>8, <2>1, <3>1
  <2>2. CASE i \in 1 .. n
    <3>1. Window!Cardinality(Window!WindowOf(i)) <= went[i].limit
      BY <1>3, <2>2 DEF WindowInv, Window!WindowHolds
    <3> QED
      BY <1>3, <1>9, <2>2, <3>1
  <2> QED
    BY <1>3, <2>1, <2>2
<1> QED
  BY <1>n, <1>0, <1>3, <1>5, <1>10

\* The request and its answer (the senders' calls between Admit and Record).
LEMMA PostKeeps == ASSUME WindowInv, Window!Post \/ Window!KilledAsking PROVE WindowInv'
<1>0. Skew \in Nat /\ Windows \subseteq Nat /\ Limits \subseteq 1 .. MaxSendLimit /\ MaxSendLimit \in Nat
  BY ChannelsAssumption
<1>1. sender.at = "ask" /\ UNCHANGED <<via, ahead, times, pruned>>
  BY DEF Window!Post, Window!KilledAsking
<1>2. PICK now \in Int, limit \in Limits, window \in Windows :
        /\ sender = [at |-> "ask", now |-> now, limit |-> limit, window |-> window]
        /\ OnTime(now) /\ Len(Window!Recent(now, window)) < limit
  BY <1>1 DEF WindowInv, SenderFits, Window!Resting
<1>3. /\ OnTime(now)' /\ Window!Recent(now, window)' = Window!Recent(now, window)
      /\ Len(Window!Recent(now, window)) < MaxSendLimit
  <2>1. OnTime(now)' /\ Window!Recent(now, window)' = Window!Recent(now, window)
    BY <1>1, <1>2 DEF OnTime, Window!Recent, Window!InWindow, Window!Ordered
  <2>2. Len(Window!Recent(now, window)) \in Nat
    BY <1>0, RecentSorts DEF WindowInv
  <2> QED
    BY <1>0, <1>2, <2>1, <2>2
<1>4. Counted = {j \in DOMAIN went : went[j].lost = "no" /\ went[j].now > pruned}
  BY <1>1 DEF Counted, Pending
\* Nothing went.
<1>5. ASSUME went' = went,
             \/ sender' = Window!Resting
             \/ sender' = [at |-> "record", now |-> now, window |-> window, gone |-> FALSE]
      PROVE  WindowInv'
  <2>1. SenderFits'
    BY <1>2, <1>3, <1>5 DEF SenderFits
  <2>2. Pending = {} /\ Pending' = {}
    BY <1>1, <1>5 DEF Pending, Window!Resting
  <2> QED
    BY <1>1, <1>5, <2>1, <2>2, WindowRests DEF WindowInv
\* It went.
<1>6. ASSUME NEW lost \in {"no", "trouble", "passed"}, lost = "passed" => via = "twilio",
             went' = Append(went, [now |-> now, limit |-> limit,
                                   from |-> Window!Later(now - window, pruned), lost |-> lost]),
             \/ sender' = Window!Resting /\ lost # "no"
             \/ sender' = [at |-> "record", now |-> now, window |-> window, gone |-> TRUE]
      PROVE  WindowInv'
  <2>1. /\ went' \in Seq(WindowEntry) /\ Len(went') = Len(went) + 1 /\ went'[Len(went) + 1].now = now
        /\ went'[Len(went) + 1].lost = lost
        /\ DOMAIN went' = DOMAIN went \cup {Len(went) + 1} /\ Len(went) + 1 \notin DOMAIN went
        /\ \A j \in DOMAIN went : went'[j] = went[j]
        /\ Counted \subseteq DOMAIN went
        /\ Window!WindowHolds'
    BY <1>2, <1>6, OneWent
  <2>2. Len(went) \in Nat
    BY DEF WindowInv
  <2>3. SenderFits'
    <3>1. Len(went') # 0 /\ went'[Len(went')].now = now
      BY <2>1, <2>2
    <3> QED
      BY <1>2, <1>3, <1>6, <3>1 DEF SenderFits
  <2>4. Counted' = Counted
    <3>1. CASE sender' = Window!Resting /\ lost # "no"
      <4>1. Pending' = {}
        BY <3>1 DEF Pending, Window!Resting
      <4> QED
        BY <1>1, <1>4, <2>1, <3>1, <4>1 DEF Counted
    <3>2. CASE sender' = [at |-> "record", now |-> now, window |-> window, gone |-> TRUE]
      <4>1. Pending' = {Len(went')}
        BY <3>2 DEF Pending
      <4> QED
        BY <1>1, <1>4, <2>1, <4>1 DEF Counted
    <3> QED
      BY <1>6, <3>1, <3>2
  <2>5. TimesOf(Counted, times)'
    <3>1. PICK f \in [Counted -> DOMAIN times] :
            /\ \A j, k \in Counted : j # k => f[j] # f[k]
            /\ \A j \in Counted : times[f[j]] = went[j].now
      BY DEF WindowInv, TimesOf
    <3>2. \A j \in Counted : times[f[j]] = went'[j].now
      BY <2>1, <3>1
    <3> QED
      BY <1>1, <2>4, <3>1, <3>2 DEF TimesOf
  <2>6. \A i \in DOMAIN times' : times'[i] <= ahead'
    BY <1>1 DEF WindowInv
  <2>7. LeftOut'
    BY <1>1, <1>6, <2>1 DEF WindowInv, LeftOut
  <2> QED
    BY <1>1, <2>1, <2>3, <2>5, <2>6, <2>7 DEF WindowInv
<1>7. CASE Window!Post
  <2> DEFINE Why(o) == IF Window!Said(o) = "passed" THEN "passed" ELSE "no"
  <2>0. PICK o \in Window!Outcomes : \E out \in Window!Goes(o) :
          /\ went' = IF out THEN Append(went, Window!Entry(Why(o))) ELSE went
          /\ sender' = IF Window!Counts(Window!Said(o))
                       THEN [at |-> "record", now |-> sender.now, window |-> sender.window, gone |-> out]
                       ELSE Window!Resting
    BY <1>7 DEF Window!Post
  <2>1. PICK out \in Window!Goes(o) :
          /\ went' = IF out THEN Append(went, Window!Entry(Why(o))) ELSE went
          /\ sender' = IF Window!Counts(Window!Said(o))
                       THEN [at |-> "record", now |-> sender.now, window |-> sender.window, gone |-> out]
                       ELSE Window!Resting
    BY <2>0
  <2>2. out \in BOOLEAN
    BY DEF Window!Goes
  <2>3. PICK why \in {"no", "trouble", "passed"} : why = Why(o)
    OBVIOUS
  <2>4. /\ why = "passed" <=> Window!Said(o) = "passed"
        /\ why \in {"no", "passed"}
    BY <2>3
  <2>5. went' = IF out THEN Append(went, Window!Entry(why)) ELSE went
    BY <2>1, <2>3
  <2> HIDE DEF Why
  <2>6. Window!Entry(why) = [now |-> now, limit |-> limit, from |-> Window!Later(now - window, pruned),
                             lost |-> why]
    BY <1>2 DEF Window!Entry
  <2>7. /\ out => Window!Counts(Window!Said(o)) \/ Window!Said(o) = "passed"
        /\ Window!Said(o) = "passed" => via = "twilio"
    <3>1. out => o \in {"taken", "garbled", "lost", "error5xx", "unread"}
      BY DEF Window!Goes, Window!MayGo
    <3>2. /\ o = "taken" => Window!Said(o) = "sent"
          /\ o = "garbled" => Window!Said(o) \in {"sent", "unknown"}
          /\ o = "lost" => Window!Said(o) = "unknown"
          /\ o \in {"error5xx", "unread"} => Window!Said(o) \in {"passed", "unknown"}
      BY DEF Window!Said
    <3>3. o \in {"taken", "garbled", "refused", "denied", "unreached", "lost", "error5xx", "unread"}
      BY DEF Window!Outcomes
    <3>4. Window!Said(o) = "passed" => via = "twilio"
      BY <3>3 DEF Window!Said
    <3> QED
      BY <3>1, <3>2, <3>4 DEF Window!Counts
  <2>8. CASE ~out
    <3>1. went' = went
      BY <2>5, <2>8
    <3>2. \/ sender' = Window!Resting
          \/ sender' = [at |-> "record", now |-> now, window |-> window, gone |-> FALSE]
      <4>1. out = FALSE
        BY <2>2, <2>8
      <4> QED
        BY <1>2, <2>1, <4>1
    <3> QED
      BY <1>5, <3>1, <3>2
  <2>9. CASE out
    <3>1. went' = Append(went, Window!Entry(why)) /\ out = TRUE
      BY <2>2, <2>5, <2>9
    <3>2. \/ sender' = Window!Resting /\ why # "no"
          \/ sender' = [at |-> "record", now |-> now, window |-> window, gone |-> TRUE]
      <4>1. CASE Window!Counts(Window!Said(o))
        BY <1>2, <2>1, <3>1, <4>1
      <4>2. CASE ~Window!Counts(Window!Said(o))
        BY <2>1, <2>4, <2>7, <3>1, <4>2
      <4> QED
        BY <4>1, <4>2
    <3>3. why = "passed" => via = "twilio"
      BY <2>4, <2>7
    <3> QED
      BY <1>6, <2>6, <3>1, <3>2, <3>3
  <2> QED
    BY <2>8, <2>9
<1>8. CASE Window!KilledAsking
  <2>1. PICK out \in BOOLEAN : went' = IF out THEN Append(went, Window!Entry("trouble")) ELSE went
    BY <1>8 DEF Window!KilledAsking
  <2>2. Window!Entry("trouble")
          = [now |-> now, limit |-> limit, from |-> Window!Later(now - window, pruned), lost |-> "trouble"]
    BY <1>2 DEF Window!Entry
  <2>3. sender' = Window!Resting
    BY <1>8 DEF Window!KilledAsking
  <2>4. CASE out
    BY <1>6, <2>1, <2>2, <2>3, <2>4
  <2>5. CASE ~out
    BY <1>5, <2>1, <2>3, <2>5
  <2> QED
    BY <2>4, <2>5
<1> QED
  BY <1>7, <1>8

\* A send that could not be recorded is not counted from then on.
LEMMA NotCountedKeeps == ASSUME WindowInv, Window!NotCounted PROVE WindowInv'
<1>1. /\ sender.at = "record" /\ sender' = Window!Resting /\ UNCHANGED <<via, ahead, times, pruned>>
      /\ went' = IF sender.gone THEN [went EXCEPT ![Len(went)].lost = "trouble"] ELSE went
  BY DEF Window!NotCounted
<1>2. SenderFits' /\ Pending' = {}
  BY <1>1 DEF SenderFits, Pending, Window!Resting
<1>3. CASE ~sender.gone
  <2>1. went' = went /\ Pending = {}
    BY <1>1, <1>3 DEF Pending
  <2> QED
    BY <1>1, <1>2, <2>1, WindowRests DEF WindowInv
<1>4. CASE sender.gone
  <2>n. PICK n \in Nat : n = Len(went)
    BY DEF WindowInv
  <2>1. n # 0 /\ n \in DOMAIN went /\ DOMAIN went = 1 .. n
    <3>1. n # 0
      BY <1>1, <1>4, <2>n DEF WindowInv, SenderFits, Window!Resting
    <3> QED
      BY <2>n, <3>1 DEF WindowInv
  <2>2. went' = [went EXCEPT ![n] = [went[n] EXCEPT !.lost = "trouble"]]
    BY <1>1, <1>4, <2>n
  <2>3. went[n] \in WindowEntry
    BY <2>1 DEF WindowInv
  <2>4. [went[n] EXCEPT !.lost = "trouble"] \in WindowEntry
    BY <2>3 DEF WindowEntry
  <2>5. /\ went' \in Seq(WindowEntry) /\ DOMAIN went' = DOMAIN went
        /\ \A j \in DOMAIN went : /\ j # n => went'[j] = went[j]
                                  /\ went'[j].now = went[j].now /\ went'[j].limit = went[j].limit
                                  /\ went'[j].from = went[j].from
        /\ went'[n].lost = "trouble"
    <3>1. went' \in Seq(WindowEntry) /\ DOMAIN went' = DOMAIN went
      BY <2>1, <2>2, <2>4 DEF WindowInv
    <3>2. went'[n] = [went[n] EXCEPT !.lost = "trouble"] /\ \A j \in DOMAIN went : j # n => went'[j] = went[j]
      BY <2>1, <2>2
    <3>3. /\ went'[n].now = went[n].now /\ went'[n].limit = went[n].limit /\ went'[n].from = went[n].from
          /\ went'[n].lost = "trouble"
      BY <2>3, <3>2 DEF WindowEntry
    <3> QED
      BY <3>1, <3>2, <3>3
  <2>6. Counted' = Counted
    <3>1. Pending = {n}
      BY <1>1, <1>4, <2>n DEF Pending
    <3> QED
      BY <1>1, <1>2, <2>5, <3>1 DEF Counted
  <2>7. TimesOf(Counted, times)'
    <3>1. PICK f \in [Counted -> DOMAIN times] :
            /\ \A j, k \in Counted : j # k => f[j] # f[k]
            /\ \A j \in Counted : times[f[j]] = went[j].now
      BY DEF WindowInv, TimesOf
    <3>2. \A j \in Counted : times[f[j]] = went'[j].now
      BY <2>5, <3>1 DEF Counted
    <3> QED
      BY <1>1, <2>6, <3>1, <3>2 DEF TimesOf
  <2>8. Window!WindowHolds'
    <3>1. \A S : Window!Cardinality(S) = Cardinality(S)
      BY DEF Window!Cardinality, Cardinality
    <3> SUFFICES ASSUME NEW i \in DOMAIN went
                 PROVE  Window!Cardinality(Window!WindowOf(i)') <= went[i].limit
      BY <2>5 DEF Window!WindowHolds
    <3>2. i \in 1 .. n /\ 1 .. i \subseteq DOMAIN went
      BY <2>1
    <3>3. Window!WindowOf(i)' \subseteq Window!WindowOf(i)
      <4>1. Window!WindowOf(i)' = {j \in 1 .. i : j = i \/ (went'[j].now > went'[i].from /\ went'[j].lost = "no")}
        BY DEF Window!WindowOf
      <4>2. \A j \in 1 .. i : (went'[j].now > went'[i].from /\ went'[j].lost = "no")
                               => (went[j].now > went[i].from /\ went[j].lost = "no")
        BY <2>5, <3>2
      <4> QED
        BY <4>1, <4>2 DEF Window!WindowOf
    <3>4. IsFiniteSet(Window!WindowOf(i))
      <4>1. Window!WindowOf(i) \subseteq 1 .. i
        BY DEF Window!WindowOf
      <4>2. IsFiniteSet(1 .. i)
        BY <3>2, FS_Interval
      <4> QED
        BY <4>1, <4>2, FS_Subset
    <3>5. Cardinality(Window!WindowOf(i)') <= Cardinality(Window!WindowOf(i)) /\ IsFiniteSet(Window!WindowOf(i)')
      BY <3>3, <3>4, FS_Subset
    <3>6. Cardinality(Window!WindowOf(i)) <= went[i].limit
      BY <3>1 DEF WindowInv, Window!WindowHolds
    <3>7. Cardinality(Window!WindowOf(i)') \in Nat /\ Cardinality(Window!WindowOf(i)) \in Nat
      BY <3>4, <3>5, FS_CardinalityType
    <3>8. went[i].limit \in Nat
      <4>1. went[i] \in WindowEntry
        BY DEF WindowInv
      <4> QED
        BY <4>1 DEF WindowEntry
    <3> QED
      BY <3>1, <3>5, <3>6, <3>7, <3>8
  <2>9. \A i \in DOMAIN times' : times'[i] <= ahead'
    BY <1>1 DEF WindowInv
  <2>10. LeftOut'
    BY <1>1, <2>5 DEF WindowInv, LeftOut
  <2> QED
    BY <1>1, <1>2, <2>5, <2>7, <2>8, <2>9, <2>10 DEF WindowInv
<1> QED
  BY <1>3, <1>4

\* Record: the times of the window and this one, of which KV holds no more than the limit.
LEMMA RecordKeeps == ASSUME WindowInv, Window!Record PROVE WindowInv'
<1>0. Skew \in Nat /\ Windows \subseteq Nat /\ MaxSendLimit \in Nat
  BY ChannelsAssumption
<1>1. /\ sender.at = "record" /\ sender' = Window!Resting /\ UNCHANGED <<via, ahead, went>>
      /\ times' = Window!Kept(Append(Window!Recent(sender.now, sender.window), sender.now))
      /\ pruned' = Window!Later(pruned, sender.now - sender.window)
  BY DEF Window!Record
<1>2. PICK now \in Int, window \in Windows, out \in BOOLEAN :
        /\ sender = [at |-> "record", now |-> now, window |-> window, gone |-> out]
        /\ OnTime(now) /\ Len(Window!Recent(now, window)) < MaxSendLimit
        /\ out => Len(went) # 0 /\ went[Len(went)].now = now
  BY <1>1 DEF WindowInv, SenderFits, Window!Resting
<1>3. PICK kept \in SUBSET DOMAIN times, s \in Seq(Int), n \in Nat :
        AsRecent(kept, s, n, now, window)
  <2>1. window \in Int /\ times \in Seq(Int)
    BY <1>0 DEF WindowInv
  <2> QED
    BY <2>1, RecentIsInOrder
<1>4. Len(s) = n /\ kept = Window!InWindow(now, window) /\ s = Window!Recent(now, window)
  BY <1>3 DEF AsRecent
<1>5. PICK order \in [1 .. n -> kept] :
        /\ \A k \in kept : \E i \in 1 .. n : order[i] = k
        /\ \A i \in 1 .. n : s[i] = times[order[i]]
  BY <1>3 DEF AsRecent
<1>6. times' = Append(s, now) /\ pruned' = Window!Later(pruned, now - window)
  <2>1. Len(Append(s, now)) = n + 1 /\ ~(n + 1 > MaxSendLimit)
    BY <1>0, <1>2, <1>4
  <2>2. Window!Kept(Append(s, now)) = Append(s, now)
    BY <2>1 DEF Window!Kept
  <2> QED
    BY <1>1, <1>2, <1>4, <2>2
<1>7. /\ times' \in Seq(Int) /\ DOMAIN times' = 1 .. n + 1 /\ times'[n + 1] = now
      /\ \A i \in 1 .. n : times'[i] = s[i]
      /\ n + 1 \notin 1 .. n /\ 1 .. n + 1 = (1 .. n) \cup {n + 1}
  BY <1>3, <1>4, <1>6
<1>8. /\ pruned' \in Int /\ pruned <= pruned' /\ now - window <= pruned'
  <2>1. pruned \in Int /\ now - window \in Int
    BY <1>0 DEF WindowInv
  <2> QED
    BY <1>6, <2>1, Latest
<1>9. \A i \in DOMAIN times' : times'[i] <= ahead'
  <2>1. \A i \in 1 .. n : s[i] <= ahead
    <3>1. \A k \in kept : k \in DOMAIN times
      BY <1>3, <1>4
    <3> QED
      BY <1>5, <3>1 DEF WindowInv
  <2>2. now <= ahead
    BY <1>2 DEF OnTime
  <2> QED
    BY <1>1, <1>7, <2>1, <2>2
<1>10. SenderFits' /\ Pending' = {}
  BY <1>1 DEF SenderFits, Pending, Window!Resting
<1>11. Window!WindowHolds'
  BY <1>1 DEF WindowInv, Window!WindowHolds, Window!WindowOf
<1>12. TimesOf(Counted, times)'
  <2>1. Counted' = {j \in DOMAIN went : went[j].lost = "no" /\ went[j].now > pruned'}
    BY <1>1, <1>10 DEF Counted
  <2>2. \A j \in Counted' : j \in Counted \/ j \in Pending
    <3> SUFFICES ASSUME NEW j \in Counted' PROVE j \in Counted \/ j \in Pending
      OBVIOUS
    <3>1. j \in DOMAIN went /\ went[j].lost = "no" /\ went[j].now > pruned'
      BY <2>1
    <3>2. went[j] \in WindowEntry
      BY <3>1 DEF WindowInv
    <3>3. went[j].now \in Int /\ pruned \in Int
      BY <3>2 DEF WindowEntry, WindowInv
    <3> QED
      BY <1>8, <3>1, <3>3 DEF Counted
  <2>3. Counted \cap Pending = {}
    BY DEF Counted
  <2>4. PICK f \in [Counted -> DOMAIN times] :
          /\ \A j, k \in Counted : j # k => f[j] # f[k]
          /\ \A j \in Counted : times[f[j]] = went[j].now
    BY DEF WindowInv, TimesOf
  <2>5. \A j \in Counted' : j \in Counted => f[j] \in kept
    <3> SUFFICES ASSUME NEW j \in Counted', j \in Counted PROVE f[j] \in kept
      OBVIOUS
    <3>1. f[j] \in DOMAIN times /\ times[f[j]] = went[j].now /\ went[j].now > pruned'
      BY <2>1, <2>4
    <3>2. times[f[j]] \in Int /\ times[f[j]] <= ahead /\ ahead \in Int /\ now \in Int /\ ahead <= now + Skew
      BY <1>2, <3>1 DEF WindowInv, OnTime
    <3>3. now - window \in Int
      BY <1>0
    <3> QED
      BY <1>0, <1>4, <1>8, <3>1, <3>2, <3>3 DEF Window!InWindow
  <2> DEFINE D == Counted'
             place(j) == CHOOSE i \in 1 .. n : order[i] = f[j]
             h == [j \in D |-> IF j \in Counted THEN place(j) ELSE n + 1]
  <2>6. \A j \in D : j \in Counted => place(j) \in 1 .. n /\ order[place(j)] = f[j]
    <3> QED
      BY <1>5, <2>5
  <2> HIDE DEF place, D
  <2>7. \A j, k \in D : j # k => h[j] # h[k]
    <3> SUFFICES ASSUME NEW j \in D, NEW k \in D, h[j] = h[k] PROVE j = k
      OBVIOUS
    <3>1. CASE j \in Counted /\ k \in Counted
      <4>1. place(j) = place(k)
        BY <3>1
      <4> QED
        BY <2>4, <2>6, <3>1, <4>1
    <3>2. CASE j \notin Counted /\ k \notin Counted
      BY <2>2, <3>2 DEF Pending, D
    <3>3. CASE j \in Counted /\ k \notin Counted
      <4>1. h[j] \in 1 .. n /\ h[k] = n + 1
        BY <2>6, <3>3
      <4> HIDE DEF h
      <4> QED
        BY <1>7, <4>1
    <3>4. CASE j \notin Counted /\ k \in Counted
      <4>1. h[k] \in 1 .. n /\ h[j] = n + 1
        BY <2>6, <3>4
      <4> HIDE DEF h
      <4> QED
        BY <1>7, <4>1
    <3> QED
      BY <3>1, <3>2, <3>3, <3>4
  <2>8. h \in [D -> DOMAIN times'] /\ \A j \in D : times'[h[j]] = went[j].now
    <3> SUFFICES ASSUME NEW j \in D PROVE h[j] \in DOMAIN times' /\ times'[h[j]] = went[j].now
      OBVIOUS
    <3>1. CASE j \in Counted
      <4>1. h[j] \in 1 .. n /\ order[h[j]] = f[j]
        BY <2>6, <3>1
      <4> HIDE DEF h
      <4>2. times'[h[j]] = times[f[j]]
        BY <1>5, <1>7, <4>1
      <4> QED
        BY <1>7, <2>4, <3>1, <4>1, <4>2
    <3>2. CASE j \notin Counted
      <4>1. h[j] = n + 1 /\ j \in Pending
        BY <2>2, <3>2 DEF D
      <4>2. j = Len(went) /\ out
        BY <1>2, <4>1 DEF Pending
      <4> HIDE DEF h
      <4> QED
        BY <1>2, <1>7, <4>1, <4>2
    <3> QED
      BY <3>1, <3>2
  <2> HIDE DEF h
  <2> QED
    BY <1>1, <2>7, <2>8 DEF TimesOf, D
<1> QED
  BY <1>1, <1>7, <1>8, <1>9, <1>10, <1>11, <1>12 DEF WindowInv, LeftOut

LEMMA WindowSteps == [Next]_vars => [Window!SendNext]_sendVars
  BY DEF Next, vars, NotMail, NotPoll, NotSetup, sendVars

LEMMA WindowStays == WindowInv /\ [Window!SendNext]_sendVars => WindowInv'
<1> SUFFICES ASSUME WindowInv, [Window!SendNext]_sendVars PROVE WindowInv'
  OBVIOUS
<1>1. CASE UNCHANGED sendVars
  <2>1. UNCHANGED <<via, ahead, times, sender, went, pruned>>
    BY <1>1 DEF sendVars
  <2>2. \A now : OnTime(now)' <=> OnTime(now)
    BY <2>1 DEF OnTime
  <2>3. \A now, window : Window!Recent(now, window)' = Window!Recent(now, window)
    BY <2>1 DEF Window!Recent, Window!InWindow, Window!Ordered
  <2>4. SenderFits'
    BY <2>1, <2>2, <2>3 DEF WindowInv, SenderFits
  <2>0. Counted' = Counted
    BY <2>1 DEF Counted, Pending
  <2>5. TimesOf(Counted, times)'
    BY <2>0, <2>1 DEF WindowInv, TimesOf
  <2>6. Window!WindowHolds'
    BY <2>1 DEF WindowInv, Window!WindowHolds, Window!WindowOf
  <2> QED
    BY <2>1, <2>4, <2>5, <2>6 DEF WindowInv, LeftOut
<1> QED
  BY <1>1, AdmitKeeps, PostKeeps, NotCountedKeeps, RecordKeeps DEF Window!SendNext

\* The time a refusal names is the first with room: of the times in order, as many as are
\* too many have left the window then, and not before.
LEMMA RefusalIsExact == WindowInv => Window!RetryIsFirst
<1>0. Skew \in Nat /\ Windows \subseteq Nat /\ Limits \subseteq 1 .. MaxSendLimit /\ MaxSendLimit \in Nat
  BY ChannelsAssumption
<1> SUFFICES ASSUME WindowInv, sender.at = "refused", NEW t \in sender.now .. sender.retryAt
             PROVE  (Len(Window!Recent(t, sender.window)) < sender.limit) = (t = sender.retryAt)
  BY DEF Window!RetryIsFirst
<1>1. PICK now \in Int, limit \in Limits, window \in Windows :
        /\ sender = [at |-> "refused", now |-> now, limit |-> limit, window |-> window,
                     retryAt |-> Window!RoomAt(Window!Recent(now, window), limit, window)]
        /\ OnTime(now) /\ ~(Len(Window!Recent(now, window)) < limit)
  BY DEF WindowInv, SenderFits, Window!Resting
<1>2. times \in Seq(Int) /\ window \in Int /\ limit \in Nat /\ limit >= 1
  BY <1>0 DEF WindowInv
<1> DEFINE later == Window!InWindow(t, window)
<1>3. PICK kept \in SUBSET DOMAIN times, s \in Seq(Int), n \in Nat :
        AsRecent(kept, s, n, now, window)
  BY <1>2, RecentIsInOrder
<1>s. /\ kept = Window!InWindow(now, window) /\ s = Window!Recent(now, window)
      /\ IsFiniteSet(kept) /\ n = Cardinality(kept) /\ Len(s) = n
  BY <1>3 DEF AsRecent
<1>4. PICK order \in [1 .. n -> kept] :
        /\ \A i, j \in 1 .. n : i # j => order[i] # order[j]
        /\ \A k \in kept : \E i \in 1 .. n : order[i] = k
        /\ \A i, j \in 1 .. n : i < j => times[order[i]] <= times[order[j]]
        /\ \A i \in 1 .. n : s[i] = times[order[i]]
  BY <1>3 DEF AsRecent
<1> DEFINE a == n - limit + 1
           retryAt == s[a] + window
<1>5. a \in 1 .. n /\ s[a] \in Int /\ limit <= n /\ \A i \in 1 .. n : s[i] \in Int
  BY <1>1, <1>2, <1>s
<1>6. sender.retryAt = retryAt /\ sender.window = window /\ sender.limit = limit
      /\ t \in Int /\ now <= t /\ t <= retryAt
  <2>1. sender.retryAt = retryAt /\ sender.window = window /\ sender.limit = limit /\ sender.now = now
    BY <1>1, <1>s DEF Window!RoomAt
  <2>2. retryAt \in Int
    BY <1>2, <1>5
  <2> HIDE DEF retryAt
  <2> QED
    BY <2>1, <2>2
<1>7. \A k \in kept : k \in later <=> times[k] > t - window
  <2> SUFFICES ASSUME NEW k \in kept PROVE k \in later <=> times[k] > t - window
    OBVIOUS
  <2>1. k \in DOMAIN times /\ times[k] \in Int /\ times[k] <= now + Skew
    BY <1>2, <1>s DEF Window!InWindow
  <2>2. times[k] <= t + Skew
    BY <1>0, <1>6, <2>1
  <2> QED
    BY <2>1, <2>2 DEF Window!InWindow
<1>8. later \subseteq kept
  <2> SUFFICES ASSUME NEW k \in later PROVE k \in kept
    OBVIOUS
  <2>1. k \in DOMAIN times /\ times[k] \in Int /\ times[k] > t - window
    BY <1>2 DEF Window!InWindow
  <2>2. times[k] <= ahead /\ ahead \in Int /\ ahead <= now + Skew
    BY <1>1, <2>1 DEF WindowInv, OnTime
  <2>3. now \in Int /\ window \in Int /\ t \in Int /\ now <= t /\ Skew \in Int
    BY <1>0, <1>2, <1>6
  <2>4. times[k] > now - window
    BY <2>1, <2>3
  <2>5. times[k] <= now + Skew
    BY <2>1, <2>2, <2>3
  <2> QED
    BY <1>s, <2>1, <2>4, <2>5 DEF Window!InWindow
<1>9. IsFiniteSet(later) /\ Len(Window!Recent(t, window)) = Cardinality(later) /\ Cardinality(later) \in Nat
  <2>1. times \in Seq(Int) /\ t \in Int /\ window \in Int
    BY <1>2, <1>6
  <2>2. PICK K \in SUBSET DOMAIN times, q \in Seq(Int), m \in Nat :
          AsRecent(K, q, m, t, window)
    BY <2>1, RecentIsInOrder
  <2>3. K = later /\ q = Window!Recent(t, window) /\ IsFiniteSet(K) /\ m = Cardinality(K) /\ Len(q) = m
    BY <2>2 DEF AsRecent
  <2> HIDE DEF later
  <2> QED
    BY <2>2, <2>3
<1> HIDE DEF later
<1>10. ASSUME t # retryAt PROVE ~(Cardinality(later) < limit)
  <2> DEFINE f == [i \in a .. n |-> order[i]]
  <2>1. \A i \in a .. n : i \in 1 .. n /\ order[i] \in later
    <3> SUFFICES ASSUME NEW i \in a .. n PROVE i \in 1 .. n /\ order[i] \in later
      OBVIOUS
    <3>1. i \in 1 .. n /\ (i = a \/ a < i)
      BY <1>2, <1>5
    <3>2. s[a] <= s[i] /\ order[i] \in kept /\ s[i] = times[order[i]] /\ s[i] \in Int
      BY <1>4, <1>5, <3>1
    <3>a. PICK first : first = s[a]
      OBVIOUS
    <3>b. first \in Int /\ t \in Int /\ window \in Int /\ t <= first + window /\ t # first + window
          /\ first <= s[i]
      BY <1>2, <1>5, <1>6, <1>10, <3>2, <3>a
    <3>3. s[i] > t - window
      BY <3>2, <3>b
    <3> QED
      BY <1>7, <3>1, <3>2, <3>3
  <2>2. f \in [a .. n -> later] /\ \A i, j \in a .. n : i # j => f[i] # f[j]
    BY <1>4, <2>1
  <2>3. Cardinality(a .. n) <= Cardinality(later)
    <3> HIDE DEF f
    <3> QED
      BY <1>9, <2>2, NoFewer
  <2>4. Cardinality(a .. n) = limit
    <3>1. a \in Int /\ n \in Int /\ a <= n
      BY <1>2, <1>5
    <3>2. Cardinality(a .. n) = n - a + 1
      BY <3>1, FS_Interval
    <3> QED
      BY <1>2, <3>1, <3>2
  <2> QED
    BY <1>2, <1>9, <2>3, <2>4
<1>11. ASSUME t = retryAt PROVE Cardinality(later) < limit
  <2> DEFINE place == [k \in later |-> CHOOSE i \in 1 .. n : order[i] = k]
             rest == a + 1 .. n
  <2>1. \A k \in later : place[k] \in 1 .. n /\ order[place[k]] = k
    BY <1>4, <1>8
  <2>2. \A k \in later : place[k] \in rest
    <3> SUFFICES ASSUME NEW k \in later PROVE place[k] \in rest
      OBVIOUS
    <3>1. place[k] \in 1 .. n /\ order[place[k]] = k
      BY <2>1
    <3>i. PICK i \in 1 .. n : i = place[k]
      BY <3>1
    <3>2. times[k] > t - window
      BY <1>7, <1>8
    <3>a. PICK first : first = s[a]
      OBVIOUS
    <3>b. first \in Int /\ window \in Int /\ t = first + window
      BY <1>2, <1>5, <1>11, <3>a
    <3>c. s[i] = times[k] /\ s[i] \in Int
      BY <1>4, <1>5, <3>1, <3>i
    <3>d. s[i] > first
      BY <3>2, <3>b, <3>c
    <3>3. s[i] > s[a]
      BY <3>a, <3>d
    <3>4. ~(i <= a)
      <4>1. i <= a => i = a \/ i < a
        BY <1>5
      <4>2. i < a => s[i] <= s[a]
        BY <1>4, <1>5
      <4> QED
        BY <1>5, <3>3, <4>1, <4>2
    <3> QED
      BY <1>2, <1>5, <3>i, <3>4
  <2>3. place \in [later -> rest] /\ \A k, m \in later : k # m => place[k] # place[m]
    <3>1. \A k, m \in later : k # m => place[k] # place[m]
      BY <2>1
    <3> QED
      BY <2>2, <3>1
  <2>4. IsFiniteSet(rest) /\ Cardinality(rest) = limit - 1
    <3>1. a + 1 \in Int /\ n \in Int /\ a + 1 <= n + 1
      BY <1>2, <1>5
    <3>2. IsFiniteSet(rest) /\ Cardinality(rest) = IF a + 1 > n THEN 0 ELSE n - (a + 1) + 1
      BY <3>1, FS_Interval
    <3> QED
      BY <1>2, <1>5, <3>1, <3>2
  <2>5. Cardinality(later) <= Cardinality(rest)
    <3> HIDE DEF place, rest
    <3> QED
      BY <2>3, <2>4, NoFewer
  <2> QED
    BY <1>2, <1>9, <2>4, <2>5
<1> QED
  BY <1>6, <1>9, <1>10, <1>11

\* Of the sends that are counted no channel sends more than its limit in a window,
\* whichever calls were cut short, however its window was set in between and though the
\* clock is set back by as much as is allowed for; a refusal names the first time with
\* room; and telegram and gmail leave no send out for what its answer said, which twilio
\* does (SendWindow.Admit, Record).
THEOREM WindowStaysExact == FairSpec => []WindowIsExact
<1>1. Init => WindowInv
  BY WindowStarts DEF Init
<1>2. WindowInv /\ [Next]_vars => WindowInv'
  BY WindowStays, WindowSteps
<1>3. WindowInv => WindowIsExact
  BY RefusalIsExact DEF WindowInv, LeftOut, WindowIsExact, Window!WindowIsExact, Window!SendsCount
<1> QED
  BY <1>1, <1>2, <1>3, PTL DEF FairSpec

----------------------------------------------------------------------------
(* calendar.availability.                                                  *)

\* A finite set of numbers has a first one and a last one.
LEMMA FirstAndLast ==
    ASSUME NEW S \in SUBSET Int, IsFiniteSet(S), S # {}
    PROVE  (\E a \in S : \A x \in S : a <= x) /\ (\E b \in S : \A x \in S : x <= b)
<1> DEFINE n == Cardinality(S)
           R == {p \in S \X S : p[1] < p[2]}
<1>1. n \in Nat /\ n # 0
  BY FS_CardinalityType, FS_EmptySet
<1>2. PICK f \in [1 .. n -> S] :
        /\ \A i, j \in 1 .. n : i # j => f[i] # f[j]
        /\ \A i, j \in 1 .. n : i < j => <<f[i], f[j]>> \in R
  <2>1. /\ \A x \in S : <<x, x>> \notin R
        /\ \A x, y, z \in S : <<x, y>> \in R /\ <<y, z>> \in R => <<x, z>> \in R
        /\ \A x, y \in S : x = y \/ <<x, y>> \in R \/ <<y, x>> \in R
    OBVIOUS
  <2> HIDE DEF R
  <2> QED
    BY <2>1, AnOrderSorts
<1>3. \A i, j \in 1 .. n : i < j => f[i] < f[j]
  BY <1>2
<1>4. \A x \in S : \E i \in 1 .. n : f[i] = x
  <2>1. f \in Injection(1 .. n, S)
    BY <1>2 DEF Injection, IsInjective
  <2>2. IsFiniteSet(1 .. n) /\ Cardinality(1 .. n) = n
    BY <1>1, FS_Interval
  <2>3. f \in Surjection(1 .. n, S)
    BY <2>1, <2>2, FS_Injection
  <2> QED
    BY <2>3 DEF Surjection
<1> HIDE DEF n, R
<1>5. 1 \in 1 .. n /\ n \in 1 .. n
  BY <1>1
<1>6. \A x \in S : f[1] <= x /\ x <= f[n]
  <2> SUFFICES ASSUME NEW x \in S PROVE f[1] <= x /\ x <= f[n]
    OBVIOUS
  <2>1. PICK i \in 1 .. n : f[i] = x
    BY <1>4
  <2>2. (i = 1 \/ 1 < i) /\ (i = n \/ i < n)
    BY <1>1
  <2>3. f[1] \in Int /\ f[n] \in Int /\ x \in Int
    BY <1>2, <1>5
  <2> QED
    BY <1>3, <1>5, <2>1, <2>2, <2>3
<1> QED
  BY <1>2, <1>5, <1>6

\* The cursor of gaps: behind every event before it, at the window's beginning or where one
\* of them ends.
LEMMA CursorIs ==
    ASSUME NEW from \in Int, NEW n \in Nat, NEW held \in [1 .. n -> Avail!Events],
           NEW before \in SUBSET (1 .. n), NEW c, c = Avail!Cursor(from, held, before)
    PROVE  /\ c \in Int /\ from <= c /\ \A j \in before : held[j].e <= c
           /\ c = from \/ \E j \in before : held[j].e = c
<1> DEFINE ends == {held[j].e : j \in before}
           S == {from} \cup ends
<1>1. \A j \in 1 .. n : held[j].e \in Int
  BY DEF Avail!Events
<1>2. IsFiniteSet(S)
  <2>1. IsFiniteSet(before)
    <3>1. IsFiniteSet(1 .. n)
      BY FS_Interval
    <3> QED
      BY <3>1, FS_Subset
  <2> DEFINE f == [j \in before |-> held[j].e]
  <2>2. f \in Surjection(before, ends)
    BY DEF Surjection
  <2> HIDE DEF f, ends
  <2>3. IsFiniteSet(ends)
    BY <2>1, <2>2, FS_Surjection
  <2> QED
    BY <2>3, FS_AddElement
<1>3. S \in SUBSET Int /\ S # {}
  BY <1>1
<1>4. c = CHOOSE t \in S : \A u \in S : u <= t
  BY DEF Avail!Cursor, Avail!Latest
<1>5. c \in S /\ \A u \in S : u <= c
  <2> HIDE DEF S
  <2>1. \E t \in S : \A u \in S : u <= t
    BY <1>2, <1>3, FirstAndLast
  <2> QED
    BY <1>4, <2>1
<1> QED
  BY <1>3, <1>5

\* What gaps needs of the events it is given, of all those of the calendar: they are
\* in order, they are events that hold time, and none that does and takes place between
\* `from` and `to` is missing.
Suits(from, to, n, held, m, evs) ==
    /\ n \in Nat /\ held \in [1 .. n -> Avail!Events] /\ Avail!Sorted(held)
    /\ m \in Nat /\ evs \in [1 .. m -> Avail!Events]
    /\ \A i \in 1 .. n : \E k \in 1 .. m : evs[k] = held[i] /\ evs[k].held
    /\ \A k \in 1 .. m : evs[k].held /\ evs[k].s < to /\ evs[k].e > from =>
                            \E i \in 1 .. n : held[i] = evs[k]

LEMMA EventTimes == \A ev \in Avail!Events : ev.s \in Int /\ ev.e \in Int /\ ev.s <= ev.e
  BY DEF Avail!Events

\* What ends before `s` or begins after `e` leaves the time between free; and a slot ends
\* where an event begins.
LEMMA SlotIs ==
    ASSUME NEW from \in Int, NEW to \in Int, NEW n, NEW held, NEW m, NEW evs,
           Suits(from, to, n, held, m, evs), from = Avail!From,
           NEW s \in Int, NEW e \in Int, NEW before \in SUBSET (1 .. n),
           s = Avail!Cursor(from, held, before),
           s < e, e <= to, e - s >= ask.need,
           \A j \in (1 .. n) \ before : held[j].s >= e,
           e = to \/ \E i \in 1 .. n : held[i].s = e
    PROVE  <<s, e>> \in Avail!Slots(to, evs)
<1>1. /\ from <= s /\ \A j \in before : held[j].e <= s
      /\ s = from \/ \E j \in before : held[j].e = s
  BY CursorIs DEF Suits
<1>2. Avail!Clear(s, e, evs)
  <2> SUFFICES ASSUME NEW k \in 1 .. m, evs[k].held PROVE evs[k].e <= s \/ evs[k].s >= e
    BY DEF Avail!Clear, Suits
  <2>1. evs[k].s \in Int /\ evs[k].e \in Int
    BY EventTimes DEF Suits
  <2>2. CASE evs[k].s < to /\ evs[k].e > from
    <3>1. PICK i \in 1 .. n : held[i] = evs[k]
      BY <2>2 DEF Suits
    <3> QED
      BY <1>1, <3>1
  <2>3. CASE ~(evs[k].s < to)
    BY <2>1, <2>3
  <2>4. CASE ~(evs[k].e > from)
    BY <1>1, <2>1, <2>4
  <2> QED
    BY <2>2, <2>3, <2>4
<1>3. s = from \/ \E k \in DOMAIN evs : evs[k].held /\ evs[k].e = s
  BY <1>1 DEF Suits
<1>4. e = to \/ \E k \in DOMAIN evs : evs[k].held /\ evs[k].s = e
  BY DEF Suits
<1>5. s \in Avail!From .. to /\ e \in s + 1 .. to
  BY <1>1
<1>6. e \in Avail!SlotFrom(s, to, evs)
  BY <1>2, <1>3, <1>4, <1>5 DEF Avail!SlotFrom
<1> QED
  BY <1>5, <1>6 DEF Avail!Slots

\* Every gap is a slot.
LEMMA GapsAreSlots ==
    ASSUME NEW from \in Int, NEW to \in Int, NEW n, NEW held, NEW m, NEW evs,
           Suits(from, to, n, held, m, evs), from = Avail!From, from <= to, ask.need \in Nat
    PROVE  Avail!Gaps(from, to, held, ask.need) \subseteq Avail!Slots(to, evs)
<1> DEFINE passed == Avail!Passed(to, held)
           at(i) == Avail!Cursor(from, held, 1 .. i - 1)
           last == Avail!Cursor(from, held, passed)
<1>0. /\ n \in Nat /\ DOMAIN held = 1 .. n /\ passed \in SUBSET (1 .. n)
      /\ \A i \in 1 .. n : held[i].s \in Int
      /\ \A i, j \in 1 .. n : i < j => held[i].s <= held[j].s
  BY EventTimes DEF Suits, Avail!Passed, Avail!Sorted
<1> SUFFICES ASSUME NEW slot \in Avail!Gaps(from, to, held, ask.need) PROVE slot \in Avail!Slots(to, evs)
  OBVIOUS
<1>1. /\ slot[2] - slot[1] >= ask.need
      /\ \/ \E i \in passed : held[i].s > at(i) /\ slot = <<at(i), held[i].s>>
         \/ to > last /\ slot = <<last, to>>
  BY DEF Avail!Gaps
<1>2. ASSUME NEW i \in passed, held[i].s > at(i), slot = <<at(i), held[i].s>>
      PROVE  slot \in Avail!Slots(to, evs)
  <2>1. i \in 1 .. n /\ 1 .. i - 1 \in SUBSET (1 .. n) /\ held[i].s < to /\ held[i].s \in Int
    BY <1>0 DEF Avail!Passed
  <2>2. PICK c : c = at(i)
    OBVIOUS
  <2>3. c \in Int
    <3>1. c = Avail!Cursor(from, held, 1 .. i - 1) /\ held \in [1 .. n -> Avail!Events]
      BY <2>2 DEF Suits
    <3> HIDE DEF at
    <3> QED
      BY <1>0, <2>1, <3>1, CursorIs
  <2>4. c < held[i].s /\ held[i].s <= to /\ held[i].s - c >= ask.need
    BY <1>1, <1>2, <2>1, <2>2, <2>3
  <2>5. \A j \in (1 .. n) \ (1 .. i - 1) : held[j].s >= held[i].s
    <3> SUFFICES ASSUME NEW j \in (1 .. n) \ (1 .. i - 1) PROVE held[j].s >= held[i].s
      OBVIOUS
    <3>1. j = i \/ i < j
      BY <1>0, <2>1
    <3> QED
      BY <1>0, <2>1, <3>1
  <2>6. <<c, held[i].s>> \in Avail!Slots(to, evs)
    BY <2>1, <2>2, <2>3, <2>4, <2>5, SlotIs
  <2> QED
    BY <1>2, <2>2, <2>6
<1>3. ASSUME to > last, slot = <<last, to>> PROVE slot \in Avail!Slots(to, evs)
  <2>1. PICK c : c = last
    OBVIOUS
  <2>2. c \in Int
    <3> HIDE DEF passed
    <3> QED
      BY <1>0, <2>1, CursorIs DEF Suits
  <2>3. c < to /\ to <= to /\ to - c >= ask.need
    BY <1>1, <1>3, <2>1, <2>2
  <2>4. \A j \in (1 .. n) \ passed : held[j].s >= to
    <3> SUFFICES ASSUME NEW j \in (1 .. n) \ passed PROVE held[j].s >= to
      OBVIOUS
    <3>1. PICK i \in 1 .. j : ~(held[i].s < to)
      BY <1>0 DEF Avail!Passed
    <3>2. i \in 1 .. n /\ (i = j \/ i < j)
      BY <1>0
    <3> QED
      BY <1>0, <3>1, <3>2
  <2>5. <<c, to>> \in Avail!Slots(to, evs)
    <3> HIDE DEF passed
    <3> QED
      BY <1>0, <2>1, <2>2, <2>3, <2>4, SlotIs
  <2> QED
    BY <1>3, <2>1, <2>5
<1> QED
  BY <1>1, <1>2, <1>3

\* Every slot is a gap: the cursor is at its beginning when the first event that begins no
\* earlier than its end is reached, or when there is none.
LEMMA SlotsAreGaps ==
    ASSUME NEW from \in Int, NEW to \in Int, NEW n, NEW held, NEW m, NEW evs,
           Suits(from, to, n, held, m, evs), from = Avail!From, from <= to, ask.need \in Nat
    PROVE  Avail!Slots(to, evs) \subseteq Avail!Gaps(from, to, held, ask.need)
<1> DEFINE passed == Avail!Passed(to, held)
           at(i) == Avail!Cursor(from, held, 1 .. i - 1)
           last == Avail!Cursor(from, held, passed)
<1>0. /\ n \in Nat /\ DOMAIN held = 1 .. n /\ DOMAIN evs = 1 .. m
      /\ held \in [1 .. n -> Avail!Events]
      /\ \A i \in 1 .. n : held[i].s \in Int /\ held[i].e \in Int /\ held[i].s <= held[i].e
      /\ \A i, j \in 1 .. n : i < j => held[i].s <= held[j].s
      /\ \A k \in 1 .. m : evs[k].s \in Int /\ evs[k].e \in Int /\ evs[k].s <= evs[k].e
  BY EventTimes DEF Suits, Avail!Sorted
<1> SUFFICES ASSUME NEW slot \in Avail!Slots(to, evs) PROVE slot \in Avail!Gaps(from, to, held, ask.need)
  OBVIOUS
<1>1. PICK s \in Int, e \in Int :
        /\ s \in from .. to /\ e \in s + 1 .. to
        /\ slot = <<s, e>> /\ e - s >= ask.need /\ Avail!Clear(s, e, evs)
        /\ s = from \/ ~Avail!Clear(s - 1, e, evs) \/ \E k \in 1 .. m : evs[k].held /\ evs[k].e = s
        /\ e = to \/ ~Avail!Clear(s, e + 1, evs) \/ \E k \in 1 .. m : evs[k].held /\ evs[k].s = e
  BY <1>0 DEF Avail!Slots, Avail!SlotFrom
<1>2. s \in Int /\ e \in Int /\ from <= s /\ s < e /\ e <= to
  BY <1>1
<1>3. \A k \in 1 .. m : evs[k].held => evs[k].e <= s \/ evs[k].s >= e
  BY <1>0, <1>1 DEF Avail!Clear
\* The window's beginning, or where one of the events before it ends.
<1>4. s = from \/ \E j \in 1 .. n : held[j].e = s /\ held[j].s < e
  <2> SUFFICES ASSUME s # from PROVE \E j \in 1 .. n : held[j].e = s /\ held[j].s < e
    OBVIOUS
  <2>1. PICK k \in 1 .. m : evs[k].held /\ evs[k].e = s
    <3>1. CASE ~Avail!Clear(s - 1, e, evs)
      <4>1. PICK k \in 1 .. m : evs[k].held /\ ~(evs[k].e <= s - 1 \/ evs[k].s >= e)
        BY <1>0, <3>1 DEF Avail!Clear
      <4>2. evs[k].e <= s /\ evs[k].e > s - 1
        BY <1>0, <1>2, <1>3, <4>1
      <4> QED
        BY <1>0, <1>2, <4>1, <4>2
    <3> QED
      BY <1>1, <3>1
  <2>2. evs[k].s < to /\ evs[k].e > from /\ evs[k].s < e
    BY <1>0, <1>2, <2>1
  <2> QED
    BY <2>1, <2>2 DEF Suits
\* The window's end, or where an event begins.
<1>5. e = to \/ \E j \in 1 .. n : held[j].s = e
  <2> SUFFICES ASSUME e # to PROVE \E j \in 1 .. n : held[j].s = e
    OBVIOUS
  <2>1. PICK k \in 1 .. m : evs[k].held /\ evs[k].s = e
    <3>1. CASE ~Avail!Clear(s, e + 1, evs)
      <4>1. PICK k \in 1 .. m : evs[k].held /\ ~(evs[k].e <= s \/ evs[k].s >= e + 1)
        BY <1>0, <3>1 DEF Avail!Clear
      <4>2. evs[k].s >= e /\ evs[k].s < e + 1
        BY <1>0, <1>2, <1>3, <4>1
      <4> QED
        BY <1>0, <1>2, <4>1, <4>2
    <3> QED
      BY <1>1, <3>1
  <2>2. evs[k].s < to /\ evs[k].e > from
    BY <1>0, <1>2, <2>1
  <2> QED
    BY <2>1, <2>2 DEF Suits
<1>6. \A j \in 1 .. n : held[j].s < e => held[j].e <= s
  <2> SUFFICES ASSUME NEW j \in 1 .. n, held[j].s < e PROVE held[j].e <= s
    OBVIOUS
  <2>1. PICK k \in 1 .. m : evs[k] = held[j] /\ evs[k].held
    BY DEF Suits
  <2>2. held[j].e <= s \/ held[j].s >= e
    BY <1>3, <2>1
  <2> QED
    BY <1>0, <1>2, <2>2
\* The cursor after the events that begin before the slot ends.
<1>7. ASSUME NEW before \in SUBSET (1 .. n),
             \A j \in 1 .. n : j \in before <=> held[j].s < e
      PROVE  Avail!Cursor(from, held, before) = s
  <2>1. PICK c : c = Avail!Cursor(from, held, before)
    OBVIOUS
  <2>2. /\ c \in Int /\ from <= c /\ \A j \in before : held[j].e <= c
        /\ c = from \/ \E j \in before : held[j].e = c
    BY <1>0, <2>1, CursorIs
  <2>3. c <= s
    BY <1>2, <1>6, <1>7, <2>2
  <2>4. s <= c
    BY <1>2, <1>4, <1>7, <2>2
  <2> QED
    BY <1>2, <2>1, <2>2, <2>3, <2>4
<1>8. CASE e = to
  <2>1. passed \in SUBSET (1 .. n) /\ \A j \in 1 .. n : j \in passed <=> held[j].s < e
    <3> SUFFICES ASSUME NEW j \in 1 .. n, held[j].s < to, NEW i \in 1 .. j PROVE held[i].s < to
      BY <1>0, <1>8 DEF Avail!Passed
    <3>1. i \in 1 .. n /\ (i = j \/ i < j)
      BY <1>0
    <3> QED
      BY <1>0, <3>1
  <2>2. last = s
    <3> HIDE DEF passed
    <3> QED
      BY <1>7, <2>1
  <2>3. to > last /\ slot = <<last, to>> /\ slot[2] - slot[1] >= ask.need
    BY <1>1, <1>2, <1>8, <2>2
  <2> QED
    BY <2>3 DEF Avail!Gaps
<1>9. CASE e # to
  <2> DEFINE begin == {j \in 1 .. n : held[j].s = e}
  <2>1. PICK i \in begin : \A j \in begin : i <= j
    <3>1. IsFiniteSet(1 .. n)
      BY <1>0, FS_Interval
    <3>2. begin \in SUBSET (1 .. n) /\ begin \in SUBSET Int /\ begin # {}
      BY <1>0, <1>5, <1>9
    <3> HIDE DEF begin
    <3>3. IsFiniteSet(begin)
      BY <3>1, <3>2, FS_Subset
    <3> QED
      BY <3>2, <3>3, FirstAndLast
  <2>2. i \in 1 .. n /\ held[i].s = e /\ e < to
    BY <1>2, <1>9, <2>1
  <2>3. 1 .. i - 1 \in SUBSET (1 .. n) /\ \A j \in 1 .. n : j \in 1 .. i - 1 <=> held[j].s < e
    <3>1. ASSUME NEW j \in 1 .. n, j < i PROVE held[j].s < e
      <4>1. held[j].s <= e
        BY <1>0, <2>2, <3>1
      <4>2. held[j].s # e
        BY <1>0, <2>1, <2>2, <3>1
      <4> QED
        BY <1>0, <1>2, <4>1, <4>2
    <3>2. ASSUME NEW j \in 1 .. n, ~(j < i) PROVE ~(held[j].s < e)
      <4>1. i = j \/ i < j
        BY <1>0, <2>2, <3>2
      <4>2. held[i].s <= held[j].s
        BY <1>0, <2>2, <4>1
      <4> QED
        BY <1>0, <1>2, <2>2, <4>2
    <3>3. \A j \in 1 .. n : j \in 1 .. i - 1 <=> j < i
      BY <1>0, <2>2
    <3> QED
      BY <1>0, <2>2, <3>1, <3>2, <3>3
  <2>4. at(i) = s
    BY <1>7, <2>3
  <2>5. i \in passed
    <3> SUFFICES ASSUME NEW j \in 1 .. i PROVE held[j].s < to
      BY <1>0, <2>2 DEF Avail!Passed
    <3>1. j \in 1 .. n /\ (j = i \/ j < i)
      BY <1>0, <2>2
    <3>2. held[j].s <= e
      BY <1>0, <1>2, <2>2, <3>1
    <3> QED
      BY <1>0, <1>2, <2>2, <3>1, <3>2
  <2>6. held[i].s > at(i) /\ slot = <<at(i), held[i].s>> /\ slot[2] - slot[1] >= ask.need
    BY <1>1, <1>2, <2>2, <2>4
  <2> QED
    BY <2>5, <2>6 DEF Avail!Gaps
<1> QED
  BY <1>8, <1>9

LEMMA GapsAreExact ==
    ASSUME NEW from \in Int, NEW to \in Int, NEW n, NEW held, NEW m, NEW evs,
           Suits(from, to, n, held, m, evs), from = Avail!From, from <= to, ask.need \in Nat
    PROVE  Avail!Gaps(from, to, held, ask.need) = Avail!Slots(to, evs)
  BY GapsAreSlots, SlotsAreGaps

\* Of a window that has no length there is no free time.
LEMMA NoSlots ==
    ASSUME NEW to \in Int, to = Avail!From, NEW evs
    PROVE  Avail!Slots(to, evs) = {}
<1> SUFFICES ASSUME NEW slot \in Avail!Slots(to, evs) PROVE FALSE
  OBVIOUS
<1>1. PICK s \in Avail!From .. to : \E e \in Avail!SlotFrom(s, to, evs) : slot = <<s, e>>
  BY DEF Avail!Slots
<1>2. PICK e \in s + 1 .. to : TRUE
  BY <1>1 DEF Avail!SlotFrom
<1> QED
  BY <1>1, <1>2

LEMMA NoGaps ==
    ASSUME NEW from \in Int, NEW n \in Nat, NEW held \in [1 .. n -> Avail!Events]
    PROVE  Avail!Gaps(from, from, held, ask.need) = {}
<1> DEFINE passed == Avail!Passed(from, held)
           at(i) == Avail!Cursor(from, held, 1 .. i - 1)
           last == Avail!Cursor(from, held, passed)
<1> SUFFICES ASSUME NEW slot \in Avail!Gaps(from, from, held, ask.need) PROVE FALSE
  OBVIOUS
<1>1. (\E i \in passed : held[i].s > at(i)) \/ from > last
  BY DEF Avail!Gaps
<1>2. ASSUME NEW i \in passed, held[i].s > at(i) PROVE FALSE
  <2>1. i \in 1 .. n /\ 1 .. i - 1 \in SUBSET (1 .. n) /\ held[i].s < from /\ held[i].s \in Int
    BY EventTimes DEF Avail!Passed
  <2>2. PICK c : c = at(i)
    OBVIOUS
  <2>3. c \in Int /\ from <= c
    <3>1. c = Avail!Cursor(from, held, 1 .. i - 1)
      BY <2>2
    <3> HIDE DEF at
    <3> QED
      BY <2>1, <3>1, CursorIs
  <2> QED
    BY <1>2, <2>1, <2>2, <2>3
<1>3. ~(from > last)
  <2>1. passed \in SUBSET (1 .. n)
    BY DEF Avail!Passed
  <2>2. PICK c : c = last
    OBVIOUS
  <2>3. c \in Int /\ from <= c
    <3> HIDE DEF passed
    <3> QED
      BY <2>1, <2>2, CursorIs
  <2> QED
    BY <2>2, <2>3
<1> QED
  BY <1>1, <1>2, <1>3

\* The enumerations SetToSeqs gives are of all of the set.
LEMMA TurnsAreAll ==
    ASSUME NEW S, IsFiniteSet(S)
    PROVE  /\ Avail!SetToSeqs(S) = {p \in [1 .. Cardinality(S) -> S] :
                                      \A i, j \in 1 .. Cardinality(S) : i # j => p[i] # p[j]}
           /\ Cardinality(S) \in Nat
           /\ \A p \in Avail!SetToSeqs(S) : \A x \in S : \E i \in 1 .. Cardinality(S) : p[i] = x
<1> DEFINE n == Cardinality(S)
<1>1. Avail!Cardinality(S) = n
  BY DEF Avail!Cardinality, Cardinality
<1>2. Avail!SetToSeqs(S) = {p \in [1 .. n -> S] : \A i, j \in 1 .. n : i # j => p[i] # p[j]}
  BY <1>1 DEF Avail!SetToSeqs
<1>3. n \in Nat
  BY FS_CardinalityType
<1>4. ASSUME NEW p \in Avail!SetToSeqs(S) PROVE \A x \in S : \E i \in 1 .. n : p[i] = x
  <2>1. p \in Injection(1 .. n, S)
    BY <1>2 DEF Injection, IsInjective
  <2>2. IsFiniteSet(1 .. n) /\ Cardinality(1 .. n) = n
    BY <1>3, FS_Interval
  <2>3. p \in Surjection(1 .. n, S)
    BY <2>1, <2>2, FS_Injection
  <2> QED
    BY <2>3 DEF Surjection
<1> QED
  BY <1>2, <1>3, <1>4

\* A wall clock that one instant shows, and what wallClock makes of it and of any other.
OnceAt(w, t) ==
    /\ t \in Int /\ t >= -4 /\ t <= Span + 4
    /\ \A u \in Int : Avail!Local(u) = w <=> u = t
    /\ Avail!Instant(w) = t
Shows(w) == {u \in -8 .. Span + 8 : Avail!Local(u) = w}

LEMMA ClockHappens ==
    ASSUME zone \in Avail!Shifts, NEW w \in 0 .. Span, NEW t \in Avail!Parsed(w), Avail!Happens(w, t)
    PROVE  OnceAt(w, t)
<1>0. Span \in Nat /\ w \in Int /\ w >= 0 /\ w <= Span /\ zone \in {-2, -1, 0, 1, 2, 4}
  BY ChannelsAssumption DEF Avail!Shifts
<1>1. t \in {w, w - zone} /\ Avail!Local(t) = w
  BY DEF Avail!Parsed, Avail!Happens
<1>2. t \in Int /\ t >= -4 /\ t <= Span + 4
  BY <1>0, <1>1
<1>3. \A u \in Int : Avail!Local(u) = w => u \in {w, w - zone}
  BY <1>0 DEF Avail!Local
<1>4. Avail!Local(w) = w /\ Avail!Local(w - zone) = w => zone = 0
  <2> SUFFICES ASSUME Avail!Local(w) = w, Avail!Local(w - zone) = w, zone # 0 PROVE FALSE
    OBVIOUS
  <2>1. /\ \A d \in {1, 2, 4} : Avail!Local(t + d) # w /\ Avail!Local(t - d) # w
    BY DEF Avail!Happens, Avail!Around
  <2>2. CASE t = w
    <3>1. \/ \E d \in {1, 2, 4} : w - zone = t + d
          \/ \E d \in {1, 2, 4} : w - zone = t - d
      BY <1>0, <2>2
    <3> QED
      BY <2>1, <3>1
  <2>3. CASE t = w - zone
    <3>1. \/ \E d \in {1, 2, 4} : w = t + d
          \/ \E d \in {1, 2, 4} : w = t - d
      BY <1>0, <2>3
    <3> QED
      BY <2>1, <3>1
  <2> QED
    BY <1>1, <2>2, <2>3
<1>5. \A u \in Int : Avail!Local(u) = w <=> u = t
  BY <1>0, <1>1, <1>2, <1>3, <1>4
<1>6. Avail!Instant(w) = t
  BY <1>0, <1>1, <1>5 DEF Avail!Instant
<1> QED
  BY <1>2, <1>5, <1>6 DEF OnceAt

LEMMA OnceIsOne ==
    ASSUME NEW w, NEW t, OnceAt(w, t)
    PROVE  Avail!Cardinality(Shows(w)) = 1
<1>1. Shows(w) = {t}
  BY ChannelsAssumption DEF OnceAt, Shows
<1>2. Avail!Cardinality({t}) = Cardinality({t})
  BY DEF Avail!Cardinality, Cardinality
<1> QED
  BY <1>1, <1>2, FS_Singleton

LEMMA ClockDoesNot ==
    ASSUME zone \in Avail!Shifts, NEW w \in 0 .. Span, NEW t \in Avail!Parsed(w), ~Avail!Happens(w, t)
    PROVE  Avail!Cardinality(Shows(w)) # 1
<1>0. Span \in Nat /\ w \in Int /\ w >= 0 /\ w <= Span /\ zone \in {-2, -1, 0, 1, 2, 4}
  BY ChannelsAssumption DEF Avail!Shifts
<1>1. t \in {w, w - zone} /\ t \in Int
  BY <1>0 DEF Avail!Parsed
<1>2. \A u \in Int : Avail!Local(u) = w => u \in {w, w - zone}
  BY <1>0 DEF Avail!Local
<1>3. \A u \in Int : Avail!Local(u) = w => u \in Shows(w)
  BY <1>0, <1>2 DEF Shows
<1>4. Avail!Cardinality(Shows(w)) = Cardinality(Shows(w))
  BY DEF Avail!Cardinality, Cardinality
<1>5. IsFiniteSet(Shows(w))
  <2>1. -8 \in Int /\ Span + 8 \in Int
    BY <1>0
  <2>2. IsFiniteSet(-8 .. Span + 8)
    BY <2>1, FS_Interval
  <2> QED
    BY <2>2, FS_Subset DEF Shows
<1>6. ASSUME Cardinality(Shows(w)) = 1 PROVE FALSE
  <2>1. PICK x : Shows(w) = {x}
    BY <1>5, <1>6, FS_Singleton
  <2>2. Avail!Local(x) = w /\ x \in Int /\ x \in {w, w - zone}
    BY <1>2, <2>1 DEF Shows
  <2>3. Avail!Local(t) = w
    BY <2>2 DEF Avail!Parsed
  <2>4. PICK d \in {1, 2, 4} : Avail!Local(t + d) = w \/ Avail!Local(t - d) = w
    BY <2>3 DEF Avail!Happens, Avail!Around
  <2>5. t + d \in Int /\ t - d \in Int /\ t + d # t /\ t - d # t
    BY <1>1
  <2> QED
    BY <1>1, <1>3, <2>1, <2>3, <2>4, <2>5
<1> QED
  BY <1>4, <1>6

\* The events as list reads them: those that touch the window, in the calendar's order.
LEMMA ListedInTurn ==
    ASSUME NEW m \in Nat, calendar \in [1 .. m -> Avail!Events]
    PROVE  \E n \in Nat : \E turn \in [1 .. n -> Avail!Touching] :
             /\ Avail!Listed = [i \in 1 .. n |-> calendar[turn[i]]]
             /\ Avail!Listed \in Seq(Avail!Events) /\ Len(Avail!Listed) = n
             /\ \A i, j \in 1 .. n : i < j => turn[i] < turn[j]
             /\ \A k \in Avail!Touching : \E i \in 1 .. n : turn[i] = k
<1> DEFINE S == Avail!Touching
           n == Cardinality(S)
           R == {p \in S \X S : p[1] < p[2]}
           turn == CHOOSE p \in Avail!SetToSeqs(S) : \A i, j \in DOMAIN p : i < j => p[i] < p[j]
<1>1. S \in SUBSET (1 .. m)
  BY DEF Avail!Touching
<1>2. IsFiniteSet(S)
  <2>1. IsFiniteSet(1 .. m)
    BY FS_Interval
  <2> QED
    BY <1>1, <2>1, FS_Subset
<1>3. Avail!Listed = [i \in DOMAIN turn |-> calendar[turn[i]]]
  BY DEF Avail!Listed
<1>4. \A x, y \in S : x \in Int /\ y \in Int
  BY <1>1
<1> HIDE DEF S
<1>5. PICK f \in [1 .. n -> S] :
        /\ \A i, j \in 1 .. n : i # j => f[i] # f[j]
        /\ \A i, j \in 1 .. n : i < j => <<f[i], f[j]>> \in R
  <2>1. /\ \A x \in S : <<x, x>> \notin R
        /\ \A x, y, z \in S : <<x, y>> \in R /\ <<y, z>> \in R => <<x, z>> \in R
        /\ \A x, y \in S : x = y \/ <<x, y>> \in R \/ <<y, x>> \in R
    BY <1>4
  <2> HIDE DEF R
  <2> QED
    BY <1>2, <2>1, AnOrderSorts
<1>6. /\ Avail!SetToSeqs(S) = {p \in [1 .. n -> S] : \A i, j \in 1 .. n : i # j => p[i] # p[j]}
      /\ n \in Nat
      /\ \A p \in Avail!SetToSeqs(S) : \A x \in S : \E i \in 1 .. n : p[i] = x
  BY <1>2, TurnsAreAll
<1>7. f \in Avail!SetToSeqs(S) /\ \A i, j \in DOMAIN f : i < j => f[i] < f[j]
  BY <1>5, <1>6
<1> HIDE DEF n, R
<1>8. turn \in Avail!SetToSeqs(S) /\ \A i, j \in DOMAIN turn : i < j => turn[i] < turn[j]
  BY <1>7
<1> HIDE DEF turn
<1>9. turn \in [1 .. n -> S] /\ DOMAIN turn = 1 .. n
  BY <1>6, <1>8
<1>10. /\ Avail!Listed = [i \in 1 .. n |-> calendar[turn[i]]]
       /\ \A i, j \in 1 .. n : i < j => turn[i] < turn[j]
       /\ \A k \in S : \E i \in 1 .. n : turn[i] = k
  BY <1>3, <1>6, <1>8, <1>9
<1>11. Avail!Listed \in Seq(Avail!Events) /\ Len(Avail!Listed) = n
  <2>1. \A i \in 1 .. n : calendar[turn[i]] \in Avail!Events
    BY <1>1, <1>9
  <2> QED
    BY <1>6, <1>10, <2>1
<1> QED
  BY <1>6, <1>9, <1>10, <1>11 DEF S

\* What list has read is the first of them.
Read(items_) == /\ Len(items_) \in 0 .. Len(Avail!Listed)
                /\ items_ = SubSeq(Avail!Listed, 1, Len(items_))

\* The window's ends are instants their clocks show once, in order; what was read is the
\* first of what touches the window; and the answer is the calendar's.
FreeInv ==
    /\ zone \in Avail!Shifts
    /\ ask.from \in 0 .. Span /\ ask.to \in 0 .. Span /\ ask.need \in Nat
    /\ \E m \in Nat : calendar \in [1 .. m -> Avail!Events]
    /\ Avail!Sorted(calendar)
    /\ reading \in {"asked", "place", "list", "compute", "answered", "refused"}
    /\ reading \in {"asked", "place"} => items = <<>>
    /\ reading \in {"list", "compute", "answered"} =>
         /\ OnceAt(ask.from, Avail!From) /\ OnceAt(ask.to, Avail!To)
         /\ Avail!From < Avail!To
         /\ Read(items)
    /\ reading = "answered" => free = Avail!Slots(Avail!UpTo, calendar)
    /\ reading = "refused" =>
         \/ \E w \in {ask.from, ask.to} : Avail!Cardinality(Shows(w)) # 1
         \/ Avail!To <= Avail!From

\* The events of which gaps is given the times.
LEMMA HeldSuits ==
    ASSUME FreeInv, reading = "compute", NEW held \in Avail!Held
    PROVE  \E n \in Nat : \E m :
             /\ held \in [1 .. n -> Avail!Events]
             /\ Avail!UpTo # Avail!From => Suits(Avail!From, Avail!UpTo, n, held, m, calendar)
<1>0. PICK m \in Nat : calendar \in [1 .. m -> Avail!Events]
  BY DEF FreeInv
<1>1. PICK l \in Nat : \E turn \in [1 .. l -> Avail!Touching] :
             /\ Avail!Listed = [i \in 1 .. l |-> calendar[turn[i]]]
             /\ Avail!Listed \in Seq(Avail!Events) /\ Len(Avail!Listed) = l
             /\ \A i, j \in 1 .. l : i < j => turn[i] < turn[j]
             /\ \A k \in Avail!Touching : \E i \in 1 .. l : turn[i] = k
  BY <1>0, ListedInTurn
<1>2. PICK turn \in [1 .. l -> Avail!Touching] :
             /\ Avail!Listed = [i \in 1 .. l |-> calendar[turn[i]]]
             /\ Avail!Listed \in Seq(Avail!Events) /\ Len(Avail!Listed) = l
             /\ \A i, j \in 1 .. l : i < j => turn[i] < turn[j]
             /\ \A k \in Avail!Touching : \E i \in 1 .. l : turn[i] = k
  BY <1>1
<1>3. /\ \A k \in Avail!Touching : k \in 1 .. m /\ calendar[k] \in Avail!Events
      /\ \A i \in 1 .. l : turn[i] \in 1 .. m /\ calendar[turn[i]] \in Avail!Events
  BY <1>0, <1>2 DEF Avail!Touching
<1>4. PICK r \in 0 .. l : r = Len(items) /\ items = [i \in 1 .. r |-> calendar[turn[i]]]
  <2>1. PICK L \in Seq(Avail!Events) : L = Avail!Listed /\ Len(L) = l /\ \A i \in 1 .. l : L[i] = calendar[turn[i]]
    BY <1>2, <1>3
  <2>2. PICK r \in 0 .. l : r = Len(items) /\ items = SubSeq(L, 1, r)
    BY <2>1 DEF FreeInv, Read
  <2>3. SubSeq(L, 1, r) = [i \in 1 .. r |-> L[i]]
    BY <2>1, <2>2
  <2>4. [i \in 1 .. r |-> L[i]] = [i \in 1 .. r |-> calendar[turn[i]]]
    BY <2>1, <2>2
  <2> QED
    BY <2>2, <2>3, <2>4
<1> DEFINE S == {i \in DOMAIN items : items[i].held}
<1>5. S \in SUBSET (1 .. r) /\ DOMAIN items = 1 .. r /\ \A i \in 1 .. r : items[i] = calendar[turn[i]]
  BY <1>4
<1>6. IsFiniteSet(S)
  <2>1. IsFiniteSet(1 .. r)
    BY FS_Interval
  <2> QED
    BY <1>5, <2>1, FS_Subset
<1>7. PICK p \in Avail!SetToSeqs(S) : held = [i \in DOMAIN p |-> items[p[i]]] /\ Avail!Sorted(held)
  BY DEF Avail!Held
<1>8. PICK n \in Nat : /\ p \in [1 .. n -> S]
                       /\ \A x \in S : \E i \in 1 .. n : p[i] = x
  <2> HIDE DEF S
  <2> QED
    BY <1>6, <1>7, TurnsAreAll
<1>9. held \in [1 .. n -> Avail!Events] /\ \A i \in 1 .. n : held[i] = items[p[i]]
  <2>1. \A i \in 1 .. n : p[i] \in 1 .. r /\ items[p[i]] \in Avail!Events
    <3> SUFFICES ASSUME NEW i \in 1 .. n PROVE p[i] \in 1 .. r /\ items[p[i]] \in Avail!Events
      OBVIOUS
    <3>1. p[i] \in 1 .. r
      BY <1>5, <1>8
    <3> QED
      BY <1>3, <1>5, <3>1
  <2> HIDE DEF S
  <2> QED
    BY <1>7, <1>8, <2>1
<1>10. ASSUME NEW i \in 1 .. n PROVE \E k \in 1 .. m : calendar[k] = held[i] /\ calendar[k].held
  <2>1. p[i] \in S
    BY <1>8
  <2>2. items[p[i]].held /\ p[i] \in 1 .. r
    BY <1>5, <2>1
  <2> QED
    BY <1>3, <1>5, <1>9, <2>2
\* What was not read begins no earlier than the answer ends.
<1>11. ASSUME Avail!UpTo # Avail!From, NEW k \in 1 .. m, calendar[k].held,
              calendar[k].s < Avail!UpTo, calendar[k].e > Avail!From
       PROVE  \E i \in 1 .. n : held[i] = calendar[k]
  <2>0. /\ Avail!From \in Int /\ Avail!To \in Int /\ Avail!From < Avail!To
        /\ calendar[k].s \in Int /\ Avail!Sorted(calendar)
    BY <1>0, EventTimes DEF FreeInv, OnceAt
  <2>1. \/ Avail!UpTo = Avail!To /\ ~Avail!More
        \/ /\ Avail!More /\ items # <<>> /\ Avail!UpTo = Avail!Last(items).s
           /\ Avail!Last(items).s < Avail!To
    BY <1>11 DEF Avail!UpTo
  <2>2. Avail!UpTo \in Int /\ Avail!UpTo <= Avail!To
    <3>1. items # <<>> => r \in 1 .. r /\ Avail!Last(items) = items[r]
      BY <1>4 DEF Avail!Last
    <3>2. items # <<>> => Avail!Last(items).s \in Int
      BY <1>3, <1>5, <3>1, EventTimes
    <3> QED
      BY <2>0, <2>1, <3>2
  <2>3. k \in Avail!Touching
    <3>1. calendar[k].s < Avail!To
      BY <1>11, <2>0, <2>2
    <3> QED
      BY <1>0, <1>11, <3>1 DEF Avail!Touching
  <2>4. PICK i \in 1 .. l : turn[i] = k
    BY <1>2, <2>3
  <2>5. i \in 1 .. r
    <3>1. CASE ~Avail!More
      BY <1>2, <1>4, <3>1 DEF Avail!More
    <3>2. CASE Avail!More
      <4> SUFFICES ASSUME ~(i <= r) PROVE FALSE
        OBVIOUS
      <4>1. items # <<>> /\ Avail!UpTo = Avail!Last(items).s
        BY <2>1, <3>2
      <4>2. r \in 1 .. l /\ Avail!Last(items) = calendar[turn[r]] /\ r < i
        BY <1>4, <4>1 DEF Avail!Last
      <4>3. turn[r] < k /\ turn[r] \in 1 .. m
        BY <1>2, <1>3, <2>4, <4>2
      <4>4. calendar[turn[r]].s <= calendar[k].s
        BY <1>0, <2>0, <4>3 DEF Avail!Sorted
      <4>5. calendar[turn[r]].s \in Int
        BY <1>0, <4>3, EventTimes
      <4> QED
        BY <1>11, <2>0, <4>1, <4>2, <4>4, <4>5
    <3> QED
      BY <3>1, <3>2
  <2>6. i \in S
    BY <1>5, <1>11, <2>4, <2>5
  <2>7. PICK j \in 1 .. n : p[j] = i
    BY <1>8, <2>6
  <2>8. held[j] = calendar[k]
    BY <1>5, <1>9, <2>4, <2>5, <2>7
  <2> QED
    BY <2>8
<1>12. Avail!UpTo # Avail!From => Suits(Avail!From, Avail!UpTo, n, held, m, calendar)
  BY <1>0, <1>7, <1>9, <1>10, <1>11 DEF Suits
<1> QED
  BY <1>9, <1>12

LEMMA FreeStarts == Avail!AvailInit => FreeInv
<1> SUFFICES ASSUME Avail!AvailInit PROVE FreeInv
  OBVIOUS
<1>1. calendar = <<>> /\ reading = "asked" /\ items = <<>> /\ zone \in Avail!Shifts
  BY DEF Avail!AvailInit
<1>2. calendar \in [1 .. 0 -> Avail!Events] /\ DOMAIN calendar = {}
  BY <1>1
<1>3. ask.from \in 0 .. Span /\ ask.to \in 0 .. Span /\ ask.need \in Nat
  BY ChannelsAssumption DEF Avail!AvailInit
<1> QED
  BY <1>1, <1>2, <1>3 DEF FreeInv, Avail!Sorted

\* The calendar is filled.
LEMMA FilledKeeps == ASSUME FreeInv, Avail!Filled PROVE FreeInv'
<1>1. /\ reading' = "place" /\ reading = "asked" /\ UNCHANGED <<zone, ask, items, free>>
      /\ calendar' \in {q \in UNION {[1 .. n -> Avail!Events] : n \in 0 .. Most} : Avail!Sorted(q)}
  BY DEF Avail!Filled
<1>2. PICK n \in 0 .. Most : calendar' \in [1 .. n -> Avail!Events]
  BY <1>1
<1>3. Avail!Events' = Avail!Events /\ Avail!Shifts' = Avail!Shifts
  BY DEF Avail!Events, Avail!Shifts
<1>4. Avail!Sorted(calendar)'
  BY <1>1 DEF Avail!Sorted
<1> QED
  BY <1>1, <1>2, <1>3, <1>4 DEF FreeInv

\* What a step leaves alone if it touches neither the zone, the window nor the calendar.
LEMMA ClockRests ==
    UNCHANGED <<zone, ask, calendar>> =>
      /\ Avail!From' = Avail!From /\ Avail!To' = Avail!To /\ Avail!Listed' = Avail!Listed
      /\ \A w, t : OnceAt(w, t)' <=> OnceAt(w, t)
      /\ \A w : Shows(w)' = Shows(w)
      /\ \A S : Avail!Cardinality(S)' = Avail!Cardinality(S)
<1> SUFFICES ASSUME UNCHANGED <<zone, ask, calendar>>
             PROVE  /\ Avail!From' = Avail!From /\ Avail!To' = Avail!To /\ Avail!Listed' = Avail!Listed
                    /\ \A w, t : OnceAt(w, t)' <=> OnceAt(w, t)
                    /\ \A w : Shows(w)' = Shows(w)
                    /\ \A S : Avail!Cardinality(S)' = Avail!Cardinality(S)
  OBVIOUS
<1>1. \A t : Avail!Local(t)' = Avail!Local(t)
  BY DEF Avail!Local
<1>2. \A w : Avail!Instant(w)' = Avail!Instant(w)
  BY <1>1 DEF Avail!Instant
<1>3. Avail!From' = Avail!From /\ Avail!To' = Avail!To
  BY DEF Avail!From, Avail!To, Avail!Instant, Avail!Local
<1>4. Avail!Listed' = Avail!Listed
  BY DEF Avail!Listed, Avail!Touching, Avail!From, Avail!To, Avail!Instant, Avail!Local
<1>5. \A w, t : OnceAt(w, t)' <=> OnceAt(w, t)
  BY <1>1, <1>2 DEF OnceAt
<1>6. \A w : Shows(w)' = Shows(w)
  BY DEF Shows, Avail!Local
<1>7. \A S : Avail!Cardinality(S)' = Avail!Cardinality(S)
  BY DEF Avail!Cardinality
<1> QED
  BY <1>3, <1>4, <1>5, <1>6, <1>7

\* The window is placed, or its clocks are refused (wallClock).
LEMMA PlaceKeeps == ASSUME FreeInv, Avail!Place PROVE FreeInv'
<1>1. PICK from \in Avail!Parsed(ask.from), to \in Avail!Parsed(ask.to) :
        reading' = IF Avail!Happens(ask.from, from) /\ Avail!Happens(ask.to, to) /\ to > from
                   THEN "list" ELSE "refused"
  BY DEF Avail!Place
<1>2. /\ UNCHANGED <<zone, ask, calendar, items, free>> /\ items = <<>>
      /\ ask.from \in 0 .. Span /\ ask.to \in 0 .. Span /\ zone \in Avail!Shifts
  BY DEF Avail!Place, FreeInv
<1>3. /\ Avail!Happens(ask.from, from) => OnceAt(ask.from, from)
      /\ Avail!Happens(ask.to, to) => OnceAt(ask.to, to)
  BY <1>2, ClockHappens
<1>4. /\ Avail!From' = Avail!From /\ Avail!To' = Avail!To /\ Avail!Listed' = Avail!Listed
      /\ \A w, t : OnceAt(w, t)' <=> OnceAt(w, t)
      /\ \A w : Shows(w)' = Shows(w)
      /\ \A S : Avail!Cardinality(S)' = Avail!Cardinality(S)
  BY <1>2, ClockRests
<1>5. CASE Avail!Happens(ask.from, from) /\ Avail!Happens(ask.to, to)
  <2>1. /\ OnceAt(ask.from, from) /\ OnceAt(ask.to, to)
        /\ Avail!From = from /\ Avail!To = to /\ from \in Int /\ to \in Int
    BY <1>3, <1>5 DEF OnceAt, Avail!From, Avail!To
  <2>2. CASE to > from
    <3>1. reading' = "list"
      BY <1>1, <1>5, <2>2
    <3>2. Read(items)
      <4>1. PICK m \in Nat : calendar \in [1 .. m -> Avail!Events]
        BY DEF FreeInv
      <4>2. Avail!Listed \in Seq(Avail!Events)
        BY <4>1, ListedInTurn
      <4>3. PICK L \in Seq(Avail!Events) : L = Avail!Listed
        BY <4>2
      <4>4. Len(items) = 0 /\ Len(L) \in Nat /\ SubSeq(L, 1, 0) = <<>>
        BY <1>2, <4>3
      <4> QED
        BY <1>2, <4>3, <4>4 DEF Read
    <3>3. Read(items)'
      BY <1>2, <1>4, <3>2 DEF Read
    <3> QED
      BY <1>2, <1>4, <2>1, <2>2, <3>1, <3>3 DEF FreeInv, Avail!Shifts, Avail!Events, Avail!Sorted
  <2>3. CASE ~(to > from)
    <3>1. reading' = "refused" /\ Avail!To <= Avail!From
      BY <1>1, <2>1, <2>3
    <3> QED
      BY <1>2, <1>4, <3>1 DEF FreeInv, Avail!Shifts, Avail!Events, Avail!Sorted
  <2> QED
    BY <2>2, <2>3
<1>6. CASE ~(Avail!Happens(ask.from, from) /\ Avail!Happens(ask.to, to))
  <2>1. reading' = "refused"
    BY <1>1, <1>6
  <2>2. \E w \in {ask.from, ask.to} : Avail!Cardinality(Shows(w)) # 1
    BY <1>2, <1>6, ClockDoesNot
  <2>3. (\E w \in {ask.from, ask.to} : Avail!Cardinality(Shows(w)) # 1)'
    BY <1>2, <1>4, <2>2
  <2> QED
    BY <1>2, <1>4, <2>1, <2>3 DEF FreeInv, Avail!Shifts, Avail!Events, Avail!Sorted
<1> QED
  BY <1>5, <1>6

\* A page more is read.
LEMMA NextPageKeeps == ASSUME FreeInv, Avail!NextPage PROVE FreeInv'
<1>1. /\ reading = "list" /\ UNCHANGED <<zone, ask, calendar, free>>
      /\ Read(items)
  BY DEF Avail!NextPage, FreeInv
<1>2. PICK L \in Seq(Avail!Events) : L = Avail!Listed
  <2>1. PICK m \in Nat : calendar \in [1 .. m -> Avail!Events]
    BY DEF FreeInv
  <2> QED
    BY <2>1, ListedInTurn
<1>3. PICK n \in 0 .. Len(L) :
        items' = SubSeq(L, 1, n) /\ reading' = IF n = Len(L) \/ n >= PageSize * Pages THEN "compute" ELSE "list"
  <2>1. Len(items) \in Nat /\ Len(L) \in Nat /\ PageSize \in Nat
    BY <1>1, <1>2, ChannelsAssumption DEF Read
  <2>2. PICK n : /\ n = IF Len(items) + PageSize < Len(L) THEN Len(items) + PageSize ELSE Len(L)
                 /\ items' = SubSeq(L, 1, n)
                 /\ reading' = IF n = Len(L) \/ n >= PageSize * Pages THEN "compute" ELSE "list"
    BY <1>2 DEF Avail!NextPage
  <2>3. n \in 0 .. Len(L)
    BY <2>1, <2>2
  <2> QED
    BY <2>2, <2>3
<1>4. Len(items') = n
  BY <1>2, <1>3
<1>5. /\ Avail!From' = Avail!From /\ Avail!To' = Avail!To /\ Avail!Listed' = Avail!Listed
      /\ \A w, t : OnceAt(w, t)' <=> OnceAt(w, t)
  BY <1>1, ClockRests
<1>6. Read(items)'
  BY <1>2, <1>3, <1>4, <1>5 DEF Read
<1>7. reading' \in {"list", "compute"}
  BY <1>3
<1> QED
  BY <1>1, <1>5, <1>6, <1>7 DEF FreeInv, Avail!Shifts, Avail!Events, Avail!Sorted

\* The free times are computed, and they are the calendar's.
LEMMA ComputeKeeps == ASSUME FreeInv, Avail!Compute PROVE FreeInv'
<1>1. PICK held \in Avail!Held : free' = Avail!Gaps(Avail!From, Avail!UpTo, held, ask.need)
  BY DEF Avail!Compute
<1>2. reading = "compute" /\ reading' = "answered" /\ UNCHANGED <<zone, ask, calendar, items>>
  BY DEF Avail!Compute
<1>3. /\ Avail!From \in Int /\ Avail!To \in Int /\ Avail!From < Avail!To /\ ask.need \in Nat
  BY <1>2 DEF FreeInv, OnceAt
<1>4. Avail!UpTo \in Int /\ Avail!From <= Avail!UpTo
  <2>1. \/ Avail!UpTo = Avail!To \/ Avail!UpTo = Avail!From
        \/ /\ items # <<>> /\ Avail!UpTo = Avail!Last(items).s
           /\ Avail!Last(items).s > Avail!From
    BY DEF Avail!UpTo
  <2>2. items # <<>> => Avail!Last(items).s \in Int
    <3>1. PICK L \in Seq(Avail!Events) : L = Avail!Listed
      <4>1. PICK m \in Nat : calendar \in [1 .. m -> Avail!Events]
        BY DEF FreeInv
      <4> QED
        BY <4>1, ListedInTurn
    <3>2. PICK n \in 0 .. Len(L) : n = Len(items) /\ items = SubSeq(L, 1, n)
      BY <1>2, <3>1 DEF FreeInv, Read
    <3>3. items \in Seq(Avail!Events)
      BY <3>1, <3>2
    <3>4. items # <<>> => Avail!Last(items) \in Avail!Events
      BY <3>3 DEF Avail!Last
    <3> QED
      BY <3>4, EventTimes
  <2> QED
    BY <1>3, <2>1, <2>2
<1>5. free' = Avail!Slots(Avail!UpTo, calendar)
  <2>a. PICK n \in Nat : \E m :
          /\ held \in [1 .. n -> Avail!Events]
          /\ Avail!UpTo # Avail!From => Suits(Avail!From, Avail!UpTo, n, held, m, calendar)
    BY <1>2, HeldSuits
  <2>0. PICK m : /\ held \in [1 .. n -> Avail!Events]
                 /\ Avail!UpTo # Avail!From => Suits(Avail!From, Avail!UpTo, n, held, m, calendar)
    BY <2>a
  <2>1. CASE Avail!UpTo # Avail!From
    <3>1. Suits(Avail!From, Avail!UpTo, n, held, m, calendar)
      BY <2>0, <2>1
    <3>2. PICK from, to : from = Avail!From /\ to = Avail!UpTo
      OBVIOUS
    <3>3. Avail!Gaps(from, to, held, ask.need) = Avail!Slots(to, calendar)
      BY <1>3, <1>4, <3>1, <3>2, GapsAreExact
    <3> QED
      BY <1>1, <3>2, <3>3
  <2>2. CASE Avail!UpTo = Avail!From
    <3>1. Avail!Slots(Avail!UpTo, calendar) = {}
      BY <1>3, <2>2, NoSlots
    <3>2. Avail!Gaps(Avail!From, Avail!UpTo, held, ask.need) = {}
      <4>1. PICK from : from = Avail!From
        OBVIOUS
      <4>2. Avail!Gaps(from, from, held, ask.need) = {}
        BY <1>3, <2>0, <4>1, NoGaps
      <4> QED
        BY <2>2, <4>1, <4>2
    <3> QED
      BY <1>1, <3>1, <3>2
  <2> QED
    BY <2>1, <2>2
<1>6. /\ Avail!From' = Avail!From /\ Avail!To' = Avail!To /\ Avail!Listed' = Avail!Listed
      /\ \A w, t : OnceAt(w, t)' <=> OnceAt(w, t)
  BY <1>2, ClockRests
<1>7. Avail!UpTo' = Avail!UpTo
  BY <1>2, <1>6 DEF Avail!UpTo, Avail!More, Avail!Last
<1>8. (free = Avail!Slots(Avail!UpTo, calendar))'
  <2>1. Avail!Slots(Avail!UpTo, calendar)' = Avail!Slots(Avail!UpTo, calendar)
    BY <1>2, <1>6, <1>7 DEF Avail!Slots, Avail!SlotFrom, Avail!Clear
  <2> QED
    BY <1>5, <2>1
<1>9. Read(items)'
  BY <1>2, <1>6 DEF Read, FreeInv
<1> QED
  BY <1>2, <1>6, <1>8, <1>9 DEF FreeInv, Avail!Shifts, Avail!Events, Avail!Sorted

LEMMA FreeSteps == [Next]_vars => [Avail!AvailNext]_freeVars
  BY DEF Next, vars, NotMail, NotPoll, NotSetup, freeVars

LEMMA FreeStays == FreeInv /\ [Avail!AvailNext]_freeVars => FreeInv'
<1> SUFFICES ASSUME FreeInv, [Avail!AvailNext]_freeVars PROVE FreeInv'
  OBVIOUS
<1>1. CASE UNCHANGED freeVars
  <2>1. UNCHANGED <<zone, ask, calendar, reading, items, free>>
    BY <1>1 DEF freeVars
  <2>2. /\ Avail!From' = Avail!From /\ Avail!To' = Avail!To /\ Avail!Listed' = Avail!Listed
        /\ \A w, t : OnceAt(w, t)' <=> OnceAt(w, t)
        /\ \A w : Shows(w)' = Shows(w)
        /\ \A S : Avail!Cardinality(S)' = Avail!Cardinality(S)
    BY <2>1, ClockRests
  <2>3. Avail!UpTo' = Avail!UpTo
    BY <2>1, <2>2 DEF Avail!UpTo, Avail!More, Avail!Last
  <2>4. Avail!Slots(Avail!UpTo, calendar)' = Avail!Slots(Avail!UpTo, calendar)
    BY <2>1, <2>2, <2>3 DEF Avail!Slots, Avail!SlotFrom, Avail!Clear
  <2>5. Read(items)' <=> Read(items)
    BY <2>1, <2>2 DEF Read
  <2> QED
    BY <2>1, <2>2, <2>4, <2>5 DEF FreeInv, Avail!Shifts, Avail!Events, Avail!Sorted
<1> QED
  BY <1>1, FilledKeeps, PlaceKeeps, NextPageKeeps, ComputeKeeps DEF Avail!AvailNext

\* The free times a call answers are those of the whole calendar, whatever events there
\* are, whatever the zone and though not all pages were read; none is claimed after what
\* was read; and wall clocks are refused that do not happen or happen twice (availability,
\* list, gaps, wallClock).
THEOREM FreeTimeStaysExact == FairSpec => []FreeTimeIsExact
<1>1. Init => FreeInv
  BY FreeStarts DEF Init
<1>2. FreeInv /\ [Next]_vars => FreeInv'
  BY FreeStays, FreeSteps
<1>3. FreeInv => FreeTimeIsExact
  <2> SUFFICES ASSUME FreeInv PROVE Avail!FreeTimeIsExact
    BY DEF FreeTimeIsExact
  <2>1. reading = "list" => \A w \in {ask.from, ask.to} : Avail!Cardinality(Shows(w)) = 1
    BY OnceIsOne DEF FreeInv
  <2> QED
    BY <2>1 DEF FreeInv, Shows, Avail!FreeTimeIsExact
<1> QED
  BY <1>1, <1>2, <1>3, PTL DEF FairSpec

----------------------------------------------------------------------------
(* The inboxes.  MailSyncProofs and TelegramPollProofs prove that each     *)
(* implements HandOver; here they are taken where the composition runs     *)
(* them.                                                                   *)

MailP == INSTANCE MailSyncProofs
PollP == INSTANCE TelegramPollProofs

\* The modules that are proved about are the modules that run.
LEMMA SamePoll ==
    /\ Poll!PollInit <=> PollP!PollInit
    /\ Poll!PollNext <=> PollP!PollNext
<1>1. Poll!PollInit <=> PollP!PollInit
  BY DEF Poll!PollInit, PollP!PollInit, Poll!Fresh, PollP!Fresh, Poll!NoPoll, PollP!NoPoll
<1>2. Poll!PollNext <=> PollP!PollNext
  BY DEF
     Poll!Cardinality, PollP!Cardinality, Poll!pollVars, PollP!pollVars, Poll!NoPoll, PollP!NoPoll,
     Poll!Fresh, PollP!Fresh, Poll!UpdateComes, PollP!UpdateComes, Poll!Receive, PollP!Receive,
     Poll!Passable, PollP!Passable, Poll!Settled, PollP!Settled, Poll!Settle, PollP!Settle, Poll!Load,
     PollP!Load, Poll!CommitOffset, PollP!CommitOffset, Poll!Ask, PollP!Ask, Poll!Given, PollP!Given,
     Poll!AskFails, PollP!AskFails, Poll!Answers, PollP!Answers, Poll!AnswerLost, PollP!AnswerLost,
     Poll!BotKilled, PollP!BotKilled, Poll!PollStep, PollP!PollStep, Poll!PollNext, PollP!PollNext
<1> QED BY <1>1, <1>2

LEMMA SamePollPromise == Poll!PollHandOver!Spec <=> PollP!PollHandOver!Spec
  BY DEF
     Poll!PollHandOver!Init, PollP!PollHandOver!Init, Poll!PollHandOver!Next, PollP!PollHandOver!Next,
     Poll!PollHandOver!Arrives, PollP!PollHandOver!Arrives, Poll!PollHandOver!Keeps,
     PollP!PollHandOver!Keeps, Poll!PollHandOver!Excuses, PollP!PollHandOver!Excuses,
     Poll!PollHandOver!Passes, PollP!PollHandOver!Passes, Poll!PollHandOver!handVars,
     PollP!PollHandOver!handVars, Poll!PollHandOver!Spec, PollP!PollHandOver!Spec

LEMMA SameMail ==
    /\ Mail!MailInit <=> MailP!MailInit
    /\ Mail!MailNext <=> MailP!MailNext
<1>1. Mail!MailInit <=> MailP!MailInit
  BY DEF Mail!MailInit, MailP!MailInit, Mail!NoBatch, MailP!NoBatch, Mail!NoCursor, MailP!NoCursor, Mail!Idle, MailP!Idle
<1>2. Mail!MailNext <=> MailP!MailNext
  BY DEF
     Mail!Cardinality, MailP!Cardinality, Mail!ToSet, MailP!ToSet, Mail!Last, MailP!Last, Mail!mailbox,
     MailP!mailbox, Mail!held, MailP!held, Mail!Mail, MailP!Mail, Mail!Cut, MailP!Cut, Mail!Gap, MailP!Gap,
     Mail!NoCursor, MailP!NoCursor, Mail!NoBatch, MailP!NoBatch, Mail!Idle, MailP!Idle, Mail!HistoryId,
     MailP!HistoryId, Mail!AllMail, MailP!AllMail, Mail!Arrived, MailP!Arrived, Mail!MailOf, MailP!MailOf,
     Mail!Receives, MailP!Receives, Mail!Deletes, MailP!Deletes, Mail!Forgets, MailP!Forgets, Mail!Confirm,
     MailP!Confirm, Mail!Start, MailP!Start, Mail!Save, MailP!Save, Mail!Watch, MailP!Watch,
     Mail!FirstCursor, MailP!FirstCursor, Mail!ReadHistory, MailP!ReadHistory, Mail!RoomLeft,
     MailP!RoomLeft, Mail!TakeRecord, MailP!TakeRecord, Mail!Fetched, MailP!Fetched, Mail!Fetch,
     MailP!Fetch, Mail!RecordDone, MailP!RecordDone, Mail!Batch, MailP!Batch, Mail!WalkEnds, MailP!WalkEnds,
     Mail!ReadFails, MailP!ReadFails, Mail!Found, MailP!Found, Mail!Newest, MailP!Newest, Mail!ReadPlace,
     MailP!ReadPlace, Mail!InOrder, MailP!InOrder, Mail!Rebaseline, MailP!Rebaseline, Mail!Put, MailP!Put,
     Mail!ToldBy, MailP!ToldBy, Mail!Answer, MailP!Answer, Mail!Killed, MailP!Killed, Mail!MailStep,
     MailP!MailStep, Mail!MailNext, MailP!MailNext
<1> QED BY <1>1, <1>2

LEMMA SameMailPromise == Mail!MailHandOver!Spec <=> MailP!MailHandOver!Spec
  BY DEF
     Mail!MailHandOver!Init, MailP!MailHandOver!Init, Mail!MailHandOver!Next, MailP!MailHandOver!Next,
     Mail!MailHandOver!Arrives, MailP!MailHandOver!Arrives, Mail!MailHandOver!Keeps,
     MailP!MailHandOver!Keeps, Mail!MailHandOver!Excuses, MailP!MailHandOver!Excuses,
     Mail!MailHandOver!Passes, MailP!MailHandOver!Passes, Mail!MailHandOver!handVars,
     MailP!MailHandOver!handVars, Mail!MailHandOver!Spec, MailP!MailHandOver!Spec, Mail!Cardinality,
     MailP!Cardinality, Mail!ToSet, MailP!ToSet, Mail!MailPassed, MailP!MailPassed, Mail!MailKept,
     MailP!MailKept, Mail!BeforeStart, MailP!BeforeStart, Mail!MailExcused, MailP!MailExcused, Mail!MailOf,
     MailP!MailOf, Mail!AllMail, MailP!AllMail, Mail!Arrived, MailP!Arrived, Mail!Mail, MailP!Mail

\* Whatever is lost, refused or killed, the cursor of the Gmail inbox and the offset of
\* Telegram's updates pass no message that the host does not hold, unless it is gone, made
\* no arrival, or was left out with a notice (sync, notify, renew; receive).
THEOREM InboxesHandedOver == FairSpec => InboxesAreHandedOver
<1>1. Init => MailP!MailInit /\ PollP!PollInit
  BY SameMail, SamePoll DEF Init
<1>2. [Next]_vars => [MailP!MailNext]_MailP!mailVars
  BY SameMail DEF Next, vars, NotMail, NotPoll, NotSetup, mailVars, MailP!mailVars, MailP!mailbox, MailP!held
<1>3. [Next]_vars => [PollP!PollNext]_PollP!pollVars
  BY SamePoll DEF Next, vars, NotMail, NotPoll, NotSetup, pollVars, PollP!pollVars
<1>4. MailP!MailSpec => MailP!MailHandOver!Spec
  BY ChannelsAssumption, MailP!MailImplementsHandOver
<1>5. PollP!PollSpec => PollP!PollHandOver!Spec
  BY ChannelsAssumption, PollP!PollImplementsHandOver
<1> QED
  BY <1>1, <1>2, <1>3, <1>4, <1>5, SameMailPromise, SamePollPromise, PTL
  DEF FairSpec, MailP!MailSpec, PollP!PollSpec, InboxesAreHandedOver
=============================================================================

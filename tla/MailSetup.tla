----------------------------- MODULE MailSetup -----------------------------
(***************************************************************************)
(* gmail.setup of examples/gmail: the topic, Gmail's grant to publish to   *)
(* it, the push subscription and the watch are made or found, one request  *)
(* after the other, in the operator's Google project; every step is safe   *)
(* to run again, so a setup that stops is asked for again.                 *)
(*                                                                         *)
(* Pub/Sub and Gmail are external: the policy has an etag, other admins    *)
(* change it and the subscription, and a request that may have been        *)
(* received takes effect at once, later, or never.                         *)
(***************************************************************************)
EXTENDS Naturals

CONSTANTS MaxMishaps   \* bound: failed requests, others' changes, kills

VARIABLES topic,       \* the topic exists
          policy,      \* [etag, members]: who may publish to it
          sub,         \* the push subscription: "none", "ours", "old" endpoint, "foreign" topic
          watching,    \* users.watch was taken
          run,         \* the setup in progress
          ready,       \* the last setup answered that all is set up
          pending,     \* requests that may yet take effect
          meddled,     \* ghost: somebody changed something since the setup began
          overwritten, \* ghost: a write of the policy undid another's change
          mishaps

setupVars == <<topic, policy, sub, watching, run, ready, pending, meddled, overwritten, mishaps>>

NoRun == [at |-> "none"]
Gmail == "gmail-api-push"

SetupInit ==
    /\ topic = FALSE
    /\ policy = [etag |-> 1, members |-> {}]
    /\ sub \in {"none", "old", "foreign"}
    /\ watching = FALSE /\ run = NoRun /\ ready = FALSE /\ pending = {}
    /\ meddled = FALSE /\ overwritten = FALSE /\ mishaps = 0

----------------------------------------------------------------------------
\* The services.
Granted == Gmail \in policy.members

Taken(q) ==
    CASE q.what = "topic" -> ~topic
      [] q.what = "grant" -> topic /\ q.etag \in {0, policy.etag}
      [] q.what = "subscribe" -> topic /\ sub = "none"
      [] q.what = "point" -> sub # "none"
      [] q.what = "watch" -> topic /\ Granted

Takes(q) ==
    /\ topic' = (topic \/ q.what = "topic")
    /\ policy' = IF q.what = "grant" THEN [etag |-> policy.etag + 1, members |-> q.members] ELSE policy
    /\ overwritten' = (overwritten \/ (q.what = "grant" /\ q.members # policy.members \cup {Gmail}))
    /\ sub' = CASE q.what = "subscribe" -> "ours"
                [] q.what = "point" /\ sub = "old" -> "ours"
                [] OTHER -> sub
    /\ watching' = (watching \/ q.what = "watch")

Leaves == UNCHANGED <<topic, policy, overwritten, sub, watching>>

\* A request and how it ends: taken, answered otherwise (a 409 or 412), or a mishap of it.
Calls(q, good, other) ==
    \/ /\ Taken(q) /\ Takes(q) /\ run' = good
       /\ UNCHANGED <<pending, mishaps>>
    \/ /\ ~Taken(q) /\ Leaves /\ run' = other
       /\ UNCHANGED <<pending, mishaps>>
    \/ /\ mishaps < MaxMishaps /\ mishaps' = mishaps + 1
       /\ run' = NoRun
       /\ \/ Taken(q) /\ Takes(q) /\ UNCHANGED pending
          \/ Leaves /\ pending' \in {pending, pending \cup {q}}

TakenLate ==
    /\ \E q \in pending : /\ IF Taken(q) THEN Takes(q) ELSE Leaves
                          /\ pending' = pending \ {q}
    /\ UNCHANGED <<run, ready, meddled, mishaps>>

Others ==
    /\ mishaps < MaxMishaps /\ mishaps' = mishaps + 1
    /\ \/ /\ topic
          /\ \E m \in {Gmail, "other"} :
               policy' = [etag |-> policy.etag + 1,
                          members |-> IF m \in policy.members THEN policy.members \ {m} ELSE policy.members \cup {m}]
          /\ UNCHANGED <<topic, sub>>
       \/ sub' \in {"none", "old"} \ {sub} /\ UNCHANGED <<topic, policy>>
    /\ meddled' = TRUE
    /\ UNCHANGED <<watching, run, ready, pending, overwritten>>

----------------------------------------------------------------------------
\* setup.  The operator confirmed it and the settings are there.
SetupAsked ==
    /\ run = NoRun /\ ~ready
    /\ run' = [at |-> "topic"] /\ meddled' = FALSE
    /\ UNCHANGED <<topic, policy, sub, watching, ready, pending, overwritten, mishaps>>

MakeTopic ==
    /\ run.at = "topic"
    /\ Calls([what |-> "topic"], [at |-> "policy"], [at |-> "policy"])
    /\ UNCHANGED <<ready, meddled>>

\* Mutant: the etag is not written back.
ETagNone(p) == 0

\* allowGmailToPublish: the policy as it is read, with its etag, is what is written back.
ETag(p) == p.etag

ReadPolicy ==
    /\ run.at = "policy"
    /\ \/ /\ run' = IF Granted THEN [at |-> "subscribe"]
                    ELSE [at |-> "grant", q |-> [what |-> "grant", etag |-> ETag(policy),
                                                 members |-> policy.members \cup {Gmail}]]
          /\ UNCHANGED mishaps
       \/ mishaps < MaxMishaps /\ mishaps' = mishaps + 1 /\ run' = NoRun
    /\ UNCHANGED <<topic, policy, sub, watching, ready, pending, meddled, overwritten>>

\* writePolicy: a policy that changed since stops the setup.
WritePolicy ==
    /\ run.at = "grant"
    /\ Calls(run.q, [at |-> "subscribe"], NoRun)
    /\ UNCHANGED <<ready, meddled>>

\* pushSubscription: one that is there is read; on another topic it is not moved.
Subscribe ==
    /\ run.at = "subscribe"
    /\ Calls([what |-> "subscribe"], [at |-> "watch"], [at |-> "found"])
    /\ UNCHANGED <<ready, meddled>>

Found ==
    /\ run.at = "found"
    /\ \/ /\ run' = CASE sub = "ours" -> [at |-> "watch"]
                      [] sub = "old" -> [at |-> "point"]
                      [] OTHER -> NoRun
          /\ UNCHANGED mishaps
       \/ mishaps < MaxMishaps /\ mishaps' = mishaps + 1 /\ run' = NoRun
    /\ UNCHANGED <<topic, policy, sub, watching, ready, pending, meddled, overwritten>>

Point ==
    /\ run.at = "point"
    /\ Calls([what |-> "point"], [at |-> "watch"], NoRun)
    /\ UNCHANGED <<ready, meddled>>

StartWatch ==
    /\ run.at = "watch"
    /\ Calls([what |-> "watch"], [at |-> "ready"], NoRun)
    /\ UNCHANGED <<ready, meddled>>

SetUp ==
    /\ run.at = "ready"
    /\ ready' = TRUE /\ run' = NoRun
    /\ UNCHANGED <<topic, policy, sub, watching, pending, meddled, overwritten, mishaps>>

SetupStep == SetupAsked \/ MakeTopic \/ ReadPolicy \/ WritePolicy \/ Subscribe \/ Found
             \/ Point \/ StartWatch \/ SetUp

SetupNext == SetupStep \/ TakenLate \/ Others

----------------------------------------------------------------------------
\* Whatever setup writes, at once or late, no grant another admin made or took away is
\* undone (writePolicy), and a setup that says it is done has set up all of it, but for
\* what others changed meanwhile.
SetupIsClean ==
    /\ ~overwritten
    /\ ready /\ ~meddled => topic /\ Granted /\ sub = "ours" /\ watching

=============================================================================

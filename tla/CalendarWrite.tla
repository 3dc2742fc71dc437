--------------------------- MODULE CalendarWrite ---------------------------
(***************************************************************************)
(* calendar.create, calendar.update and calendar.delete of                 *)
(* examples/google-calendar: each write is asked once the operator         *)
(* confirmed it, answers with what Google did, and may be asked again.     *)
(*                                                                         *)
(* The calendar is external: an event has a version (its etag), other      *)
(* people change, delete and restore it, and a request Google may have     *)
(* received takes effect at once, later, or never.  Event 1 is the one the *)
(* id derived from the intended event names.                               *)
(***************************************************************************)
EXTENDS Naturals, Sequences, FiniteSets

CONSTANTS MaxWrites,    \* bound: writes asked
          MaxTurns      \* bound: requests that go wrong, other people's edits, kills

VARIABLES events,       \* the calendar: id -> [st, ver, body]
          repeating,    \* the event is a series
          write,        \* the write in progress, or NoWrite
          writes,       \* how many were asked
          outcome,      \* what each answered
          known,        \* a version some read gave the caller, 0 when none did
          effects,      \* ghost: [n, on, bound]: write n took effect on version `on`
          underway,     \* requests that may yet take effect
          turns

calVars == <<events, repeating, write, writes, outcome, known, effects, underway, turns>>

NoWrite == [at |-> "none"]
Nobody == [st |-> "absent", ver |-> 0, body |-> "none"]

\* Mutant: every create has an id of its own.
EventIdFresh(n) == n

\* eventID: derived from the intended event alone, so the same create names the same event.
EventId(n) == 1

CalInit ==
    /\ events = [id \in 1 .. MaxWrites |-> Nobody]
    /\ repeating \in BOOLEAN
    /\ write = NoWrite /\ writes = 0 /\ outcome = <<>> /\ known = 0
    /\ effects = {} /\ underway = {} /\ turns = 0

----------------------------------------------------------------------------
\* Google.  A request is [what, id, n, version].
Takes(q) ==
    CASE q.what = "create" -> events[q.id].st = "absent"
      [] q.what = "update" -> events[q.id].st = "live" /\ q.version \in {0, events[q.id].ver}
      [] q.what = "delete" -> events[q.id].st = "live"

After(q) ==
    CASE q.what = "create" -> [st |-> "live", ver |-> 1, body |-> "intended"]
      [] q.what = "update" -> [events[q.id] EXCEPT !.ver = @ + 1]
      [] q.what = "delete" -> [events[q.id] EXCEPT !.st = "cancelled", !.ver = @ + 1]

Effect(q) ==
    IF Takes(q)
    THEN /\ events' = [events EXCEPT ![q.id] = After(q)]
         /\ effects' = effects \cup {[n |-> q.n, what |-> q.what, id |-> q.id,
                                      on |-> events[q.id].ver, read |-> q.read]}
    ELSE UNCHANGED <<events, effects>>

\* The status of an answer to a request that has no effect.
Refusal(q) ==
    IF q.what = "create" THEN "s409"
    ELSE IF events[q.id].st = "live" THEN "s412" ELSE "gone"

NoEffect == {"refused", "unreached", "s4xx"}
Uncertain == {"lost", "unread", "s5xx", "garbled"}
Unsaid == NoEffect \cup Uncertain \cup {"s409", "s412", "gone"}

Goes(q, good, bad) ==
    \/ /\ Takes(q) /\ Effect(q) /\ write' = good
       /\ UNCHANGED <<underway, turns>>
    \/ /\ ~Takes(q) /\ write' = bad[Refusal(q)]
       /\ UNCHANGED <<events, effects, underway, turns>>
    \/ /\ turns < MaxTurns /\ turns' = turns + 1
       /\ \/ /\ \E e \in NoEffect : write' = bad[e]
             /\ UNCHANGED <<events, effects, underway>>
          \/ /\ \E e \in Uncertain : write' = bad[e]
             /\ \/ Effect(q) /\ UNCHANGED underway
                \/ underway' = underway \cup {q} /\ UNCHANGED <<events, effects>>

TakesEffect ==
    /\ \E q \in underway : Effect(q) /\ underway' = underway \ {q}
    /\ UNCHANGED <<repeating, write, writes, outcome, known, turns>>

\* Somebody else edits, retitles, deletes or restores an event.
People ==
    /\ turns < MaxTurns /\ turns' = turns + 1
    /\ \E id \in 1 .. MaxWrites :
         LET ev == events[id] IN
         /\ ev.st # "absent"
         /\ \/ \E b \in {"edited", "retitled"} : events' = [events EXCEPT ![id] = [ev EXCEPT !.ver = @ + 1, !.body = b]]
            \/ events' = [events EXCEPT ![id] = [ev EXCEPT !.ver = @ + 1,
                                !.st = IF ev.st = "live" THEN "cancelled" ELSE "live"]]
    /\ UNCHANGED <<repeating, write, writes, outcome, known, effects, underway>>

\* A read of the calendar gives the caller the event's version.
Reads ==
    /\ write = NoWrite /\ events[1].st = "live" /\ known # events[1].ver
    /\ known' = events[1].ver
    /\ UNCHANGED <<events, repeating, write, writes, outcome, effects, underway, turns>>

----------------------------------------------------------------------------
\* The operations.
Told(what) == [at |-> "answer", says |-> what]

Request(what) == [what |-> what, id |-> EventId(writes + 1), n |-> writes + 1, version |-> 0, read |-> known]

\* What is not confirmed or not well formed is refused before anything is asked.
AskCreate ==
    /\ write = NoWrite /\ writes < MaxWrites
    /\ writes' = writes + 1
    /\ write' = [at |-> "write", q |-> Request("create")]
    /\ UNCHANGED <<events, repeating, outcome, known, effects, underway, turns>>

\* Mutant: the request does not carry the version.
IfMatchNone(version) == 0

\* The change is bound to the version its caller read (If-Match); 0 binds to none.
IfMatch(version) == version

AskChange ==
    /\ write = NoWrite /\ writes < MaxWrites
    /\ writes' = writes + 1
    /\ \/ known # 0 /\ write' = [at |-> "current", q |-> [Request("update") EXCEPT !.version = IfMatch(known)]]
       \/ write' = [at |-> "current", q |-> Request("delete")]
    /\ UNCHANGED <<events, repeating, outcome, known, effects, underway, turns>>

\* update and remove read the event first: gone, a series, another version, another title.
Current ==
    /\ write.at = "current"
    /\ LET q == write.q
           ev == events[q.id]
       IN \/ /\ write' = IF ev.st = "cancelled" THEN Told(IF q.what = "delete" THEN "before" ELSE "nothing")
                        ELSE IF \/ ev.st = "absent" \/ repeating
                                \/ q.what = "update" /\ ev.ver # q.read
                                \/ ev.body = "retitled"
                        THEN Told("nothing")
                        ELSE [write EXCEPT !.at = "write"]
             /\ UNCHANGED turns
          \/ /\ turns < MaxTurns /\ turns' = turns + 1
             /\ write' = Told("nothing")
    /\ UNCHANGED <<events, repeating, writes, outcome, known, effects, underway>>

\* created, updated and deleted: what an answer without the effect says.
Settled(e) ==
    CASE e \in Uncertain -> Told("unknown")
      [] e \in NoEffect -> Told("nothing")
      [] e = "s409" -> [write EXCEPT !.at = "settle"]
      [] e = "s412" -> Told("nothing")
      [] e = "gone" -> Told(IF write.q.what = "delete" THEN "before" ELSE "nothing")

Write ==
    /\ write.at = "write"
    /\ Goes(write.q, IF write.q.what = "delete" THEN [write EXCEPT !.at = "confirm"] ELSE Told("done"),
            [e \in Unsaid |-> Settled(e)])
    /\ UNCHANGED <<repeating, writes, outcome, known>>

\* settle: an event with this id exists; it is read back before it is claimed.
Settle ==
    /\ write.at = "settle"
    /\ LET ev == events[write.q.id] IN
       \/ /\ write' = Told(IF ev.st = "live" /\ ev.body = "intended" THEN "before" ELSE "nothing")
          /\ UNCHANGED turns
       \/ /\ turns < MaxTurns /\ turns' = turns + 1
          /\ write' = Told("unknown")
    /\ UNCHANGED <<events, repeating, writes, outcome, known, effects, underway>>

\* deleted: a read after the delete; only what it finds gone is confirmed.
ConfirmDelete ==
    /\ write.at = "confirm"
    /\ \/ /\ write' = Told(IF events[write.q.id].st = "cancelled" THEN "done" ELSE "unknown")
          /\ UNCHANGED turns
       \/ /\ turns < MaxTurns /\ turns' = turns + 1
          /\ write' = Told("done")
    /\ UNCHANGED <<events, repeating, writes, outcome, known, effects, underway>>

WriteAnswered ==
    /\ write.at = "answer"
    /\ outcome' = Append(outcome, write.says)
    /\ write' = NoWrite
    /\ UNCHANGED <<events, repeating, writes, known, effects, underway, turns>>

WriteDies ==
    /\ write # NoWrite /\ turns < MaxTurns
    /\ outcome' = Append(outcome, "unknown")
    /\ write' = NoWrite /\ turns' = turns + 1
    /\ UNCHANGED <<events, repeating, writes, known, effects, underway>>

CalNext == TakesEffect \/ People \/ Reads \/ AskCreate \/ AskChange \/ Current \/ Write
           \/ Settle \/ ConfirmDelete \/ WriteAnswered \/ WriteDies

----------------------------------------------------------------------------
\* A change is made to the version its caller read, and to no later one, though others
\* write between the plugin's read and its own request (update).
ChangesWhatWasRead == \A f \in effects : f.what = "update" => f.on = f.read

\* The same create asked any number of times makes one event, whatever became of the
\* earlier ones ("the same create asked again finds it by its id", created); an answer
\* holds whatever takes effect later: "nothing" was changed and what was "before" was not
\* this call's doing; what is "done" this call did.
WritesAreTrue ==
    /\ Cardinality({f \in effects : f.what = "create"}) <= 1
    /\ \A i \in DOMAIN outcome :
         /\ outcome[i] \in {"nothing", "before"} => \A f \in effects : f.n # i
         /\ outcome[i] = "done" => \E f \in effects : f.n = i
=============================================================================

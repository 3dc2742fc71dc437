---------------------------- MODULE HostStreams ----------------------------
(***************************************************************************)
(* Streamed responses: http.* with stream, http.read and http.close of the *)
(* stand-in host (cmd/aiisdk/harness.go), and the guest's HTTPStream       *)
(* (pkg/aiiosdk/hostcall.go).  The remote, external, answers a status and  *)
(* a body and may break the connection; a plugin may drop a handle.        *)
(***************************************************************************)
EXTENDS Naturals, FiniteSets, Functions

CONSTANTS MaxBody,      \* harnessMaxBody, in units of what a read carries
          MaxOpened     \* bound: streams opened

VARIABLES table,     \* the host's streams: id -> [left, total, seq]
          opened,    \* streamN
          handle,    \* the guest's HTTPStream, and the limit of its ReadAll
          bodies,    \* ghost: how long the body of each stream is
          dropped    \* ghost: ids of handles no one holds any more
streamVars == <<table, opened, handle, bodies, dropped>>

NoHandle == [id |-> 0, got |-> 0, done |-> TRUE, end |-> "none", limit |-> 0]
Fresh(id, limit) == [id |-> id, got |-> 0, done |-> FALSE, end |-> "open", limit |-> limit]

StreamsInit ==
    /\ table = <<>> /\ opened = 0 /\ handle = NoHandle /\ bodies = <<>> /\ dropped = {}

Forget(id) == table' = Restrict(table, DOMAIN table \ {id})

\* A status of 400 or more is answered whole, and leaves nothing open.
Open ==
    /\ handle.end # "open" /\ opened < MaxOpened
    /\ \E body \in 0 .. MaxBody + 1, limit \in 0 .. MaxBody :
         LET id == opened + 1 IN
         /\ opened' = id
         /\ table' = [i \in DOMAIN table \cup {id} |->
                         IF i = id THEN [left |-> body, total |-> 0, seq |-> 0] ELSE table[i]]
         /\ bodies' = [i \in DOMAIN bodies \cup {id} |-> IF i = id THEN body ELSE bodies[i]]
         /\ handle' = Fresh(id, limit)
    /\ UNCHANGED dropped

\* Mutant: the ceiling is the remote's affair.
NoCeiling(total) == FALSE
PastCeiling(total) == total > MaxBody

\* A read ends a stream at its end of file, at an error and over the ceiling.
Ends(err, total) == err # "none" \/ PastCeiling(total)

\* http.read and Next: k units come, the last of them perhaps with the end of file.
Next ==
    /\ handle.end = "open" /\ ~handle.done
    /\ LET s == table[handle.id] IN
       \E k \in {0, 1}, err \in {"none", "eof", "broken"} :
         /\ k <= s.left
         /\ err = "none" => k > 0
         /\ err = "eof" => k = s.left
         /\ IF Ends(err, s.total + k) THEN Forget(handle.id)
            ELSE table' = [table EXCEPT ![handle.id] = [left |-> s.left - k, total |-> s.total + k, seq |-> s.seq + 1]]
         /\ handle' = [handle EXCEPT !.got = @ + k, !.done = Ends(err, s.total + k),
                                     !.end = IF ~Ends(err, s.total + k) THEN @
                                             ELSE IF PastCeiling(s.total + k) THEN "too large"
                                             ELSE IF err = "broken" THEN "broken" ELSE "whole"]
    /\ UNCHANGED <<opened, bodies, dropped>>

\* ReadAll closes the stream at its own limit, unless the stream ended there.
OverLimit ==
    /\ handle.end \in {"open", "whole"} /\ handle.limit > 0 /\ handle.got > handle.limit
    /\ IF handle.done THEN UNCHANGED table ELSE Forget(handle.id)
    /\ handle' = [handle EXCEPT !.done = TRUE, !.end = "limit"]
    /\ UNCHANGED <<opened, bodies, dropped>>

Close ==
    /\ handle.end = "open"
    /\ Forget(handle.id)
    /\ handle' = [handle EXCEPT !.done = TRUE, !.end = "closed"]
    /\ UNCHANGED <<opened, bodies, dropped>>

\* While one of the package's checks runs the host refuses the read: the handle is done,
\* the host's stream is not.
Denied ==
    /\ handle.end = "open"
    /\ handle' = [handle EXCEPT !.done = TRUE, !.end = "denied"]
    /\ dropped' = dropped \cup {handle.id}
    /\ UNCHANGED <<table, opened, bodies>>

\* The operation returns without reading to the end or closing: nothing of the stand-in
\* host closes what it opened.
Drop ==
    /\ handle.end = "open"
    /\ handle' = NoHandle
    /\ dropped' = dropped \cup {handle.id}
    /\ UNCHANGED <<table, opened, bodies>>

StreamsNext == Open \/ Next \/ OverLimit \/ Close \/ Denied \/ Drop

\* What a stream said to be whole brought is the remote's body, all of it and within the
\* ceiling.  The host has the stream of a handle in use, and forgot one that ended, failed
\* or was closed; of a dropped one nothing is said, which the code keeps.
StreamsAreExact ==
    /\ handle.end = "whole" => handle.got = bodies[handle.id] /\ handle.got <= MaxBody
    /\ handle.end = "open" => handle.id \in DOMAIN table
    /\ DOMAIN table \subseteq dropped \cup (IF handle.end = "open" THEN {handle.id} ELSE {})
=============================================================================

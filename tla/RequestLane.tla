---------------------------- MODULE RequestLane ----------------------------
(***************************************************************************)
(* The request lane of "aiisdk test": the driver asks one worker its       *)
(* cases, its package checks and an undeclared operation, in that order    *)
(* and over one pair of pipes (workerdrive.Worker.Invoke), serves the host *)
(* calls the guest makes meanwhile, and gives each step a verdict.  At the *)
(* other end the guest library reads, dispatches and replies, one request  *)
(* at a time (Plugin.serve, hostInvokeNative).                             *)
(*                                                                         *)
(* A read that is given up leaves its goroutine behind in ReadFrame, on    *)
(* the same pipe as the next one.  ReadFrame reads a header and then a     *)
(* body, and nothing keeps two of them apart: the driver's end of the pipe *)
(* is modelled in those parts.  Time is not: a timer may be found expired  *)
(* whenever it is waited for.                                              *)
(***************************************************************************)
EXTENDS Naturals, Sequences

CONSTANTS
    NCases,      \* the case files
    NChecks,     \* the package's checks on the operation and embeddings lanes
    Hostile,     \* 1 if the undeclared operation is asked at the end, else 0
    MaxCalls,    \* bound: the host calls the guest makes
    PipeFrames   \* the frames the guest's stdin holds before a write blocks

NSteps == NCases + NChecks + Hostile
Steps  == 1..NSteps
Checks == NCases + 1 .. NCases + NChecks

ASSUME RequestAssumption ==
    /\ NCases \in Nat /\ NChecks \in Nat /\ Hostile \in {0, 1}
    /\ MaxCalls \in Nat /\ PipeFrames \in Nat \ {0}

VARIABLES
    step,     \* the step the driver is at
    drv,      \* where Invoke is, or Close
    readers,  \* every readFrame goroutine so far; Invoke waits for the last
    res,      \* how each step ended
    judged,   \* the request that the reply judged for it answers, 0: none
    gone,     \* runChecks: a check timed out
    stdin,    \* the frames on their way to the guest
    eof,      \* the driver has closed it
    stdout,   \* the headers and bodies on their way to the driver
    torn,     \* what is left of stdout does not begin with a header
    guest,    \* where Plugin.serve is
    of,       \* the request it works on
    calls,    \* stdioTransport.nextID
    served,   \* <<request, step>>: who made each host call, when it was served
    lost      \* the requests the guest read in place of a host call's reply

drvVars   == <<step, drv, readers, res, judged, gone>>
guestVars == <<guest, of, calls, lost>>
pipes     == <<stdin, eof, stdout, torn>>
vars      == <<drvVars, guestVars, pipes, served>>

\* To the guest: requests, and the replies to its host calls.  From it: host
\* calls and replies.  "of" is the request the frame belongs to.
Request(s)     == [kind |-> "request", id |-> s, of |-> s]
HostReply(n)   == [kind |-> "hostreply", id |-> n, of |-> 0]
HostRequest(n) == [kind |-> "hostcall", id |-> n, of |-> of]
Reply          == [kind |-> "reply", id |-> of, of |-> of]
Refusal        == [kind |-> "reply", id |-> 0, of |-> 0]

NoFrame == [kind |-> "reply", id |-> 0, of |-> 0]
\* A goroutine of readFrame is at the header, the body or junk, or has got or failed.
Begun  == [at |-> "header", f |-> NoFrame]

\* WriteFrame: the header, then the body.
Written(f) == Append(Append(stdout, [part |-> "header", f |-> f]), [part |-> "body", f |-> f])

Init ==
    /\ step = 1 /\ drv = "ask" /\ readers = <<>>
    /\ res = [s \in Steps |-> "none"] /\ judged = [s \in Steps |-> 0]
    /\ gone = FALSE
    /\ stdin = <<>> /\ eof = FALSE /\ stdout = <<>> /\ torn = FALSE
    /\ guest = "read" /\ of = 0 /\ calls = 0 /\ lost = {}
    /\ served = {}

----------------------------------------------------------------------------
(* The driver: runCase, runChecks, the hostile call; Worker.Invoke.        *)

Asking == drv = "ask" /\ step \in Steps

\* The step ends and the driver goes to the next.
Ends(word) ==
    /\ res' = [res EXCEPT ![step] = word]
    /\ step' = step + 1 /\ drv' = "ask"

NotAsked ==     \* runCheck: the plugin stopped answering at an earlier check
    /\ Asking /\ step \in Checks /\ gone
    /\ Ends("notasked")
    /\ UNCHANGED <<readers, judged, gone, guestVars, pipes, served>>

Askable == Asking /\ ~(step \in Checks /\ gone)

Ask ==          \* the request is written, once the pipe has room for it
    /\ Askable /\ guest # "exit" /\ Len(stdin) < PipeFrames
    /\ stdin' = Append(stdin, Request(step)) /\ drv' = "read"
    /\ UNCHANGED <<step, readers, res, judged, gone, guestVars, eof, stdout, torn, served>>

AskFails ==     \* the guest is no more: the write fails
    /\ Askable /\ guest = "exit"
    /\ Ends("broken")
    /\ UNCHANGED <<readers, judged, gone, guestVars, pipes, served>>

\* WriteFrame refuses a frame over 1 MiB (ErrFrameTooLarge) before it writes any
\* of it.  A case or a check may carry such arguments; the undeclared operation
\* carries none.
AskRefused ==
    /\ Askable /\ step <= NCases + NChecks
    /\ Ends("unsent")
    /\ UNCHANGED <<readers, judged, gone, guestVars, pipes, served>>

ReadFrame ==    \* Worker.readFrame starts a goroutine of its own
    /\ drv = "read" /\ drv' = "wait"
    /\ readers' = Append(readers, Begun)
    /\ UNCHANGED <<step, res, judged, gone, guestVars, pipes, served>>

Mine == readers[Len(readers)]

ReadFails ==
    /\ drv = "wait" /\ Mine.at = "failed"
    /\ Ends("broken")
    /\ UNCHANGED <<readers, judged, gone, guestVars, pipes, served>>

GotCall ==      \* upstreamRequest: the guest calls its host
    /\ drv = "wait" /\ Mine.at = "got" /\ Mine.f.kind = "hostcall"
    /\ drv' = "serve"
    /\ UNCHANGED <<step, readers, res, judged, gone, guestVars, pipes, served>>

\* Mutant: decodeReply takes any reply for the one it waits for.
EchoesAny(f) == TRUE
Echoes(f) == f.id = step

GotReply ==     \* decodeReply, and then the step's own verdict
    /\ drv = "wait" /\ Mine.at = "got" /\ Mine.f.kind # "hostcall"
    /\ \/ /\ Echoes(Mine.f)
          /\ \E word \in {"pass", "wrong"} : Ends(word)
          /\ judged' = [judged EXCEPT ![step] = Mine.f.of]
       \/ /\ ~Echoes(Mine.f)
          /\ Ends("mismatch") /\ UNCHANGED judged
    /\ UNCHANGED <<readers, gone, guestVars, pipes, served>>

Serve ==        \* Worker.answer: the stand-in host handles and answers the call
    /\ drv = "serve" /\ guest # "exit" /\ Len(stdin) < PipeFrames
    /\ served' = served \cup {<<Mine.f.of, step>>}
    /\ stdin' = Append(stdin, HostReply(Mine.f.id)) /\ drv' = "read"
    /\ UNCHANGED <<step, readers, res, judged, gone, guestVars, eof, stdout, torn>>

ServeFails ==
    /\ drv = "serve" /\ guest = "exit"
    /\ served' = served \cup {<<Mine.f.of, step>>}
    /\ Ends("broken")
    /\ UNCHANGED <<readers, judged, gone, guestVars, pipes>>

\* What the host answers may be too large as well: a full fs.read is 768 KiB, and
\* 1 MiB once encoded.  The call is done, and the guest goes on waiting for its reply.
ServeRefused ==
    /\ drv = "serve"
    /\ served' = served \cup {<<Mine.f.of, step>>}
    /\ Ends("unserved")
    /\ UNCHANGED <<readers, judged, gone, guestVars, pipes>>

\* Mutant: the error of an expired read does not say so (ErrNoAnswer).
Unnamed == "broken"
NoAnswer == "timeout"

\* Mutant: runChecks goes on asking.
NeverGone == gone
GoneNow == gone \/ step \in Checks

\* Mutant: the read has no timer.
WaitsOn == FALSE /\ UNCHANGED vars

Timeout ==      \* the read is given up; its goroutine stays
    /\ drv = "wait"
    /\ Ends(NoAnswer) /\ gone' = GoneNow
    /\ UNCHANGED <<readers, judged, guestVars, pipes, served>>

Close ==        \* Worker.Close closes stdin and waits for the process
    /\ drv = "ask" /\ step = NSteps + 1
    /\ drv' = "closing" /\ eof' = TRUE
    /\ UNCHANGED <<step, readers, res, judged, gone, guestVars, stdin, stdout, torn, served>>

Closed ==       \* it exited
    /\ drv = "closing" /\ guest = "exit" /\ drv' = "exited"
    /\ UNCHANGED <<step, readers, res, judged, gone, guestVars, pipes, served>>

Kill ==         \* it did not: it is killed, and the exit step fails
    /\ drv = "closing" /\ drv' = "killed" /\ guest' = "exit"
    /\ UNCHANGED <<step, readers, res, judged, gone, of, calls, lost, pipes, served>>

----------------------------------------------------------------------------
(* The readFrame goroutines: the driver's own and those left behind.       *)

Become(r, at, f) == readers' = [readers EXCEPT ![r] = [at |-> at, f |-> f]]
ByReader == UNCHANGED <<step, drv, res, judged, gone, guestVars, stdin, eof, served>>

ReadHeader(r) ==
    /\ readers[r].at = "header" /\ ~torn
    /\ stdout # <<>> /\ Head(stdout).part = "header"
    /\ Become(r, "body", Head(stdout).f) /\ stdout' = Tail(stdout)
    /\ ByReader /\ UNCHANGED torn

ReadBody(r) ==
    /\ readers[r].at = "body" /\ ~torn
    /\ stdout # <<>> /\ Head(stdout).part = "body"
    /\ Become(r, "got", Head(stdout).f) /\ stdout' = Tail(stdout)
    /\ ByReader /\ UNCHANGED torn

\* A body's first bytes taken for a header: ASCII text, far above the limit.
ReadTears(r) ==
    /\ readers[r].at = "header" /\ ~torn
    /\ stdout # <<>> /\ Head(stdout).part = "body"
    /\ Become(r, "failed", NoFrame) /\ torn' = TRUE
    /\ ByReader /\ UNCHANGED stdout

\* Out of step, ReadFrame takes what a chance length says: it fails, hands on
\* something that is no JSON object, or waits for more; what remains may begin
\* with a header again.
ReadJunk(r) ==
    /\ readers[r].at \in {"header", "body", "junk"} /\ stdout # <<>>
    /\ torn \/ readers[r].at = "junk"
    /\ \E k \in 1..Len(stdout), at \in {"failed", "junk"} :
         /\ stdout' = SubSeq(stdout, k + 1, Len(stdout))
         /\ Become(r, at, NoFrame)
         /\ \/ torn' = TRUE
            \/ torn' = FALSE /\ (k < Len(stdout) => stdout[k + 1].part = "header")
    /\ ByReader

ReadEOF(r) ==
    /\ readers[r].at \in {"header", "body", "junk"}
    /\ stdout = <<>> /\ guest = "exit"
    /\ Become(r, "failed", NoFrame)
    /\ ByReader /\ UNCHANGED <<stdout, torn>>

----------------------------------------------------------------------------
(* The guest: Plugin.serve, respond, hostInvokeNative.                     *)

ByGuest == UNCHANGED <<drvVars, eof, torn, served>>

GuestRead ==     \* a request for respond to dispatch
    /\ guest = "read" /\ stdin # <<>> /\ Head(stdin).kind = "request"
    /\ stdin' = Tail(stdin) /\ guest' = "run" /\ of' = Head(stdin).id
    /\ ByGuest /\ UNCHANGED <<calls, lost, stdout>>

GuestRefuse ==   \* anything else has no method: an error with its own id
    /\ guest = "read" /\ stdin # <<>> /\ Head(stdin).kind # "request"
    /\ stdin' = Tail(stdin) /\ stdout' = Written(Refusal)
    /\ ByGuest /\ UNCHANGED <<guest, of, calls, lost>>

GuestCall ==     \* the handler calls the host
    /\ guest = "run" /\ calls < MaxCalls
    /\ calls' = calls + 1 /\ guest' = "call"
    /\ stdout' = Written(HostRequest(calls + 1))
    /\ ByGuest /\ UNCHANGED <<of, lost, stdin>>

\* The next frame is the reply, or else the handler gets an error for it.
GuestResult ==
    /\ guest = "call" /\ stdin # <<>>
    /\ stdin' = Tail(stdin) /\ guest' = "run"
    /\ lost' = IF Head(stdin).kind = "request" THEN lost \cup {Head(stdin).id} ELSE lost
    /\ ByGuest /\ UNCHANGED <<of, calls, stdout>>

GuestReply ==    \* the handler returned; its outcome is the reply
    /\ guest = "run"
    /\ stdout' = Written(Reply) /\ guest' = "read"
    /\ ByGuest /\ UNCHANGED <<of, calls, lost, stdin>>

GuestEnd ==      \* the end of input: serve returns, a host call fails
    /\ stdin = <<>> /\ eof
    /\ \/ guest = "read" /\ guest' = "exit"
       \/ guest = "call" /\ guest' = "run"
    /\ ByGuest /\ UNCHANGED <<of, calls, lost, stdin, stdout>>

GuestDies ==     \* a panic, or whatever ends the process
    /\ guest # "exit" /\ guest' = "exit"
    /\ ByGuest /\ UNCHANGED <<of, calls, lost, stdin, stdout>>

----------------------------------------------------------------------------

Over == drv \in {"exited", "killed"}
Rest == Over /\ UNCHANGED vars

Moves  == \/ NotAsked \/ Ask \/ AskFails \/ ReadFrame \/ ReadFails \/ GotCall \/ GotReply
          \/ Serve \/ ServeFails \/ Timeout \/ Close \/ Closed \/ Kill
Driver == Moves \/ AskRefused \/ ServeRefused
Read(r) == ReadHeader(r) \/ ReadBody(r) \/ ReadTears(r) \/ ReadJunk(r) \/ ReadEOF(r)
Guest  == GuestRead \/ GuestRefuse \/ GuestCall \/ GuestResult \/ GuestReply \/ GuestEnd
            \/ GuestDies

Next == Driver \/ Guest \/ Rest \/ \E r \in 1..Len(readers) : Read(r)

Spec == Init /\ [][Next]_vars

\* The driver runs and its timers expire.  Nothing makes the guest do anything,
\* and nothing makes a frame too large.
FairSpec == Spec /\ WF_vars(Moves)

----------------------------------------------------------------------------
(* Properties.                                                             *)

\* The steps the driver left while the guest may still be at them: their read was
\* given up, or their host call got no reply.
Abandoned == {s \in Steps : res[s] \in {"timeout", "unserved"}}
Reading  == {r \in 1..Len(readers) : readers[r].at \notin {"got", "failed"}}

\* The verdict of a step is on the guest's answer to that step's own request,
\* whatever replies and host calls of abandoned steps are still under way.
VerdictIsOwn ==
    \A s \in Steps : res[s] \in {"pass", "wrong"} => judged[s] = s

\* Nothing but an abandoned step desynchronises the lane: until one has timed
\* out, or had a reply of the host's refused by WriteFrame, there is one reader
\* at most, the bytes are in step, no request was read as a host call's reply,
\* and each host call was served in the step that made it.  A guest that dies
\* and a request that is too large leave it in step.
LaneInStep ==
    Abandoned = {} => /\ ~torn /\ lost = {}
                      /\ \A r \in Reading : r = Len(readers) /\ drv = "wait"
                      /\ \A p \in served : p[1] = p[2]

\* The words runChecks gives: a check is reported as answered by something
\* else, or not at all though its frames were sent, only when the guest is
\* gone, or a case was abandoned before it, or the host call of an earlier
\* check (whose error runChecks does not stop at).  Never because an earlier
\* check timed out: it is not asked then.
BlameIsEarned ==
    \A s \in Checks : res[s] \in {"mismatch", "broken"}
        => \/ guest = "exit"
           \/ \E t \in Abandoned : t < s /\ (t \in Checks => res[t] = "unserved")

\* Mutant: a step that got no answer is noted, not failed.
PassedUnlessWrong == drv = "exited" /\ \A s \in Steps : res[s] \in {"pass", "timeout"}

\* report.result: what every step of this lane adds to it.
Passed == drv = "exited" /\ \A s \in Steps : res[s] = "pass"

\* A run that passes served every host call in the step that made it, lost no
\* request and left no goroutine behind on the pipe.
PassIsClean ==
    Passed => /\ \A p \in served : p[1] = p[2]
              /\ lost = {} /\ Reading = {}

\* -timeout, "deadline per call and per worker start": every step ends, and so
\* does the run, whatever the guest does.
RunEnds == <>Over
============================================================================

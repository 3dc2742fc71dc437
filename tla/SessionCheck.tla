---------------------------- MODULE SessionCheck ----------------------------
(***************************************************************************)
(* The package checks of a resident speech engine, as "aiisdk test" runs   *)
(* them on one carrier: runChecks and sessionDriver (run, listen, pace,    *)
(* abort, retire), with the goroutines around them: SessionWorker.read,    *)
(* which takes replies and events off the control lane, the sender that    *)
(* paces a recording into the audio input, and outputTally.read, which     *)
(* takes the engine's speech off the audio output.                         *)
(*                                                                         *)
(* The engine is the environment.  It takes controls in order, answers     *)
(* them in any order, says each thing it has to say once, and may stop at  *)
(* any point; Slips names what else it may do.  Timers may be found        *)
(* expired whenever they are waited for.                                   *)
(*                                                                         *)
(* The driver's controls and the reader's answers to the engine's own      *)
(* calls go to one pipe, under writeMu.  No timer bounds a write: it ends  *)
(* when what is left of the frame fits the pipe, or the engine exits.  The *)
(* control lane ends here with the process (read also leaves it on a frame *)
(* that is torn or over its limit).                                        *)
(***************************************************************************)
EXTENDS Naturals, Sequences, FiniteSets

CONSTANTS
    NChecks,    \* the checks, in order
    Audio,      \* those on the session lane that send a recording
    Text,       \* those on the session lane that have a text spoken
    RecFrames,  \* the frames of a recording, its END included
    AudioRoom,  \* the frames the audio input holds before a write blocks
    CtlRoom,    \* the frames the engine's input holds before a write blocks
    LaneRoom,   \* the replies and events the lane's pipe holds before one blocks
    EventRoom,  \* sessionEventBuffer
    Slips       \* what the engine may do besides answering as it should

AllChecks == 1..NChecks
Sessions  == Audio \cup Text     \* the others are on the operation lane
AllSlips  == {"refuse", "formats", "rate", "fail", "retry", "quit", "wrong", "die", "hangup",
              "ask"}

ASSUME CheckAssumption ==
    /\ NChecks \in Nat \ {0} /\ Sessions \subseteq AllChecks /\ Audio \cap Text = {}
    /\ RecFrames \in Nat \ {0} /\ AudioRoom \in Nat \ {0}
    /\ CtlRoom \in Nat \ {0} /\ LaneRoom \in Nat \ {0} /\ EventRoom \in Nat \ {0}
    /\ Slips \subseteq AllSlips

VARIABLES
    n, d,        \* the check being run, and where the driver is with it
    res,         \* the outcome of each check, as far as it is known
    dgone, gone, \* sessionDriver.gone; gone of runChecks
    started, synthEnded, named, sentAll,   \* listen's own variables
    sending,     \* sessionDriver.sending: the check it belongs to, 0: nil
    snd, sent,   \* each sender, and the frames it has written
    stop,        \* the senders whose stop is closed
    ain, inOpen, \* the audio input; the host has not closed its end
    aout,        \* the audio output: the streams whose END is under way
    tally, tallied, changed,  \* outputTally.read, the streams it saw end, its signal
    ctl,         \* the controls under way to the engine, one unwritten last
    calling,     \* call waits for writeMu ("lock"), or writes under it
    replies,     \* the answers to its calls in the engine's input, in any order with ctl
    lane,        \* the replies and events under way to the host
    rdr, ended,  \* SessionWorker.read; close(w.ended)
    pending,     \* SessionWorker.pending: the control waited for, if any
    reply,       \* the channel that control's caller reads
    events,      \* SessionWorker.events
    up, deaf,    \* the engine runs; it closed its audio input
    owes,        \* the answers it has yet to give
    sess, said   \* its sessions; what it has said about each

listenVars == <<started, synthEnded, named, sentAll>>
paceVars   == <<snd, sent, ain>>
tallyVars  == <<aout, tally, tallied, changed>>
workerVars == <<lane, rdr, ended, events>>
engineVars == <<up, deaf, owes, sess, said>>
callVars   == <<ctl, calling, pending, reply>>
drvVars    == <<n, d, res, dgone, gone, sending, stop, inOpen>>
vars       == <<drvVars, listenVars, paceVars, tallyVars, workerVars, engineVars,
                callVars, replies>>

Terminal == {"session_end", "failure", "failure_retry"}
Said     == Terminal \cup {"session_ready", "synthesis_start", "synthesis_end", "input_finished",
                           "close", "synthesize", "finish_input", "END"}
Controls == {"open", "synthesize", "finish_input", "close", "status", "invoke"}
Answers  == {"ok", "refused", "formats", "rate", "over", "live"}

Init ==
    /\ n = 1 /\ d = "run" /\ res = [c \in AllChecks |-> "none"]
    /\ dgone = FALSE /\ gone = FALSE
    /\ started = FALSE /\ synthEnded = FALSE /\ named = FALSE /\ sentAll = FALSE
    /\ sending = 0 /\ stop = {} /\ inOpen = TRUE
    /\ snd = [c \in Audio |-> "none"] /\ sent = [c \in Audio |-> 0] /\ ain = <<>>
    /\ aout = <<>> /\ tally = "read" /\ tallied = {} /\ changed = FALSE
    /\ ctl = <<>> /\ calling = "none" /\ replies = 0 /\ lane = <<>> /\ rdr = "read" /\ ended = FALSE
    /\ pending = {} /\ reply = "none" /\ events = <<>>
    /\ up = TRUE /\ deaf = FALSE /\ owes = {}
    /\ sess = [c \in Sessions |-> "none"] /\ said = [c \in Sessions |-> {}]

----------------------------------------------------------------------------
(* SessionWorker.call: Control and Invoke.                                 *)

Call(op) ==
    /\ d' = op /\ calling' = "lock" /\ ctl' = Append(ctl, [op |-> op, n |-> n])
    /\ pending' = {[op |-> op, n |-> n]} /\ reply' = "none"

\* The select of call, on the reply, on w.ended and on its timer.  A write that
\* failed is handled by its caller as the end of the lane is.
Returns(op, out) ==
    /\ d = op /\ calling = "none"
    /\ \/ out = reply
       \/ out = "ended" /\ ended
       \/ out = "noanswer" /\ reply # "ended"
    /\ pending' = {} /\ reply' = "none" /\ UNCHANGED <<ctl, calling>>

NoCall == UNCHANGED callVars

ByCall == UNCHANGED <<drvVars, listenVars, paceVars, tallyVars, workerVars, engineVars, replies>>

InPipe == replies + IF calling = "none" THEN Len(ctl) ELSE Len(ctl) - 1

CallLocks ==       \* writeMu, which the reader may hold for as long as it writes
    /\ calling = "lock" /\ rdr # "write" /\ calling' = "write"
    /\ ByCall /\ UNCHANGED <<ctl, pending, reply>>

CallWrites ==      \* the pipe takes the frame, or what the engine has left of it
    /\ calling = "write" /\ up /\ InPipe < CtlRoom /\ calling' = "none"
    /\ ByCall /\ UNCHANGED <<ctl, pending, reply>>

Unsent ==
    /\ calling' = "none" /\ ctl' = SubSeq(ctl, 1, Len(ctl) - 1)
    /\ pending' = {} /\ reply' = "ended" /\ ByCall

CallFails    == calling = "write" /\ ~up /\ Unsent
CallTooLarge == calling = "write" /\ d = "invoke" /\ Unsent   \* arguments over the frame's limit

----------------------------------------------------------------------------
(* runChecks, runCheck and sessionDriver.run.                              *)

\* What the driver's steps leave to the other goroutines.
ByDriver == UNCHANGED <<sent, ain, aout, tally, tallied, workerVars, engineVars, replies>>

\* Mutant: the loop runs once too often.
Last == n = NChecks

Over(word) ==    \* the check's result is final: the next check
    /\ res' = [res EXCEPT ![n] = word]
    /\ n' = n + 1 /\ d' = IF Last THEN "over" ELSE "run"
    /\ sending' = 0

Ends(word) ==    \* d.end: the session is to be ended first
    /\ res' = [res EXCEPT ![n] = word] /\ d' = "end" /\ UNCHANGED <<n, sending>>

Skip == gone \/ (n \in Sessions /\ dgone)

NotAsked ==
    /\ d = "run" /\ Skip
    /\ Over("unanswered")
    /\ ByDriver /\ NoCall
    /\ UNCHANGED <<dgone, gone, listenVars, snd, stop, inOpen, changed>>

RunOpen ==
    /\ d = "run" /\ ~Skip /\ n \in Sessions
    /\ Call("open")
    /\ ByDriver /\ UNCHANGED <<n, res, dgone, gone, sending, listenVars, snd, stop, inOpen, changed>>

RunInvoke ==
    /\ d = "run" /\ ~Skip /\ n \notin Sessions
    /\ Call("invoke")
    /\ ByDriver /\ UNCHANGED <<n, res, dgone, gone, sending, listenVars, snd, stop, inOpen, changed>>

\* What the reply's content is worth: an engine that slips may be wrong in it.
Content == {"passed"} \cup (IF "wrong" \in Slips THEN {"wrong"} ELSE {})

Invoked(out) ==  \* runCheck
    /\ Returns("invoke", out)
    /\ \/ out = "ok" /\ \E word \in Content \cup {"timed_out"} : Over(word)
       \/ out = "refused" /\ Over("wrong")
       \/ out = "noanswer" /\ Over("timed_out")
       \/ out = "ended" /\ Over("unanswered")
    /\ gone' = (gone \/ out = "noanswer")
    /\ ByDriver /\ UNCHANGED <<dgone, listenVars, snd, stop, inOpen, changed>>

Opened(out) ==   \* the admission of the open, and engineFormats
    /\ Returns("open", out)
    /\ \/ out = "refused" /\ Over("wrong")
       \/ out = "noanswer" /\ Ends("timed_out")
       \/ out = "ended" /\ Over("unanswered")
       \/ out = "formats" /\ Ends("wrong")
       \/ out = "rate" /\ Ends("not_run_here")
       \/ out = "ok" /\ d' = "listen" /\ UNCHANGED <<n, res, sending>>
    /\ started' = FALSE /\ synthEnded' = FALSE /\ named' = FALSE /\ sentAll' = FALSE
    /\ ByDriver /\ UNCHANGED <<dgone, gone, snd, stop, inOpen, changed>>

----------------------------------------------------------------------------
(* listen.                                                                 *)

Event == Head(events)

\* Mutant: events of other sessions are heard too.
HearsAll(ev) == TRUE
IsOurs(ev) == ev.n = n

\* Mutant: the end of the events is enough.
DoneUnheard(ended2, named2) == n \in Text /\ ended2 /\ named2

\* done(): the synthesis and its stream have ended.
Done(ended2, named2) == n \in Text /\ ended2 /\ named2 /\ n \in tallied

\* A complete answer, in time or past its bound.
Completes == \E word \in Content \cup {"timed_out"} : Ends(word)

Listening == d' = "listen" /\ UNCHANGED <<n, res, sending>>
Hears == d = "listen" /\ events # <<>> /\ events' = Tail(events)
ByListen == UNCHANGED <<sent, ain, aout, tally, tallied, lane, rdr, ended, engineVars, replies,
                        dgone, gone, stop, inOpen, changed>>

ListenOther ==     \* another session's
    /\ Hears /\ ~IsOurs(Event)
    /\ Listening /\ NoCall
    /\ ByListen /\ UNCHANGED <<listenVars, snd>>

ListenReady ==     \* session_ready: the recording is paced, or the text sent
    /\ Hears /\ IsOurs(Event) /\ Event.type = "session_ready" /\ ~started
    /\ started' = TRUE
    /\ \/ /\ n \in Audio /\ sending' = n /\ sentAll' = TRUE
          /\ snd' = [snd EXCEPT ![n] = "due"]
          /\ d' = "listen" /\ NoCall /\ UNCHANGED <<n, res>>
       \/ /\ n \in Text /\ Call("synthesize") /\ UNCHANGED <<n, res, sending, sentAll, snd>>
    /\ ByListen /\ UNCHANGED <<synthEnded, named>>

ListenFinished ==  \* input_finished completes a recording's answer
    /\ Hears /\ IsOurs(Event) /\ Event.type = "input_finished" /\ n \in Audio
    /\ Completes /\ NoCall
    /\ ByListen /\ UNCHANGED <<listenVars, snd>>

\* Mutant: the end of the stream is looked for only when the tally signals it.
NoRecheck(ended2, named2) == FALSE
Recheck(ended2, named2) == Done(ended2, named2)

ListenSpeech ==    \* synthesis_start and synthesis_end, which name the stream
    /\ Hears /\ IsOurs(Event) /\ Event.type \in {"synthesis_start", "synthesis_end"}
    /\ named' = TRUE /\ synthEnded' = (synthEnded \/ Event.type = "synthesis_end")
    /\ IF Recheck(synthEnded', named') THEN Completes ELSE Listening
    /\ NoCall
    /\ ByListen /\ UNCHANGED <<started, sentAll, snd>>

ListenTerminal ==  \* JudgeSession: a failure, or an end before the answer is complete
    /\ Hears /\ IsOurs(Event) /\ Event.type \in Terminal
    /\ Ends(IF Event.type = "failure_retry" THEN "timed_out" ELSE "wrong")
    /\ NoCall
    /\ ByListen /\ UNCHANGED <<listenVars, snd>>

ListenClosed ==    \* the lane ended
    /\ d = "listen" /\ events = <<>> /\ rdr = "exit"
    /\ Ends("unanswered") /\ NoCall
    /\ ByListen /\ UNCHANGED <<listenVars, snd, events>>

\* Mutant: finish_input does not wait for the recording to be sent.
SentEarly == TRUE
SentWhole == snd[n] = "done"

ListenSent ==      \* the sender has closed its done
    /\ d = "listen" /\ sentAll /\ SentWhole
    /\ sentAll' = FALSE /\ Call("finish_input")
    /\ ByListen /\ UNCHANGED <<n, res, sending, started, synthEnded, named, snd, events>>

ListenTally ==     \* the tally signals
    /\ d = "listen" /\ changed /\ changed' = FALSE
    /\ IF Done(synthEnded, named) THEN Completes ELSE Listening
    /\ NoCall
    /\ ByDriver /\ UNCHANGED <<dgone, gone, listenVars, snd, stop, inOpen>>

ListenDeadline ==  \* JudgeSession: no complete answer within the bound
    /\ d = "listen" /\ Ends("timed_out") /\ NoCall
    /\ ByListen /\ UNCHANGED <<listenVars, snd, events>>

Controlled(op, out) ==   \* the answer to synthesize or to finish_input
    /\ Returns(op, out)
    /\ \/ out = "ok" /\ Listening
       \/ out = "refused" /\ Ends("wrong")
       \/ out = "noanswer" /\ Ends("timed_out")
       \/ out = "ended" /\ Ends("unanswered")
    /\ ByListen /\ UNCHANGED <<listenVars, snd, events>>

----------------------------------------------------------------------------
(* end, abort and retire.                                                  *)

ByEnd == UNCHANGED <<sent, ain, aout, tally, tallied, lane, rdr, ended, engineVars, replies,
                     gone, listenVars, snd, changed>>

End ==             \* the sender is told to stop, the session to close
    /\ d = "end"
    /\ stop' = IF sending # 0 THEN stop \cup {sending} ELSE stop
    /\ Call("close")
    /\ ByEnd /\ UNCHANGED <<n, res, dgone, sending, inOpen, events>>

CloseReturns(out) ==
    /\ Returns("close", out) /\ d' = "abort"
    /\ ByEnd /\ UNCHANGED <<n, res, dgone, sending, stop, inOpen, events>>

\* Mutant: any word of the session ends the wait for its end.
AnyWordEnds(ev) == ev.n = n
EndsSession(ev) == ev.n = n /\ ev.type \in Terminal

AbortEvent ==
    /\ d = "abort" /\ events # <<>> /\ events' = Tail(events)
    /\ d' = IF EndsSession(Event) THEN "retire" ELSE "abort"
    /\ ByEnd /\ NoCall /\ UNCHANGED <<n, res, dgone, sending, stop, inOpen>>

AbortClosed ==
    /\ d = "abort" /\ events = <<>> /\ rdr = "exit" /\ d' = "retire"
    /\ ByEnd /\ NoCall /\ UNCHANGED <<n, res, dgone, sending, stop, inOpen, events>>

AbortTimer ==      \* the engine is asked for the session's state
    /\ d = "abort" /\ Call("status")
    /\ ByEnd /\ UNCHANGED <<n, res, dgone, sending, stop, inOpen, events>>

StatusReturns(out) ==
    /\ Returns("status", out) /\ d' = "retire"
    /\ \/ out = "over" /\ UNCHANGED <<res, dgone>>
       \/ /\ out # "over" /\ dgone' = TRUE
          /\ res' = [res EXCEPT ![n] = IF @ = "wrong" THEN @ ELSE "timed_out"]
    /\ ByEnd /\ UNCHANGED <<n, sending, stop, inOpen, events>>

\* Mutant: the sender is left to itself.
LeaveSender == TRUE
Retired == sending # 0 => snd[sending] = "done"

RetireDone ==      \* the sender has returned, or there was none
    /\ d = "retire" /\ Retired
    /\ Over(res[n])
    /\ ByEnd /\ NoCall /\ UNCHANGED <<dgone, stop, inOpen, events>>

\* Mutant: the sender is waited for without a timer.
WaitSender == RetireDone
RetireTimer ==     \* it is stuck in a write: the input is closed under it
    /\ d = "retire" /\ sending # 0
    /\ inOpen' = FALSE /\ dgone' = TRUE /\ d' = "retiring"
    /\ ByEnd /\ NoCall /\ UNCHANGED <<n, res, sending, stop, events>>

RetireLeave ==     \* its done, or a last timer
    /\ d = "retiring" /\ Over(res[n])
    /\ ByEnd /\ NoCall /\ UNCHANGED <<dgone, stop, inOpen, events>>

----------------------------------------------------------------------------
(* The sender's goroutine, outputTally.read, SessionWorker.read.           *)

ByPace == UNCHANGED <<drvVars, listenVars, tallyVars, workerVars, engineVars, callVars, replies>>

PaceStopped(c) ==
    /\ snd[c] = "due" /\ c \in stop /\ snd' = [snd EXCEPT ![c] = "done"]
    /\ ByPace /\ UNCHANGED <<sent, ain>>

PaceDue(c) ==      \* the frame is due and stop was not closed a moment ago
    /\ snd[c] = "due" /\ c \notin stop /\ snd' = [snd EXCEPT ![c] = "write"]
    /\ ByPace /\ UNCHANGED <<sent, ain>>

PaceWrite(c) ==
    /\ snd[c] = "write" /\ inOpen /\ up /\ ~deaf /\ Len(ain) < AudioRoom
    /\ ain' = Append(ain, c) /\ sent' = [sent EXCEPT ![c] = @ + 1]
    /\ snd' = [snd EXCEPT ![c] = IF sent'[c] = RecFrames THEN "done" ELSE "due"]
    /\ ByPace

PaceFails(c) ==
    /\ snd[c] = "write" /\ (~inOpen \/ ~up \/ deaf) /\ snd' = [snd EXCEPT ![c] = "done"]
    /\ ByPace /\ UNCHANGED <<sent, ain>>

ByTally == UNCHANGED <<drvVars, listenVars, paceVars, workerVars, engineVars, callVars, replies>>

TallyEnd ==        \* an END frame is tallied under the lock
    /\ tally = "read" /\ aout # <<>>
    /\ tallied' = tallied \cup {Head(aout)} /\ aout' = Tail(aout) /\ tally' = "signal"
    /\ ByTally /\ UNCHANGED changed

TallySignal ==     \* ... and signalled, unless a signal is there already
    /\ tally = "signal" /\ changed' = TRUE /\ tally' = "read"
    /\ ByTally /\ UNCHANGED <<aout, tallied>>

ByReader == UNCHANGED <<drvVars, listenVars, paceVars, tallyVars, engineVars, ctl, calling>>

ReaderReply ==     \* to the caller that waits for it, if it still does
    /\ rdr = "read" /\ lane # <<>> /\ Head(lane).type \in Answers
    /\ lane' = Tail(lane)
    /\ LET id == [op |-> Head(lane).op, n |-> Head(lane).n] IN
         IF id \in pending
         THEN reply' = Head(lane).type /\ pending' = pending \ {id}
         ELSE UNCHANGED <<reply, pending>>
    /\ ByReader /\ UNCHANGED <<rdr, ended, events, replies>>

ReaderEvent ==     \* once the buffer has room for it
    /\ rdr = "read" /\ lane # <<>> /\ Head(lane).type \in Said
    /\ Len(events) < EventRoom
    /\ events' = Append(events, Head(lane)) /\ lane' = Tail(lane)
    /\ ByReader /\ UNCHANGED <<rdr, ended, reply, pending, replies>>

ReaderEnd ==       \* close(w.ended), then close(w.events)
    /\ \/ rdr = "read" /\ lane = <<>> /\ ~up /\ ended' = TRUE /\ rdr' = "ended"
       \/ rdr = "ended" /\ rdr' = "exit" /\ UNCHANGED ended
    /\ ByReader /\ UNCHANGED <<lane, events, reply, pending, replies>>

ReaderAsked ==     \* a call of the engine's own: the handler, then answer's write
    /\ rdr = "read" /\ lane # <<>> /\ Head(lane).type = "ask"
    /\ lane' = Tail(lane) /\ rdr' = "lock"
    /\ ByReader /\ UNCHANGED <<ended, events, reply, pending, replies>>

ByAnswer == ByReader /\ UNCHANGED <<lane, ended, events, reply, pending>>

ReaderLocks ==
    /\ rdr = "lock" /\ calling # "write" /\ rdr' = "write"
    /\ ByAnswer /\ UNCHANGED replies

ReaderWrites ==
    /\ rdr = "write" /\ up /\ InPipe < CtlRoom /\ replies' = replies + 1 /\ rdr' = "read"
    /\ ByAnswer

ReaderFails ==     \* the error is dropped
    /\ rdr = "write" /\ ~up /\ rdr' = "read"
    /\ ByAnswer /\ UNCHANGED replies

ReaderTooLarge ==  \* as is that of an answer over the frame's limit
    /\ rdr = "write" /\ rdr' = "read"
    /\ ByAnswer /\ UNCHANGED replies

----------------------------------------------------------------------------
(* The engine.                                                             *)

ByEngine == UNCHANGED <<drvVars, listenVars, snd, sent, tally, tallied, changed, rdr, ended,
                        events, pending, reply>>

Item(op, m, type) == [op |-> op, n |-> m, type |-> type]
Live(m)  == sess[m] = "open"
Says(m, w) == said' = [said EXCEPT ![m] = @ \cup {w}]

\* The next control is in the pipe, or its write goes on as the pipe is read.
Arrives == Len(ctl) > 1 \/ calling = "none" \/ (calling = "write" /\ replies = 0)

EngineTakes ==     \* the next control: its effect, and the answer it will get
    /\ up /\ ctl # <<>> /\ Arrives /\ ctl' = Tail(ctl)
    /\ calling' = IF Len(ctl) = 1 THEN "none" ELSE calling
    /\ LET op == Head(ctl).op  m == Head(ctl).n
           Owe(a) == owes' = owes \cup {Item(op, m, a)} IN
       \/ /\ op = "open" /\ sess' = [sess EXCEPT ![m] = "open"]
          /\ \/ Owe("ok")
             \/ "formats" \in Slips /\ Owe("formats")
             \/ "rate" \in Slips /\ m \in Audio /\ Owe("rate")
          /\ UNCHANGED said
       \/ /\ op \in {"open", "synthesize", "finish_input", "invoke"} /\ "refuse" \in Slips
          /\ Owe("refused") /\ UNCHANGED <<sess, said>>
       \/ /\ op \in {"synthesize", "finish_input", "close"} /\ Live(m)
          /\ Owe("ok") /\ Says(m, op) /\ UNCHANGED sess
       \/ /\ op \in {"synthesize", "finish_input", "close"} /\ ~Live(m)
          /\ Owe("refused") /\ UNCHANGED <<sess, said>>
       \/ /\ op = "status" /\ Owe(IF Live(m) THEN "live" ELSE "over") /\ UNCHANGED <<sess, said>>
       \/ /\ op = "invoke" /\ Owe("ok") /\ UNCHANGED <<sess, said>>
    /\ ByEngine /\ UNCHANGED <<ain, aout, lane, up, deaf, replies>>

EngineAsks ==      \* a call to the host, in whatever it is doing; the bound: one at a time
    /\ "ask" \in Slips /\ up /\ Len(lane) < LaneRoom
    /\ rdr \notin {"lock", "write"} /\ replies = 0 /\ \A i \in DOMAIN lane : lane[i].type # "ask"
    /\ lane' = Append(lane, Item("ask", 1, "ask"))
    /\ ByEngine /\ UNCHANGED <<ain, aout, ctl, calling, replies, engineVars>>

EngineTakesReply ==
    /\ up
    /\ \/ replies > 0 /\ replies' = replies - 1 /\ UNCHANGED rdr
       \/ InPipe = 0 /\ rdr = "write" /\ rdr' = "read" /\ UNCHANGED replies
    /\ UNCHANGED <<drvVars, listenVars, paceVars, tallyVars, lane, ended, events, engineVars, callVars>>

EngineAnswers(a) ==
    /\ up /\ a \in owes /\ Len(lane) < LaneRoom
    /\ owes' = owes \ {a} /\ lane' = Append(lane, a)
    /\ ByEngine /\ UNCHANGED <<ain, aout, ctl, calling, replies, up, deaf, sess, said>>

\* What a session may say next, each thing once.
MaySay(m, w) ==
    \/ w = "session_ready"
    \/ w = "synthesis_start" /\ {"session_ready", "synthesize"} \subseteq said[m]
    \/ w \in {"synthesis_end", "END"} /\ "synthesis_start" \in said[m]
    \/ w = "input_finished" /\ {"session_ready", "finish_input"} \subseteq said[m]
    \/ w = "session_end" /\ ("close" \in said[m] \/ "quit" \in Slips)
    \/ w = "failure" /\ "fail" \in Slips
    \/ w = "failure_retry" /\ "retry" \in Slips

EngineSays(m, w) ==
    /\ up /\ Live(m) /\ w \notin said[m] /\ MaySay(m, w) /\ Says(m, w)
    /\ IF w = "END" THEN aout' = Append(aout, m) /\ UNCHANGED lane
                    ELSE /\ Len(lane) < LaneRoom /\ lane' = Append(lane, Item("event", m, w))
                         /\ UNCHANGED aout
    /\ sess' = IF w \in Terminal THEN [sess EXCEPT ![m] = "over"] ELSE sess
    /\ ByEngine /\ UNCHANGED <<ain, ctl, calling, replies, up, deaf, owes>>

EngineHears ==     \* a frame off the audio input
    /\ up /\ ain # <<>> /\ ain' = Tail(ain)
    /\ ByEngine /\ UNCHANGED <<aout, ctl, calling, replies, lane, engineVars>>

EngineStops ==     \* the process ends, or closes its audio input
    /\ up
    /\ \/ "die" \in Slips /\ up' = FALSE /\ UNCHANGED deaf
       \/ "hangup" \in Slips /\ ~deaf /\ deaf' = TRUE /\ UNCHANGED up
    /\ ByEngine /\ UNCHANGED <<ain, aout, ctl, calling, replies, lane, owes, sess, said>>

----------------------------------------------------------------------------

Finished == d = "over" /\ UNCHANGED vars

Outs == Answers \cup {"ended", "noanswer"}
Listen == ListenOther \/ ListenReady \/ ListenFinished \/ ListenSpeech \/ ListenTerminal
            \/ ListenClosed \/ ListenSent \/ ListenTally \/ ListenDeadline
Driver ==
    \/ NotAsked \/ RunOpen \/ RunInvoke \/ Listen \/ End \/ AbortEvent \/ AbortClosed
    \/ AbortTimer \/ RetireDone \/ RetireTimer \/ RetireLeave
    \/ \E out \in Outs : \/ Invoked(out) \/ Opened(out) \/ CloseReturns(out)
                         \/ StatusReturns(out)
                         \/ \E op \in {"synthesize", "finish_input"} : Controlled(op, out)
Pace(c) == PaceStopped(c) \/ PaceDue(c) \/ PaceWrite(c) \/ PaceFails(c)
Calls   == CallLocks \/ CallWrites \/ CallFails \/ CallTooLarge
Helpers == TallyEnd \/ TallySignal \/ ReaderReply \/ ReaderEvent \/ ReaderEnd \/ ReaderAsked
             \/ ReaderLocks \/ ReaderWrites \/ ReaderFails \/ ReaderTooLarge
EngineReads == EngineTakes \/ EngineTakesReply
Engine  == EngineReads \/ EngineAsks \/ EngineHears \/ EngineStops \/ (\E a \in owes : EngineAnswers(a))
             \/ (\E m \in Sessions, w \in Said : EngineSays(m, w))

Next == Driver \/ Calls \/ Helpers \/ Engine \/ Finished \/ \E c \in Audio : Pace(c)

Spec == Init /\ [][Next]_vars

\* The driver runs, its timers expire, writeMu comes to a caller that keeps waiting
\* for it, and a write to an engine that has exited fails.  No pipe need take a
\* whole frame, no other goroutine is needed, and nothing makes the engine act.
FairSpec == Spec /\ WF_vars(Driver) /\ SF_vars(CallLocks) /\ WF_vars(CallFails \/ ReaderFails)

----------------------------------------------------------------------------
(* Properties.                                                             *)

\* A recording ends with its check: no frame of it is written once the driver
\* is at another check, whether its sender was stopped between two frames, in
\* the middle of one or stuck in a write.
RecordingEndsWithCheck ==
    [][\A c \in Audio : sent'[c] > sent[c] => c = n]_vars

\* finish_input, which names the recording's exclusive end, follows all of it,
\* unless the engine closed its input or exited.
FinishFollowsRecording ==
    \A c \in Audio : "finish_input" \in said[c] => sent[c] = RecFrames \/ deaf \/ ~up

\* No check is begun on an engine that still has an earlier check's session:
\* whatever went wrong there, its end was heard or read back, or the carrier
\* is given up.
OneSessionAtATime ==
    \A c \in Sessions : c < n /\ Live(c) => dgone \/ ~up

\* A passed check had its whole answer, and had it from its own session.
PassedIsComplete ==
    /\ \A c \in Text : res[c] = "passed" => {"synthesis_end", "END"} \subseteq said[c] /\ c \in tallied
    /\ \A c \in Audio : res[c] = "passed" => "input_finished" \in said[c]

\* "Slow is never wrong, only late": an engine that is late, exits or closes its
\* input is not judged wrong.
SlowIsNeverWrong ==
    Slips \subseteq {"die", "hangup"} => \A c \in AllChecks : res[c] # "wrong"

\* listen never sleeps on a complete spoken answer: when the synthesis and its
\* stream have both ended, a signal is there or about to be.
EndIsNoticed ==
    d = "listen" /\ Done(synthEnded, named) => changed \/ tally = "signal"

\* The checks end: every wait of the driver has a timer, the one for a sender
\* stuck in a write included.  The one thing asked of the engine is that it reads
\* its standard input or exits, since a control, or the answer to a call that
\* holds writeMu before it, is written without a deadline.
ChecksEnd == WF_vars(EngineReads) => <>(d = "over")

\* "A session never ended is a timeout, and nothing after it is asked."
NothingAskedAfter == dgone => d # "invoke"

\* "Only critical events up to the complete answer are judged": a spoken
\* answer that was complete before the engine ended the session is not wrong.
\* (The engine here says the right things, and ends its session when it likes.)
CompleteIsJudged ==
    \A c \in Text : /\ "wrong" \notin Slips
                    /\ {"synthesis_end", "END"} \subseteq said[c]
                      => res[c] # "wrong"
============================================================================

---------------------------- MODULE SessionLane ----------------------------
(***************************************************************************)
(* The resident session lane of the guest library: the goroutines that     *)
(* Plugin.serveSession starts around one Session (reader, admission,       *)
(* writer, settlement, the serving goroutine itself) and the plugin's own  *)
(* goroutines that call Control.Answer, Emit, HostCall and Flush on it.    *)
(*                                                                         *)
(* A step is one critical section or one channel operation of the code; a  *)
(* select with several ready cases is a disjunction.  Frames are abstract: *)
(* the answer to control k is the frame k, the request of host call c is   *)
(* the frame c (its id is the call's own), event e is the frame e.         *)
(* Contexts and time-outs are not clocks: a context may be found done and  *)
(* a timer may be found expired at any select that looks at it.            *)
(***************************************************************************)
EXTENDS Integers, Sequences, FiniteSets

CONSTANTS
    Controls,    \* the controls the host may send
    Inline,      \* the controls whose handler calls Answer before it returns
    Answerers,   \* the goroutines that may call Answer on one control
    Calls,       \* the HostCall invocations of the plugin
    Events,      \* the Emit invocations of the plugin
    Flushes,     \* the Flush invocations of the plugin
    AdmitQueue,  \* sessionAdmitQueue: capacity of admitCh and of admissionSlots
    EventQueue,  \* the share of outQ that events and host calls may fill
    MaxPending,  \* sessionMaxPending
    HostWindow   \* the most controls the host leaves unanswered at a time

Senders == Calls \cup Events
Waiters == Senders \cup Flushes
Frames  == Controls \cup Senders
Answers == Controls \X Answerers

OutQueue == EventQueue + AdmitQueue   \* sessionOutQueue

ASSUME LaneAssumption ==
    /\ AdmitQueue \in Nat \ {0} /\ EventQueue \in Nat \ {0}
    /\ MaxPending \in Nat \ {0} /\ HostWindow \in Nat \ {0}
    /\ IsFiniteSet(Controls) /\ IsFiniteSet(Senders)
    /\ Inline \subseteq Controls
    /\ Controls \cap Senders = {} /\ Calls \cap Events = {}
    /\ Flushes \cap Senders = {}

VARIABLES
    log,         \* every frame tryEnqueue accepted, in order; ob.seq is its index
    taken,       \* how many of them the writer has received: outQ is the rest
    wrote,       \* Session.wrote
    claimed,     \* the frames whose outbound.claimed is set
    done,        \* outbound.done of each host call's frame
    touched,     \* the frames the writer began to write to the pipe
    wire,        \* the frames the peer can read whole
    notified,    \* the waiters whose captured outChanged channel was closed
    slots,       \* len(admissionSlots)
    admitCh,     \* the queued controls
    admitClosed, \* close(admitCh) has happened
    closed,      \* close(s.closed) has happened
    outClosed,   \* Session.outClosed
    settled,     \* close(s.settled) has happened
    fault,       \* Session.fault: "none" or what set it first
    received,    \* the controls the reader has taken off stdin
    rd, readErr, \* the reader goroutine and what readLoop returned
    ad, cur,     \* the admission goroutine and the control in its hands, if any
    handed,      \* the controls whose handler has been called
    answered,    \* the controls whose controlReply.answered is set
    ans,         \* each Answer call
    wr, mode,    \* the writer goroutine: position in writeQueued, and its loop
    owed,        \* write(ob) reports a frame that is still owed to the peer
    mn, sawRead, \* the serving goroutine; it received from readDone
    intr,        \* interruptRead has started a goroutine that closes stdin
    retErr, ret, \* retirementErr is not nil; what serveSession returned
    snd, out,    \* each Emit and HostCall; what a HostCall returns
    pending,     \* Session.pending
    replied,     \* the calls whose reply channel holds a reply
    fl, target   \* each Flush and its target

outVars  == <<log, taken, wrote, claimed, done, touched, wire>>
endVars  == <<closed, outClosed, settled, fault>>
admVars  == <<slots, admitCh, admitClosed, ad, cur, handed>>
rdVars   == <<received, rd, readErr>>
ansVars  == <<answered, ans>>
wrVars   == <<wr, mode, owed>>
mnVars   == <<mn, sawRead, intr, retErr, ret>>
callVars == <<snd, out, pending, replied>>
flVars   == <<fl, target>>
vars     == <<outVars, endVars, admVars, rdVars, ansVars, wrVars, mnVars,
              callVars, flVars, notified>>


ending   == <<fault, closed, outClosed>>
written  == <<claimed, done, touched, wire>>

\* What the steps of each goroutine leave alone.
ByReader == UNCHANGED <<outVars, endVars, ansVars, wrVars, mnVars, flVars, slots,
                       ad, cur, handed, snd, out, pending, notified>>
ByAdmission == UNCHANGED <<outVars, rdVars, ansVars, wrVars, mnVars, callVars,
                          flVars, admitClosed, settled, notified>>
ByAnswer == UNCHANGED <<rdVars, wrVars, mnVars, callVars, flVars, taken, wrote,
                       claimed, done, touched, wire, admitCh, admitClosed,
                       outClosed, settled, ad, cur, handed, notified>>
ByWriter == UNCHANGED <<rdVars, ansVars, mnVars, callVars, flVars, log, admitCh,
                       admitClosed, settled, ad, cur, handed>>
ByMain == UNCHANGED <<outVars, admVars, rdVars, ansVars, wrVars, callVars, flVars,
                     notified>>
BySender == UNCHANGED <<endVars, admVars, rdVars, ansVars, wrVars, mnVars, flVars,
                       taken, wrote, done, touched, wire, replied>>
ByFlush == UNCHANGED <<outVars, endVars, admVars, rdVars, ansVars, wrVars, mnVars,
                      callVars>>

Faults   == {"none", "slots", "reply", "write", "retire"}
Outcomes == {"none", "TooMany", "BadOp", "NotSent", "Unknown", "Answered"}

InitLane ==      \* serveSession
    /\ log = <<>> /\ taken = 0 /\ wrote = 0
    /\ claimed = {} /\ touched = {} /\ wire = {}
    /\ done = [c \in Calls |-> "none"]
    /\ notified = Waiters
    /\ slots = 0 /\ admitCh = <<>> /\ admitClosed = FALSE
    /\ closed = FALSE /\ outClosed = FALSE /\ settled = FALSE
    /\ fault = "none"
    /\ received = {} /\ rd = "loop" /\ readErr = "none"
    /\ ad = "sel" /\ cur = "none" /\ handed = {}
    /\ answered = {} /\ ans = [x \in Answers |-> "idle"]
    /\ wr = "idle" /\ mode = "sel" /\ owed = FALSE
    /\ mn = "wait" /\ sawRead = FALSE /\ intr = FALSE
    /\ retErr = FALSE /\ ret = "none"
    /\ pending = {} /\ replied = {} /\ target = [f \in Flushes |-> 0]

Init ==
    /\ InitLane
    /\ snd = [x \in Senders |-> "idle"]
    /\ out = [c \in Calls |-> "none"]
    /\ fl = [f \in Flushes |-> "idle"]

----------------------------------------------------------------------------
(* The two queues and the end of the lane.                                 *)

QLen       == Len(log) - taken           \* len(s.outQ)
Cur        == log[taken]                 \* the frame writeQueued works on
Waiting(x) == x \in Waiters \ notified   \* its outChanged is still open

\* The first error a setFault recorded stays; end() then closes the lane in
\* a step of its own.
Faulted(f) == fault' = IF fault = "none" THEN f ELSE fault

\* Mutant: the end of the lane refuses the replies still owed as well.
EndRefusesAll == closed' = TRUE /\ outClosed' = TRUE
\* end(): outClosed is left to the settlement, which every served lane has.
End == closed' = TRUE /\ outClosed' = outClosed

\* Mutant: the old channel is replaced without being closed.
AnnounceNone == notified' = notified
\* announceLocked: whoever captured outChanged before is woken.
Announce == notified' = Waiters

EnqueueRefused == outClosed \/ fault # "none" \/ closed
ReplyRefused   == outClosed \/ fault # "none"

\* Mutant: events and host calls may use the room kept for replies.
EventsTakeAll == QLen >= OutQueue
\* Events and host calls leave AdmitQueue places to the replies.
EventsFull == QLen >= OutQueue - AdmitQueue

----------------------------------------------------------------------------
(* The reader goroutine: readLoop, close(admitCh), readDone.               *)

ReaderFault ==   \* the check at the head of the loop finds the lane faulted
    /\ rd = "loop" /\ fault # "none"
    /\ rd' = "close" /\ readErr' = "fault"
    /\ ByReader /\ UNCHANGED <<received, admitCh, admitClosed, replied>>

ReaderRead ==    \* it does not: ReadFrame
    /\ rd = "loop" /\ fault = "none"
    /\ rd' = "read"
    /\ ByReader /\ UNCHANGED <<readErr, received, admitCh, admitClosed, replied>>

\* A reply frame, awaited, repeated or unknown to the plugin: deliverReply
\* drops it unless the call is registered and its channel empty.
ReadReply(c) ==
    /\ rd = "read" /\ rd' = "loop"
    /\ replied' = IF c \in pending THEN replied \cup {c} ELSE replied
    /\ ByReader /\ UNCHANGED <<readErr, received, admitCh, admitClosed>>

\* Mutants: admitCh takes any number of controls; one too few.
AdmitUnbounded == TRUE
AdmitStingy == Len(admitCh) + 1 < AdmitQueue
AdmitRoom == Len(admitCh) < AdmitQueue

\* A control the host sends while fewer than HostWindow wait for their answer.
ReadControl(k) ==
    /\ rd = "read" /\ k \notin received
    /\ Cardinality(received \ wire) < HostWindow
    /\ received' = received \cup {k}
    /\ \/ /\ AdmitRoom
          /\ admitCh' = Append(admitCh, k) /\ rd' = "loop" /\ UNCHANGED readErr
       \/ /\ ~AdmitRoom
          /\ rd' = "close" /\ readErr' = "saturated" /\ UNCHANGED admitCh
    /\ ByReader /\ UNCHANGED <<admitClosed, replied>>

\* The host closes the pipe, or the read fails: because of the transport or
\* because interruptRead closed stdin under it.
ReadEnd(err) ==
    /\ rd = "read" /\ rd' = "close"
    /\ readErr' = err
    /\ ByReader /\ UNCHANGED <<received, admitCh, admitClosed, replied>>

ReaderClose ==
    /\ rd = "close" /\ rd' = "report"
    /\ admitClosed' = TRUE
    /\ ByReader /\ UNCHANGED <<readErr, received, admitCh, replied>>

ReaderReport ==
    /\ rd = "report" /\ rd' = "exit"
    /\ ByReader /\ UNCHANGED <<readErr, received, admitCh, admitClosed, replied>>

----------------------------------------------------------------------------
(* The admission goroutine.                                                *)

\* Either receive from admitCh: the select's, or the one after s.closed.
AdmitTake ==
    /\ ad \in {"sel", "drain"} /\ admitCh # <<>>
    /\ cur' = Head(admitCh) /\ admitCh' = Tail(admitCh)
    /\ ad' = "got"
    /\ ByAdmission /\ UNCHANGED <<handed, slots, ending>>

AdmitStop ==
    /\ \/ ad \in {"sel", "drain"} /\ admitCh = <<>> /\ admitClosed
       \/ ad = "sel" /\ closed /\ fault # "none"
       \/ ad = "got" /\ fault # "none"
    /\ ad' = "exit"
    /\ ByAdmission /\ UNCHANGED <<cur, handed, slots, admitCh, ending>>

AdmitClosed ==   \* the lane ended without a fault: drain what was queued
    /\ ad = "sel" /\ closed /\ fault = "none"
    /\ ad' = "drain"
    /\ ByAdmission /\ UNCHANGED <<cur, handed, slots, admitCh, ending>>

AdmitOne ==
    /\ ad = "got" /\ fault = "none" /\ slots < AdmitQueue
    /\ slots' = slots + 1
    /\ handed' = handed \cup {cur} /\ ad' = "handler"
    /\ ByAdmission /\ UNCHANGED <<cur, admitCh, ending>>

AdmitRefused ==  \* every slot is taken: the control is lost with the lane
    /\ ad = "got" /\ fault = "none" /\ slots >= AdmitQueue
    /\ Faulted("slots") /\ ad' = "fault"
    /\ ByAdmission /\ UNCHANGED <<cur, handed, slots, admitCh, closed, outClosed>>

AdmitEnd ==
    /\ ad = "fault" /\ ad' = "sel"
    /\ End
    /\ ByAdmission /\ UNCHANGED <<cur, handed, slots, admitCh, fault>>

\* admit(c) returns: an Inline handler after the Answer it called or joined,
\* any other whenever it likes.
HandlerReturns ==
    /\ ad = "handler" /\ ad' = "sel"
    /\ cur \in Inline =>
          /\ cur \in answered
          /\ \A a \in Answerers : ans[<<cur, a>>] # "respond"
    /\ ByAdmission /\ UNCHANGED <<cur, handed, slots, admitCh, ending>>

----------------------------------------------------------------------------
(* Control.Answer, called by goroutine x[2] on control x[1].               *)

\* Mutant: answered is looked at but not swapped.
WinsAlways(x) == TRUE
Wins(x) == x[1] \notin answered

Answer(x) ==     \* the CompareAndSwap: only its winner responds
    /\ ans[x] = "idle" /\ x[1] \in handed
    /\ ans' = [ans EXCEPT ![x] = IF Wins(x) THEN "respond" ELSE "done"]
    /\ answered' = answered \cup {x[1]}
    /\ ByAnswer /\ UNCHANGED <<log, slots, fault, closed>>

\* respondAdmission.  A reply the lane refuses, or has no room for, gives its
\* slot back here; one it takes gives it back when the writer takes it.  No
\* room is a fault, which ends the lane.
Respond(x) ==
    /\ ans[x] = "respond" /\ ans' = [ans EXCEPT ![x] = "done"]
    /\ LET full == ~ReplyRefused /\ QLen >= OutQueue
           sent == ~ReplyRefused /\ QLen < OutQueue
       IN  /\ log' = IF sent THEN Append(log, x[1]) ELSE log
           /\ slots' = IF sent THEN slots ELSE slots - 1
           /\ fault' = IF full THEN "reply" ELSE fault
           /\ closed' = (closed \/ full)
    /\ ByAnswer /\ UNCHANGED answered

----------------------------------------------------------------------------
(* The writer goroutine.                                                   *)

WriterTake ==    \* any of the three receives from outQ
    /\ wr = "idle" /\ QLen > 0
    /\ taken' = taken + 1 /\ wr' = "release"
    /\ ByWriter /\ UNCHANGED <<written, wrote, mode, owed, slots, notified, ending>>

WriterMode ==    \* s.closed, then s.settled, is selected
    /\ wr = "idle"
    /\ \/ mode = "sel" /\ closed /\ mode' = "drain"
       \/ mode = "drain" /\ settled /\ mode' = "final"
    /\ ByWriter /\ UNCHANGED <<written, taken, wrote, wr, owed, slots, notified, ending>>

WriterExit ==
    /\ wr = "idle" /\ mode = "final" /\ QLen = 0
    /\ wr' = "exit"
    /\ ByWriter /\ UNCHANGED <<written, taken, wrote, mode, owed, slots, notified, ending>>

\* Mutant: the slot of a queued reply is never given back.
ReleasesNone(x) == 0
\* outbound.release is set on the answers to controls only.
Releases(x) == IF x \in Controls THEN 1 ELSE 0

WriterRelease ==
    /\ wr = "release" /\ wr' = "announce"
    /\ slots' = slots - Releases(Cur)
    /\ ByWriter /\ UNCHANGED <<written, taken, wrote, mode, owed, notified, ending>>

WriterAnnounce ==
    /\ wr = "announce" /\ wr' = "claim"
    /\ Announce
    /\ ByWriter /\ UNCHANGED <<written, taken, wrote, mode, owed, slots, ending>>

WriterClaim ==   \* write(ob): the CompareAndSwap on ob.claimed
    /\ wr = "claim"
    /\ claimed' = claimed \cup {Cur}
    /\ IF Cur \in claimed
       THEN wr' = "after" /\ owed' = FALSE
       ELSE wr' = "check" /\ owed' = TRUE
    /\ ByWriter /\ UNCHANGED <<taken, wrote, done, touched, wire, mode, slots, notified, ending>>

\* What the code sends on ob.done; only a host call reads it.
Done(result) == done' = IF Cur \in Calls THEN [done EXCEPT ![Cur] = result] ELSE done

\* Mutant: no look at the fault between the claim and the write.
WriteAlways == TRUE
WriteAllowed == fault = "none"

WriterRefuse ==  \* the lane faulted before the first byte
    /\ wr = "check" /\ ~WriteAllowed
    /\ Done("notsent") /\ wr' = "after"
    /\ ByWriter /\ UNCHANGED <<taken, wrote, claimed, touched, wire, mode, owed, slots, notified, ending>>

WriterBegin ==
    /\ wr = "check" /\ WriteAllowed
    /\ wr' = "write" /\ touched' = touched \cup {Cur}
    /\ ByWriter /\ UNCHANGED <<taken, wrote, claimed, done, wire, mode, owed, slots, notified, ending>>

WriterWrite ==   \* WriteFrame: the peer can read the frame before it returns
    /\ wr = "write" /\ wr' = "written"
    /\ wire' = wire \cup {Cur} /\ owed' = FALSE
    /\ ByWriter /\ UNCHANGED <<taken, wrote, claimed, done, touched, mode, slots, notified, ending>>

WriterFail ==    \* WriteFrame fails with some of the frame written: setFault
    /\ wr = "write" /\ wr' = "torn"
    /\ Faulted("write")
    /\ ByWriter /\ UNCHANGED <<written, taken, wrote, mode, owed, slots, notified, closed, outClosed>>

WriterEnd ==     \* ... and its end()
    /\ wr = "torn" /\ wr' = "failed"
    /\ End
    /\ ByWriter /\ UNCHANGED <<written, taken, wrote, mode, owed, slots, notified, fault>>

WriterReport ==
    /\ wr \in {"written", "failed"} /\ wr' = "after"
    /\ Done(IF wr = "written" THEN "nil" ELSE "failed")
    /\ ByWriter /\ UNCHANGED <<taken, wrote, claimed, touched, wire, mode, owed, slots, notified, ending>>

\* Mutant: wrote follows every frame the writer is through with.
AdvancesAlways == TRUE
\* wrote moves only over frames that are owed nothing, without a gap.
Advances == ~owed /\ wrote + 1 = taken

WriterAfter ==
    /\ wr = "after" /\ wr' = "idle"
    /\ wrote' = IF Advances THEN taken ELSE wrote
    /\ Announce
    /\ ByWriter /\ UNCHANGED <<written, taken, mode, owed, slots, ending>>

----------------------------------------------------------------------------
(* The goroutine that called serveSession, and the one that settles.       *)

MainReadDone ==
    /\ mn = "wait" /\ rd = "exit"
    /\ sawRead' = TRUE /\ mn' = "end"
    /\ ByMain /\ UNCHANGED <<intr, retErr, ret, closed, fault, outClosed, settled>>

MainClosed ==    \* interruptRead, then a look at readDone without waiting
    /\ mn = "wait" /\ closed
    /\ intr' = TRUE /\ sawRead' = (rd = "exit") /\ mn' = "end"
    /\ ByMain /\ UNCHANGED <<retErr, ret, closed, fault, outClosed, settled>>

MainEnd ==
    /\ mn = "end" /\ mn' = "settle"
    /\ End
    /\ ByMain /\ UNCHANGED <<sawRead, intr, retErr, ret, fault, settled>>

Settle ==        \* the goroutine started here waits for admitDone
    /\ mn \notin {"wait", "end"} /\ ad = "exit" /\ ~settled
    /\ outClosed' = TRUE /\ settled' = TRUE
    /\ ByMain /\ UNCHANGED <<mn, sawRead, intr, retErr, ret, closed, fault>>

MainProceed ==   \* admission settled; the writer is done
    /\ \/ mn = "settle" /\ settled /\ mn' = "writer"
       \/ mn = "writer" /\ wr = "exit" /\ mn' = "join"
    /\ ByMain /\ UNCHANGED <<sawRead, intr, retErr, ret, closed, fault, outClosed, settled>>

\* Mutant: serveSession waits without a timer.
MainWaits == FALSE /\ UNCHANGED vars

MainTimeout ==   \* two seconds passed first (the lane is closed already)
    /\ \/ mn = "settle" /\ mn' = "writer"
       \/ mn = "writer" /\ mn' = "join"
    /\ Faulted("retire") /\ retErr' = TRUE
    /\ ByMain /\ UNCHANGED <<sawRead, intr, ret, closed, outClosed, settled>>

\* errors.Join of what was read, the fault and the retirement.  A Close of
\* stdin that failed, or has not returned yet, is an error as well; which of
\* its outcomes is met here is left open.
MainReturn ==
    /\ mn = "join" /\ mn' = "returned"
    /\ \E unclosed \in BOOLEAN :
          ret' = IF /\ sawRead => readErr = "none"
                    /\ fault = "none" /\ ~retErr /\ ~(intr /\ unclosed)
                 THEN "nil" ELSE "error"
    /\ ByMain /\ UNCHANGED <<sawRead, intr, retErr, closed, fault, outClosed, settled>>

----------------------------------------------------------------------------
(* enqueue, for Emit and for HostCall.                                     *)

AtEnqueue(x) == snd[x] = "retry" \/ snd[x] = (IF x \in Calls THEN "registered" ELSE "idle")

\* errNotSent: Emit reports the event refused, a host call returns ErrNotSent.
GiveUp(x) ==
    /\ snd' = [snd EXCEPT ![x] = IF x \in Calls THEN "leave" ELSE "refused"]
    /\ out' = IF x \in Calls THEN [out EXCEPT ![x] = "NotSent"] ELSE out

\* Mutant: an Emit that waits for room does not hear the lane end.
WaitIsDeaf(x) == x \in Calls
\* s.closed, or the context of a host call, ends a wait for room.
WaitEnds(x) == closed \/ x \in Calls

EnqueueStop(x) ==   \* the lane has ended, or the call's context is done
    /\ \/ AtEnqueue(x) /\ (EnqueueRefused \/ x \in Calls)
       \/ snd[x] = "wait" /\ WaitEnds(x)
    /\ GiveUp(x)
    /\ BySender /\ UNCHANGED <<log, claimed, pending, notified>>

Enqueue(x) ==       \* tryEnqueue has room
    /\ AtEnqueue(x) /\ ~EnqueueRefused /\ ~EventsFull /\ QLen < OutQueue
    /\ log' = Append(log, x)
    /\ snd' = [snd EXCEPT ![x] = IF x \in Calls THEN "sent" ELSE "accepted"]
    /\ BySender /\ UNCHANGED <<claimed, out, pending, notified>>

EnqueueWait(x) ==   \* tryEnqueue has none: it returns outChanged under outMu
    /\ AtEnqueue(x) /\ ~EnqueueRefused /\ (EventsFull \/ QLen >= OutQueue)
    /\ snd' = [snd EXCEPT ![x] = "wait"] /\ notified' = notified \ {x}
    /\ BySender /\ UNCHANGED <<log, claimed, out, pending>>

EnqueueWake(x) ==
    /\ snd[x] = "wait" /\ ~Waiting(x)
    /\ snd' = [snd EXCEPT ![x] = "retry"]
    /\ BySender /\ UNCHANGED <<log, claimed, out, pending, notified>>

----------------------------------------------------------------------------
(* HostCallTo.                                                             *)

Returns(c, outcome) ==
    /\ snd' = [snd EXCEPT ![c] = "leave"] /\ out' = [out EXCEPT ![c] = outcome]

CallRegister(c) ==
    /\ snd[c] = "idle" /\ Cardinality(pending) < MaxPending
    /\ pending' = pending \cup {c} /\ snd' = [snd EXCEPT ![c] = "registered"]
    /\ BySender /\ UNCHANGED <<log, claimed, out, notified>>

CallTooMany(c) ==
    /\ snd[c] = "idle" /\ Cardinality(pending) >= MaxPending
    /\ Returns(c, "TooMany")
    /\ BySender /\ UNCHANGED <<log, claimed, pending, notified>>

CallBadOp(c) ==      \* the operation name cannot be encoded
    /\ snd[c] = "registered"
    /\ Returns(c, "BadOp")
    /\ BySender /\ UNCHANGED <<log, claimed, pending, notified>>

CallWritten(c) ==    \* the first select receives from ob.done
    /\ snd[c] = "sent" /\ done[c] # "none"
    /\ \/ done[c] = "nil" /\ snd' = [snd EXCEPT ![c] = "await"] /\ UNCHANGED out
       \/ done[c] = "notsent" /\ Returns(c, "NotSent")
       \/ done[c] = "failed" /\ Returns(c, "Unknown")
    /\ BySender /\ UNCHANGED <<log, claimed, pending, notified>>

\* Mutant: a cancelled call never looks at who claimed its frame.
WithdrawsBlindly(c) == TRUE
\* The caller's CompareAndSwap on ob.claimed succeeds.
CanWithdraw(c) == c \notin claimed

\* ... or its context is done, or the lane has ended.
CallInterrupted(c) ==
    /\ snd[c] = "sent"
    /\ \/ CanWithdraw(c) /\ Returns(c, "NotSent")
       \/ ~CanWithdraw(c) /\ Returns(c, "Unknown")
    /\ claimed' = claimed \cup {c}
    /\ BySender /\ UNCHANGED <<log, pending, notified>>

CallAnswered(c) ==   \* the second select: the reply
    /\ snd[c] = "await" /\ c \in replied
    /\ Returns(c, "Answered")
    /\ BySender /\ UNCHANGED <<log, claimed, pending, notified>>

CallAbandoned(c) ==  \* ... or the context, or the end of the lane
    /\ snd[c] = "await"
    /\ Returns(c, "Unknown")
    /\ BySender /\ UNCHANGED <<log, claimed, pending, notified>>

CallLeave(c) ==      \* the deferred delete; it registered unless there were too many
    /\ snd[c] = "leave"
    /\ snd' = [snd EXCEPT ![c] = "returned"] /\ pending' = pending \ {c}
    /\ BySender /\ UNCHANGED <<log, claimed, out, notified>>

----------------------------------------------------------------------------
(* Flush.                                                                  *)

FlushStart(f) ==
    /\ fl[f] = "idle"
    /\ target' = [target EXCEPT ![f] = Len(log)] /\ fl' = [fl EXCEPT ![f] = "check"]
    /\ ByFlush /\ UNCHANGED notified

FlushCheck(f) ==   \* wrote and outChanged are read under one lock
    /\ fl[f] = "check"
    /\ \/ wrote >= target[f] /\ fl' = [fl EXCEPT ![f] = "ok"] /\ UNCHANGED notified
       \/ /\ wrote < target[f] /\ fl' = [fl EXCEPT ![f] = "look"]
          /\ notified' = notified \ {f}
    /\ ByFlush /\ UNCHANGED target

FlushLook(f) ==    \* the fault, then s.closed, without waiting
    /\ fl[f] = "look"
    /\ fl' = [fl EXCEPT ![f] = IF fault # "none" \/ closed THEN "ended" ELSE "wait"]
    /\ ByFlush /\ UNCHANGED <<target, notified>>

FlushHears(f) == ~Waiting(f) \/ closed

FlushWake(f) ==
    /\ fl[f] = "wait" /\ FlushHears(f)
    /\ fl' = [fl EXCEPT ![f] = "check"]
    /\ ByFlush /\ UNCHANGED <<target, notified>>

FlushCancelled(f) ==
    /\ fl[f] = "wait"
    /\ fl' = [fl EXCEPT ![f] = "unknown"]
    /\ ByFlush /\ UNCHANGED <<target, notified>>

----------------------------------------------------------------------------
(* The specification.  Each goroutine is weakly fair in the steps that are *)
(* its own; nothing makes the host send, a handler answer or return, a     *)
(* context end or the pipe take a frame.  Timers do expire.                *)

ReaderStep == ReaderFault \/ ReaderRead \/ ReaderClose \/ ReaderReport
ReadStep   == (\E c \in Calls : ReadReply(c)) \/ (\E k \in Controls : ReadControl(k))
                \/ (\E err \in {"none", "error"} : ReadEnd(err))
AdmitStep  == AdmitTake \/ AdmitStop \/ AdmitClosed \/ AdmitOne \/ AdmitRefused \/ AdmitEnd
WriterStep == WriterTake \/ WriterMode \/ WriterExit \/ WriterRelease \/ WriterAnnounce
                \/ WriterClaim \/ WriterRefuse \/ WriterBegin \/ WriterEnd \/ WriterReport
                \/ WriterAfter
PipeStep   == WriterWrite \/ WriterFail
MainStep   == MainReadDone \/ MainClosed \/ MainEnd \/ MainProceed \/ MainTimeout \/ MainReturn
AnswerStep == \E x \in Answers : Answer(x) \/ Respond(x)
SendStep(x) == EnqueueStop(x) \/ Enqueue(x) \/ EnqueueWait(x) \/ EnqueueWake(x)
CallStep(c) == CallRegister(c) \/ CallTooMany(c) \/ CallBadOp(c) \/ CallWritten(c)
                \/ CallInterrupted(c) \/ CallAnswered(c) \/ CallAbandoned(c) \/ CallLeave(c)
FlushStep(f) == FlushStart(f) \/ FlushCheck(f) \/ FlushLook(f) \/ FlushWake(f)
                \/ FlushCancelled(f)

\* serveSession has returned: the process is free to exit.
Returned == mn = "returned" /\ UNCHANGED vars

Next ==
    \/ ReaderStep \/ ReadStep \/ AdmitStep \/ HandlerReturns \/ WriterStep \/ PipeStep
    \/ MainStep \/ Settle \/ AnswerStep \/ Returned
    \/ \E x \in Senders : SendStep(x)
    \/ \E c \in Calls : CallStep(c)
    \/ \E f \in Flushes : FlushStep(f)

Spec == Init /\ [][Next]_vars

\* What the Go scheduler gives a caller that is not waiting for anyone.
SendRuns(x) == Enqueue(x) \/ EnqueueWait(x) \/ EnqueueWake(x) \/ (EnqueueStop(x) /\ closed)
CallRuns(c) == CallWritten(c) \/ CallLeave(c) \/ (CallInterrupted(c) /\ closed)
                 \/ (CallAbandoned(c) /\ closed)
FlushRuns(f) == FlushCheck(f) \/ FlushLook(f) \/ FlushWake(f)

Fairness ==
    /\ WF_vars(ReaderStep) /\ WF_vars(AdmitStep) /\ WF_vars(WriterStep)
    /\ WF_vars(MainStep) /\ WF_vars(Settle)
    /\ \A x \in Senders : WF_vars(snd[x] # "idle" /\ SendRuns(x))
    /\ \A c \in Calls : WF_vars(CallRuns(c))
    /\ \A f \in Flushes : WF_vars(FlushRuns(f))

FairSpec == Spec /\ Fairness

----------------------------------------------------------------------------
(* Properties.                                                             *)

SendStates == {"idle", "registered", "retry", "wait", "sent", "await", "leave", "returned",
               "accepted", "refused"}

\* The states and buffers the code's declarations allow: queues within their
\* capacities, counters within what was queued.
TypeOK ==
    /\ log \in Seq(Frames) /\ taken \in 0..Len(log) /\ wrote \in 0..taken
    /\ claimed \subseteq Frames /\ touched \subseteq Frames /\ wire \subseteq Frames
    /\ done \in [Calls -> {"none", "nil", "notsent", "failed"}]
    /\ notified \subseteq Waiters
    /\ slots \in Int
    /\ admitCh \in Seq(Controls) /\ Len(admitCh) <= AdmitQueue
    /\ admitClosed \in BOOLEAN /\ closed \in BOOLEAN /\ outClosed \in BOOLEAN
    /\ settled \in BOOLEAN /\ owed \in BOOLEAN /\ sawRead \in BOOLEAN
    /\ intr \in BOOLEAN /\ retErr \in BOOLEAN
    /\ fault \in Faults
    /\ received \subseteq Controls
    /\ rd \in {"loop", "read", "close", "report", "exit"}
    /\ readErr \in {"none", "error", "saturated", "fault"}
    /\ ad \in {"sel", "drain", "got", "handler", "fault", "exit"}
    /\ cur \in Controls \cup {"none"} /\ (ad \in {"got", "handler"} => cur \in Controls)
    /\ handed \subseteq Controls /\ answered \subseteq handed
    /\ ans \in [Answers -> {"idle", "respond", "done"}]
    /\ wr \in {"idle", "release", "announce", "claim", "check", "write", "written", "torn",
               "failed", "after", "exit"}
    /\ wr \notin {"idle", "exit"} => taken > 0
    /\ mode \in {"sel", "drain", "final"}
    /\ mn \in {"wait", "end", "settle", "writer", "join", "returned"}
    /\ ret \in {"none", "nil", "error"}
    /\ snd \in [Senders -> SendStates]
    /\ out \in [Calls -> Outcomes]
    /\ pending \subseteq Calls /\ replied \subseteq Calls
    /\ fl \in [Flushes -> {"idle", "check", "look", "wait", "ok", "ended", "unknown"}]
    /\ target \in [Flushes -> 0..Len(log)]

\* What ErrNotSent and a reply promise the caller of HostCall: a call reported
\* not sent never has a byte of its frame on the pipe, then or later (its
\* withdrawal and the writer race for outbound.claimed, and a fault is seen
\* before the first byte), and a call that returns a reply was written whole.
OutcomeIsHonest ==
    \A c \in Calls : /\ out[c] = "NotSent" => c \notin touched
                     /\ out[c] = "Answered" => c \in wire

\* The peer has the frame, or its caller took it back before it was written.
Accounted(x) == x \in wire \/ (x \in Calls /\ out[x] = "NotSent")

\* A Flush that returns nil: every frame accepted before it was called is on
\* the pipe or was withdrawn, whatever failed, was refused or was cancelled
\* between (Session.wrote stops for good at the first frame still owed).
FlushedMeansWritten ==
    \A f \in Flushes : fl[f] = "ok" => \A i \in 1..target[f] : Accounted(log[i])

\* Answer never finds outQ full while it holds its admission slot, however
\* many events and host calls wait: the fault in Control.Answer cannot happen.
ReplyAlwaysFits ==
    \A x \in Answers : ans[x] = "respond" => QLen < OutQueue

\* The controls that hold an admission slot: handed to a handler, and neither
\* refused by tryEnqueue nor taken off outQ and released by the writer.
Queued(i)  == i > taken \/ (i = taken /\ wr = "release")
Holders == {k \in handed : \/ k \notin answered
                           \/ \E a \in Answerers : ans[<<k, a>>] = "respond"
                           \/ \E i \in 1..Len(log) : Queued(i) /\ log[i] = k}

\* admissionSlots counts exactly them: no slot leaks and none is given back
\* twice, on any path of Answer and of the writer.
SlotsAreHeld == slots = Cardinality(Holders) /\ slots <= AdmitQueue

\* The lane cuts off only a host that has more than AdmitQueue controls
\* unanswered: neither admitCh nor the slots run out under any other, since a
\* slot is free again before the host can see the answer.
CutsOff == \/ readErr # "saturated" /\ readErr' = "saturated"
           \/ fault # "slots" /\ fault' = "slots"
WindowedHostIsServed ==
    [][CutsOff => Cardinality(received' \ wire) > AdmitQueue]_vars

\* An Emit or HostCall that waits on a channel not yet closed waits for room
\* that is not there yet, or the writer has yet to announce the room it made:
\* no wake-up is lost between tryEnqueue and the select.
NoLostWakeup ==
    \A x \in Senders : snd[x] = "wait" /\ Waiting(x)
                         => EventsFull \/ wr \in {"release", "announce"}

\* serveSession returned nil: every accepted frame is on the pipe or was
\* withdrawn, and every control that reached an answering handler, or was
\* queued for one, has its answer there, those that came just before the end
\* of input included.
CleanReturnDelivers ==
    ret = "nil" => /\ \A i \in 1..Len(log) : Accounted(log[i])
                   /\ received \cap Inline \subseteq wire

\* However many goroutines call Answer on a control, one response is queued.
AnsweredOnce ==
    \A i, j \in 1..Len(log) : log[i] = log[j] => i = j

\* The pipe stays framed: once a frame was written in part, no later frame is
\* begun, so the peer never reads the middle of one frame as the head of another.
StreamStaysFramed ==
    \A i, j \in 1..taken : i < j /\ {log[i], log[j]} \subseteq touched => log[i] \in wire

\* Once the lane has ended, serveSession returns, whatever its handlers, the
\* host and the pipe do.
ServeReturns == closed ~> mn = "returned"

Flushed(f) == fl[f] \in {"ok", "ended", "unknown"}

\* ... and every Emit, HostCall and Flush in progress returns to its caller,
\* with the pipe blocked too.  closed does not change any more: one that never
\* returned would keep all of them from being at rest from then on.
CallersReleased ==
    /\ closed ~> \A x \in Senders : snd[x] \in {"idle", "accepted", "refused", "returned"}
    /\ closed ~> \A f \in Flushes : fl[f] = "idle" \/ Flushed(f)

\* While the other end of the pipe is read or closed, a Flush returns without
\* any cancellation: what it waits for is written, or refused by a fault, and
\* no announcement is missed.
FlushReturns ==
    WF_vars(PipeStep) => \A f \in Flushes : (fl[f] # "idle") ~> Flushed(f)
============================================================================

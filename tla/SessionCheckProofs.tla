------------------------- MODULE SessionCheckProofs -------------------------
(***************************************************************************)
(* Proofs about SessionCheck, for any checks, recordings, rooms and slips. *)
(*                                                                         *)
(* The safety properties rest on one inductive invariant, CheckInv: where  *)
(* the driver is tells what may be under way to the engine and from it,    *)
(* and each word of the engine stays true for as long as it is under way.  *)
(***************************************************************************)
EXTENDS SessionCheck, TLAPS

Elems(s) == {s[i] : i \in 1 .. Len(s)}

\* Where the driver is with a check.
Heard    == {"listen", "synthesize", "finish_input"}
Closed0  == {"close", "abort", "status", "retire", "retiring"}
InCheck  == {"open", "end"} \cup Heard \cup Closed0
Drivers  == {"run", "invoke", "over"} \cup InCheck

Words    == {"none", "passed", "wrong", "timed_out", "unanswered", "not_run_here"}
Ids      == [op : Controls, n : AllChecks]
Items    == [op : Controls \cup {"event", "ask"}, n : AllChecks, type : Answers \cup Said \cup {"ask"}]

\* The check was begun; it is no longer listened to; its session was told to close.
Begun(m)   == m < n \/ (m = n /\ d # "run")
Left(m)    == m < n \/ (m = n /\ d \in {"end"} \cup Closed0)
Closing(m) == m < n \/ (m = n /\ d \in Closed0)

\* An engine that says the right things, and says them only late or not at all.
Benign == Slips \subseteq {"die", "hangup"}

OpenOf(m) == [op |-> "open", n |-> m]

\* The session is not open and will not be.
Shut(m) == sess[m] # "open" /\ OpenOf(m) \notin Elems(ctl)

GivenUp == dgone \/ ~up

\* The whole recording went, or nobody takes it.
Recorded(c) == sent[c] = RecFrames \/ deaf \/ ~up

CheckTypeOK ==
    /\ n \in 1 .. NChecks + 1 /\ d \in Drivers /\ (d = "over" <=> n = NChecks + 1)
    /\ res \in [AllChecks -> Words]
    /\ dgone \in BOOLEAN /\ inOpen \in BOOLEAN
    /\ sending \in Audio \cup {0} /\ stop \subseteq Audio
    /\ snd \in [Audio -> {"none", "due", "write", "done"}] /\ sent \in [Audio -> Nat]
    /\ aout \in Seq(Sessions) /\ tallied \subseteq Sessions
    /\ ctl \in Seq(Ids) /\ lane \in Seq(Items) /\ events \in Seq(Items)
    /\ pending \subseteq Ids /\ reply \in Answers \cup {"none", "ended"}
    /\ owes \subseteq Items
    /\ sess \in [Sessions -> {"none", "open", "over"}] /\ said \in [Sessions -> SUBSET Said]

\* The driver's own variables against where it is.
DriverInOrder ==
    /\ d \in InCheck => n \in Sessions
    /\ d = "invoke" => n \notin Sessions
    /\ d \in InCheck \ {"retire", "retiring"} => ~dgone
    /\ ~inOpen => dgone
    /\ d = "retiring" => ~inOpen
    /\ pending \subseteq {[op |-> d, n |-> n]}
    /\ d \notin Controls => reply = "none"
    /\ ended \/ rdr \in {"ended", "exit"} => ~up
    /\ reply = "ended" => ~up \/ d = "invoke"
    /\ calling # "none" => d \in Controls
    /\ d \in Heard /\ sentAll => n \in Audio
    /\ d \in Heard /\ synthEnded => "synthesis_end" \in said[n]

\* A sender writes for the check the driver is at, or to an input that is closed;
\* one that is done wrote everything, or was stopped, or found nobody there.
SendersInOrder ==
    /\ sending # 0 => sending = n /\ d \in Heard \cup {"end"} \cup Closed0
    /\ \A c \in Audio : /\ snd[c] \in {"due", "write"} => c = sending \/ ~inOpen
                        /\ snd[c] = "done" => Recorded(c) \/ c \in stop \/ ~inOpen
                        /\ snd[c] # "done" => sent[c] < RecFrames
                        /\ c \in stop => Closing(c)
                        /\ snd[c] # "none" => \/ c < n \/ (c = n /\ d \in {"end"} \cup Closed0)
                                              \/ c = n /\ d \in Heard /\ started

\* The controls under way: a session's open leads them.
ControlsInOrder ==
    /\ \A i, j \in 1 .. Len(ctl) : i < j /\ ctl[i].n = ctl[j].n => ctl[j].op # "open"
    /\ \A x \in Elems(ctl) :
         /\ Begun(x.n)
         /\ x.op = "invoke" <=> x.n \notin Sessions
         /\ x.op = "open" => sess[x.n] = "none"
         /\ x.op = "close" => Closing(x.n)
         /\ x.op = "finish_input" => x.n \in Audio /\ Recorded(x.n)
         /\ x.n = n /\ d = "open" => x.op = "open"

\* What the engine has done with each session.
SessionsInOrder ==
    \A m \in Sessions :
      /\ sess[m] # "none" => Begun(m)
      /\ sess[m] = "over" => said[m] \cap Terminal # {}
      /\ "failure" \in said[m] => "fail" \in Slips
      /\ "failure_retry" \in said[m] => "retry" \in Slips
      /\ "session_end" \in said[m] => "close" \in said[m] \/ "quit" \in Slips
      /\ "close" \in said[m] => Closing(m)
      /\ "finish_input" \in said[m] => m \in Audio /\ Recorded(m)
      /\ Closing(m) /\ (m < n \/ d \in {"retire", "retiring"}) => Shut(m) \/ GivenUp

\* What an answer or an event says is so, and stays so.
True(op, m, type) ==
    /\ type # "ask" => Begun(m)
    /\ type \in Said => op = "event" /\ m \in Sessions /\ type \in said[m]
    /\ \/ op = "open" /\ type = "refused"
       \/ op = "status" /\ type = "over"
       \/ type \in Terminal
       => Shut(m)
    /\ op = "open" => m \in Sessions /\ (type = "ok" => sess[m] # "none")
    /\ op = "status" => m \in Sessions
    /\ Benign => /\ type # "formats"
                 /\ type = "refused" => op \notin {"open", "invoke"}
                 /\ type = "refused" /\ op \in {"synthesize", "finish_input"} => Left(m)

WordsAreTrue ==
    /\ \A a \in owes \cup Elems(lane) \cup Elems(events) : True(a.op, a.n, a.type)
    /\ \A a \in owes : a.type \in Answers
    /\ \A a \in Elems(events) : a.type \in Said
    /\ reply \in Answers => True(d, n, reply)
    /\ \A m \in Elems(aout) \cup tallied : "END" \in said[m]

\* With no slip, a session that is listened to is open.
Listened == Benign /\ d \in Heard => sess[n] = "open"

\* listen has no answer that it is not told of.
Noticed == d \in Heard /\ Done(synthEnded, named) => changed \/ tally = "signal"

CheckInv == /\ CheckTypeOK /\ DriverInOrder /\ SendersInOrder /\ ControlsInOrder
            /\ SessionsInOrder /\ WordsAreTrue /\ Listened /\ Noticed
            /\ PassedIsComplete /\ SlowIsNeverWrong

----------------------------------------------------------------------------
(* Sequences.                                                              *)

\* A queue holds what it held and what is appended to it.
LEMMA ElemsAppend ==
    ASSUME NEW S, NEW s \in Seq(S), NEW x \in S
    PROVE  Append(s, x) \in Seq(S) /\ Elems(Append(s, x)) = Elems(s) \cup {x}
<1>1. Append(s, x) \in Seq(S) /\ Len(Append(s, x)) = Len(s) + 1 /\ Len(s) \in Nat
      /\ Append(s, x)[Len(s) + 1] = x /\ \A i \in 1 .. Len(s) : Append(s, x)[i] = s[i]
  OBVIOUS
<1> QED BY <1>1 DEF Elems

\* What is taken off a queue was in it, and nothing else comes.
LEMMA ElemsTail ==
    ASSUME NEW S, NEW s \in Seq(S), s # <<>>
    PROVE  /\ Tail(s) \in Seq(S) /\ Elems(Tail(s)) \subseteq Elems(s)
           /\ Head(s) \in Elems(s) /\ Head(s) \in S
<1>1. /\ Tail(s) \in Seq(S) /\ Len(Tail(s)) = Len(s) - 1 /\ Len(s) \in Nat \ {0}
      /\ Head(s) = s[1] /\ \A i \in 1 .. Len(s) - 1 : Tail(s)[i] = s[i + 1]
      /\ s[1] \in S
  OBVIOUS
<1> QED BY <1>1 DEF Elems

LEMMA ElemsIn == ASSUME NEW S, NEW s \in Seq(S) PROVE Elems(s) \subseteq S
  BY DEF Elems

LEMMA ElemsEmpty == Elems(<<>>) = {}
  BY DEF Elems

----------------------------------------------------------------------------
(* Type correctness.                                                       *)

LEMMA CheckTypeInit == Init => CheckTypeOK
<1> SUFFICES ASSUME Init PROVE CheckTypeOK
  OBVIOUS
<1>1. <<>> \in Seq(Sessions) /\ <<>> \in Seq(Ids) /\ <<>> \in Seq(Items)
  OBVIOUS
<1>2. 1 \in 1 .. NChecks + 1 /\ 1 # NChecks + 1
  BY CheckAssumption
<1> QED BY <1>1, <1>2 DEF Init, CheckTypeOK, Drivers, Words, Answers

LEMMA CallTyped ==
    ASSUME CheckTypeOK, n \in AllChecks, NEW op \in Controls, Call(op)
    PROVE  ctl' \in Seq(Ids) /\ pending' \subseteq Ids /\ reply' \in Answers \cup {"none", "ended"}
<1>1. [op |-> op, n |-> n] \in Ids
  BY DEF Ids
<1>2. Append(ctl, [op |-> op, n |-> n]) \in Seq(Ids)
  BY <1>1 DEF CheckTypeOK
<1> QED BY <1>1, <1>2 DEF Call

LEMMA ReturnTyped ==
    ASSUME CheckTypeOK, NEW op, NEW o, Returns(op, o)
    PROVE  ctl' \in Seq(Ids) /\ pending' \subseteq Ids /\ reply' \in Answers \cup {"none", "ended"}
  BY DEF Returns, CheckTypeOK

\* What every step of the driver has in common: it is taken at a check, leaves the
\* other goroutines and the engine alone, and makes a call, ends one, or neither.
LEMMA DriverFrame ==
    ASSUME CheckTypeOK, Driver
    PROVE  /\ n \in AllChecks /\ n \in Nat /\ d # "over"
           /\ UNCHANGED <<sent, ain, aout, tally, tallied, lane, rdr, ended, up, deaf, owes, sess, said>>
           /\ events' = events \/ (events # <<>> /\ events' = Tail(events))
           /\ NoCall \/ (\E op \in Controls : Call(op)) \/ (\E op, o : Returns(op, o))
<1> USE DEF Driver, drvVars, listenVars, paceVars, tallyVars, workerVars, engineVars, callVars, ByDriver,
        ByListen, ByEnd, NoCall, callVars, Ends, Over, Listening, Completes, Content, NotAsked, RunOpen, RunInvoke, Listen, Hears, ListenOther,
        ListenReady, ListenFinished, ListenSpeech, ListenTerminal, ListenClosed, ListenSent,
        ListenTally, ListenDeadline, End, AbortEvent, AbortClosed, AbortTimer, RetireDone,
        RetireTimer, RetireLeave, Invoked, Opened, CloseReturns, StatusReturns, Controlled
<1>1. n \in AllChecks /\ n \in Nat /\ d # "over"
  <2>1. d # "over"
    BY DEF Returns
  <2> QED BY <2>1, CheckAssumption DEF CheckTypeOK, AllChecks
<1>2. UNCHANGED <<sent, ain, aout, tally, tallied, lane, rdr, ended, up, deaf, owes, sess, said>>
  OBVIOUS
<1>3. events' = events \/ (events # <<>> /\ events' = Tail(events))
  OBVIOUS
<1>4. NoCall \/ (\E op \in Controls : Call(op)) \/ (\E op, o : Returns(op, o))
  BY DEF Controls
<1> QED BY <1>1, <1>2, <1>3, <1>4

\* The driver goes on to the next check, or further in this one.
Onward ==
    \/ n' = n + 1 /\ d' = (IF n = NChecks THEN "over" ELSE "run")
    \/ n' = n /\ d = "run" /\ d' \in {"open", "invoke"}
    \/ n' = n /\ d \in Heard \cup {"open"} /\ d' \in Heard \cup {"end"}
    \/ n' = n /\ d = "end" /\ d' = "close"
    \/ n' = n /\ d \in Closed0 /\ d' \in Closed0

LEMMA DriverGoesOn == ASSUME CheckTypeOK, Driver PROVE Onward
<1> USE DEF Driver, drvVars, listenVars, paceVars, tallyVars, workerVars, engineVars, callVars, ByDriver,
        ByListen, ByEnd, NoCall, callVars, Ends, Over, Listening, Completes, Content, NotAsked, RunOpen, RunInvoke, Listen, Hears, ListenOther,
        ListenReady, ListenFinished, ListenSpeech, ListenTerminal, ListenClosed, ListenSent,
        ListenTally, ListenDeadline, End, AbortEvent, AbortClosed, AbortTimer, RetireDone,
        RetireTimer, RetireLeave, Invoked, Opened, CloseReturns, StatusReturns, Controlled
<1> QED BY DEF Onward, Heard, Closed0, Returns, Call, Last

LEMMA DriverTyped ==
    ASSUME CheckTypeOK, DriverInOrder, Driver
    PROVE  CheckTypeOK'
<1>0. /\ n \in AllChecks /\ n \in Nat /\ d # "over"
      /\ UNCHANGED <<sent, aout, tallied, lane, owes, sess, said>>
      /\ events' = events \/ (events # <<>> /\ events' = Tail(events))
  BY DriverFrame
<1>1. ctl' \in Seq(Ids) /\ pending' \subseteq Ids /\ reply' \in Answers \cup {"none", "ended"}
  <2>1. CASE \E op \in Controls : Call(op)
    BY <1>0, <2>1, CallTyped
  <2>2. CASE \E op, o : Returns(op, o)
    BY <2>2, ReturnTyped
  <2>3. CASE NoCall
    BY <2>3 DEF CheckTypeOK, NoCall, callVars
  <2> QED BY <2>1, <2>2, <2>3, DriverFrame
<1>2. events' \in Seq(Items)
  BY <1>0, ElemsTail DEF CheckTypeOK
<1>3. n' \in 1 .. NChecks + 1 /\ d' \in Drivers /\ (d' = "over" <=> n' = NChecks + 1)
  BY <1>0, DriverGoesOn, CheckAssumption DEF Onward, AllChecks, Drivers, InCheck, Heard, Closed0, CheckTypeOK
<1>4. res' \in [AllChecks -> Words] /\ sending' \in Audio \cup {0}
      /\ snd' \in [Audio -> {"none", "due", "write", "done"}]
      /\ dgone' \in BOOLEAN /\ inOpen' \in BOOLEAN /\ stop' \subseteq Audio
  <2> USE <1>0  DEF Driver, drvVars, listenVars, paceVars, tallyVars, workerVars, engineVars, callVars, ByDriver,
          ByListen, ByEnd, NoCall, callVars, Ends, Over, Listening, Completes, Content, NotAsked, RunOpen, RunInvoke, Listen, Hears, ListenOther,
          ListenReady, ListenFinished, ListenSpeech, ListenTerminal, ListenClosed, ListenSent,
          ListenTally, ListenDeadline, End, AbortEvent, AbortClosed, AbortTimer, RetireDone,
          RetireTimer, RetireLeave, Invoked, Opened, CloseReturns, StatusReturns, Controlled
  <2>1. res' \in [AllChecks -> Words]
    BY DEF CheckTypeOK, Words
  <2>2. sending' \in Audio \cup {0} /\ stop' \subseteq Audio
    BY DEF CheckTypeOK, SendersInOrder
  <2>3. snd' \in [Audio -> {"none", "due", "write", "done"}]
    BY DEF CheckTypeOK
  <2>4. dgone' \in BOOLEAN /\ inOpen' \in BOOLEAN
    BY DEF CheckTypeOK
  <2> QED BY <2>1, <2>2, <2>3, <2>4
<1> QED BY <1>0, <1>1, <1>2, <1>3, <1>4 DEF CheckTypeOK

\* A step of call's write leaves the rest alone, and at most takes its control back.
LEMMA CallsFrame ==
    ASSUME Calls
    PROVE  /\ UNCHANGED <<drvVars, listenVars, paceVars, tallyVars, workerVars, engineVars, replies>>
           /\ calling # "none" /\ pending' \in {pending, {}}
           /\ reply' = reply \/ (reply' = "ended" /\ (~up \/ d = "invoke"))
           /\ ctl' = ctl \/ ctl' = SubSeq(ctl, 1, Len(ctl) - 1)
  BY DEF Calls, CallLocks, CallWrites, CallFails, CallTooLarge, Unsent, ByCall

LEMMA CallsControls ==
    ASSUME CheckTypeOK, Calls
    PROVE  /\ ctl' \in Seq(Ids) /\ Len(ctl') \in Nat /\ Len(ctl') <= Len(ctl)
           /\ \A i \in 1 .. Len(ctl') : ctl'[i] = ctl[i]
           /\ Elems(ctl') \subseteq Elems(ctl)
<1>0. ctl \in Seq(Ids) /\ Len(ctl) \in Nat
  BY DEF CheckTypeOK
<1>1. CASE ctl' = ctl
  BY <1>0, <1>1
<1>2. CASE ctl' = SubSeq(ctl, 1, Len(ctl) - 1)
  <2>1. CASE ctl = <<>>
    <3>1. SubSeq(ctl, 1, Len(ctl) - 1) = <<>> /\ Len(<<>>) = 0
      BY <2>1
    <3>2. ctl' = ctl
      BY <1>2, <2>1, <3>1
    <3> QED BY <1>1, <3>2
  <2>2. CASE ctl # <<>>
    <3>1. Len(ctl) - 1 \in 0 .. Len(ctl)
      BY <1>0, <2>2
    <3>2. \A i \in 1 .. Len(ctl) - 1 : ctl[i] \in Ids
      BY <1>0
    <3>3. /\ Len(SubSeq(ctl, 1, Len(ctl) - 1)) = Len(ctl) - 1
          /\ \A i \in 1 .. Len(ctl) - 1 : SubSeq(ctl, 1, Len(ctl) - 1)[i] = ctl[i]
      <4> DEFINE k == Len(ctl) - 1
      <4>1. k \in Nat /\ 1 + k - 1 = k
        BY <1>0, <3>1
      <4> HIDE DEF k
      <4>2. Len(SubSeq(ctl, 1, k)) = k /\ \A i \in 1 .. k : SubSeq(ctl, 1, k)[i] = ctl[i]
        BY <1>0, <4>1
      <4> QED BY <4>2 DEF k
    <3>4. SubSeq(ctl, 1, Len(ctl) - 1) \in Seq(Ids)
      BY <1>0, <3>1, <3>2
    <3> QED BY <1>0, <1>2, <3>3, <3>4 DEF Elems
  <2> QED BY <2>1, <2>2
<1> QED BY <1>1, <1>2, CallsFrame

LEMMA CallsTyped == ASSUME CheckTypeOK, Calls PROVE CheckTypeOK'
<1>1. ctl' \in Seq(Ids) /\ pending' \subseteq Ids /\ reply' \in Answers \cup {"none", "ended"}
  BY CallsFrame, CallsControls DEF CheckTypeOK
<1> QED BY <1>1, CallsFrame DEF CheckTypeOK, drvVars, listenVars, paceVars, tallyVars, workerVars, engineVars

\* What the steps of the other goroutines and of the engine have in common.
LEMMA OthersFrame ==
    ASSUME Calls \/ Helpers \/ Engine \/ (\E c \in Audio : Pace(c))
    PROVE  UNCHANGED <<n, d, res, dgone, gone, sending, stop, inOpen, started, synthEnded, named, sentAll>>
<1>1. CASE Calls
  BY <1>1, CallsFrame DEF drvVars, listenVars
<1>2. CASE Helpers \/ Engine \/ (\E c \in Audio : Pace(c))
  BY <1>2 DEF drvVars, listenVars, paceVars, tallyVars, workerVars, engineVars, callVars, ByPace, ByTally, ByReader,
     ByEngine, Helpers, Engine, Pace, PaceStopped, PaceDue, PaceWrite, PaceFails, TallyEnd, TallySignal,
     ReaderReply, ReaderEvent, ReaderEnd, ReaderAsked, ByAnswer, ReaderLocks, ReaderWrites,
                ReaderFails, ReaderTooLarge, EngineTakes, EngineHears, EngineStops, EngineAnswers, EngineSays, EngineReads, EngineTakesReply, EngineAsks
<1> QED BY <1>1, <1>2

LEMMA PaceTyped ==
    ASSUME CheckTypeOK, NEW c \in Audio, Pace(c)
    PROVE  CheckTypeOK'
<1> USE DEF drvVars, listenVars, paceVars, tallyVars, workerVars, engineVars, callVars, ByPace
<1>1. snd' \in [Audio -> {"none", "due", "write", "done"}]
  BY DEF CheckTypeOK, Pace, PaceStopped, PaceDue, PaceWrite, PaceFails
<1>3. sent' = sent \/ sent' = [sent EXCEPT ![c] = @ + 1]
  BY DEF CheckTypeOK, Pace, PaceStopped, PaceDue, PaceWrite, PaceFails
<1>4. sent' \in [Audio -> Nat]
  <2>1. sent \in [Audio -> Nat]
    BY DEF CheckTypeOK
  <2> QED BY <1>3, <2>1
<1>2. UNCHANGED <<drvVars, listenVars, tallyVars, workerVars, engineVars, ctl, pending, reply>>
  BY DEF Pace, PaceStopped, PaceDue, PaceWrite, PaceFails
<1> QED BY <1>1, <1>2, <1>4 DEF CheckTypeOK

LEMMA HelpersTyped ==
    ASSUME CheckTypeOK, Helpers
    PROVE  CheckTypeOK'
<1> USE DEF drvVars, listenVars, paceVars, tallyVars, workerVars, engineVars, callVars, ByTally, ByReader
<1>1. CASE TallyEnd
  <2>1. aout' \in Seq(Sessions) /\ Head(aout) \in Sessions
    BY <1>1, ElemsTail DEF TallyEnd, CheckTypeOK
  <2> QED BY <1>1, <2>1 DEF TallyEnd, CheckTypeOK
<1>2. CASE TallySignal \/ ReaderEnd \/ ReaderLocks \/ ReaderWrites \/ ReaderFails \/ ReaderTooLarge
  BY <1>2 DEF TallySignal, ReaderEnd, ByAnswer, ReaderLocks, ReaderWrites, ReaderFails, ReaderTooLarge,
              CheckTypeOK
<1>5. CASE ReaderAsked
  <2>1. lane' \in Seq(Items)
    BY <1>5, ElemsTail DEF ReaderAsked, CheckTypeOK
  <2> QED BY <1>5, <2>1 DEF ReaderAsked, CheckTypeOK
<1>3. CASE ReaderReply
  <2>1. lane' \in Seq(Items)
    BY <1>3, ElemsTail DEF ReaderReply, CheckTypeOK
  <2>2. pending' \subseteq Ids /\ reply' \in Answers \cup {"none", "ended"}
    BY <1>3 DEF ReaderReply, CheckTypeOK
  <2> QED BY <1>3, <2>1, <2>2 DEF ReaderReply, CheckTypeOK
<1>4. CASE ReaderEvent
  <2>1. lane' \in Seq(Items) /\ Head(lane) \in Items
    BY <1>4, ElemsTail DEF ReaderEvent, CheckTypeOK
  <2>2. events' \in Seq(Items)
    BY <1>4, <2>1, ElemsAppend DEF ReaderEvent, CheckTypeOK
  <2> QED BY <1>4, <2>1, <2>2 DEF ReaderEvent, CheckTypeOK
<1> QED BY <1>1, <1>2, <1>3, <1>4, <1>5 DEF Helpers

\* The next control, and what the engine makes of it.
LEMMA EngineTakesOne ==
    ASSUME CheckTypeOK, ControlsInOrder, EngineTakes,
           NEW op, NEW m, op = Head(ctl).op, m = Head(ctl).n
    PROVE  /\ ctl # <<>> /\ ctl' = Tail(ctl) /\ ctl' \in Seq(Ids) /\ Elems(ctl') \subseteq Elems(ctl)
           /\ Head(ctl) \in Elems(ctl) /\ Head(ctl) = [op |-> op, n |-> m]
           /\ op \in Controls /\ m \in AllChecks /\ (op # "invoke" => m \in Sessions)
<1>1. ctl # <<>> /\ ctl' = Tail(ctl)
  BY DEF EngineTakes
<1>2. ctl' \in Seq(Ids) /\ Elems(ctl') \subseteq Elems(ctl) /\ Head(ctl) \in Elems(ctl) /\ Head(ctl) \in Ids
  BY <1>1, ElemsTail DEF CheckTypeOK
<1>3. op # "invoke" => m \in Sessions
  BY <1>2 DEF ControlsInOrder
<1> QED BY <1>1, <1>2, <1>3 DEF Ids

LEMMA AskItem == Item("ask", 1, "ask") \in Items
  BY CheckAssumption DEF Item, Items, AllChecks

LEMMA EngineTyped ==
    ASSUME CheckTypeOK, ControlsInOrder, Engine
    PROVE  CheckTypeOK'
<1> USE DEF drvVars, listenVars, paceVars, tallyVars, workerVars, engineVars, callVars, ByEngine
<1>1. CASE EngineTakes
  <2> DEFINE op == Head(ctl).op
             m  == Head(ctl).n
  <2>1. /\ ctl' \in Seq(Ids) /\ op \in Controls /\ m \in AllChecks /\ (op # "invoke" => m \in Sessions)
    BY <1>1, EngineTakesOne
  <2>2. owes' \subseteq Items
    BY <1>1, <2>1 DEF EngineTakes, CheckTypeOK, Items, Item, Answers
  <2>3. sess' \in [Sessions -> {"none", "open", "over"}] /\ said' \in [Sessions -> SUBSET Said]
    <3>1. sess' = sess \/ (op = "open" /\ sess' = [sess EXCEPT ![m] = "open"])
      BY <1>1 DEF EngineTakes
    <3>2. said' = said \/ (op \in {"synthesize", "finish_input", "close"} /\ said' = [said EXCEPT ![m] = @ \cup {op}])
      BY <1>1 DEF EngineTakes, Says
    <3>3. sess \in [Sessions -> {"none", "open", "over"}] /\ said \in [Sessions -> SUBSET Said]
      BY DEF CheckTypeOK
    <3>4. {"synthesize", "finish_input", "close"} \subseteq Said
      BY DEF Said
    <3> HIDE DEF op, m
    <3>5. sess' \in [Sessions -> {"none", "open", "over"}]
      BY <2>1, <3>1, <3>3
    <3>6. said' \in [Sessions -> SUBSET Said]
      BY <2>1, <3>2, <3>3, <3>4
    <3> QED BY <3>5, <3>6
  <2> QED BY <1>1, <2>1, <2>2, <2>3 DEF EngineTakes, CheckTypeOK
<1>2. CASE \E a \in owes : EngineAnswers(a)
  <2>1. PICK a \in owes : EngineAnswers(a)
    BY <1>2
  <2>2. lane' \in Seq(Items)
    BY <2>1, ElemsAppend DEF EngineAnswers, CheckTypeOK
  <2> QED BY <2>1, <2>2 DEF EngineAnswers, CheckTypeOK
<1>3. CASE \E m \in Sessions, w \in Said : EngineSays(m, w)
  <2>1. PICK m \in Sessions, w \in Said : EngineSays(m, w)
    BY <1>3
  <2>2. Item("event", m, w) \in Items /\ m \in AllChecks
    BY CheckAssumption DEF Item, Items
  <2>3. lane' \in Seq(Items) /\ aout' \in Seq(Sessions)
    <3>1. Append(lane, Item("event", m, w)) \in Seq(Items) /\ Append(aout, m) \in Seq(Sessions)
      BY <2>2 DEF CheckTypeOK
    <3> QED BY <2>1, <3>1 DEF EngineSays, CheckTypeOK
  <2>4. sess' \in [Sessions -> {"none", "open", "over"}] /\ said' \in [Sessions -> SUBSET Said]
    BY <2>1 DEF EngineSays, CheckTypeOK, Says
  <2> QED BY <2>1, <2>3, <2>4 DEF EngineSays, CheckTypeOK
<1>4. CASE EngineHears \/ EngineStops \/ EngineTakesReply
  BY <1>4 DEF EngineHears, EngineStops, EngineTakesReply, CheckTypeOK
<1>5. CASE EngineAsks
  <2>1. lane' \in Seq(Items)
    BY <1>5, AskItem, ElemsAppend DEF EngineAsks, CheckTypeOK
  <2> QED BY <1>5, <2>1 DEF EngineAsks, CheckTypeOK
<1> QED BY <1>1, <1>2, <1>3, <1>4, <1>5 DEF Engine, EngineReads

----------------------------------------------------------------------------
(* What stays.                                                             *)

Others == Calls \/ Helpers \/ Engine \/ (\E c \in Audio : Pace(c))

Calling(op) ==
    /\ Call(op) /\ d \notin Controls
    /\ op \in {"open", "invoke"} => d = "run" /\ (op = "open" <=> n \in Sessions)
    /\ op \in {"synthesize", "finish_input"} => d = "listen"
    /\ op = "finish_input" => n \in Audio /\ snd[n] = "done"
    /\ op = "close" => d = "end"
    /\ op = "status" => d = "abort"

\* Which control the driver sends from where.
LEMMA DriverCalls ==
    ASSUME CheckTypeOK, DriverInOrder, Driver
    PROVE  \/ NoCall /\ d \notin Controls /\ d' \notin Controls
           \/ \E op \in Controls : Calling(op)
           \/ d \in Controls /\ d' \notin Controls /\ (\E o \in Outs : Returns(d, o))
<1>0. \/ NotAsked \/ RunOpen \/ RunInvoke
      \/ Listen
      \/ End \/ AbortEvent \/ AbortClosed \/ AbortTimer \/ RetireDone \/ RetireTimer \/ RetireLeave
      \/ \E o \in Outs : \/ Invoked(o) \/ Opened(o) \/ CloseReturns(o) \/ StatusReturns(o)
                          \/ \E op \in {"synthesize", "finish_input"} : Controlled(op, o)
  BY DEF Driver
<1> USE DEF Driver, drvVars, listenVars, paceVars, tallyVars, workerVars, engineVars, callVars, ByDriver,
        ByListen, ByEnd, NoCall, callVars, Ends, Over, Listening, Completes, Content, NotAsked, RunOpen, RunInvoke, Listen, Hears, ListenOther,
        ListenReady, ListenFinished, ListenSpeech, ListenTerminal, ListenClosed, ListenSent,
        ListenTally, ListenDeadline, End, AbortEvent, AbortClosed, AbortTimer, RetireDone,
        RetireTimer, RetireLeave, Invoked, Opened, CloseReturns, StatusReturns, Controlled
<1> USE DEF Calling, Controls
<1>1. CASE NotAsked \/ RunOpen \/ RunInvoke
  <2>1. d' \in {"over", "run", "open", "invoke"}
    BY <1>1 DEF Call
  <2> QED BY <1>1, <2>1
<1>2. CASE Listen
  <2>1. d = "listen"
    BY <1>2
  <2>2. CASE ListenOther \/ ListenFinished \/ ListenSpeech \/ ListenTerminal \/ ListenClosed
             \/ ListenTally \/ ListenDeadline
    <3>1. NoCall
      BY <2>2
    <3>2. d' \in {"listen", "end"}
      BY <2>2
    <3> QED BY <2>1, <3>1, <3>2
  <2>3. CASE ListenReady
    BY <2>1, <2>3
  <2>4. CASE ListenSent
    BY <2>1, <2>4 DEF DriverInOrder, SentWhole, Heard
  <2> HIDE DEF Calling, NoCall, callVars, ListenOther, ListenReady, ListenFinished, ListenSpeech, ListenTerminal,
               ListenClosed, ListenSent, ListenTally, ListenDeadline
  <2> QED BY <1>2, <2>2, <2>3, <2>4
<1>3. CASE End \/ AbortEvent \/ AbortClosed \/ AbortTimer \/ RetireDone \/ RetireTimer \/ RetireLeave
  BY <1>3
<1>4. CASE \E o \in Outs : \/ Invoked(o) \/ Opened(o) \/ CloseReturns(o) \/ StatusReturns(o)
                            \/ \E op \in {"synthesize", "finish_input"} : Controlled(op, o)
  <2>1. PICK o \in Outs : \/ Invoked(o) \/ Opened(o) \/ CloseReturns(o) \/ StatusReturns(o)
                          \/ \E op \in {"synthesize", "finish_input"} : Controlled(op, o)
    BY <1>4
  <2>2. Returns(d, o) /\ d \in Controls
    BY <2>1 DEF Returns
  <2>3. d' \notin Controls
    BY <2>1
  <2> QED BY <2>2, <2>3
<1> HIDE DEF Driver, Calling, NoCall, callVars
<1> QED BY <1>0, <1>1, <1>2, <1>3, <1>4

\* A place the driver has passed stays passed.
LEMMA PlacesStay ==
    ASSUME CheckTypeOK, Onward \/ UNCHANGED <<n, d>>, NEW m \in AllChecks
    PROVE  (Begun(m) => Begun(m)') /\ (Left(m) => Left(m)') /\ (Closing(m) => Closing(m)')
<1> QED BY CheckAssumption DEF Onward, CheckTypeOK, AllChecks, Begun, Left, Closing, Closed0, Heard

LEMMA EndsStay ==
    ASSUME Driver \/ Others
    PROVE  (GivenUp => GivenUp') /\ (deaf => deaf') /\ (~up => ~up') /\ (ended => ended')
<1>1. CASE Driver
  <2> USE <1>1 DEF Driver, drvVars, listenVars, paceVars, tallyVars, workerVars, engineVars, callVars, ByDriver,
          ByListen, ByEnd, NoCall, callVars, Ends, Over, Listening, Completes, Content, NotAsked, RunOpen, RunInvoke, Listen, Hears, ListenOther,
          ListenReady, ListenFinished, ListenSpeech, ListenTerminal, ListenClosed, ListenSent,
          ListenTally, ListenDeadline, End, AbortEvent, AbortClosed, AbortTimer, RetireDone,
          RetireTimer, RetireLeave, Invoked, Opened, CloseReturns, StatusReturns, Controlled
  <2> QED BY DEF GivenUp
<1> USE DEF drvVars, listenVars, paceVars, tallyVars, workerVars, engineVars, callVars
<1>2. CASE Helpers
  BY <1>2 DEF GivenUp, ByTally, ByReader, Helpers, TallyEnd, TallySignal, ReaderReply, ReaderEvent, ReaderEnd, ReaderAsked, ByAnswer, ReaderLocks, ReaderWrites,
                ReaderFails, ReaderTooLarge
<1>3. CASE Engine
  BY <1>3 DEF GivenUp, ByEngine, Engine, EngineTakes, EngineHears, EngineStops, EngineAnswers, EngineSays, EngineReads, EngineTakesReply, EngineAsks
<1>4. CASE \E c \in Audio : Pace(c)
  BY <1>4 DEF GivenUp, ByPace, Pace, PaceStopped, PaceDue, PaceWrite, PaceFails
<1>5. CASE Calls
  BY <1>5, CallsFrame DEF GivenUp
<1> QED BY <1>1, <1>2, <1>3, <1>4, <1>5 DEF Others

\* What has been said of a session stays said; one that was opened stays so or is over.
LEMMA SaidStays ==
    ASSUME CheckTypeOK, ControlsInOrder, Driver \/ Others, NEW m \in Sessions
    PROVE  said[m] \subseteq said'[m] /\ (sess[m] # "none" => sess'[m] # "none")
<1>1. CASE Driver
  BY <1>1, DriverFrame
<1> USE DEF drvVars, listenVars, paceVars, tallyVars, workerVars, engineVars, callVars
<1>2. CASE Helpers
  BY <1>2 DEF ByTally, ByReader, Helpers, TallyEnd, TallySignal, ReaderReply, ReaderEvent, ReaderEnd, ReaderAsked, ByAnswer, ReaderLocks, ReaderWrites,
                ReaderFails, ReaderTooLarge
<1>3. CASE \E c \in Audio : Pace(c)
  BY <1>3 DEF ByPace, Pace, PaceStopped, PaceDue, PaceWrite, PaceFails
<1>4. CASE EngineTakes
  <2> DEFINE k == Head(ctl).n
  <2>1. sess' = sess \/ (sess' = [sess EXCEPT ![k] = "open"])
    BY <1>4 DEF EngineTakes
  <2>2. said' = said \/ (\E w : said' = [said EXCEPT ![k] = @ \cup {w}])
    BY <1>4 DEF EngineTakes, Says
  <2>3. sess \in [Sessions -> {"none", "open", "over"}] /\ said \in [Sessions -> SUBSET Said]
    BY DEF CheckTypeOK
  <2> HIDE DEF k
  <2>4. said[m] \subseteq said'[m]
    BY <2>2, <2>3
  <2>5. sess[m] # "none" => sess'[m] # "none"
    BY <2>1, <2>3
  <2> QED BY <2>4, <2>5
<1>5. CASE \E k \in Sessions, w \in Said : EngineSays(k, w)
  BY <1>5 DEF EngineSays, Says, CheckTypeOK
<1>6. CASE EngineHears \/ EngineStops \/ EngineAsks \/ EngineTakesReply \/ \E a \in owes : EngineAnswers(a)
  BY <1>6 DEF EngineHears, EngineStops, EngineAsks, EngineTakesReply, EngineAnswers
<1>7. CASE Calls
  BY <1>7, CallsFrame
<1> QED BY <1>1, <1>2, <1>3, <1>4, <1>5, <1>6, <1>7 DEF Others, Engine, EngineReads

\* The controls under way only lose their first, but for those the driver sends.
LEMMA ControlsLeave ==
    ASSUME CheckTypeOK, ControlsInOrder, Others
    PROVE  Elems(ctl') \subseteq Elems(ctl)
<1> USE DEF drvVars, listenVars, paceVars, tallyVars, workerVars, engineVars, callVars
<1>2. CASE Helpers
  BY <1>2 DEF ByTally, ByReader, Helpers, TallyEnd, TallySignal, ReaderReply, ReaderEvent, ReaderEnd, ReaderAsked, ByAnswer, ReaderLocks, ReaderWrites,
                ReaderFails, ReaderTooLarge
<1>3. CASE \E c \in Audio : Pace(c)
  BY <1>3 DEF ByPace, Pace, PaceStopped, PaceDue, PaceWrite, PaceFails
<1>4. CASE EngineTakes
  BY <1>4, EngineTakesOne
<1>5. CASE EngineHears \/ EngineStops \/ EngineAsks \/ EngineTakesReply \/ (\E a \in owes : EngineAnswers(a))
           \/ \E k \in Sessions, w \in Said : EngineSays(k, w)
  BY <1>5 DEF EngineAsks, EngineTakesReply, EngineHears, EngineStops, EngineAnswers, EngineSays, EngineReads, EngineTakesReply, EngineAsks
<1>6. CASE Calls
  BY <1>6, CallsControls
<1> QED BY <1>2, <1>3, <1>4, <1>5, <1>6 DEF Others, Engine, EngineReads

\* What the driver adds to them.
LEMMA ControlsCome ==
    ASSUME CheckTypeOK, DriverInOrder, Driver
    PROVE  \/ ctl' = ctl
           \/ \E op \in Controls :
                /\ Calling(op) /\ ctl' = Append(ctl, [op |-> op, n |-> n])
                /\ n' = n /\ d' = op /\ n \in AllChecks /\ [op |-> op, n |-> n] \in Ids
                /\ ctl' \in Seq(Ids) /\ Elems(ctl') = Elems(ctl) \cup {[op |-> op, n |-> n]}
<1>1. n \in AllChecks
  BY DriverFrame
<1>2. CASE \E op \in Controls : Calling(op)
  <2>1. PICK op \in Controls : Calling(op)
    BY <1>2
  <2>2. [op |-> op, n |-> n] \in Ids
    BY <1>1 DEF Ids
  <2>3. /\ Append(ctl, [op |-> op, n |-> n]) \in Seq(Ids)
        /\ Elems(Append(ctl, [op |-> op, n |-> n])) = Elems(ctl) \cup {[op |-> op, n |-> n]}
    BY <2>2, ElemsAppend DEF CheckTypeOK
  <2>4. n' = n
    BY <2>1, DriverGoesOn DEF Calling, Call, Onward, Controls
  <2> QED BY <1>1, <2>1, <2>2, <2>3, <2>4 DEF Calling, Call
<1>3. CASE NoCall \/ \E o \in Outs : Returns(d, o)
  BY <1>3 DEF NoCall, callVars, Returns
<1> QED BY <1>2, <1>3, DriverCalls

\* A session that is over, or was never opened, stays so.
LEMMA ShutStays ==
    ASSUME CheckTypeOK, DriverInOrder, ControlsInOrder, Driver \/ Others,
           NEW m \in Sessions, Begun(m), Shut(m)
    PROVE  Shut(m)'
<1>1. CASE Driver
  <2>1. sess' = sess
    BY <1>1, DriverFrame
  <2>2. OpenOf(m) \notin Elems(ctl')
    <3>1. CASE ctl' = ctl
      BY <3>1 DEF Shut
    <3>2. ASSUME NEW op \in Controls, Calling(op), Elems(ctl') = Elems(ctl) \cup {[op |-> op, n |-> n]}
          PROVE  OpenOf(m) \notin Elems(ctl')
      <4>1. [op |-> op, n |-> n] # OpenOf(m)
        BY <3>2, CheckAssumption DEF OpenOf, Calling, Begun, CheckTypeOK, AllChecks
      <4> QED BY <3>2, <4>1 DEF Shut
    <3> QED BY <1>1, <3>1, <3>2, ControlsCome
  <2> QED BY <2>1, <2>2 DEF Shut, OpenOf
<1>2. CASE Others
  <2>1. OpenOf(m) \notin Elems(ctl')
    BY <1>2, ControlsLeave DEF Shut
  <2>2. sess'[m] # "open"
    <3> USE DEF drvVars, listenVars, paceVars, tallyVars, workerVars, engineVars, callVars
    <3>1. CASE EngineTakes
      <4> DEFINE op == Head(ctl).op
                 k  == Head(ctl).n
      <4>1. sess' = sess \/ (op = "open" /\ sess' = [sess EXCEPT ![k] = "open"])
        BY <3>1 DEF EngineTakes
      <4>2. op = "open" => k # m
        BY <3>1, EngineTakesOne DEF Shut, OpenOf
      <4>3. sess \in [Sessions -> {"none", "open", "over"}]
        BY DEF CheckTypeOK
      <4> HIDE DEF op, k
      <4> QED BY <4>1, <4>2, <4>3 DEF Shut
    <3>2. CASE Helpers
      BY <3>2 DEF ByTally, ByReader, Helpers, TallyEnd, TallySignal, ReaderReply, ReaderEvent, ReaderEnd, ReaderAsked, ByAnswer, ReaderLocks, ReaderWrites,
                ReaderFails, ReaderTooLarge, Shut
    <3>3. CASE \E c \in Audio : Pace(c)
      BY <3>3 DEF ByPace, Pace, PaceStopped, PaceDue, PaceWrite, PaceFails, Shut
    <3>4. CASE \E k \in Sessions, w \in Said : EngineSays(k, w)
      BY <3>4 DEF EngineSays, CheckTypeOK, Shut
    <3>5. CASE EngineHears \/ EngineStops \/ EngineAsks \/ EngineTakesReply \/ \E a \in owes : EngineAnswers(a)
      BY <3>5 DEF EngineHears, EngineStops, EngineAsks, EngineTakesReply, EngineAnswers, Shut
    <3>6. CASE Calls
      BY <3>6, CallsFrame DEF Shut
    <3> QED BY <1>2, <3>1, <3>2, <3>3, <3>4, <3>5, <3>6 DEF Others, Engine, EngineReads
  <2> QED BY <2>1, <2>2 DEF Shut, OpenOf
<1> QED BY <1>1, <1>2
\* A recording that went, or has no taker, stays so.
LEMMA RecordedStays ==
    ASSUME CheckTypeOK, SendersInOrder, Driver \/ Others, NEW c \in Audio, Recorded(c)
    PROVE  Recorded(c)'
<1>1. (deaf => deaf') /\ (~up => ~up')
  BY EndsStay
<1>2. sent[c] = RecFrames => sent'[c] = RecFrames
  <2>1. CASE Driver
    BY <2>1, DriverFrame
  <2> USE DEF drvVars, listenVars, paceVars, tallyVars, workerVars, engineVars, callVars
  <2>2. CASE Helpers \/ Engine
    BY <2>2 DEF ByTally, ByReader, ByEngine, Helpers, Engine, TallyEnd, TallySignal, ReaderReply, ReaderEvent,
                ReaderEnd, ReaderAsked, ByAnswer, ReaderLocks, ReaderWrites,
                ReaderFails, ReaderTooLarge, EngineTakes, EngineHears, EngineStops, EngineAnswers, EngineSays, EngineReads, EngineTakesReply, EngineAsks
  <2>3. CASE \E k \in Audio : Pace(k)
    <3>1. PICK k \in Audio : Pace(k)
      BY <2>3
    <3>2. sent' = sent \/ (snd[k] = "write" /\ sent' = [sent EXCEPT ![k] = @ + 1])
      BY <3>1 DEF Pace, PaceStopped, PaceDue, PaceWrite, PaceFails
    <3>3. snd[k] = "write" => sent[k] < RecFrames
      BY DEF SendersInOrder
    <3> QED BY <3>2, <3>3, CheckAssumption DEF CheckTypeOK
  <2>4. CASE Calls
    BY <2>4, CallsFrame
  <2> QED BY <2>1, <2>2, <2>3, <2>4 DEF Others
<1> QED BY <1>1, <1>2 DEF Recorded

\* A true word stays true.
LEMMA TrueStays ==
    ASSUME CheckTypeOK, DriverInOrder, ControlsInOrder, Driver \/ Others,
           NEW op, NEW m \in AllChecks, NEW type, True(op, m, type)
    PROVE  True(op, m, type)'
<1>1. Onward \/ UNCHANGED <<n, d>>
  BY DriverGoesOn, OthersFrame DEF Others
<1>2. (Begun(m) => Begun(m)') /\ (Left(m) => Left(m)')
  BY <1>1, PlacesStay
<1>3. m \in Sessions => said[m] \subseteq said'[m] /\ (sess[m] # "none" => sess'[m] # "none")
  BY SaidStays
<1>4. m \in Sessions /\ Begun(m) /\ Shut(m) => Shut(m)'
  BY ShutStays
<1>5. (type # "ask" => Begun(m)') /\ (type \in Said => op = "event" /\ m \in Sessions /\ type \in said'[m])
      /\ (op = "open" => m \in Sessions /\ (type = "ok" => sess'[m] # "none"))
      /\ (op = "status" => m \in Sessions)
  BY <1>2, <1>3 DEF True
<1>6. \/ op = "open" /\ type = "refused"
      \/ op = "status" /\ type = "over"
      \/ type \in Terminal
      => Shut(m)'
  BY <1>4 DEF True, Said, Terminal
<1>7. Benign => /\ type # "formats"
                /\ type = "refused" => op \notin {"open", "invoke"}
                /\ type = "refused" /\ op \in {"synthesize", "finish_input"} => Left(m)'
  BY <1>2 DEF True
<1> QED BY <1>5, <1>6, <1>7 DEF True, Benign

----------------------------------------------------------------------------
(* Each part of the invariant, initially.                                  *)

LEMMA CheckInvInit == Init => CheckInv
<1> SUFFICES ASSUME Init PROVE CheckInv
  OBVIOUS
<1>1. CheckTypeOK
  BY CheckTypeInit
<1>2. DriverInOrder /\ Listened /\ Noticed
  BY DEF Init, DriverInOrder, Listened, Noticed, InCheck, Heard, Closed0, Controls
<1>3. SendersInOrder
  BY CheckAssumption DEF Init, SendersInOrder
<1>4. ControlsInOrder
  BY ElemsEmpty DEF Init, ControlsInOrder
<1>5. SessionsInOrder
  BY CheckAssumption DEF Init, SessionsInOrder, Closing, Closed0, AllChecks, Sessions
<1>6. WordsAreTrue
  BY ElemsEmpty DEF Init, WordsAreTrue, Answers
<1>7. PassedIsComplete /\ SlowIsNeverWrong
  BY CheckAssumption DEF Init, PassedIsComplete, SlowIsNeverWrong, AllChecks, Sessions
<1> QED BY <1>1, <1>2, <1>3, <1>4, <1>5, <1>6, <1>7 DEF CheckInv

----------------------------------------------------------------------------
(* ... over a step of the driver.                                          *)

\* The event at the head of the queue is true.
LEMMA EventTrue ==
    ASSUME CheckTypeOK, WordsAreTrue, events # <<>>
    PROVE  /\ Event \in Items /\ Event.n \in AllChecks /\ Event.type \in Said
           /\ True(Event.op, Event.n, Event.type) /\ Event.n \in Sessions
           /\ Event.type \in said[Event.n]
<1>1. Event \in Elems(events) /\ Event \in Items
  BY ElemsTail DEF CheckTypeOK, Event
<1> QED BY <1>1 DEF WordsAreTrue, True, Items

LEMMA DriverKeepsDriver ==
    ASSUME CheckInv, Driver
    PROVE  DriverInOrder'
<1> USE DEF CheckInv
<1>0. /\ UNCHANGED <<rdr, ended, up, said>> /\ n \in AllChecks
  BY DriverFrame
<1>e. events # <<>> => Event.n \in Sessions /\ Event.type \in said[Event.n]
  BY EventTrue
<1>c. /\ pending' \subseteq {[op |-> d', n |-> n']}
      /\ d' \notin Controls => reply' = "none"
      /\ reply' # "ended"
      /\ calling' # "none" => d' \in Controls
  <2>1. CASE NoCall /\ d \notin Controls /\ d' \notin Controls
    <3>1. pending = {}
      BY <2>1 DEF DriverInOrder, CheckTypeOK, Ids
    <3> QED BY <2>1, <3>1 DEF NoCall, callVars, DriverInOrder
  <2>2. CASE \E op \in Controls : Calling(op)
    <3>1. PICK op \in Controls : Calling(op)
      BY <2>2
    <3>2. pending = {} /\ n' = n /\ d' = op
      BY <3>1, DriverGoesOn DEF DriverInOrder, CheckTypeOK, Ids, Calling, Call, Onward, Controls
    <3> QED BY <3>1, <3>2 DEF Calling, Call
  <2>3. CASE \E o \in Outs : Returns(d, o)
    BY <2>3 DEF Returns
  <2> QED BY <2>1, <2>2, <2>3, DriverCalls
<1>d. Onward
  BY DriverGoesOn
<1> USE DEF Driver, drvVars, listenVars, paceVars, tallyVars, workerVars, engineVars, callVars, ByDriver,
        ByListen, ByEnd, NoCall, callVars, Ends, Over, Listening, Completes, Content, NotAsked, RunOpen, RunInvoke, Listen, Hears, ListenOther,
        ListenReady, ListenFinished, ListenSpeech, ListenTerminal, ListenClosed, ListenSent,
        ListenTally, ListenDeadline, End, AbortEvent, AbortClosed, AbortTimer, RetireDone,
        RetireTimer, RetireLeave, Invoked, Opened, CloseReturns, StatusReturns, Controlled
<1>1. d' \in InCheck => n' \in Sessions
  <2>1. d' = "open" => n' \in Sessions
    BY <1>0 DEF Call, DriverInOrder, Returns
  <2>2. d \in InCheck => n \in Sessions
    BY DEF DriverInOrder
  <2> HIDE DEF Driver
  <2> QED BY <1>d, <2>1, <2>2 DEF Onward, InCheck, Heard, Closed0
<1>2. d' = "invoke" => n' \notin Sessions
  BY DEF Call, Returns
<1>3. d' \in InCheck \ {"retire", "retiring"} => ~dgone'
  BY DEF Call, Returns, DriverInOrder, InCheck, Heard, Closed0, Skip
<1>4. (~inOpen' => dgone') /\ (d' = "retiring" => ~inOpen')
  BY DEF Call, Returns, DriverInOrder
<1>5. d = "open" => ~sentAll' /\ ~synthEnded'
  BY DEF Returns
<1>6. d \in Heard => /\ sentAll' => sentAll \/ n \in Audio
                     /\ synthEnded' => synthEnded \/ "synthesis_end" \in said[n]
  <2>1. d \in Heard /\ sentAll' => sentAll \/ n \in Audio
    BY DEF Returns, Heard
  <2>2. d \in Heard /\ synthEnded' => synthEnded \/ "synthesis_end" \in said[n]
    BY <1>e DEF Returns, Heard, IsOurs
  <2> QED BY <2>1, <2>2
<1> HIDE DEF Driver
<1>7. d' \in Heard => n' = n /\ d \in Heard \cup {"open"}
  BY <1>d DEF Onward, Heard, Closed0
<1>8. d' \in Heard /\ sentAll' => n' \in Audio
  BY <1>5, <1>6, <1>7 DEF DriverInOrder
<1>9. d' \in Heard /\ synthEnded' => "synthesis_end" \in said[n']
  BY <1>5, <1>6, <1>7 DEF DriverInOrder
<1> QED BY <1>0, <1>c, <1>1, <1>2, <1>3, <1>4, <1>8, <1>9 DEF DriverInOrder

\* What a step of the driver does to the senders: it leaves a check only when its sender
\* is done or can write no more, starts one as it hears session_ready, and stops it as it
\* ends the session.
LEMMA DriverSenders ==
    ASSUME CheckInv, Driver
    PROVE  /\ /\ n' = n \/ sending' = 0
              /\ ~inOpen => ~inOpen'
           /\ \/ snd' = snd /\ (started => started' \/ d = "open") /\ sending' \in {sending, 0}
              \/ /\ d = "listen" /\ ~started /\ started' /\ n \in Audio /\ sending' = n /\ d' = "listen" /\ n' = n
                 /\ snd' = [snd EXCEPT ![n] = "due"] /\ stop' = stop /\ inOpen' = inOpen
           /\ stop' = stop \/ (d = "end" /\ d' = "close" /\ n' = n /\ sending # 0 /\ stop' = stop \cup {sending})
           /\ \/ sending' # 0 /\ n' = n
              \/ sending = 0
              \/ snd[sending] = "done" /\ snd' = snd
              \/ ~inOpen'
<1>1. n \in AllChecks /\ n \in Nat
  BY DriverFrame DEF CheckInv
<1> USE DEF Driver, drvVars, listenVars, paceVars, tallyVars, workerVars, engineVars, callVars, ByDriver,
        ByListen, ByEnd, NoCall, callVars, Ends, Over, Listening, Completes, Content, NotAsked, RunOpen, RunInvoke, Listen, Hears, ListenOther,
        ListenReady, ListenFinished, ListenSpeech, ListenTerminal, ListenClosed, ListenSent,
        ListenTally, ListenDeadline, End, AbortEvent, AbortClosed, AbortTimer, RetireDone,
        RetireTimer, RetireLeave, Invoked, Opened, CloseReturns, StatusReturns, Controlled
<1>2. /\ n' = n \/ sending' = 0
      /\ ~inOpen => ~inOpen'
  OBVIOUS
<1>3. \/ snd' = snd /\ (started => started' \/ d = "open") /\ sending' \in {sending, 0}
      \/ /\ d = "listen" /\ ~started /\ started' /\ n \in Audio /\ sending' = n /\ d' = "listen" /\ n' = n
         /\ snd' = [snd EXCEPT ![n] = "due"] /\ stop' = stop /\ inOpen' = inOpen
  BY DEF Returns
<1>4. stop' = stop \/ (d = "end" /\ d' = "close" /\ n' = n /\ sending # 0 /\ stop' = stop \cup {sending})
  BY DEF Call
<1>5. \/ sending' # 0 /\ n' = n
      \/ sending = 0
      \/ snd[sending] = "done" /\ snd' = snd
      \/ ~inOpen'
  BY <1>1, CheckAssumption DEF CheckInv, Returns, Retired, SendersInOrder, DriverInOrder, Heard, Closed0
<1> QED BY <1>2, <1>3, <1>4, <1>5

LEMMA DriverKeepsSenders ==
    ASSUME CheckInv, Driver
    PROVE  SendersInOrder'
<1> USE DEF CheckInv
<1>0. /\ UNCHANGED <<sent, deaf, up>> /\ n \in AllChecks /\ n \in Nat
  BY DriverFrame
<1>1. Onward
  BY DriverGoesOn
<1>2. /\ sending \in Audio \cup {0} /\ stop \subseteq Audio /\ snd \in [Audio -> {"none", "due", "write", "done"}]
      /\ Audio \subseteq Nat \ {0} /\ sent \in [Audio -> Nat]
  BY CheckAssumption DEF CheckTypeOK, AllChecks, Sessions
<1>s. /\ n' = n \/ sending' = 0
      /\ ~inOpen => ~inOpen'
  BY DriverSenders
<1>t. \/ snd' = snd /\ (started => started' \/ d = "open") /\ sending' \in {sending, 0}
      \/ /\ d = "listen" /\ ~started /\ started' /\ n \in Audio /\ sending' = n /\ d' = "listen" /\ n' = n
         /\ snd' = [snd EXCEPT ![n] = "due"] /\ stop' = stop /\ inOpen' = inOpen
  BY DriverSenders
<1>u. stop' = stop \/ (d = "end" /\ d' = "close" /\ n' = n /\ sending # 0 /\ stop' = stop \cup {sending})
  BY DriverSenders
<1>v. \/ sending' # 0 /\ n' = n
      \/ sending = 0
      \/ snd[sending] = "done" /\ snd' = snd
      \/ ~inOpen'
  BY DriverSenders
<1>3. sending' # 0 => sending' = n' /\ d' \in Heard \cup {"end"} \cup Closed0
  <2>1. sending' # 0 => n' = n
    BY <1>s
  <2>2. CASE sending' = sending
    BY <1>1, <2>1, <2>2, <1>0 DEF Onward, Heard, Closed0, SendersInOrder
  <2>3. CASE sending' = n /\ d' = "listen"
    BY <2>1, <2>3 DEF Heard
  <2> QED BY <1>t, <2>2, <2>3
<1>4. ASSUME NEW c \in Audio
      PROVE  /\ snd'[c] \in {"due", "write"} => c = sending' \/ ~inOpen'
             /\ snd'[c] = "done" => Recorded(c)' \/ c \in stop' \/ ~inOpen'
             /\ snd'[c] # "done" => sent'[c] < RecFrames
             /\ c \in stop' => Closing(c)'
             /\ snd'[c] # "none" => \/ c < n' \/ (c = n' /\ d' \in {"end"} \cup Closed0)
                                    \/ c = n' /\ d' \in Heard /\ started'
  <2> DEFINE Fresh == /\ d = "listen" /\ ~started /\ started' /\ n \in Audio /\ sending' = n /\ d' = "listen"
                      /\ n' = n /\ snd' = [snd EXCEPT ![n] = "due"] /\ stop' = stop /\ inOpen' = inOpen
  <2>s. /\ snd[c] \in {"due", "write"} => c = sending \/ ~inOpen
        /\ snd[c] = "done" => Recorded(c) \/ c \in stop \/ ~inOpen
        /\ snd[c] # "done" => sent[c] < RecFrames
        /\ c \in stop => Closing(c)
        /\ snd[c] # "none" => \/ c < n \/ (c = n /\ d \in {"end"} \cup Closed0)
                              \/ c = n /\ d \in Heard /\ started
        /\ sending # 0 => sending = n /\ d \in Heard \cup {"end"} \cup Closed0
    BY DEF SendersInOrder
  <2>r. Recorded(c) => Recorded(c)'
    BY <1>0 DEF Recorded
  <2>n. Fresh => snd[n] = "none" /\ (snd'[c] = IF c = n THEN "due" ELSE snd[c])
    BY <1>0, <1>2 DEF SendersInOrder, Heard, Closed0
  <2>f. Fresh \/ (snd' = snd /\ (started => started' \/ d = "open") /\ sending' \in {sending, 0})
    BY <1>t
  <2> HIDE DEF Fresh
  <2>1. snd'[c] \in {"due", "write"} => c = sending' \/ ~inOpen'
    <3>1. CASE Fresh
      <4>1. c # n /\ snd[c] \in {"due", "write"} => ~inOpen
        BY <2>s, <1>2, <2>n, <3>1
      <4> QED BY <3>1, <4>1, <2>n DEF Fresh
    <3>2. CASE snd' = snd /\ sending' \in {sending, 0}
      BY <3>2, <2>s, <1>s, <1>v, <1>2
    <3> QED BY <2>f, <3>1, <3>2
  <2>2. snd'[c] = "done" => Recorded(c)' \/ c \in stop' \/ ~inOpen'
    BY <2>s, <2>f, <2>n, <2>r, <1>u, <1>s
  <2>3. snd'[c] # "done" => sent'[c] < RecFrames
    BY <2>s, <2>f, <2>n, <1>0
  <2>4. c \in stop' => Closing(c)'
    <3>1. Closing(c) => Closing(c)'
      BY <1>1, PlacesStay, CheckAssumption DEF Sessions
    <3>2. c = sending /\ sending # 0 /\ n' = n /\ d' = "close" => Closing(c)'
      BY <2>s DEF Closing, Closed0
    <3> QED BY <2>s, <1>u, <3>1, <3>2
  <2>5. snd'[c] # "none" => \/ c < n' \/ (c = n' /\ d' \in {"end"} \cup Closed0)
                            \/ c = n' /\ d' \in Heard /\ started'
    <3>1. CASE Fresh /\ c = n
      BY <3>1 DEF Fresh, Heard
    <3>2. CASE snd'[c] = snd[c] /\ (started => started' \/ d = "open")
      <4>1. c \in Nat
        BY <1>2
      <4>2. CASE c < n
        BY <1>0, <1>1, <4>1, <4>2 DEF Onward
      <4>3. CASE c = n /\ d \in {"end"} \cup Closed0
        BY <1>0, <1>1, <4>3 DEF Onward, Heard, Closed0
      <4>4. CASE c = n /\ d \in Heard /\ started
        BY <1>0, <1>1, <3>2, <4>4 DEF Onward, Heard, Closed0
      <4> QED BY <2>s, <3>2, <4>2, <4>3, <4>4
    <3> QED BY <2>f, <2>n, <3>1, <3>2 DEF Fresh
  <2> QED BY <2>1, <2>2, <2>3, <2>4, <2>5
<1> QED BY <1>3, <1>4 DEF SendersInOrder

LEMMA DriverKeepsControls ==
    ASSUME CheckInv, Driver
    PROVE  ControlsInOrder'
<1> USE DEF CheckInv
<1>1. n \in AllChecks /\ n \in Nat /\ sess' = sess /\ Onward /\ Sessions \subseteq AllChecks
  BY DriverFrame, DriverGoesOn, CheckAssumption
<1>2. ASSUME NEW x \in Elems(ctl)
      PROVE  /\ Begun(x.n)'
             /\ x.op = "invoke" <=> x.n \notin Sessions
             /\ x.op = "open" => sess'[x.n] = "none"
             /\ x.op = "close" => Closing(x.n)'
             /\ x.op = "finish_input" => x.n \in Audio /\ Recorded(x.n)'
             /\ x.n = n' /\ d' = "open" => x.op = "open"
  <2>1. x.n \in AllChecks
    <3>1. ctl \in Seq(Ids)
      BY DEF CheckTypeOK
    <3>2. x \in Ids
      BY <3>1, ElemsIn
    <3> QED BY <3>2 DEF Ids
  <2>2. (Begun(x.n) => Begun(x.n)') /\ (Closing(x.n) => Closing(x.n)')
    BY <1>1, <2>1, PlacesStay
  <2>3. x.n \in Audio /\ Recorded(x.n) => Recorded(x.n)'
    BY RecordedStays
  <2>4. x.n = n' /\ d' = "open" => x.op = "open"
    <3>1. d' = "open" => n' = n /\ d = "run"
      BY <1>1 DEF Onward, Heard, Closed0
    <3>2. Begun(x.n)
      BY DEF ControlsInOrder
    <3> QED BY <3>1, <3>2, <1>1 DEF Begun
  <2> QED BY <1>1, <2>2, <2>3, <2>4 DEF ControlsInOrder
<1>3. CASE ctl' = ctl
  BY <1>2, <1>3 DEF ControlsInOrder
<1>4. ASSUME NEW op \in Controls, Calling(op),
             ctl' = Append(ctl, [op |-> op, n |-> n]), n' = n, d' = op,
             [op |-> op, n |-> n] \in Ids,
             Elems(ctl') = Elems(ctl) \cup {[op |-> op, n |-> n]}
      PROVE  ControlsInOrder'
  <2>1. /\ Begun(n)'
        /\ op = "invoke" <=> n \notin Sessions
        /\ op = "open" => sess'[n] = "none"
        /\ op = "close" => Closing(n)'
        /\ op = "finish_input" => n \in Audio /\ Recorded(n)'
        /\ d' = "open" => op = "open"
    <3>1. Begun(n)' /\ (op = "close" => Closing(n)') /\ (d' = "open" => op = "open")
      BY <1>1, <1>4 DEF Begun, Closing, Controls, Closed0
    <3>2. op = "invoke" <=> n \notin Sessions
      BY <1>4 DEF Calling, DriverInOrder, InCheck, Heard, Closed0, Controls
    <3>3. op = "open" => sess'[n] = "none"
      BY <1>1, <1>4 DEF Calling, SessionsInOrder, Begun
    <3>4. op = "finish_input" => n \in Audio /\ Recorded(n)'
      <4>1. SUFFICES ASSUME op = "finish_input" PROVE n \in Audio /\ Recorded(n)
        BY <1>4, RecordedStays DEF Recorded
      <4>2. n \in Audio /\ snd[n] = "done" /\ d = "listen"
        BY <1>4, <4>1 DEF Calling
      <4>3. inOpen
        BY <4>2 DEF DriverInOrder, InCheck, Heard, Closed0
      <4>4. n \notin stop
        BY <1>1, <4>2 DEF SendersInOrder, Closing, Closed0
      <4> QED BY <4>2, <4>3, <4>4 DEF SendersInOrder
    <3> QED BY <3>1, <3>2, <3>3, <3>4
  <2>2. /\ Len(ctl) \in Nat /\ Len(ctl') = Len(ctl) + 1 /\ ctl'[Len(ctl) + 1] = [op |-> op, n |-> n]
        /\ \A i \in 1 .. Len(ctl) : ctl'[i] = ctl[i]
    BY <1>4 DEF CheckTypeOK
  <2>3. ASSUME NEW i \in 1 .. Len(ctl'), NEW j \in 1 .. Len(ctl'), i < j, ctl'[i].n = ctl'[j].n
        PROVE  ctl'[j].op # "open"
    <3>1. i \in 1 .. Len(ctl)
      BY <2>2, <2>3
    <3>2. CASE j \in 1 .. Len(ctl)
      BY <2>2, <2>3, <3>1, <3>2 DEF ControlsInOrder
    <3>3. CASE j = Len(ctl) + 1
      <4>1. ctl[i] \in Elems(ctl) /\ ctl[i].n = n /\ ctl'[j].op = op
        BY <2>2, <2>3, <3>1, <3>3 DEF Elems
      <4>2. Begun(n)
        BY <4>1 DEF ControlsInOrder
      <4> QED BY <1>1, <1>4, <4>1, <4>2 DEF Begun, Calling
    <3> QED BY <2>2, <3>2, <3>3
  <2>4. \A x \in Elems(ctl') : x \in Elems(ctl) \/ x = [op |-> op, n |-> n]
    BY <1>4
  <2>5. ASSUME NEW x \in Elems(ctl')
        PROVE  /\ Begun(x.n)'
               /\ x.op = "invoke" <=> x.n \notin Sessions
               /\ x.op = "open" => sess'[x.n] = "none"
               /\ x.op = "close" => Closing(x.n)'
               /\ x.op = "finish_input" => x.n \in Audio /\ Recorded(x.n)'
               /\ x.n = n' /\ d' = "open" => x.op = "open"
    <3>1. CASE x \in Elems(ctl)
      BY <1>2, <3>1
    <3>2. CASE x = [op |-> op, n |-> n]
      BY <1>4, <2>1, <3>2 DEF Begun, Closing, Recorded
    <3> QED BY <2>4, <3>1, <3>2
  <2> QED BY <2>3, <2>5 DEF ControlsInOrder, Elems
<1> QED BY <1>3, <1>4, ControlsCome

LEMMA DriverKeepsSessions ==
    ASSUME CheckInv, Driver
    PROVE  SessionsInOrder'
<1> USE DEF CheckInv
<1>1. /\ UNCHANGED <<sess, said, deaf, up>> /\ Onward /\ n \in AllChecks /\ n \in Nat
      /\ Sessions \subseteq AllChecks
  BY DriverFrame, DriverGoesOn, CheckAssumption
<1>2. ASSUME NEW m \in Sessions, Closing(m)', m < n' \/ d' \in {"retire", "retiring"}
      PROVE  Shut(m)' \/ GivenUp'
  <2>0. m \in Nat
    BY <1>1 DEF AllChecks
  <2>g. GivenUp => GivenUp'
    BY EndsStay
  <2>s. Begun(m) /\ Shut(m) => Shut(m)'
    BY ShutStays
  <2>1. CASE Closing(m) /\ (m < n \/ d \in {"retire", "retiring"})
    BY <2>1, <2>g, <2>s DEF SessionsInOrder, Begun, Closing, Closed0, Shut, OpenOf
  <2>2. CASE m = n /\ d \notin {"retire", "retiring"}
    \* It is this check's: it was not begun, or has answered, or its end was heard.
    <3>1. \/ d = "run" /\ NotAsked
          \/ \E o \in Outs : Opened(o) /\ o \in {"refused", "ended"}
          \/ (AbortEvent /\ EndsSession(Event)) \/ AbortClosed
          \/ \E o \in Outs : StatusReturns(o)
      <4>1. d' \in {"over", "run", "retire", "retiring"}
        BY <1>1, <1>2, <2>2, <2>0 DEF Onward
      <4>2. n \in Sessions
        BY <2>2
      <4> USE DEF Driver, drvVars, listenVars, paceVars, tallyVars, workerVars, engineVars, callVars, ByDriver,
            ByListen, ByEnd, NoCall, callVars, Ends, Over, Listening, Completes, Content, NotAsked, RunOpen, RunInvoke, Listen, Hears, ListenOther,
            ListenReady, ListenFinished, ListenSpeech, ListenTerminal, ListenClosed, ListenSent,
            ListenTally, ListenDeadline, End, AbortEvent, AbortClosed, AbortTimer, RetireDone,
            RetireTimer, RetireLeave, Invoked, Opened, CloseReturns, StatusReturns, Controlled
      <4> QED BY <4>1, <4>2, <2>2 DEF Call, Returns, DriverInOrder
    <3>2. CASE d = "run" /\ NotAsked
      <4>1. ~Begun(m)
        BY <2>2, <3>2, <1>1 DEF Begun
      <4>2. sess[m] = "none" /\ OpenOf(m) \notin Elems(ctl)
        BY <4>1 DEF SessionsInOrder, ControlsInOrder, OpenOf
      <4>3. sess'[m] = "none" /\ ctl' = ctl
        BY <1>1, <3>2, <4>2 DEF NotAsked, NoCall, callVars
      <4> QED BY <4>2, <4>3 DEF Shut, OpenOf
    <3>3. CASE \E o \in Outs : Opened(o) /\ o \in {"refused", "ended"}
      <4>1. d = "open" /\ (reply = "refused" \/ reply = "ended" \/ ended)
        BY <3>3 DEF Opened, Returns
      <4>2. CASE reply = "refused"
        <5>1. Shut(m) /\ Begun(m)
          BY <2>2, <4>1, <4>2 DEF WordsAreTrue, True, Answers
        <5> QED BY <5>1, <2>s
      <4>3. CASE reply = "ended" \/ ended
        BY <4>1, <4>3, <2>g DEF DriverInOrder, GivenUp
      <4> QED BY <4>1, <4>2, <4>3
    <3>4. CASE (AbortEvent /\ EndsSession(Event)) \/ AbortClosed
      <4>1. CASE AbortEvent /\ EndsSession(Event)
        <5>1. Shut(m) /\ Begun(m)
          BY <2>2, <4>1, EventTrue DEF AbortEvent, EndsSession, True, Terminal
        <5> QED BY <5>1, <2>s
      <4>2. CASE AbortClosed
        BY <4>2, <2>g DEF AbortClosed, DriverInOrder, GivenUp
      <4> QED BY <3>4, <4>1, <4>2
    <3>5. CASE \E o \in Outs : StatusReturns(o)
      <4>1. d = "status" /\ (reply = "over" \/ dgone')
        BY <3>5 DEF StatusReturns, Returns
      <4>2. CASE reply = "over"
        <5>1. Shut(m) /\ Begun(m)
          BY <2>2, <4>1, <4>2 DEF WordsAreTrue, True, Answers
        <5> QED BY <5>1, <2>s
      <4> QED BY <4>1, <4>2 DEF GivenUp
    <3> QED BY <3>1, <3>2, <3>3, <3>4, <3>5
  <2>3. (Closing(m) /\ (m < n \/ d \in {"retire", "retiring"})) \/ (m = n /\ d \notin {"retire", "retiring"})
    BY <1>1, <1>2, <2>0 DEF Onward, Closing, Closed0
  <2> QED BY <2>1, <2>2, <2>3
<1>3. ASSUME NEW m \in Sessions
      PROVE  /\ sess'[m] # "none" => Begun(m)'
             /\ sess'[m] = "over" => said'[m] \cap Terminal # {}
             /\ "failure" \in said'[m] => "fail" \in Slips
             /\ "failure_retry" \in said'[m] => "retry" \in Slips
             /\ "session_end" \in said'[m] => "close" \in said'[m] \/ "quit" \in Slips
             /\ "close" \in said'[m] => Closing(m)'
             /\ "finish_input" \in said'[m] => m \in Audio /\ Recorded(m)'
  <2>1. (Begun(m) => Begun(m)') /\ (Closing(m) => Closing(m)')
    BY <1>1, PlacesStay
  <2>2. m \in Audio /\ Recorded(m) => Recorded(m)'
    BY RecordedStays
  <2> QED BY <1>1, <2>1, <2>2 DEF SessionsInOrder
<1> QED BY <1>2, <1>3 DEF SessionsInOrder, Shut, GivenUp, OpenOf

LEMMA DriverKeepsWords ==
    ASSUME CheckInv, Driver
    PROVE  WordsAreTrue'
<1> USE DEF CheckInv
<1>1. /\ UNCHANGED <<owes, lane, aout, tallied, said>>
      /\ events' = events \/ (events # <<>> /\ events' = Tail(events))
  BY DriverFrame
<1>2. events \in Seq(Items) /\ lane \in Seq(Items) /\ owes \subseteq Items
  BY DEF CheckTypeOK
<1>3. Elems(events') \subseteq Elems(events) /\ Elems(events) \subseteq Items /\ Elems(lane) \subseteq Items
  BY <1>1, <1>2, ElemsTail, ElemsIn
<1>4. ASSUME NEW a \in owes' \cup Elems(lane') \cup Elems(events') PROVE True(a.op, a.n, a.type)'
  <2>1. a \in owes \cup Elems(lane) \cup Elems(events) /\ a.n \in AllChecks
    BY <1>1, <1>2, <1>3 DEF Items
  <2>2. True(a.op, a.n, a.type)
    BY <2>1 DEF WordsAreTrue
  <2> QED BY <2>1, <2>2, TrueStays
<1>5. reply' \notin Answers
  <2>1. CASE NoCall /\ d \notin Controls
    BY <2>1 DEF NoCall, callVars, DriverInOrder, Answers
  <2>2. CASE \E op \in Controls : Calling(op)
    BY <2>2 DEF Calling, Call, Answers
  <2>3. CASE \E o \in Outs : Returns(d, o)
    BY <2>3 DEF Returns, Answers
  <2> QED BY <2>1, <2>2, <2>3, DriverCalls
<1>6. (\A a \in owes' : a.type \in Answers) /\ (\A a \in Elems(events') : a.type \in Said)
  BY <1>1, <1>3 DEF WordsAreTrue
<1>7. \A m \in Elems(aout') \cup tallied' : "END" \in said'[m]
  BY <1>1 DEF WordsAreTrue
<1> QED BY <1>4, <1>5, <1>6, <1>7 DEF WordsAreTrue, Elems

\* A session over with no slip was told to close.
LEMMA BenignIsOpen ==
    ASSUME CheckTypeOK, SessionsInOrder, Benign, NEW m \in Sessions, sess[m] # "none", ~Closing(m)
    PROVE  sess[m] = "open"
<1>1. sess[m] \in {"none", "open", "over"}
  BY DEF CheckTypeOK
<1> QED BY <1>1 DEF SessionsInOrder, Benign, Terminal

LEMMA DriverKeepsListened ==
    ASSUME CheckInv, Driver
    PROVE  Listened'
<1> USE DEF CheckInv
<1> SUFFICES ASSUME Benign, d' \in Heard PROVE sess'[n'] = "open"
  BY DEF Listened, Benign
<1>1. sess' = sess /\ n' = n /\ d \in Heard \cup {"open"}
  BY DriverFrame, DriverGoesOn DEF Onward, Heard, Closed0
<1>2. CASE d = "open"
  <2>1. \E o \in Outs : Opened(o)
    BY <1>2 DEF Driver, NotAsked, RunOpen, RunInvoke, Listen, Hears, ListenOther, ListenReady, ListenFinished,
       ListenSpeech, ListenTerminal, ListenClosed, ListenSent, ListenTally, ListenDeadline, End, AbortEvent,
       AbortClosed, AbortTimer, RetireDone, RetireTimer, RetireLeave, Invoked, CloseReturns, StatusReturns,
       Controlled, Returns
  <2>2. reply = "ok"
    BY <2>1 DEF Opened, Returns, Over, Ends, Heard
  <2>3. sess[n] # "none" /\ n \in Sessions /\ ~Closing(n)
    BY <1>2, <2>2 DEF WordsAreTrue, True, Answers, DriverInOrder, InCheck, Closing, Closed0, CheckTypeOK
  <2> QED BY <1>1, <2>3, BenignIsOpen
<1>3. CASE d \in Heard
  BY <1>1, <1>3 DEF Listened
<1> QED BY <1>1, <1>2, <1>3

LEMMA DriverKeepsNoticed ==
    ASSUME CheckInv, Driver
    PROVE  Noticed'
<1> USE DEF CheckInv
<1> SUFFICES ASSUME d' \in Heard, n' \in Text, synthEnded', named', n' \in tallied'
             PROVE  changed' \/ tally' = "signal"
  BY DEF Noticed, Done
<1>1. UNCHANGED <<tallied, tally>> /\ n' = n /\ d \in Heard \cup {"open"}
  BY DriverFrame, DriverGoesOn DEF Onward, Heard, Closed0
<1>2. d # "open"
  BY DEF Driver, NotAsked, RunOpen, RunInvoke, Listen, Hears, ListenOther, ListenReady, ListenFinished,
     ListenSpeech, ListenTerminal, ListenClosed, ListenSent, ListenTally, ListenDeadline, End, AbortEvent,
     AbortClosed, AbortTimer, RetireDone, RetireTimer, RetireLeave, Invoked, Opened, CloseReturns, StatusReturns,
     Controlled, Returns, Done
<1>3. Done(synthEnded, named) /\ changed' = changed
  BY <1>1, <1>2
  DEF Driver, listenVars, ByDriver, ByListen, ByEnd, NotAsked, RunOpen, RunInvoke, Listen, Hears, ListenOther, ListenReady, ListenFinished,
     ListenSpeech, ListenTerminal, ListenClosed, ListenSent, ListenTally, ListenDeadline, End, AbortEvent,
     AbortClosed, AbortTimer, RetireDone, RetireTimer, RetireLeave, Invoked, Opened, CloseReturns, StatusReturns,
     Controlled, Returns, Done, Recheck, Completes, Ends, Heard, Listening
<1> QED BY <1>1, <1>2, <1>3 DEF Noticed

\* The outcome a step of the driver writes down, and what it has seen for it.
LEMMA DriverVerdict ==
    ASSUME CheckInv, Driver
    PROVE  res' = res \/ \E word \in Words :
              /\ res' = [res EXCEPT ![n] = word]
              /\ word = "wrong" => res[n] = "wrong" \/ ~Benign
              /\ word = "passed" => \/ res[n] = "passed" \/ n \notin Sessions
                                    \/ n \in Audio /\ "input_finished" \in said[n]
                                    \/ n \in Text /\ {"synthesis_end", "END"} \subseteq said[n] /\ n \in tallied
<1> USE DEF CheckInv
<1>1. "wrong" \in Content => ~Benign
  BY DEF Content, Benign
<1>r. /\ n \in AllChecks /\ res \in [AllChecks -> Words]
  BY DriverFrame DEF CheckTypeOK
<1>2. \A op \in {"open", "invoke", "synthesize", "finish_input"} : Returns(op, "refused") => ~Benign
  <2>1. SUFFICES ASSUME NEW op \in {"open", "invoke", "synthesize", "finish_input"}, Returns(op, "refused")
                 PROVE  ~Benign
    OBVIOUS
  <2>2. d = op /\ reply = "refused"
    BY <2>1 DEF Returns
  <2>3. True(d, n, "refused")
    BY <2>2 DEF WordsAreTrue, Answers
  <2> QED BY <2>2, <2>3, <1>r DEF True, Left, Closed0, AllChecks
<1>3. Returns("open", "formats") => ~Benign
  BY DEF Returns, WordsAreTrue, True, Answers
<1> DEFINE Earned(word) ==
             /\ res' = [res EXCEPT ![n] = word]
             /\ word = "wrong" => res[n] = "wrong" \/ ~Benign
             /\ word = "passed" => \/ res[n] = "passed" \/ n \notin Sessions
                                   \/ n \in Audio /\ "input_finished" \in said[n]
                                   \/ n \in Text /\ {"synthesis_end", "END"} \subseteq said[n] /\ n \in tallied
<1> USE DEF Over, Ends, Words
<1>4. CASE RetireDone \/ RetireLeave
  <2>1. Earned(res[n]) /\ res[n] \in Words
    BY <1>4, <1>r DEF RetireDone, RetireLeave
  <2> QED BY <2>1
<1>5. CASE \E o \in Outs : StatusReturns(o)
  BY <1>5, <1>r DEF StatusReturns
<1>6. CASE \E o \in Outs : Opened(o)
  <2>1. PICK o \in Outs : Opened(o)
    BY <1>6
  <2>2. CASE o = "refused"
    <3>1. Earned("wrong")
      BY <1>2, <2>1, <2>2 DEF Opened
    <3> QED BY <3>1
  <2>3. CASE o = "formats"
    <3>1. Earned("wrong")
      BY <1>3, <2>1, <2>3 DEF Opened
    <3> QED BY <3>1
  <2>4. CASE o \in {"noanswer", "ended", "rate", "ok"}
    BY <2>1, <2>4 DEF Opened
  <2> QED BY <2>1, <2>2, <2>3, <2>4 DEF Opened
<1>7. CASE \E o \in Outs : Invoked(o)
  <2>1. PICK o \in Outs : Invoked(o)
    BY <1>7
  <2>2. n \notin Sessions
    BY <2>1 DEF Invoked, Returns, DriverInOrder
  <2>3. CASE o = "refused"
    <3>1. Earned("wrong")
      BY <1>2, <2>1, <2>3 DEF Invoked
    <3> QED BY <3>1
  <2>4. CASE o \in {"noanswer", "ended"}
    BY <2>1, <2>4 DEF Invoked
  <2>5. CASE o = "ok"
    <3>1. PICK word \in Content \cup {"timed_out"} : res' = [res EXCEPT ![n] = word]
      BY <2>1, <2>5 DEF Invoked
    <3>2. Earned(word) /\ word \in Words
      BY <1>1, <2>2, <3>1 DEF Content
    <3> QED BY <3>2
  <2> QED BY <2>1, <2>3, <2>4, <2>5 DEF Invoked
<1>8. CASE \E o \in Outs : \E op \in {"synthesize", "finish_input"} : Controlled(op, o)
  <2>1. PICK o \in Outs, op \in {"synthesize", "finish_input"} : Controlled(op, o)
    BY <1>8
  <2>2. CASE o = "refused"
    <3>1. Earned("wrong")
      BY <1>2, <2>1, <2>2 DEF Controlled
    <3> QED BY <3>1
  <2>3. CASE o \in {"noanswer", "ended", "ok"}
    BY <2>1, <2>3 DEF Controlled, Listening
  <2> QED BY <2>1, <2>2, <2>3 DEF Controlled
<1>9. CASE NotAsked
  BY <1>9 DEF NotAsked
<1>10. CASE RunOpen \/ RunInvoke \/ End \/ AbortEvent \/ AbortClosed \/ AbortTimer \/ RetireTimer
            \/ \E o \in Outs : CloseReturns(o)
  BY <1>10 DEF RunOpen, RunInvoke, End, AbortEvent, AbortClosed, AbortTimer, RetireTimer, CloseReturns
<1>11. CASE Listen
  <2>1. CASE ListenOther \/ ListenReady \/ ListenSent
    BY <2>1 DEF ListenOther, ListenReady, ListenSent, Listening
  <2>2. CASE ListenClosed \/ ListenDeadline
    BY <2>2 DEF ListenClosed, ListenDeadline
  <2>3. CASE ListenTerminal
    <3>1. True(Event.op, n, Event.type) /\ d \in Heard
      BY <2>3, EventTrue DEF ListenTerminal, Hears, IsOurs, Heard
    <3>2. ~Benign
      BY <2>3, <3>1 DEF ListenTerminal, True, Shut, Listened
    <3>3. Earned("wrong") \/ Earned("timed_out")
      BY <2>3, <3>2 DEF ListenTerminal
    <3> QED BY <3>3
  \* A complete answer.
  <2>4. ASSUME Completes,
               \/ n \in Audio /\ "input_finished" \in said[n]
               \/ n \in Text /\ {"synthesis_end", "END"} \subseteq said[n] /\ n \in tallied
        PROVE  \E word \in Words : Earned(word)
    <3>1. PICK word \in Content \cup {"timed_out"} : res' = [res EXCEPT ![n] = word]
      BY <2>4 DEF Completes
    <3>2. Earned(word) /\ word \in Words
      BY <1>1, <2>4, <3>1 DEF Content
    <3> QED BY <3>2
  <2>5. CASE ListenFinished
    <3>1. n \in Audio /\ "input_finished" \in said[n] /\ Completes
      BY <2>5, EventTrue DEF ListenFinished, Hears, IsOurs
    <3> HIDE DEF Earned
    <3> QED BY <2>4, <3>1 DEF Earned
  <2>6. n \in tallied => "END" \in said[n]
    BY DEF WordsAreTrue
  <2>7. CASE ListenSpeech
    <3>1. synthEnded' => "synthesis_end" \in said[n]
      BY <2>7, EventTrue DEF ListenSpeech, Hears, IsOurs, DriverInOrder, Heard
    <3>2. Listening \/ (Completes /\ Done(synthEnded', named'))
      BY <2>7 DEF ListenSpeech, Recheck
    <3> QED BY <2>4, <2>6, <3>1, <3>2 DEF Listening, Done
  <2>8. CASE ListenTally
    <3>1. synthEnded => "synthesis_end" \in said[n]
      BY <2>8 DEF ListenTally, DriverInOrder, Heard
    <3>2. Listening \/ (Completes /\ Done(synthEnded, named))
      BY <2>8 DEF ListenTally
    <3> QED BY <2>4, <2>6, <3>1, <3>2 DEF Listening, Done
  <2> QED BY <1>11, <2>1, <2>2, <2>3, <2>5, <2>7, <2>8 DEF Listen
<1> HIDE DEF Earned
<1> QED BY <1>4, <1>5, <1>6, <1>7, <1>8, <1>9, <1>10, <1>11 DEF Driver

LEMMA DriverKeepsVerdicts ==
    ASSUME CheckInv, Driver
    PROVE  PassedIsComplete' /\ SlowIsNeverWrong'
<1> USE DEF CheckInv
<1>1. UNCHANGED <<said, tallied>> /\ res \in [AllChecks -> Words] /\ n \in AllChecks
      /\ Audio \subseteq AllChecks /\ Text \subseteq AllChecks /\ Audio \cap Text = {}
  BY DriverFrame, CheckAssumption DEF CheckTypeOK, Sessions
<1>2. CASE res' = res
  BY <1>1, <1>2 DEF PassedIsComplete, SlowIsNeverWrong
<1>3. ASSUME NEW word \in Words,
             res' = [res EXCEPT ![n] = word],
             word = "wrong" => res[n] = "wrong" \/ ~Benign,
             word = "passed" => \/ res[n] = "passed" \/ n \notin Sessions
                                \/ n \in Audio /\ "input_finished" \in said[n]
                                \/ n \in Text /\ {"synthesis_end", "END"} \subseteq said[n] /\ n \in tallied
      PROVE  PassedIsComplete' /\ SlowIsNeverWrong'
  <2>1. \A c \in AllChecks : res'[c] = IF c = n THEN word ELSE res[c]
    BY <1>1, <1>3
  <2>2. PassedIsComplete'
    <3>1. ASSUME NEW c \in Text, res'[c] = "passed"
          PROVE  {"synthesis_end", "END"} \subseteq said[c] /\ c \in tallied
      BY <1>1, <1>3, <2>1, <3>1 DEF PassedIsComplete, Sessions
    <3>2. ASSUME NEW c \in Audio, res'[c] = "passed"
          PROVE  "input_finished" \in said[c]
      BY <1>1, <1>3, <2>1, <3>2 DEF PassedIsComplete, Sessions
    <3> QED BY <1>1, <3>1, <3>2 DEF PassedIsComplete
  <2>3. SlowIsNeverWrong'
    BY <1>1, <1>3, <2>1 DEF SlowIsNeverWrong, Benign
  <2> QED BY <2>2, <2>3
<1> QED BY <1>2, <1>3, DriverVerdict

----------------------------------------------------------------------------
(* ... over a step of the other goroutines, or of the engine.              *)

LEMMA OthersKeepDriver ==
    ASSUME CheckInv, Others
    PROVE  DriverInOrder'
<1> USE DEF CheckInv
<1>1. UNCHANGED <<n, d, dgone, inOpen, sentAll, synthEnded>>
  BY OthersFrame DEF Others
<1>2. n \in Sessions => said[n] \subseteq said'[n]
  BY SaidStays
<1>3. d \in Heard /\ synthEnded => "synthesis_end" \in said'[n]
  BY <1>2 DEF DriverInOrder, InCheck
<1>4. /\ pending' \subseteq pending
      /\ \/ reply' = reply
         \/ reply' \in Answers /\ d \in Controls
         \/ reply' = "ended" /\ d \in Controls /\ (~up \/ d = "invoke")
      /\ calling' = calling \/ calling' = "none" \/ calling # "none"
  <2> USE DEF drvVars, listenVars, paceVars, tallyVars, workerVars, engineVars, callVars
  <2>1. CASE ReaderReply
    <3>1. reply' = reply \/ pending # {}
      BY <2>1 DEF ReaderReply
    <3>2. pending # {} => d \in Controls
      BY DEF DriverInOrder, CheckTypeOK, Ids
    <3> QED BY <2>1, <3>1, <3>2 DEF ReaderReply, ByReader
  <2>2. CASE Engine \/ TallyEnd \/ TallySignal \/ ReaderEvent \/ ReaderEnd \/ ReaderAsked \/ ReaderLocks
             \/ ReaderWrites \/ ReaderFails \/ ReaderTooLarge \/ \E c \in Audio : Pace(c)
    BY <2>2 DEF ByTally, ByReader, ByEngine, ByPace, Engine, TallyEnd, TallySignal, ReaderEvent,
                ReaderEnd, ReaderAsked, ByAnswer, ReaderLocks, ReaderWrites, ReaderFails, ReaderTooLarge,
                EngineTakes, EngineHears, EngineStops, EngineAnswers, EngineSays, EngineReads, EngineTakesReply,
                EngineAsks, Pace, PaceStopped, PaceDue, PaceWrite, PaceFails
  <2>3. CASE Calls
    BY <2>3, CallsFrame DEF DriverInOrder
  <2> QED BY <2>1, <2>2, <2>3 DEF Others, Helpers
<1>5. reply' = "ended" => ~up' \/ d = "invoke"
  BY <1>4, EndsStay DEF DriverInOrder, Answers
<1>6. ended' \/ rdr' \in {"ended", "exit"} => ~up'
  <2> USE DEF drvVars, listenVars, paceVars, tallyVars, workerVars, engineVars, callVars
  <2>1. CASE ReaderEnd
    BY <2>1 DEF ReaderEnd, DriverInOrder, ByReader
  <2>2. CASE \/ Engine \/ TallyEnd \/ TallySignal \/ ReaderEvent \/ ReaderReply \/ ReaderAsked \/ ReaderLocks
             \/ ReaderWrites \/ ReaderFails \/ ReaderTooLarge \/ \E c \in Audio : Pace(c)
    <3>1. ended' = ended /\ rdr' \in {rdr, "read", "lock", "write"}
      BY <2>2 DEF ByTally, ByReader, ByEngine, ByPace, Engine, TallyEnd, TallySignal, ReaderEvent,
                ReaderReply, ReaderAsked, ByAnswer, ReaderLocks, ReaderWrites, ReaderFails, ReaderTooLarge,
                EngineTakes, EngineHears, EngineStops, EngineAnswers, EngineSays, EngineReads, EngineTakesReply,
                EngineAsks, Pace, PaceStopped, PaceDue, PaceWrite, PaceFails
    <3> QED BY <3>1, EndsStay DEF DriverInOrder
  <2>3. CASE Calls
    BY <2>3, CallsFrame DEF DriverInOrder
  <2> QED BY <2>1, <2>2, <2>3 DEF Others, Helpers
<1>7. d \notin Controls => reply' = "none"
  BY <1>4 DEF DriverInOrder
<1>8. calling' # "none" => d \in Controls
  BY <1>4 DEF DriverInOrder
<1> QED BY <1>1, <1>3, <1>4, <1>5, <1>6, <1>7, <1>8 DEF DriverInOrder

LEMMA OthersKeepSenders ==
    ASSUME CheckInv, Others
    PROVE  SendersInOrder'
<1> USE DEF CheckInv
<1>1. UNCHANGED <<n, d, sending, stop, inOpen, started>>
  BY OthersFrame DEF Others
<1>2. CASE Calls \/ Helpers \/ Engine
  <2>1. UNCHANGED <<snd, sent>>
    BY <1>2, CallsFrame DEF drvVars, listenVars, paceVars, tallyVars, workerVars, engineVars, callVars, ByTally, ByReader, ByEngine,
        Helpers, Engine, TallyEnd, TallySignal, ReaderReply, ReaderEvent,
        ReaderEnd, ReaderAsked, ByAnswer, ReaderLocks, ReaderWrites,
                ReaderFails, ReaderTooLarge, EngineTakes, EngineHears, EngineStops, EngineAnswers, EngineSays, EngineReads, EngineTakesReply, EngineAsks
  <2>2. \A c \in Audio : Recorded(c) => Recorded(c)'
    BY RecordedStays
  <2> QED BY <1>1, <2>1, <2>2 DEF SendersInOrder, Closing
<1>3. ASSUME NEW k \in Audio, Pace(k)
      PROVE  SendersInOrder'
  <2>1. \A c \in Audio : Recorded(c) => Recorded(c)'
    BY <1>3, RecordedStays DEF Others
  <2>2. /\ snd[k] \in {"due", "write"} /\ snd'[k] # "none" /\ UNCHANGED <<up, deaf>>
        /\ \A c \in Audio \ {k} : snd'[c] = snd[c] /\ sent'[c] = sent[c]
    BY <1>3 DEF ByPace, Pace, PaceStopped, PaceDue, PaceWrite, PaceFails, CheckTypeOK, engineVars
  <2>3. snd'[k] = "done" => Recorded(k)' \/ k \in stop \/ ~inOpen
    BY <1>3 DEF ByPace, Pace, PaceStopped, PaceDue, PaceWrite, PaceFails, CheckTypeOK, engineVars, Recorded
  <2>4. snd'[k] # "done" => sent'[k] < RecFrames
    BY <1>3, CheckAssumption DEF Pace, PaceStopped, PaceDue, PaceWrite, PaceFails, CheckTypeOK, SendersInOrder
  <2>5. snd'[k] \in {"due", "write", "done"} /\ k \in AllChecks
    BY <1>3, <2>2, CheckAssumption DEF Pace, PaceStopped, PaceDue, PaceWrite, PaceFails, CheckTypeOK, Sessions
  <2> QED BY <1>1, <2>1, <2>2, <2>3, <2>4, <2>5 DEF SendersInOrder, Closing
<1> QED BY <1>2, <1>3 DEF Others

\* The steps that leave the sessions alone, and the controls but for one taken back.
LEMMA OthersLeave ==
    ASSUME Others, ~EngineTakes, \A m \in Sessions, w \in Said : ~EngineSays(m, w)
    PROVE  UNCHANGED <<sess, said>> /\ (ctl' = ctl \/ Calls)
<1> USE DEF drvVars, listenVars, paceVars, tallyVars, workerVars, engineVars, callVars
<1>1. CASE Helpers
  BY <1>1 DEF ByTally, ByReader, Helpers, TallyEnd, TallySignal, ReaderReply, ReaderEvent, ReaderEnd,
              ReaderAsked, ByAnswer, ReaderLocks, ReaderWrites, ReaderFails, ReaderTooLarge
<1>2. CASE \E c \in Audio : Pace(c)
  BY <1>2 DEF ByPace, Pace, PaceStopped, PaceDue, PaceWrite, PaceFails
<1>3. CASE EngineHears \/ EngineStops \/ EngineAsks \/ EngineTakesReply \/ \E a \in owes : EngineAnswers(a)
  BY <1>3 DEF EngineHears, EngineStops, EngineAsks, EngineTakesReply, EngineAnswers
<1>4. CASE Calls
  BY <1>4, CallsFrame
<1> QED BY <1>1, <1>2, <1>3, <1>4 DEF Others, Engine, EngineReads

\* What the engine makes of the control it takes: of an open first, then of the rest.
LEMMA TakesShape ==
    ASSUME CheckInv, EngineTakes, NEW op, NEW m, op = Head(ctl).op, m = Head(ctl).n
    PROVE  /\ \/ op = "open" /\ sess' = [sess EXCEPT ![m] = "open"] /\ said' = said
              \/ op \in {"synthesize", "finish_input", "close"} /\ sess[m] = "open"
                   /\ said' = [said EXCEPT ![m] = @ \cup {op}] /\ sess' = sess
              \/ UNCHANGED <<sess, said>>
           /\ \E a \in Answers :
                /\ owes' = owes \cup {Item(op, m, a)}
                /\ a = "ok" => op # "status" /\ (op = "open" => sess' = [sess EXCEPT ![m] = "open"])
                /\ a = "formats" => "formats" \in Slips
                /\ a = "refused" => \/ "refuse" \in Slips
                                    \/ op \in {"synthesize", "finish_input", "close"} /\ sess[m] # "open"
                /\ a = "refused" => sess' = sess
                /\ a = "over" => op = "status" /\ sess[m] # "open" /\ sess' = sess
           /\ UNCHANGED <<lane, events, reply, up, deaf, sent, aout, tallied>>
<1> DEFINE Owe(a) == owes' = owes \cup {Item(op, m, a)}
<1>1. UNCHANGED <<lane, events, reply, up, deaf, sent, aout, tallied>>
  BY DEF EngineTakes, ByEngine
<1>2. \/ op = "open" /\ sess' = [sess EXCEPT ![m] = "open"] /\ said' = said
         /\ (Owe("ok") \/ ("formats" \in Slips /\ Owe("formats")) \/ Owe("rate"))
      \/ "refuse" \in Slips /\ Owe("refused") /\ UNCHANGED <<sess, said>>
      \/ op \in {"synthesize", "finish_input", "close"} /\ sess[m] = "open" /\ Owe("ok")
           /\ said' = [said EXCEPT ![m] = @ \cup {op}] /\ sess' = sess
      \/ op \in {"synthesize", "finish_input", "close"} /\ sess[m] # "open" /\ Owe("refused") /\ UNCHANGED <<sess, said>>
      \/ op = "status" /\ (Owe("live") \/ (sess[m] # "open" /\ Owe("over"))) /\ UNCHANGED <<sess, said>>
      \/ op = "invoke" /\ Owe("ok") /\ UNCHANGED <<sess, said>>
  BY DEF EngineTakes, Says, Live
<1> HIDE DEF Owe
<1>3. ASSUME NEW a \in Answers, Owe(a) PROVE owes' = owes \cup {Item(op, m, a)}
  BY <1>3 DEF Owe
<1>4. {"ok", "formats", "rate", "refused", "over", "live"} \subseteq Answers
  BY DEF Answers
<1>5. CASE op = "open" /\ sess' = [sess EXCEPT ![m] = "open"] /\ said' = said
         /\ (Owe("ok") \/ ("formats" \in Slips /\ Owe("formats")) \/ Owe("rate"))
  BY <1>1, <1>3, <1>4, <1>5
<1>6. CASE "refuse" \in Slips /\ Owe("refused") /\ UNCHANGED <<sess, said>>
  BY <1>1, <1>3, <1>4, <1>6
<1>7. CASE op \in {"synthesize", "finish_input", "close"} /\ sess[m] = "open" /\ Owe("ok")
           /\ said' = [said EXCEPT ![m] = @ \cup {op}] /\ sess' = sess
  BY <1>1, <1>3, <1>4, <1>7
<1>8. CASE op \in {"synthesize", "finish_input", "close"} /\ sess[m] # "open" /\ Owe("refused") /\ UNCHANGED <<sess, said>>
  BY <1>1, <1>3, <1>4, <1>8
<1>9. CASE op = "status" /\ (Owe("live") \/ (sess[m] # "open" /\ Owe("over"))) /\ UNCHANGED <<sess, said>>
  BY <1>1, <1>3, <1>4, <1>9
<1>10. CASE op = "invoke" /\ Owe("ok") /\ UNCHANGED <<sess, said>>
  BY <1>1, <1>3, <1>4, <1>10
<1> QED BY <1>2, <1>5, <1>6, <1>7, <1>8, <1>9, <1>10

\* After an open is taken no other open of its session is under way, and no other
\* control goes before it.
LEMMA OpenLeads ==
    ASSUME CheckInv, EngineTakes, NEW x \in Elems(ctl'), x.n = Head(ctl).n
    PROVE  x.op # "open"
<1> USE DEF CheckInv
<1>1. ctl # <<>> /\ ctl' = Tail(ctl)
  BY DEF EngineTakes
<1>2. /\ Len(ctl) \in Nat \ {0} /\ Len(ctl') = Len(ctl) - 1 /\ Head(ctl) = ctl[1]
      /\ \A i \in 1 .. Len(ctl) - 1 : ctl'[i] = ctl[i + 1]
  BY <1>1 DEF CheckTypeOK
<1>3. PICK i \in 1 .. Len(ctl') : x = ctl'[i]
  BY DEF Elems
<1>4. i + 1 \in 1 .. Len(ctl) /\ 1 \in 1 .. Len(ctl) /\ 1 < i + 1 /\ x = ctl[i + 1]
  BY <1>2, <1>3
<1> QED BY <1>2, <1>4 DEF ControlsInOrder

LEMMA OthersKeepControls ==
    ASSUME CheckInv, Others
    PROVE  ControlsInOrder'
<1> USE DEF CheckInv
<1>1. UNCHANGED <<n, d>>
  BY OthersFrame DEF Others
<1>2. \A c \in Audio : Recorded(c) => Recorded(c)'
  BY RecordedStays
<1>3. \A x \in Elems(ctl') : x.op = "open" => sess'[x.n] = "none"
  <2>1. SUFFICES ASSUME NEW x \in Elems(ctl'), x.op = "open" PROVE sess'[x.n] = "none"
    OBVIOUS
  <2>2. x \in Elems(ctl) /\ sess[x.n] = "none" /\ x.n \in Sessions
    BY <2>1, ControlsLeave DEF ControlsInOrder
  <2>3. CASE EngineTakes
    <3> DEFINE op == Head(ctl).op
               m  == Head(ctl).n
    <3>1. sess' = sess \/ (op = "open" /\ sess' = [sess EXCEPT ![m] = "open"])
      BY <2>3, TakesShape
    <3>2. x.n # m
      BY <2>1, <2>3, OpenLeads
    <3>3. sess \in [Sessions -> {"none", "open", "over"}]
      BY DEF CheckTypeOK
    <3> HIDE DEF op, m
    <3> QED BY <2>2, <3>1, <3>2, <3>3
  <2>4. CASE \E m \in Sessions, w \in Said : EngineSays(m, w)
    BY <2>2, <2>4 DEF EngineSays, Live, CheckTypeOK
  <2> QED BY <2>2, <2>3, <2>4, OthersLeave
<1>4. \A i, j \in 1 .. Len(ctl') : i < j /\ ctl'[i].n = ctl'[j].n => ctl'[j].op # "open"
  <2>1. CASE EngineTakes
    <3>1. ctl # <<>> /\ ctl' = Tail(ctl)
      BY <2>1 DEF EngineTakes
    <3>2. /\ Len(ctl) \in Nat \ {0} /\ Len(ctl') = Len(ctl) - 1
          /\ \A i \in 1 .. Len(ctl) - 1 : ctl'[i] = ctl[i + 1]
      BY <3>1 DEF CheckTypeOK
    <3>3. ASSUME NEW i \in 1 .. Len(ctl'), NEW j \in 1 .. Len(ctl'), i < j, ctl'[i].n = ctl'[j].n
          PROVE  ctl'[j].op # "open"
      <4>1. i + 1 \in 1 .. Len(ctl) /\ j + 1 \in 1 .. Len(ctl) /\ i + 1 < j + 1
            /\ ctl'[i] = ctl[i + 1] /\ ctl'[j] = ctl[j + 1]
        BY <3>2, <3>3
      <4> QED BY <3>3, <4>1 DEF ControlsInOrder
    <3> QED BY <3>3
  <2>2. CASE ctl' = ctl
    BY <2>2 DEF ControlsInOrder
  <2>3. CASE \E m \in Sessions, w \in Said : EngineSays(m, w)
    BY <2>2, <2>3 DEF EngineSays
  <2>4. CASE Calls
    <3>1. /\ \A i \in 1 .. Len(ctl') : i \in 1 .. Len(ctl) /\ ctl'[i] = ctl[i]
      BY <2>4, CallsControls DEF CheckTypeOK
    <3> QED BY <3>1 DEF ControlsInOrder
  <2> QED BY <2>1, <2>2, <2>3, <2>4, OthersLeave
<1> QED BY <1>1, <1>2, <1>3, <1>4, ControlsLeave DEF ControlsInOrder, Begun, Closing

LEMMA OthersKeepSessions ==
    ASSUME CheckInv, Others
    PROVE  SessionsInOrder'
<1> USE DEF CheckInv
<1>1. UNCHANGED <<n, d, dgone>>
  BY OthersFrame DEF Others
<1>2. (\A c \in Audio : Recorded(c) => Recorded(c)') /\ (GivenUp => GivenUp')
  BY RecordedStays, EndsStay
<1>3. \A m \in Sessions : Begun(m) /\ Shut(m) => Shut(m)'
  BY ShutStays
<1>4. sess \in [Sessions -> {"none", "open", "over"}] /\ said \in [Sessions -> SUBSET Said]
  BY DEF CheckTypeOK
<1>5. \A m \in Sessions : /\ Closing(m) /\ (m < n \/ d \in {"retire", "retiring"}) => Shut(m)' \/ GivenUp'
                          /\ Begun(m)' <=> Begun(m)
                          /\ Closing(m)' <=> Closing(m)
  BY <1>1, <1>2, <1>3 DEF SessionsInOrder, Begun, Closing, Closed0
<1>6. CASE UNCHANGED <<sess, said>>
  BY <1>1, <1>2, <1>5, <1>6 DEF SessionsInOrder, Closing
<1>7. CASE EngineTakes
  <2> DEFINE op == Head(ctl).op
             k  == Head(ctl).n
  <2>1. \/ op = "open" /\ sess' = [sess EXCEPT ![k] = "open"] /\ said' = said
        \/ op \in {"synthesize", "finish_input", "close"} /\ sess[k] = "open"
             /\ said' = [said EXCEPT ![k] = @ \cup {op}] /\ sess' = sess
        \/ UNCHANGED <<sess, said>>
    BY <1>7, TakesShape
  <2>2. Head(ctl) \in Elems(ctl)
    BY <1>7, EngineTakesOne
  <2>3. /\ Begun(k) /\ (op = "close" => Closing(k)) /\ (op = "finish_input" => k \in Audio /\ Recorded(k))
        /\ op = "open" => sess[k] = "none"
    BY <2>2 DEF ControlsInOrder
  <2> HIDE DEF op, k
  <2>4. ASSUME NEW m \in Sessions
        PROVE  /\ sess'[m] # "none" => Begun(m)
               /\ sess'[m] = "over" => said'[m] \cap Terminal # {}
               /\ "failure" \in said'[m] => "fail" \in Slips
               /\ "failure_retry" \in said'[m] => "retry" \in Slips
               /\ "session_end" \in said'[m] => "close" \in said'[m] \/ "quit" \in Slips
               /\ "close" \in said'[m] => Closing(m)
               /\ "finish_input" \in said'[m] => m \in Audio /\ Recorded(m)
    <3>1. CASE op = "open" /\ sess' = [sess EXCEPT ![k] = "open"] /\ said' = said
      <4>1. sess'[m] = (IF m = k THEN "open" ELSE sess[m]) /\ said'[m] = said[m]
        BY <1>4, <3>1
      <4> QED BY <2>3, <4>1 DEF SessionsInOrder
    <3>2. CASE op \in {"synthesize", "finish_input", "close"} /\ said' = [said EXCEPT ![k] = @ \cup {op}] /\ sess' = sess
      <4>1. sess'[m] = sess[m] /\ said'[m] = (IF m = k THEN said[m] \cup {op} ELSE said[m])
        BY <1>4, <3>2
      <4> QED BY <2>3, <3>2, <4>1 DEF SessionsInOrder
    <3>3. CASE UNCHANGED <<sess, said>>
      BY <3>3 DEF SessionsInOrder
    <3> QED BY <2>1, <3>1, <3>2, <3>3
  <2> QED BY <1>1, <1>2, <1>5, <2>4 DEF SessionsInOrder, Closing
<1>8. ASSUME NEW k \in Sessions, NEW w \in Said, EngineSays(k, w)
      PROVE  SessionsInOrder'
  <2>1. /\ sess[k] = "open" /\ said' = [said EXCEPT ![k] = @ \cup {w}] /\ MaySay(k, w)
        /\ sess' = IF w \in Terminal THEN [sess EXCEPT ![k] = "over"] ELSE sess
    BY <1>8 DEF EngineSays, Says, Live
  <2>2. w \notin {"close", "finish_input"}
    BY <2>1 DEF MaySay
  <2>3. /\ w = "failure" => "fail" \in Slips
        /\ w = "failure_retry" => "retry" \in Slips
        /\ w = "session_end" => "close" \in said[k] \/ "quit" \in Slips
    BY <2>1 DEF MaySay
  <2>4. ASSUME NEW m \in Sessions
        PROVE  /\ sess'[m] # "none" => Begun(m)
               /\ sess'[m] = "over" => said'[m] \cap Terminal # {}
               /\ "failure" \in said'[m] => "fail" \in Slips
               /\ "failure_retry" \in said'[m] => "retry" \in Slips
               /\ "session_end" \in said'[m] => "close" \in said'[m] \/ "quit" \in Slips
               /\ "close" \in said'[m] => Closing(m)
               /\ "finish_input" \in said'[m] => m \in Audio /\ Recorded(m)
    <3>1. CASE m = k
      <4>1. said'[m] = said[m] \cup {w} /\ sess'[m] = IF w \in Terminal THEN "over" ELSE "open"
        BY <1>4, <2>1, <3>1
      <4>2. w \in Terminal => said'[m] \cap Terminal # {}
        BY <4>1
      <4> QED BY <2>1, <2>2, <2>3, <3>1, <4>1, <4>2 DEF SessionsInOrder
    <3>2. CASE m # k
      <4>1. said'[m] = said[m] /\ sess'[m] = sess[m]
        BY <1>4, <2>1, <3>2
      <4> QED BY <4>1 DEF SessionsInOrder
    <3> QED BY <3>1, <3>2
  <2> QED BY <1>1, <1>2, <1>5, <2>4 DEF SessionsInOrder, Closing
<1> QED BY <1>6, <1>7, <1>8, OthersLeave

LEMMA OthersTyped == ASSUME CheckInv, Others PROVE CheckTypeOK'
  BY CallsTyped, PaceTyped, HelpersTyped, EngineTyped DEF Others, CheckInv

LEMMA OthersKeepListened ==
    ASSUME CheckInv, Others
    PROVE  Listened'
<1> USE DEF CheckInv
<1> SUFFICES ASSUME Benign, d' \in Heard PROVE sess'[n'] = "open"
  BY DEF Listened, Benign
<1>1. UNCHANGED <<n, d>>
  BY OthersFrame DEF Others
<1>2. n \in Sessions /\ sess[n] = "open"
  BY <1>1 DEF Listened, DriverInOrder, InCheck
<1>3. ~Closing(n)'
  BY <1>1 DEF Closing, Heard, Closed0, CheckTypeOK
<1>4. SessionsInOrder' /\ sess'[n] # "none" /\ sess'[n] \in {"none", "open", "over"}
  BY <1>2, OthersKeepSessions, SaidStays, OthersTyped DEF CheckTypeOK
<1>5. sess'[n] = "over" => said'[n] \cap Terminal # {}
  BY <1>2, <1>4 DEF SessionsInOrder
<1>6. said'[n] \cap Terminal = {}
  BY <1>1, <1>2, <1>3, <1>4 DEF SessionsInOrder, Benign, Terminal, Closing
<1> QED BY <1>1, <1>4, <1>5, <1>6

LEMMA OthersKeepNoticed ==
    ASSUME CheckInv, Others
    PROVE  Noticed'
<1> USE DEF CheckInv
<1>1. UNCHANGED <<n, d, synthEnded, named>>
  BY OthersFrame DEF Others
<1>2. \/ UNCHANGED <<changed, tally, tallied>>
      \/ TallyEnd /\ tally' = "signal"
      \/ TallySignal /\ changed' = TRUE /\ tallied' = tallied
  <2> USE DEF drvVars, listenVars, paceVars, tallyVars, workerVars, engineVars, callVars
  <2>1. CASE Helpers
    BY <2>1 DEF ByTally, ByReader, Helpers, TallyEnd, TallySignal, ReaderReply, ReaderEvent, ReaderEnd, ReaderAsked, ByAnswer, ReaderLocks, ReaderWrites,
                ReaderFails, ReaderTooLarge
  <2>2. CASE Engine \/ \E c \in Audio : Pace(c)
    BY <2>2 DEF ByEngine, ByPace, Engine, EngineTakes, EngineHears, EngineStops, EngineAnswers, EngineSays, EngineReads, EngineTakesReply, EngineAsks,
                Pace, PaceStopped, PaceDue, PaceWrite, PaceFails
  <2>3. CASE Calls
    BY <2>3, CallsFrame
  <2> QED BY <2>1, <2>2, <2>3 DEF Others
<1>3. CASE UNCHANGED <<changed, tally, tallied>>
  BY <1>1, <1>3 DEF Noticed, Done
<1> QED BY <1>2, <1>3 DEF Noticed

LEMMA OthersKeepVerdicts ==
    ASSUME CheckInv, Others
    PROVE  PassedIsComplete' /\ SlowIsNeverWrong'
<1> USE DEF CheckInv
<1>1. res' = res
  BY OthersFrame DEF Others
<1>2. \A m \in Sessions : said[m] \subseteq said'[m]
  BY SaidStays
<1>3. tallied \subseteq tallied'
  <2> USE DEF drvVars, listenVars, paceVars, tallyVars, workerVars, engineVars, callVars
  <2>1. CASE Helpers
    BY <2>1 DEF ByTally, ByReader, Helpers, TallyEnd, TallySignal, ReaderReply, ReaderEvent, ReaderEnd, ReaderAsked, ByAnswer, ReaderLocks, ReaderWrites,
                ReaderFails, ReaderTooLarge
  <2>2. CASE Engine \/ \E c \in Audio : Pace(c)
    BY <2>2 DEF ByEngine, ByPace, Engine, EngineTakes, EngineHears, EngineStops, EngineAnswers, EngineSays, EngineReads, EngineTakesReply, EngineAsks,
                Pace, PaceStopped, PaceDue, PaceWrite, PaceFails
  <2>3. CASE Calls
    BY <2>3, CallsFrame
  <2> QED BY <2>1, <2>2, <2>3 DEF Others
<1> QED BY <1>1, <1>2, <1>3 DEF PassedIsComplete, SlowIsNeverWrong, Sessions

\* Each word the engine comes to owe, or says, is true.
LEMMA TakesTrue ==
    ASSUME CheckInv, EngineTakes
    PROVE  \A a \in owes' \ owes : a \in Items /\ a.type \in Answers /\ True(a.op, a.n, a.type)'
<1> USE DEF CheckInv
<1>0. PICK op, m : op = Head(ctl).op /\ m = Head(ctl).n
  OBVIOUS
<1>1. PICK a \in Answers :
                /\ owes' = owes \cup {Item(op, m, a)}
                /\ a = "ok" => op # "status" /\ (op = "open" => sess' = [sess EXCEPT ![m] = "open"])
                /\ a = "formats" => "formats" \in Slips
                /\ a = "refused" => \/ "refuse" \in Slips
                                    \/ op \in {"synthesize", "finish_input", "close"} /\ sess[m] # "open"
                /\ a = "refused" => sess' = sess
                /\ a = "over" => op = "status" /\ sess[m] # "open" /\ sess' = sess
  BY <1>0, TakesShape
<1>2. /\ Head(ctl) \in Elems(ctl) /\ op \in Controls /\ m \in AllChecks /\ (op # "invoke" => m \in Sessions)
      /\ Begun(m) /\ (op = "open" => sess[m] = "none") /\ (m = n /\ d = "open" => op = "open")
      /\ (op = "invoke" => m \notin Sessions)
  <2>1. Head(ctl) \in Elems(ctl) /\ op \in Controls /\ m \in AllChecks /\ (op # "invoke" => m \in Sessions)
    BY <1>0, EngineTakesOne
  <2> QED BY <1>0, <2>1 DEF ControlsInOrder
<1>3. UNCHANGED <<n, d>> /\ sess \in [Sessions -> {"none", "open", "over"}]
  BY OthersFrame DEF Engine, EngineReads, CheckTypeOK
<1>4. OpenOf(m) \notin Elems(ctl')
  BY <1>0, OpenLeads DEF OpenOf
<1>5. a \notin Said /\ a \notin Terminal
  BY DEF Answers, Said, Terminal
<1>6. (op = "open" /\ a = "refused") \/ (op = "status" /\ a = "over") => Shut(m)'
  BY <1>1, <1>2, <1>4 DEF Shut, OpenOf
<1>7. op = "open" /\ a = "ok" => sess'[m] # "none"
  BY <1>1, <1>2, <1>3
<1>8. Benign => /\ a # "formats"
                /\ a = "refused" => op \notin {"open", "invoke"}
                /\ a = "refused" /\ op \in {"synthesize", "finish_input"} => Left(m)
  <2>1. Benign => "formats" \notin Slips /\ "refuse" \notin Slips
    BY DEF Benign
  <2>2. a = "refused" /\ Benign => op \in {"synthesize", "finish_input", "close"} /\ sess[m] # "open"
    BY <1>1, <2>1
  <2>3. op \in {"synthesize", "finish_input"} /\ sess[m] # "open" /\ Benign => Left(m)
    <3>1. SUFFICES ASSUME op \in {"synthesize", "finish_input"}, sess[m] # "open", Benign, m = n
                   PROVE  Left(m)
      BY <1>2 DEF Begun, Left
    <3>2. d # "open" /\ d \notin Heard /\ d # "run" /\ d # "invoke"
      BY <1>2, <3>1 DEF Listened, DriverInOrder, Begun, CheckTypeOK
    <3>3. d # "over"
      BY <1>2, <3>1, CheckAssumption DEF CheckTypeOK, AllChecks
    <3> QED BY <3>1, <3>2, <3>3 DEF CheckTypeOK, Drivers, InCheck, Left
  <2> QED BY <1>1, <2>1, <2>2, <2>3
<1>9. True(op, m, a)'
  BY <1>2, <1>3, <1>5, <1>6, <1>7, <1>8 DEF True, Begun, Left, Benign
<1>10. Item(op, m, a) \in Items /\ Item(op, m, a).op = op /\ Item(op, m, a).n = m /\ Item(op, m, a).type = a
  BY <1>2 DEF Item, Items
<1> QED BY <1>1, <1>9, <1>10

LEMMA SaysTrue ==
    ASSUME CheckInv, NEW m \in Sessions, NEW w \in Said, EngineSays(m, w)
    PROVE  True("event", m, w)' /\ w \in said'[m]
<1> USE DEF CheckInv
<1>1. /\ sess[m] = "open" /\ said' = [said EXCEPT ![m] = @ \cup {w}]
      /\ sess' = IF w \in Terminal THEN [sess EXCEPT ![m] = "over"] ELSE sess
      /\ ctl' = ctl
  BY DEF EngineSays, Says, Live, ByEngine
<1>2. /\ sess \in [Sessions -> {"none", "open", "over"}] /\ said \in [Sessions -> SUBSET Said]
      /\ UNCHANGED <<n, d>>
  BY OthersFrame DEF Others, Engine, CheckTypeOK
<1>3. Begun(m) /\ w \in said'[m]
  BY <1>1, <1>2 DEF SessionsInOrder
<1>4. w \in Terminal => Shut(m)'
  BY <1>1, <1>2 DEF Shut, OpenOf, ControlsInOrder
<1>5. w \notin {"formats", "refused", "ok"}
  BY DEF Said, Terminal
<1> QED BY <1>2, <1>3, <1>4, <1>5 DEF True, Begun

LEMMA OthersKeepWords ==
    ASSUME CheckInv, Others
    PROVE  WordsAreTrue'
<1> USE DEF CheckInv
<1>1. UNCHANGED <<n, d>>
  BY OthersFrame DEF Others
<1>2. events \in Seq(Items) /\ lane \in Seq(Items) /\ owes \subseteq Items /\ aout \in Seq(Sessions)
      /\ reply \in Answers \cup {"none", "ended"}
  BY DEF CheckTypeOK
<1>3. Elems(events) \subseteq Items /\ Elems(lane) \subseteq Items
  BY <1>2, ElemsIn
\* What was true stays true.
<1>4. \A a \in owes \cup Elems(lane) \cup Elems(events) : a \in Items /\ True(a.op, a.n, a.type)'
  <2>1. SUFFICES ASSUME NEW a \in owes \cup Elems(lane) \cup Elems(events) PROVE a \in Items /\ True(a.op, a.n, a.type)'
    OBVIOUS
  <2>2. a \in Items /\ a.n \in AllChecks /\ True(a.op, a.n, a.type)
    BY <1>2, <1>3 DEF WordsAreTrue, Items
  <2> QED BY <2>2, TrueStays
<1>5. reply \in Answers =>
        \A op, m, type : op = d /\ m = n /\ type = reply => True(op, m, type)'
  <2>1. n \in 1 .. NChecks + 1 /\ (d = "over" <=> n = NChecks + 1)
    BY DEF CheckTypeOK
  <2>2. reply \in Answers => d \in Controls
    BY DEF DriverInOrder, Answers
  <2>3. reply \in Answers => n \in AllChecks
    BY <2>1, <2>2, CheckAssumption DEF Controls, AllChecks
  <2>4. SUFFICES ASSUME reply \in Answers, NEW op, NEW m, NEW type, op = d, m = n, type = reply
                 PROVE  True(op, m, type)'
    OBVIOUS
  <2>5. True(op, m, type)
    BY <2>4 DEF WordsAreTrue
  <2> QED BY <2>3, <2>4, <2>5, TrueStays
<1>6. \A m \in Elems(aout) \cup tallied : "END" \in said'[m]
  <2>1. Elems(aout) \cup tallied \subseteq Sessions
    BY <1>2, ElemsIn DEF CheckTypeOK
  <2> QED BY <2>1, SaidStays DEF WordsAreTrue
\* What a step adds.
<1>7. ASSUME NEW add \in SUBSET Items,
             \A a \in add : True(a.op, a.n, a.type)',
             owes' \subseteq owes \cup add,
             Elems(lane') \cup Elems(events') \subseteq owes \cup Elems(lane) \cup Elems(events) \cup add,
             \A a \in owes' \ owes : a.type \in Answers,
             \A a \in Elems(events') : a \in Elems(events) \/ a.type \in Said,
             reply' \in {reply, "ended"} \/ (\E a \in Elems(lane) : a.op = d /\ a.n = n /\ a.type = reply'),
             \A m \in Elems(aout') \cup tallied' : m \in Elems(aout) \cup tallied \/ "END" \in said'[m]
      PROVE  WordsAreTrue'
  <2>1. \A a \in owes' \cup Elems(lane') \cup Elems(events') : True(a.op, a.n, a.type)'
    BY <1>4, <1>7
  <2>2. ASSUME NEW op, NEW m, NEW type, op = d', m = n', type = reply', type \in Answers
        PROVE  True(op, m, type)'
    <3>1. CASE reply' = reply
      BY <1>1, <1>5, <2>2, <3>1
    <3>2. CASE \E a \in Elems(lane) : a.op = d /\ a.n = n /\ a.type = reply'
      BY <1>1, <1>4, <2>2, <3>2
    <3> QED BY <1>7, <2>2, <3>1, <3>2 DEF Answers
  <2>3. reply' \in Answers => True(d, n, reply)'
    BY <2>2 DEF True, Begun, Left, Shut, OpenOf
  <2>4. (\A a \in owes' : a.type \in Answers) /\ (\A a \in Elems(events') : a.type \in Said)
    BY <1>7 DEF WordsAreTrue
  <2>5. \A m \in Elems(aout') \cup tallied' : "END" \in said'[m]
    BY <1>6, <1>7
  <2> QED BY <2>1, <2>3, <2>4, <2>5 DEF WordsAreTrue, Elems
<1> USE DEF drvVars, listenVars, paceVars, tallyVars, workerVars, engineVars, callVars
<1>8. CASE EngineTakes
  <2>1. UNCHANGED <<lane, events, reply, aout, tallied>> /\ owes \subseteq owes'
    BY <1>8, TakesShape
  <2>2. owes' \ owes \in SUBSET Items /\ \A a \in owes' \ owes : a.type \in Answers /\ True(a.op, a.n, a.type)'
    BY <1>8, TakesTrue
  <2> QED BY <1>7, <2>1, <2>2
<1>9. ASSUME NEW m \in Sessions, NEW w \in Said, EngineSays(m, w)
      PROVE  WordsAreTrue'
  <2> DEFINE it == Item("event", m, w)
  <2>1. it \in Items /\ it.op = "event" /\ it.n = m /\ it.type = w
    BY CheckAssumption DEF Item, Items
  <2>2. {it} \in SUBSET Items /\ \A a \in {it} : True(a.op, a.n, a.type)'
    BY <1>9, <2>1, SaysTrue
  <2>3. UNCHANGED <<owes, events, reply, tallied>>
    BY <1>9 DEF EngineSays, ByEngine
  <2>4. Elems(lane') \subseteq Elems(lane) \cup {it}
    BY <1>2, <1>9, <2>1, ElemsAppend DEF EngineSays
  <2>5. \A k \in Elems(aout') \cup tallied' : k \in Elems(aout) \cup tallied \/ "END" \in said'[k]
    <3>1. w = "END" => "END" \in said'[m]
      BY <1>9, SaysTrue
    <3>2. aout' = aout \/ (w = "END" /\ aout' = Append(aout, m))
      BY <1>9 DEF EngineSays
    <3>3. CASE aout' = aout
      BY <2>3, <3>3
    <3>4. CASE w = "END" /\ aout' = Append(aout, m)
      <4>1. Elems(aout') = Elems(aout) \cup {m}
        BY <1>2, <3>4, ElemsAppend
      <4> QED BY <2>3, <3>1, <3>4, <4>1
    <3> QED BY <3>2, <3>3, <3>4
  <2> HIDE DEF it
  <2> QED BY <1>7, <2>2, <2>3, <2>4, <2>5
<1>10. ASSUME NEW a \in owes, EngineAnswers(a)
       PROVE  WordsAreTrue'
  <2>1. owes' \subseteq owes /\ UNCHANGED <<events, reply, tallied, aout>>
    BY <1>10 DEF EngineAnswers, ByEngine
  <2>2. Elems(lane') = Elems(lane) \cup {a}
    BY <1>2, <1>10, ElemsAppend DEF EngineAnswers
  <2>3. {} \in SUBSET Items /\ \A x \in {} : True(x.op, x.n, x.type)'
    OBVIOUS
  <2> QED BY <1>7, <2>1, <2>2, <2>3
<1>11. CASE \/ EngineHears \/ EngineStops \/ EngineTakesReply \/ ReaderEnd \/ ReaderLocks \/ ReaderWrites
            \/ ReaderFails \/ ReaderTooLarge \/ TallySignal \/ Calls \/ \E c \in Audio : Pace(c)
  <2>1. UNCHANGED <<owes, lane, events, aout, tallied>> /\ reply' \in {reply, "ended"}
    BY <1>11, CallsFrame
    DEF EngineHears, EngineStops, EngineTakesReply, ReaderEnd, ReaderLocks, ReaderWrites, ReaderFails,
        ReaderTooLarge, ByAnswer, TallySignal, ByEngine, ByReader, ByTally, ByPace, Pace,
        PaceStopped, PaceDue, PaceWrite, PaceFails
  <2>2. {} \in SUBSET Items /\ \A x \in {} : True(x.op, x.n, x.type)'
    OBVIOUS
  <2> QED BY <1>7, <2>1, <2>2
<1>15. CASE EngineAsks
  <2> DEFINE it == Item("ask", 1, "ask")
  <2>1. it \in Items /\ it.op = "ask" /\ it.n = 1 /\ it.type = "ask"
    BY AskItem DEF Item
  <2>2. True(it.op, it.n, it.type)'
    BY <2>1 DEF True, Said, Terminal
  <2>3. UNCHANGED <<owes, events, reply, tallied, aout>>
    BY <1>15 DEF EngineAsks, ByEngine
  <2>4. Elems(lane') \subseteq Elems(lane) \cup {it}
    BY <1>2, <1>15, <2>1, ElemsAppend DEF EngineAsks
  <2> HIDE DEF it
  <2>5. {it} \in SUBSET Items /\ \A a \in {it} : True(a.op, a.n, a.type)'
    BY <2>1, <2>2
  <2> QED BY <1>7, <2>3, <2>4, <2>5
<1>16. CASE ReaderAsked
  <2>1. UNCHANGED <<owes, reply, events, aout, tallied>> /\ lane # <<>> /\ lane' = Tail(lane)
    BY <1>16 DEF ReaderAsked, ByReader
  <2>2. Elems(lane') \subseteq Elems(lane)
    BY <1>2, <2>1, ElemsTail
  <2>3. {} \in SUBSET Items /\ \A x \in {} : True(x.op, x.n, x.type)'
    OBVIOUS
  <2> QED BY <1>7, <2>1, <2>2, <2>3
<1>12. CASE TallyEnd
  <2>1. UNCHANGED <<owes, lane, events, reply>>
    BY <1>12 DEF TallyEnd, ByTally
  <2>2. Elems(aout') \cup tallied' \subseteq Elems(aout) \cup tallied
    BY <1>2, <1>12, ElemsTail DEF TallyEnd
  <2>3. {} \in SUBSET Items /\ \A x \in {} : True(x.op, x.n, x.type)'
    OBVIOUS
  <2> QED BY <1>7, <2>1, <2>2, <2>3
<1>13. CASE ReaderReply
  <2>1. UNCHANGED <<owes, events, aout, tallied>> /\ lane # <<>> /\ lane' = Tail(lane)
    BY <1>13 DEF ReaderReply, ByReader
  <2>2. Elems(lane') \subseteq Elems(lane) /\ Head(lane) \in Elems(lane)
    BY <1>2, <2>1, ElemsTail
  <2>3. reply' = reply \/ (Head(lane).op = d /\ Head(lane).n = n /\ Head(lane).type = reply')
    BY <1>13 DEF ReaderReply, DriverInOrder
  <2>4. {} \in SUBSET Items /\ \A x \in {} : True(x.op, x.n, x.type)'
    OBVIOUS
  <2> QED BY <1>7, <2>1, <2>2, <2>3, <2>4
<1>14. CASE ReaderEvent
  <2>1. /\ UNCHANGED <<owes, reply, aout, tallied>> /\ lane # <<>> /\ lane' = Tail(lane)
        /\ events' = Append(events, Head(lane)) /\ Head(lane).type \in Said
    BY <1>14 DEF ReaderEvent, ByReader
  <2>2. Elems(lane') \subseteq Elems(lane) /\ Head(lane) \in Elems(lane) /\ Head(lane) \in Items
    BY <1>2, <2>1, ElemsTail
  <2>3. Elems(events') = Elems(events) \cup {Head(lane)}
    BY <1>2, <2>1, <2>2, ElemsAppend
  <2>4. Head(lane).type \in Said
    BY <2>1
  <2>5. {} \in SUBSET Items /\ \A x \in {} : True(x.op, x.n, x.type)'
    OBVIOUS
  <2> QED BY <1>7, <2>1, <2>2, <2>3, <2>4, <2>5
<1> QED BY <1>8, <1>9, <1>10, <1>11, <1>12, <1>13, <1>14, <1>15, <1>16
       DEF Others, Helpers, Engine, EngineReads

----------------------------------------------------------------------------
(* The theorems.                                                           *)

LEMMA CheckInvStutters ==
    ASSUME CheckInv, UNCHANGED vars
    PROVE  CheckInv'
<1> USE DEF vars, drvVars, listenVars, paceVars, tallyVars, workerVars, engineVars, callVars
<1>1. CheckTypeOK'
  BY DEF CheckInv, CheckTypeOK
<1>2. DriverInOrder' /\ SendersInOrder' /\ ControlsInOrder'
  BY DEF CheckInv, DriverInOrder, SendersInOrder, ControlsInOrder, Begun, Closing, Recorded, Elems
<1>3. SessionsInOrder'
  BY DEF CheckInv, SessionsInOrder, Begun, Closing, Recorded, Shut, GivenUp, OpenOf, Elems
<1>4. WordsAreTrue'
  BY DEF CheckInv, WordsAreTrue, True, Begun, Left, Shut, OpenOf, Elems
<1>5. Listened' /\ Noticed' /\ PassedIsComplete' /\ SlowIsNeverWrong'
  BY DEF CheckInv, Listened, Noticed, Done, PassedIsComplete, SlowIsNeverWrong
<1> QED BY <1>1, <1>2, <1>3, <1>4, <1>5 DEF CheckInv

\* The invariant is kept by every step of the driver, of the goroutines beside it
\* and of the engine.
LEMMA CheckInvNext == CheckInv /\ [Next]_vars => CheckInv'
<1> SUFFICES ASSUME CheckInv, [Next]_vars PROVE CheckInv'
  OBVIOUS
<1>1. CASE Driver
  <2>1. CheckTypeOK'
    BY <1>1, DriverTyped DEF CheckInv
  <2> QED BY <1>1, <2>1, DriverKeepsDriver, DriverKeepsSenders, DriverKeepsControls, DriverKeepsSessions,
             DriverKeepsWords, DriverKeepsListened, DriverKeepsNoticed, DriverKeepsVerdicts DEF CheckInv
<1>2. CASE Others
  BY <1>2, OthersTyped, OthersKeepDriver, OthersKeepSenders, OthersKeepControls, OthersKeepSessions,
     OthersKeepWords, OthersKeepListened, OthersKeepNoticed, OthersKeepVerdicts DEF CheckInv
<1>3. CASE UNCHANGED vars
  BY <1>3, CheckInvStutters
<1> QED BY <1>1, <1>2, <1>3 DEF Next, Others, Finished

\* Of a package check of an engine, the driver, its sender, the reader of the control lane,
\* the tally of speech and the verdicts agree in every reachable state (run, listen, retire
\* and abort of workerdrive/session.go).
THEOREM CheckInvariant == Spec => []CheckInv
<1>1. Init => CheckInv
  BY CheckInvInit
<1> QED BY <1>1, CheckInvNext, PTL DEF Spec

\* The types of SessionCheck's variables: the driver is at one of its checks and in
\* one of its waits, and what is under way on the lane is a control, an answer or a word
\* about a check that there is.
THEOREM CheckTypeCorrect == Spec => []CheckTypeOK
<1>1. CheckInv => CheckTypeOK
  BY DEF CheckInv
<1> QED BY <1>1, CheckInvariant, PTL

\* listen sends finish_input, which names the recording's exclusive end, only when the
\* sender has closed its done: the engine hears of the end of a recording that went
\* whole, or that it no longer took.
THEOREM FinishAfterWhole == Spec => []FinishFollowsRecording
<1>1. CheckInv => FinishFollowsRecording
  BY DEF CheckInv, SessionsInOrder, FinishFollowsRecording, Recorded, Sessions
<1> QED BY <1>1, CheckInvariant, PTL

\* runChecks begins a check only when the engine's session for the one before has been
\* heard or read back to be over, was never opened, or the carrier is given up.
THEOREM SessionsOneByOne == Spec => []OneSessionAtATime
<1>1. CheckInv => OneSessionAtATime
  <2> SUFFICES ASSUME CheckInv, NEW c \in Sessions, c < n, Live(c) PROVE dgone \/ ~up
    BY DEF OneSessionAtATime
  <2> QED BY DEF CheckInv, SessionsInOrder, Closing, Shut, GivenUp, Live
<1> QED BY <1>1, CheckInvariant, PTL

\* A check is judged passed by runCheck and by listen only on a complete answer, heard
\* from the check's own session, its stream tallied to its end.
THEOREM PassedWasComplete == Spec => []PassedIsComplete
<1>1. CheckInv => PassedIsComplete
  BY DEF CheckInv
<1> QED BY <1>1, CheckInvariant, PTL

\* Whenever the timers expire and whatever is lost with a carrier, an engine that says
\* the right things is never judged wrong.
THEOREM SlowNeverWrong == Spec => []SlowIsNeverWrong
<1>1. CheckInv => SlowIsNeverWrong
  BY DEF CheckInv
<1> QED BY <1>1, CheckInvariant, PTL

\* outputTally.read marks a stream's end before it signals, and listen looks again
\* after each speech event: a complete spoken answer is never slept on.
THEOREM EndsNoticed == Spec => []EndIsNoticed
<1>1. CheckInv => EndIsNoticed
  BY DEF CheckInv, Noticed, EndIsNoticed, Heard
<1> QED BY <1>1, CheckInvariant, PTL

\* retire waits for the sender, or closes the audio input under it: no frame of a
\* recording is written once the driver is at another check.
THEOREM RecordingStopsWithCheck == Spec => RecordingEndsWithCheck
<1>1. CheckInv /\ [Next]_vars => [\A c \in Audio : sent'[c] > sent[c] => c = n]_vars
  <2> SUFFICES ASSUME CheckInv, Next, NEW c \in Audio, sent'[c] > sent[c] PROVE c = n
    OBVIOUS
  <2>0. sent \in [Audio -> Nat]
    BY DEF CheckInv, CheckTypeOK
  <2> USE DEF drvVars, listenVars, paceVars, tallyVars, workerVars, engineVars, callVars
  <2>1. sent' # sent
    BY <2>0
  <2>2. PICK k \in Audio : Pace(k)
    <3>1. ~Driver
      BY <2>1, DriverFrame DEF CheckInv
    <3>2. ~Calls /\ ~Helpers /\ ~Engine
      BY <2>1, CallsFrame DEF ByTally, ByReader, ByEngine, Helpers, Engine, TallyEnd, TallySignal, ReaderReply, ReaderEvent,
              ReaderEnd, ReaderAsked, ByAnswer, ReaderLocks, ReaderWrites,
                ReaderFails, ReaderTooLarge, EngineTakes, EngineHears, EngineStops, EngineAnswers, EngineSays, EngineReads, EngineTakesReply, EngineAsks
    <3>3. ~Finished
      BY <2>1 DEF Finished, vars
    <3> QED BY <3>1, <3>2, <3>3 DEF Next
  <2>3. PaceWrite(k)
    BY <2>1, <2>2 DEF Pace, PaceStopped, PaceDue, PaceFails
  <2>4. k = c
    BY <2>0, <2>3 DEF PaceWrite
  <2>5. snd[c] = "write" /\ inOpen
    BY <2>3, <2>4 DEF PaceWrite
  <2> QED BY <2>5, CheckAssumption DEF CheckInv, SendersInOrder, AllChecks, Sessions
<1> QED BY <1>1, CheckInvariant, PTL DEF Spec, RecordingEndsWithCheck
=============================================================================

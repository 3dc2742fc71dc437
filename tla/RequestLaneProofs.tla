------------------------- MODULE RequestLaneProofs -------------------------
(***************************************************************************)
(* Proofs about RequestLane, for any number of cases, checks and host      *)
(* calls.                                                                  *)
(*                                                                         *)
(* That a verdict is on the step's own answer follows from what a reply    *)
(* may say (TypeOK).  The rest follows from one more fact, InStep: as long *)
(* as no step was abandoned (its read given up, or a reply to its host     *)
(* call refused as too large), the driver and the guest have turns, and    *)
(* the turn tells what is in each pipe and where the one reader is.        *)
(***************************************************************************)
EXTENDS RequestLane, SequenceTheorems, TLAPS

\* What may go to the guest, and to the driver: a reply names the request it is of.
Down == [kind : {"request", "hostreply"}, id : Nat, of : Nat]
Up   == {f \in [kind : {"hostcall", "reply"}, id : Nat, of : Nat] : f.kind = "reply" => f.id = f.of}

Parts   == [part : {"header", "body"}, f : Up]
Readers == [at : {"header", "body", "junk", "got", "failed"}, f : Up]
Results == {"none", "notasked", "unsent", "unserved", "broken", "pass", "wrong", "mismatch", "timeout"}

\* Invoke is under way.
Invoking == drv \in {"read", "wait", "serve"}

TypeOK ==
    /\ step \in 1 .. NSteps + 1
    /\ drv \in {"ask", "read", "wait", "serve", "closing", "exited", "killed"}
    /\ Invoking => step \in Steps
    /\ drv \in {"closing", "exited", "killed"} <=> eof
    /\ readers \in Seq(Readers)
    /\ drv \in {"wait", "serve"} => Len(readers) # 0
    /\ res \in [Steps -> Results] /\ judged \in [Steps -> Nat]
    /\ gone \in BOOLEAN /\ torn \in BOOLEAN
    /\ stdin \in Seq(Down) /\ stdout \in Seq(Parts)
    /\ guest \in {"read", "run", "call", "exit"} /\ of \in Nat /\ calls \in Nat
    /\ drv \in {"exited", "killed"} => guest = "exit"

\* The steps that have ended, and why the driver would not be at a check.
StepsInOrder ==
    /\ \A s \in Steps : s >= step => res[s] = "none"
    /\ \A s \in Checks : res[s] = "timeout" => gone
    /\ Invoking /\ step \in Checks => ~gone

\* Invoke's read has just begun, or is about to.
Fresh == drv = "read" \/ (drv = "wait" /\ Mine.at = "header")

\* The guest has sent f, and the driver has yet to deal with it.
InFlight(f) ==
    \/ stdout = <<[part |-> "header", f |-> f], [part |-> "body", f |-> f]>> /\ Fresh
    \/ stdout = <<[part |-> "body", f |-> f]>> /\ drv = "wait" /\ Mine = [at |-> "body", f |-> f]
    \/ stdout = <<>> /\ drv \in {"wait", "serve"} /\ Mine = [at |-> "got", f |-> f]
         /\ (drv = "serve" => f.kind = "hostcall")

\* It is the guest's turn.
GuestsTurn ==
    /\ stdout = <<>> /\ Fresh
    /\ \/ guest = "read" /\ stdin = <<Request(step)>>
       \/ guest = "run" /\ of = step /\ stdin = <<>>
       \/ guest = "call" /\ of = step /\ (\E k \in Nat : stdin = <<HostReply(k)>>)

\* It is the driver's: the step's host call or its reply is in flight.
DriversTurn ==
    /\ stdin = <<>>
    /\ \E f \in Up : /\ f.of = step /\ InFlight(f)
                     /\ \/ guest = "call" /\ of = step /\ f.kind = "hostcall"
                        \/ guest = "read" /\ f.kind = "reply"

\* The guest is gone: the driver reads what it left, and then the end of the pipe.
NoTurn ==
    /\ guest = "exit"
    /\ \/ \E f \in Up : f.of = step /\ InFlight(f)
       \/ stdout = <<>> /\ (Fresh \/ (drv = "wait" /\ Mine.at = "failed"))

Sync ==
    /\ ~torn /\ lost = {}
    /\ \A r \in Reading : r = Len(readers) /\ drv = "wait"
    /\ \A p \in served : p[1] = p[2]
    /\ ~Invoking => stdout = <<>> /\ (guest = "exit" \/ (guest = "read" /\ stdin = <<>>))
    /\ Invoking => GuestsTurn \/ DriversTurn \/ NoTurn

\* The lane is in step until a step was abandoned.
InStep == Abandoned = {} => Sync

LaneInv == TypeOK /\ StepsInOrder /\ VerdictIsOwn /\ InStep /\ BlameIsEarned

----------------------------------------------------------------------------
(* The pipes and the readers.                                              *)

LEMMA StepFacts ==
    /\ NSteps \in Nat /\ Steps \subseteq Nat \ {0} /\ Checks \subseteq Steps
    /\ NSteps + 1 \notin Steps /\ 1 \in 1 .. NSteps + 1
    /\ \A s \in Steps : s + 1 \in 1 .. NSteps + 1 /\ s \in 1 .. NSteps + 1
    /\ \A s \in Checks : s \in Steps
    /\ \A s \in 1 .. NSteps + 1 : s \in Steps \/ s = NSteps + 1
  BY RequestAssumption DEF NSteps, Steps, Checks

\* What the guest writes is typed, a header before its body.
LEMMA WrittenTyped ==
    ASSUME stdout \in Seq(Parts), NEW f \in Up
    PROVE  Written(f) \in Seq(Parts)
<1>1. [part |-> "header", f |-> f] \in Parts /\ [part |-> "body", f |-> f] \in Parts
  BY DEF Parts
<1>2. Append(stdout, [part |-> "header", f |-> f]) \in Seq(Parts)
  BY <1>1
<1> QED BY <1>1, <1>2 DEF Written

LEMMA TakenTyped ==
    ASSUME NEW S, NEW s \in Seq(S), s # <<>>
    PROVE  Tail(s) \in Seq(S) /\ Head(s) \in S
  OBVIOUS

LEMMA FramesTyped ==
    ASSUME TypeOK
    PROVE  /\ \A s \in Nat : Request(s) \in Down /\ HostReply(s) \in Down
           /\ \A k \in Nat : HostRequest(k) \in Up
           /\ Reply \in Up /\ Refusal \in Up /\ NoFrame \in Up /\ Begun \in Readers
  BY DEF TypeOK, Down, Up, Request, HostReply, HostRequest, Reply, Refusal, NoFrame, Begun, Readers

LEMMA MineTyped ==
    ASSUME TypeOK, drv \in {"wait", "serve"}
    PROVE  Len(readers) \in 1 .. Len(readers) /\ Mine \in Readers /\ Mine.f \in Up
<1>1. Len(readers) \in Nat /\ Len(readers) # 0 /\ readers \in Seq(Readers)
  BY DEF TypeOK
<1>2. Len(readers) \in 1 .. Len(readers)
  BY <1>1
<1>3. Mine \in Readers
  BY <1>1, <1>2 DEF Mine
<1> QED BY <1>2, <1>3 DEF Readers

\* A reader is changed, and no other.
LEMMA BecomeTyped ==
    ASSUME TypeOK, NEW r \in 1 .. Len(readers), NEW at \in {"header", "body", "junk", "got", "failed"},
           NEW f \in Up, Become(r, at, f)
    PROVE  /\ readers' \in Seq(Readers) /\ Len(readers') = Len(readers)
           /\ \A q \in 1 .. Len(readers) : readers'[q] = IF q = r THEN [at |-> at, f |-> f] ELSE readers[q]
<1>1. [at |-> at, f |-> f] \in Readers
  BY DEF Readers
<1> QED BY <1>1 DEF Become, TypeOK

----------------------------------------------------------------------------
(* Types, and the order of the steps.                                      *)

LEMMA InitLane == Init => LaneInv
<1> SUFFICES ASSUME Init PROVE LaneInv
  OBVIOUS
<1>1. <<>> \in Seq(Readers) /\ <<>> \in Seq(Down) /\ <<>> \in Seq(Parts) /\ Len(<<>>) = 0
  OBVIOUS
<1>2. TypeOK
  BY <1>1, StepFacts DEF Init, TypeOK, Results, Invoking
<1>3. StepsInOrder /\ VerdictIsOwn /\ BlameIsEarned
  BY StepFacts DEF Init, StepsInOrder, VerdictIsOwn, BlameIsEarned, Invoking
<1>4. InStep
  BY <1>1 DEF Init, InStep, Sync, Reading, Invoking
<1> QED BY <1>2, <1>3, <1>4 DEF LaneInv

LEMMA DriverTyped ==
    ASSUME TypeOK, Driver
    PROVE  TypeOK'
<1> USE DEF drvVars, guestVars, pipes, Ends
<1>1. CASE Ask
  <2>1. Append(stdin, Request(step)) \in Seq(Down)
    BY FramesTyped, StepFacts DEF TypeOK
  <2> QED BY <1>1, <2>1 DEF Ask, Askable, Asking, TypeOK, Invoking
<1>2. CASE ReadFrame
  <2>1. Append(readers, Begun) \in Seq(Readers) /\ Len(Append(readers, Begun)) # 0
    BY FramesTyped DEF TypeOK
  <2> QED BY <1>2, <2>1 DEF ReadFrame, TypeOK, Invoking
<1>3. CASE Serve
  <2>1. Mine.f.id \in Nat
    BY <1>3, MineTyped DEF Serve, Up
  <2>2. Append(stdin, HostReply(Mine.f.id)) \in Seq(Down)
    BY <2>1, FramesTyped DEF TypeOK
  <2> QED BY <1>3, <2>2 DEF Serve, TypeOK, Invoking
<1>4. CASE GotReply
  <2>1. Mine.f.of \in Nat
    BY <1>4, MineTyped DEF GotReply, Up
  <2>2. step' \in 1 .. NSteps + 1 /\ drv' = "ask" /\ res' \in [Steps -> Results]
    BY <1>4, StepFacts DEF GotReply, TypeOK, Invoking, Results
  <2>3. judged' \in [Steps -> Nat]
    BY <1>4, <2>1 DEF GotReply, TypeOK
  <2> QED BY <1>4, <2>2, <2>3 DEF GotReply, TypeOK, Invoking
<1>5. CASE NotAsked \/ AskFails \/ AskRefused \/ ReadFails \/ ServeFails \/ ServeRefused \/ Timeout
  <2>1. step \in Steps /\ gone' \in BOOLEAN
    BY <1>5 DEF NotAsked, AskFails, AskRefused, ReadFails, ServeFails, ServeRefused, Timeout, Askable, Asking, TypeOK, Invoking, GoneNow
  <2>2. step' \in 1 .. NSteps + 1 /\ drv' = "ask" /\ res' \in [Steps -> Results]
    BY <1>5, <2>1, StepFacts DEF NotAsked, AskFails, AskRefused, ReadFails, ServeFails, ServeRefused, Timeout, TypeOK, Results, NoAnswer
  <2> QED BY <1>5, <2>1, <2>2 DEF NotAsked, AskFails, AskRefused, ReadFails, ServeFails, ServeRefused, Timeout, TypeOK, Invoking, Askable, Asking
<1>6. CASE GotCall \/ Close \/ Closed \/ Kill
  BY <1>6, StepFacts DEF GotCall, Close, Closed, Kill, TypeOK, Invoking
<1> QED BY <1>1, <1>2, <1>3, <1>4, <1>5, <1>6 DEF Driver, Moves

LEMMA ReadTyped ==
    ASSUME TypeOK, NEW r \in 1 .. Len(readers), Read(r)
    PROVE  TypeOK'
<1> USE DEF drvVars, guestVars, pipes, ByReader
<1>1. ASSUME NEW at \in {"header", "body", "junk", "got", "failed"}, NEW f \in Up, Become(r, at, f), ByReader,
             stdout' \in Seq(Parts), torn' \in BOOLEAN
      PROVE  TypeOK'
  BY <1>1, BecomeTyped DEF TypeOK, Invoking
<1>2. NoFrame \in Up
  BY FramesTyped
<1>3. CASE ReadHeader(r) \/ ReadBody(r)
  <2>1. stdout # <<>> /\ stdout \in Seq(Parts)
    BY <1>3 DEF ReadHeader, ReadBody, TypeOK
  <2>2. Tail(stdout) \in Seq(Parts) /\ Head(stdout) \in Parts
    BY <2>1, TakenTyped
  <2>3. Head(stdout).f \in Up
    BY <2>2 DEF Parts
  <2> QED BY <1>1, <1>3, <2>2, <2>3 DEF ReadHeader, ReadBody, TypeOK
<1>4. CASE ReadTears(r) \/ ReadEOF(r)
  BY <1>1, <1>2, <1>4 DEF ReadTears, ReadEOF, TypeOK
<1>5. CASE ReadJunk(r)
  <2>1. PICK k \in 1 .. Len(stdout), at \in {"failed", "junk"} :
          stdout' = SubSeq(stdout, k + 1, Len(stdout)) /\ Become(r, at, NoFrame) /\ torn' \in BOOLEAN
    BY <1>5 DEF ReadJunk
  <2>2. stdout' \in Seq(Parts)
    BY <2>1 DEF TypeOK
  <2> QED BY <1>1, <1>2, <1>5, <2>1, <2>2 DEF ReadJunk
<1> QED BY <1>3, <1>4, <1>5 DEF Read

LEMMA GuestTyped ==
    ASSUME TypeOK, Guest
    PROVE  TypeOK'
<1> USE DEF drvVars, guestVars, pipes, ByGuest
<1>1. CASE GuestRead \/ GuestResult
  <2>1. stdin' \in Seq(Down) /\ Head(stdin) \in Down
    BY <1>1, TakenTyped DEF GuestRead, GuestResult, TypeOK
  <2> QED BY <1>1, <2>1 DEF GuestRead, GuestResult, TypeOK, Invoking, Down
<1>2. CASE GuestRefuse
  <2>1. stdin' \in Seq(Down)
    BY <1>2, TakenTyped DEF GuestRefuse, TypeOK
  <2>2. stdout' \in Seq(Parts)
    BY <1>2, WrittenTyped, FramesTyped DEF GuestRefuse, TypeOK
  <2> QED BY <1>2, <2>1, <2>2 DEF GuestRefuse, TypeOK, Invoking
<1>3. CASE GuestCall \/ GuestReply
  <2>1. calls + 1 \in Nat /\ stdout \in Seq(Parts)
    BY DEF TypeOK
  <2>2. HostRequest(calls + 1) \in Up /\ Reply \in Up
    BY <2>1, FramesTyped
  <2>3. Written(HostRequest(calls + 1)) \in Seq(Parts) /\ Written(Reply) \in Seq(Parts)
    BY <2>1, <2>2, WrittenTyped
  <2> QED BY <1>3, <2>1, <2>3 DEF GuestCall, GuestReply, TypeOK, Invoking
<1>4. CASE GuestEnd \/ GuestDies
  BY <1>4 DEF GuestEnd, GuestDies, TypeOK, Invoking
<1> QED BY <1>1, <1>2, <1>3, <1>4 DEF Guest

\* What a step of the driver writes down: nothing, or how its own step ended.
LEMMA DriverEnds ==
    ASSUME LaneInv, Driver
    PROVE  \/ UNCHANGED <<step, res, judged, gone>>
              /\ (Invoking' /\ ~Invoking => drv = "ask" /\ ~(step \in Checks /\ gone))
           \/ \E word \in Results \ {"none"} :
                /\ step \in Steps /\ Ends(word) /\ gone' = (gone \/ (word = "timeout" /\ step \in Checks))
                /\ \A s \in Steps \ {step} : judged'[s] = judged[s]
                /\ word \in {"pass", "wrong"} => judged'[step] = step
<1> USE DEF LaneInv
<1>1. CASE GotReply
  <2>1. step \in Steps /\ Mine.f \in Up /\ judged \in [Steps -> Nat]
    BY <1>1, MineTyped DEF GotReply, TypeOK, Invoking
  <2>2. CASE ~Echoes(Mine.f)
    <3>1. Ends("mismatch") /\ judged' = judged /\ gone' = gone
      BY <1>1, <2>2 DEF GotReply
    <3> QED BY <2>1, <3>1 DEF Results, TypeOK
  <2>3. CASE Echoes(Mine.f)
    <3>1. PICK word \in {"pass", "wrong"} : Ends(word)
      BY <1>1, <2>3 DEF GotReply
    <3>2. judged' = [judged EXCEPT ![step] = Mine.f.of] /\ gone' = gone
      BY <1>1, <2>3 DEF GotReply
    <3>3. Mine.f.of = step
      BY <1>1, <2>1, <2>3 DEF GotReply, Up, Echoes
    <3> QED BY <2>1, <3>1, <3>2, <3>3 DEF Results, TypeOK
  <2> QED BY <2>2, <2>3
<1>2. CASE NotAsked \/ AskFails \/ AskRefused \/ ReadFails \/ ServeFails \/ ServeRefused
  <2>1. step \in Steps /\ judged' = judged /\ gone' = gone
    BY <1>2 DEF NotAsked, AskFails, AskRefused, ReadFails, ServeFails, ServeRefused, Askable, Asking, TypeOK, Invoking
  <2>2. Ends("notasked") \/ Ends("broken") \/ Ends("unsent") \/ Ends("unserved")
    BY <1>2 DEF NotAsked, AskFails, AskRefused, ReadFails, ServeFails, ServeRefused
  <2> QED BY <2>1, <2>2 DEF Results, TypeOK
<1>3. CASE Timeout
  BY <1>3 DEF Timeout, TypeOK, Invoking, GoneNow, NoAnswer, Results
<1>4. CASE Ask \/ ReadFrame \/ GotCall \/ Serve \/ Close \/ Closed \/ Kill
  BY <1>4 DEF Ask, ReadFrame, GotCall, Serve, Close, Closed, Kill, Askable, Asking, Invoking
<1> QED BY <1>1, <1>2, <1>3, <1>4 DEF Driver, Moves

LEMMA OthersLeave ==
    ASSUME Guest \/ \E r \in 1 .. Len(readers) : Read(r)
    PROVE  UNCHANGED drvVars \/ UNCHANGED <<step, drv, res, judged, gone>>
<1> USE DEF drvVars, guestVars, ByGuest, ByReader
<1>1. CASE Guest
  BY <1>1 DEF Guest, GuestRead, GuestRefuse, GuestCall, GuestResult, GuestReply, GuestEnd, GuestDies
<1>2. CASE \E r \in 1 .. Len(readers) : Read(r)
  BY <1>2 DEF Read, ReadHeader, ReadBody, ReadTears, ReadJunk, ReadEOF
<1> QED BY <1>1, <1>2

LEMMA StepsKept ==
    ASSUME LaneInv, Next
    PROVE  StepsInOrder' /\ VerdictIsOwn' /\ Abandoned \subseteq Abandoned'
<1> USE DEF LaneInv
<1>1. CASE UNCHANGED <<step, drv, res, judged, gone>>
  BY <1>1 DEF StepsInOrder, VerdictIsOwn, Abandoned, Invoking
<1>2. CASE Driver
  <2>1. CASE UNCHANGED <<step, res, judged, gone>>
               /\ (Invoking' /\ ~Invoking => drv = "ask" /\ ~(step \in Checks /\ gone))
    BY <2>1 DEF StepsInOrder, VerdictIsOwn, Abandoned
  <2>2. ASSUME NEW word \in Results \ {"none"}, step \in Steps, Ends(word),
               gone' = (gone \/ (word = "timeout" /\ step \in Checks)),
               \A s \in Steps \ {step} : judged'[s] = judged[s],
               word \in {"pass", "wrong"} => judged'[step] = step
        PROVE  StepsInOrder' /\ VerdictIsOwn' /\ Abandoned \subseteq Abandoned'
    <3>1. /\ \A s \in Steps : res'[s] = IF s = step THEN word ELSE res[s]
          /\ step' = step + 1 /\ drv' = "ask" /\ step \in Nat
      BY <2>2, StepFacts DEF Ends, TypeOK
    <3>2. \A s \in Steps : s >= step => res[s] = "none"
      BY DEF StepsInOrder
    <3>3. StepsInOrder'
      <4>1. \A s \in Steps : s >= step' => res'[s] = "none"
        BY <3>1, <3>2, StepFacts
      <4>2. \A s \in Checks : res'[s] = "timeout" => gone'
        BY <2>2, <3>1, StepFacts DEF StepsInOrder
      <4> QED BY <3>1, <4>1, <4>2 DEF StepsInOrder, Invoking
    <3>4. VerdictIsOwn'
      BY <2>2, <3>1 DEF VerdictIsOwn
    <3>5. Abandoned \subseteq Abandoned'
      <4>1. res[step] = "none"
        BY <2>2, <3>1, <3>2
      <4> QED BY <3>1, <4>1 DEF Abandoned
    <3> QED BY <3>3, <3>4, <3>5
  <2> QED BY <1>2, <2>1, <2>2, DriverEnds
<1> QED BY <1>1, <1>2, OthersLeave DEF Next, Rest, vars, drvVars

----------------------------------------------------------------------------
(* Turns.                                                                  *)

\* Short sequences, taken from and added to.
LEMMA Short ==
    ASSUME NEW a, NEW b
    PROVE  /\ <<a>> # <<>> /\ Head(<<a>>) = a /\ Tail(<<a>>) = <<>> /\ Append(<<>>, a) = <<a>>
           /\ <<a, b>> # <<>> /\ Head(<<a, b>>) = a /\ Tail(<<a, b>>) = <<b>>
           /\ Append(<<a>>, b) = <<a, b>>
<1>1. <<a>> # <<>> /\ Head(<<a>>) = a /\ Tail(<<a>>) = <<>> /\ Append(<<>>, a) = <<a>>
  OBVIOUS
<1>2. <<a, b>> # <<>> /\ Head(<<a, b>>) = a
  OBVIOUS
<1>3. Tail(<<a, b>>) = <<b>>
  OBVIOUS
<1>4. Append(<<a>>, b) = <<a, b>>
  <2> DEFINE S == {a, b}
             s == Append(<<a>>, b)
             t == <<a, b>>
  <2>1. <<a>> \in Seq(S) /\ t \in Seq(S) /\ b \in S
    OBVIOUS
  <2>2. s \in Seq(S) /\ Len(s) = 2 /\ s[1] = a /\ s[2] = b
    BY <2>1
  <2>3. Len(t) = 2 /\ t[1] = a /\ t[2] = b
    OBVIOUS
  <2> HIDE DEF S, s, t
  <2>4. Len(s) = Len(t) /\ \A i \in 1 .. Len(s) : s[i] = t[i]
    <3>1. \A i \in 1 .. 2 : i = 1 \/ i = 2
      OBVIOUS
    <3> QED BY <2>2, <2>3, <3>1
  <2>5. s = t
    BY <2>1, <2>2, <2>4, SeqEqual
  <2> QED BY <2>5 DEF s, t
<1> QED BY <1>1, <1>2, <1>3, <1>4

\* Whose frame f is: the step's host call, its reply, or what a dead guest left.
OfStep(f) ==
    /\ f.of = step
    /\ \/ guest = "call" /\ of = step /\ stdin = <<>> /\ f.kind = "hostcall"
       \/ guest = "read" /\ stdin = <<>> /\ f.kind = "reply"
       \/ guest = "exit"

LEMMA FlightTurn ==
    ASSUME NEW f \in Up, OfStep(f), InFlight(f)
    PROVE  DriversTurn \/ NoTurn
  BY DEF OfStep, DriversTurn, NoTurn

\* What the driver's reader may find in the pipe.
LEMMA Unread ==
    ASSUME Sync, drv = "wait", Mine.at \notin {"got", "failed"}
    PROVE  \/ stdout = <<>> /\ Mine.at = "header"
           \/ \E f \in Up :
                /\ OfStep(f)
                /\ \/ stdout = <<[part |-> "header", f |-> f], [part |-> "body", f |-> f]>> /\ Mine.at = "header"
                   \/ stdout = <<[part |-> "body", f |-> f]>> /\ Mine.at = "body"
<1>1. GuestsTurn \/ DriversTurn \/ NoTurn
  BY DEF Sync, Invoking
<1>2. CASE stdout = <<>> /\ (Fresh \/ Mine.at = "failed")
  BY <1>2 DEF Fresh
<1>3. ASSUME NEW f \in Up, InFlight(f), OfStep(f)
      PROVE  \/ stdout = <<[part |-> "header", f |-> f], [part |-> "body", f |-> f]>> /\ Mine.at = "header"
             \/ stdout = <<[part |-> "body", f |-> f]>> /\ Mine.at = "body"
  <2>1. ~(Mine = [at |-> "got", f |-> f])
    OBVIOUS
  <2>2. Mine = [at |-> "body", f |-> f] => Mine.at = "body"
    OBVIOUS
  <2>3. Fresh => Mine.at = "header"
    BY DEF Fresh
  <2> QED BY <1>3, <2>1, <2>2, <2>3 DEF InFlight
<1>4. GuestsTurn => stdout = <<>> /\ Fresh
  BY DEF GuestsTurn
<1>5. DriversTurn \/ NoTurn => \/ stdout = <<>> /\ (Fresh \/ Mine.at = "failed")
                              \/ \E f \in Up : InFlight(f) /\ OfStep(f)
  BY DEF DriversTurn, NoTurn, OfStep
<1> QED BY <1>1, <1>2, <1>3, <1>4, <1>5

\* In step, the driver's reader is the only one there is.
LEMMA OneReader ==
    ASSUME TypeOK, Sync
    PROVE  /\ drv # "wait" => Reading = {}
           /\ drv = "wait" /\ Mine.at \in {"got", "failed"} => Reading = {}
           /\ \A r \in 1 .. Len(readers) : readers[r].at \notin {"got", "failed"} => r = Len(readers) /\ drv = "wait"
  BY DEF Sync, Reading, Mine

LEMMA DriverInStep ==
    ASSUME TypeOK, Sync, Driver, ~Timeout, ~ServeRefused
    PROVE  Sync'
<1> USE DEF drvVars, guestVars, pipes
<1>1. \A r \in Reading : r = Len(readers) /\ drv = "wait"
  BY DEF Sync
<1>2. CASE NotAsked \/ AskFails \/ AskRefused \/ Close \/ Closed \/ Kill
  <2>1. ~Invoking /\ ~Invoking' /\ UNCHANGED <<readers, torn, lost, served, stdin, stdout>>
        /\ guest' \in {guest, "exit"} /\ drv # "wait"
    BY <1>2 DEF NotAsked, AskFails, AskRefused, Close, Closed, Kill, Ends, Askable, Asking, Invoking
  <2> QED BY <1>1, <2>1 DEF Sync, Reading
<1>3. CASE Ask
  <2>1. /\ drv = "ask" /\ drv' = "read" /\ guest # "exit" /\ stdin' = Append(stdin, Request(step))
        /\ UNCHANGED <<step, readers, torn, lost, served, stdout, guest>>
    BY <1>3 DEF Ask, Askable, Asking
  <2>2. stdin = <<>> /\ stdout = <<>> /\ guest = "read"
    BY <2>1 DEF Sync, Invoking
  <2>3. stdin' = <<Request(step)>>
    BY <2>1, <2>2
  <2>4. GuestsTurn'
    BY <2>1, <2>2, <2>3 DEF GuestsTurn, Fresh, Request
  <2> QED BY <1>1, <2>1, <2>4 DEF Sync, Reading, Invoking
<1>4. CASE ReadFrame
  <2>1. /\ drv = "read" /\ drv' = "wait" /\ readers' = Append(readers, Begun)
        /\ UNCHANGED <<step, guest, of, stdin, stdout, torn, lost, served>>
    BY <1>4 DEF ReadFrame
  <2>2. /\ Len(readers) \in Nat /\ Len(readers') = Len(readers) + 1 /\ readers'[Len(readers) + 1] = Begun
        /\ \A r \in 1 .. Len(readers) : readers'[r] = readers[r]
    BY <2>1 DEF TypeOK
  <2>3. Mine' = Begun /\ Fresh' /\ Fresh
    BY <2>1, <2>2 DEF Mine, Fresh, Begun
  <2>4. \A f : InFlight(f) => InFlight(f)'
    BY <2>1, <2>3 DEF InFlight
  <2>5. GuestsTurn \/ DriversTurn \/ NoTurn => (GuestsTurn \/ DriversTurn \/ NoTurn)'
    BY <2>1, <2>3, <2>4 DEF GuestsTurn, DriversTurn, NoTurn, Request, HostReply
  <2>6. \A r \in Reading' : r = Len(readers')
    BY <1>1, <2>1, <2>2 DEF Reading
  <2> QED BY <2>1, <2>5, <2>6 DEF Sync, Invoking
\* The rest is done within Invoke.
<1>5. CASE ReadFails
  <2>1. /\ drv = "wait" /\ Mine.at = "failed" /\ ~Invoking'
        /\ UNCHANGED <<readers, torn, lost, served, stdin, stdout, guest>>
    BY <1>5 DEF ReadFails, Ends, Invoking
  <2>2. stdout = <<>> /\ guest = "exit"
    BY <2>1 DEF Sync, Invoking, GuestsTurn, DriversTurn, NoTurn, InFlight, Fresh
  <2>3. Reading' = {}
    BY <2>1, OneReader DEF Reading
  <2> QED BY <2>1, <2>2, <2>3 DEF Sync
<1>6. CASE GotCall
  <2>1. /\ drv = "wait" /\ drv' = "serve" /\ Mine.at = "got" /\ Mine.f.kind = "hostcall"
        /\ UNCHANGED <<step, guest, of, stdin, stdout, torn, lost, served, readers>>
    BY <1>6 DEF GotCall
  <2>2. \A f : InFlight(f) => InFlight(f)'
    BY <2>1 DEF InFlight, Fresh, Mine
  <2>3. DriversTurn \/ (NoTurn /\ \E f \in Up : f.of = step /\ InFlight(f))
    BY <2>1 DEF Sync, Invoking, GuestsTurn, NoTurn, Fresh
  <2>4. (DriversTurn \/ NoTurn)'
    BY <2>1, <2>2, <2>3 DEF DriversTurn, NoTurn
  <2>5. Reading' = {}
    BY <2>1, OneReader DEF Reading
  <2> QED BY <2>1, <2>4, <2>5 DEF Sync, Invoking
<1>7. CASE GotReply
  <2>1. /\ drv = "wait" /\ Mine.at = "got" /\ Mine.f.kind # "hostcall" /\ ~Invoking'
        /\ UNCHANGED <<readers, torn, lost, served, stdin, stdout, guest>>
    BY <1>7 DEF GotReply, Ends, Invoking
  <2>2. stdout = <<>> /\ (guest = "exit" \/ (guest = "read" /\ stdin = <<>>))
    BY <2>1 DEF Sync, Invoking, GuestsTurn, DriversTurn, NoTurn, InFlight, Fresh
  <2>3. Reading' = {}
    BY <2>1, OneReader DEF Reading
  <2> QED BY <2>1, <2>2, <2>3 DEF Sync
<1>8. CASE Serve \/ ServeFails
  <2>1. /\ drv = "serve" /\ served' = served \cup {<<Mine.f.of, step>>}
        /\ UNCHANGED <<readers, torn, lost, stdout, guest, of>>
    BY <1>8 DEF Serve, ServeFails
  <2>2. stdout = <<>> /\ Mine.f.of = step /\ Mine.f.kind = "hostcall"
    BY <2>1 DEF Sync, Invoking, GuestsTurn, DriversTurn, NoTurn, InFlight, Fresh
  <2>3. \A p \in served' : p[1] = p[2]
    BY <2>1, <2>2 DEF Sync
  <2>4. Reading' = {}
    BY <2>1, OneReader DEF Reading
  <2>5. CASE ServeFails
    BY <2>1, <2>2, <2>3, <2>4, <2>5 DEF Sync, ServeFails, Ends, Invoking
  <2>6. CASE Serve
    <3>1. /\ guest # "exit" /\ drv' = "read" /\ stdin' = Append(stdin, HostReply(Mine.f.id)) /\ step' = step
      BY <2>6 DEF Serve
    <3>2. guest = "call" /\ of = step /\ stdin = <<>>
      BY <2>1, <3>1 DEF Sync, Invoking, GuestsTurn, DriversTurn, NoTurn, InFlight, Fresh
    <3>3. stdin' = <<HostReply(Mine.f.id)>> /\ Mine.f.id \in Nat
      BY <2>1, <3>1, <3>2, MineTyped DEF Up
    <3>4. GuestsTurn'
      BY <2>1, <2>2, <3>1, <3>2, <3>3 DEF GuestsTurn, Fresh, HostReply
    <3> QED BY <2>1, <2>3, <2>4, <3>1, <3>4 DEF Sync, Invoking
  <2> QED BY <1>8, <2>5, <2>6
<1> QED BY <1>2, <1>3, <1>4, <1>5, <1>6, <1>7, <1>8 DEF Driver, Moves

LEMMA ReadInStep ==
    ASSUME TypeOK, Sync, NEW r \in 1 .. Len(readers), Read(r)
    PROVE  Sync'
<1> USE DEF drvVars, guestVars, pipes, ByReader
<1>1. UNCHANGED <<step, drv, guest, of, lost, stdin, served>>
  BY DEF Read, ReadHeader, ReadBody, ReadTears, ReadJunk, ReadEOF
<1>2. readers[r].at \notin {"got", "failed"}
  BY DEF Read, ReadHeader, ReadBody, ReadTears, ReadJunk, ReadEOF
<1>3. r = Len(readers) /\ drv = "wait" /\ Mine = readers[r] /\ Invoking /\ ~torn
  BY <1>2, OneReader DEF Mine, Invoking, Sync
<1>4. ASSUME NEW at \in {"header", "body", "junk", "got", "failed"}, NEW f \in Up, Become(r, at, f)
      PROVE  Mine' = [at |-> at, f |-> f] /\ \A q \in Reading' : q = Len(readers') /\ drv' = "wait"
  <2>1. /\ readers' \in Seq(Readers) /\ Len(readers') = Len(readers)
        /\ \A q \in 1 .. Len(readers) : readers'[q] = IF q = r THEN [at |-> at, f |-> f] ELSE readers[q]
    BY <1>4, BecomeTyped
  <2>2. Mine' = [at |-> at, f |-> f]
    BY <1>3, <2>1 DEF Mine
  <2> QED BY <1>1, <1>3, <2>1, <2>2 DEF Reading, Sync
<1>5. CASE ReadHeader(r)
  <2>1. /\ Mine.at = "header" /\ stdout # <<>> /\ Head(stdout).part = "header"
        /\ Become(r, "body", Head(stdout).f) /\ stdout' = Tail(stdout) /\ torn' = torn
    BY <1>3, <1>5 DEF ReadHeader
  <2>2. PICK f \in Up : OfStep(f) /\ stdout = <<[part |-> "header", f |-> f], [part |-> "body", f |-> f]>>
    BY <1>3, <2>1, Unread
  <2>3. stdout' = <<[part |-> "body", f |-> f]>> /\ Head(stdout).f = f
    BY <2>1, <2>2, Short
  <2>4. InFlight(f)' /\ \A q \in Reading' : q = Len(readers') /\ drv' = "wait"
    BY <1>1, <1>3, <1>4, <2>1, <2>3 DEF InFlight
  <2>5. (DriversTurn \/ NoTurn)'
    BY <1>1, <2>2, <2>4 DEF OfStep, DriversTurn, NoTurn
  <2> QED BY <1>1, <1>3, <2>1, <2>4, <2>5 DEF Sync, Invoking
<1>6. CASE ReadBody(r)
  <2>1. /\ Mine.at = "body" /\ stdout # <<>>
        /\ Become(r, "got", Head(stdout).f) /\ stdout' = Tail(stdout) /\ torn' = torn
    BY <1>3, <1>6 DEF ReadBody
  <2>2. PICK f \in Up : OfStep(f) /\ stdout = <<[part |-> "body", f |-> f]>>
    BY <1>3, <2>1, Unread
  <2>3. stdout' = <<>> /\ Head(stdout).f = f
    BY <2>1, <2>2, Short
  <2>4. InFlight(f)' /\ \A q \in Reading' : q = Len(readers') /\ drv' = "wait"
    BY <1>1, <1>3, <1>4, <2>1, <2>3 DEF InFlight
  <2>5. (DriversTurn \/ NoTurn)'
    BY <1>1, <2>2, <2>4 DEF OfStep, DriversTurn, NoTurn
  <2> QED BY <1>1, <1>3, <2>1, <2>4, <2>5 DEF Sync, Invoking
\* In step nothing is torn, and no reader takes a body for a header.
<1>7. ~ReadTears(r) /\ ~ReadJunk(r)
  <2>1. ~ReadTears(r)
    <3>1. SUFFICES ASSUME ReadTears(r) PROVE FALSE
      OBVIOUS
    <3>2. Mine.at = "header" /\ stdout # <<>> /\ Head(stdout).part = "body"
      BY <1>3, <3>1 DEF ReadTears
    <3>3. PICK f \in Up : stdout = <<[part |-> "header", f |-> f], [part |-> "body", f |-> f]>>
      BY <1>3, <3>2, Unread
    <3> QED BY <3>2, <3>3, Short
  <2>2. Mine.at # "junk"
    BY <1>3, Unread
  <2> QED BY <1>3, <2>1, <2>2 DEF ReadJunk
<1>8. CASE ReadEOF(r)
  <2>1. /\ Mine.at \in {"header", "body", "junk"} /\ stdout = <<>> /\ guest = "exit"
        /\ Become(r, "failed", NoFrame) /\ stdout' = stdout /\ torn' = torn
    BY <1>3, <1>8 DEF ReadEOF
  <2>2. Mine'.at = "failed" /\ \A q \in Reading' : q = Len(readers') /\ drv' = "wait"
    BY <1>4, <2>1, FramesTyped
  <2>3. NoTurn'
    BY <1>1, <1>3, <2>1, <2>2 DEF NoTurn
  <2> QED BY <1>1, <2>1, <2>2, <2>3 DEF Sync, Invoking
<1> QED BY <1>5, <1>6, <1>7, <1>8 DEF Read

LEMMA GuestInStep ==
    ASSUME TypeOK, Sync, Guest
    PROVE  Sync'
<1> USE DEF drvVars, guestVars, pipes, ByGuest
<1>1. /\ UNCHANGED <<step, drv, readers, served, eof, torn>> /\ (Invoking' <=> Invoking) /\ (Fresh' <=> Fresh)
      /\ \A r \in Reading' : r = Len(readers') /\ drv' = "wait"
  <2>1. UNCHANGED <<step, drv, readers, served, eof, torn>>
    BY DEF Guest, GuestRead, GuestRefuse, GuestCall, GuestResult, GuestReply, GuestEnd, GuestDies
  <2> QED BY <2>1 DEF Sync, Invoking, Fresh, Reading, Mine
<1>2. /\ ~Invoking => stdout = <<>> /\ (guest = "exit" \/ (guest = "read" /\ stdin = <<>>))
      /\ Invoking => GuestsTurn \/ DriversTurn \/ NoTurn
      /\ lost = {} /\ ~torn /\ \A p \in served : p[1] = p[2]
  BY DEF Sync
<1>r. \A s : Head(<<Request(s)>>).kind = "request" /\ Head(<<Request(s)>>).id = s /\ Tail(<<Request(s)>>) = <<>>
             /\ Head(<<HostReply(s)>>).kind = "hostreply" /\ Tail(<<HostReply(s)>>) = <<>>
  BY Short DEF Request, HostReply
\* It is the guest's turn whenever it does anything but die or come to the end.
<1>3. CASE GuestRead \/ GuestRefuse
  <2>1. guest = "read" /\ stdin # <<>>
    BY <1>3 DEF GuestRead, GuestRefuse
  <2>2. Invoking /\ GuestsTurn /\ stdin = <<Request(step)>> /\ stdout = <<>> /\ Fresh
    BY <1>2, <2>1 DEF GuestsTurn, DriversTurn, NoTurn
  <2>3. guest' = "run" /\ of' = step /\ stdin' = <<>> /\ stdout' = stdout /\ lost' = lost
    BY <1>3, <1>r, <2>2 DEF GuestRead, GuestRefuse
  <2>4. GuestsTurn'
    BY <1>1, <2>2, <2>3 DEF GuestsTurn
  <2> QED BY <1>1, <1>2, <2>2, <2>3, <2>4 DEF Sync
<1>4. CASE GuestCall \/ GuestReply
  <2>1. guest = "run" /\ UNCHANGED <<of, lost, stdin>>
    BY <1>4 DEF GuestCall, GuestReply
  <2>2. Invoking /\ stdin = <<>> /\ stdout = <<>> /\ Fresh /\ of = step
    BY <1>2, <2>1 DEF GuestsTurn, DriversTurn, NoTurn
  <2>3. PICK f \in Up : /\ stdout' = Written(f) /\ f.of = step
                        /\ \/ guest' = "call" /\ f.kind = "hostcall"
                           \/ guest' = "read" /\ f.kind = "reply"
    <3>1. calls + 1 \in Nat /\ of \in Nat
      BY DEF TypeOK
    <3>2. HostRequest(calls + 1) \in Up /\ Reply \in Up
      BY <3>1, FramesTyped
    <3> QED BY <1>4, <2>2, <3>2 DEF GuestCall, GuestReply, HostRequest, Reply
  <2>4. stdout' = <<[part |-> "header", f |-> f], [part |-> "body", f |-> f]>>
    BY <2>2, <2>3, Short DEF Written
  <2>5. DriversTurn'
    BY <1>1, <2>1, <2>2, <2>3, <2>4 DEF DriversTurn, InFlight
  <2> QED BY <1>1, <1>2, <2>1, <2>2, <2>5 DEF Sync
<1>5. CASE GuestResult
  <2>1. guest = "call" /\ stdin # <<>>
    BY <1>5 DEF GuestResult
  <2>2. Invoking /\ of = step /\ stdout = <<>> /\ Fresh /\ (\E k \in Nat : stdin = <<HostReply(k)>>)
    BY <1>2, <2>1 DEF GuestsTurn, DriversTurn, NoTurn
  <2>3. guest' = "run" /\ of' = step /\ stdin' = <<>> /\ stdout' = stdout /\ lost' = lost
    BY <1>5, <1>r, <2>2 DEF GuestResult
  <2>4. GuestsTurn'
    BY <1>1, <2>2, <2>3 DEF GuestsTurn
  <2> QED BY <1>1, <1>2, <2>2, <2>3, <2>4 DEF Sync
<1>6. CASE GuestEnd
  <2>1. ~Invoking /\ UNCHANGED <<stdin, stdout, lost>>
    BY <1>6 DEF GuestEnd, TypeOK, Invoking
  <2>2. guest' = "exit"
    BY <1>2, <1>6, <2>1 DEF GuestEnd
  <2> QED BY <1>1, <1>2, <2>1, <2>2 DEF Sync
<1>7. CASE GuestDies
  <2>1. guest # "exit" /\ guest' = "exit" /\ UNCHANGED <<of, lost, stdin, stdout>>
    BY <1>7 DEF GuestDies
  <2>2. \A f : InFlight(f) => InFlight(f)'
    BY <1>1, <2>1 DEF InFlight, Mine
  <2>3. Invoking => NoTurn'
    BY <1>1, <1>2, <2>1, <2>2 DEF GuestsTurn, DriversTurn, NoTurn
  <2> QED BY <1>1, <1>2, <2>1, <2>3 DEF Sync
<1> QED BY <1>3, <1>4, <1>5, <1>6, <1>7 DEF Guest

----------------------------------------------------------------------------
(* Blame.                                                                  *)

\* In step, a step is found broken only once the guest is gone, and no reply is
\* another step's.
LEMMA BrokenInStep ==
    ASSUME TypeOK, Sync, Driver, res' = [res EXCEPT ![step] = "broken"] \/ res' = [res EXCEPT ![step] = "mismatch"],
           step \in Steps, res[step] = "none"
    PROVE  guest = "exit"
<1>1. res'[step] \in {"broken", "mismatch"}
  BY DEF TypeOK
<1>2. \A word : Ends(word) => res'[step] = word
  BY DEF Ends, TypeOK
<1>3. AskFails \/ ReadFails \/ ServeFails \/ GotReply
  BY <1>1, <1>2 DEF Driver, Moves, NotAsked, AskRefused, ServeRefused, Timeout, NoAnswer, Ask, ReadFrame, GotCall, Serve, Close, Closed, Kill
<1>4. CASE AskFails \/ ServeFails
  BY <1>4 DEF AskFails, ServeFails
<1>5. CASE ReadFails
  BY <1>5 DEF ReadFails, Sync, Invoking, GuestsTurn, DriversTurn, NoTurn, InFlight, Fresh
<1>6. CASE GotReply
  <2>1. drv = "wait" /\ Mine.at = "got" /\ Mine.f.kind # "hostcall"
    BY <1>6 DEF GotReply
  <2>2. Mine.f \in Up /\ Mine.f.of = step
    BY <2>1, MineTyped DEF Sync, Invoking, GuestsTurn, DriversTurn, NoTurn, InFlight, Fresh
  <2>3. Echoes(Mine.f)
    BY <2>1, <2>2 DEF Up, Echoes
  <2> QED BY <1>1, <1>2, <1>6, <2>3 DEF GotReply
<1> QED BY <1>3, <1>4, <1>5, <1>6

LEMMA GuestStaysGone == ASSUME Next, guest = "exit" PROVE guest' = "exit"
<1> USE DEF drvVars, guestVars, pipes, ByGuest, ByReader
<1>1. CASE Driver
  BY <1>1 DEF Driver, Moves, NotAsked, Ask, AskFails, AskRefused, ReadFrame, ReadFails, GotCall, GotReply, Serve, ServeFails,
     ServeRefused, Timeout,
     Close, Closed, Kill
<1>2. CASE Guest
  BY <1>2 DEF Guest, GuestRead, GuestRefuse, GuestCall, GuestResult, GuestReply, GuestEnd, GuestDies
<1>3. CASE \E r \in 1 .. Len(readers) : Read(r)
  BY <1>3 DEF Read, ReadHeader, ReadBody, ReadTears, ReadJunk, ReadEOF
<1> QED BY <1>1, <1>2, <1>3 DEF Next, Rest, vars

\* A step that was abandoned stays so.
LEMMA StepsStay ==
    ASSUME LaneInv, Next
    PROVE  \A t \in Abandoned : res'[t] = res[t]
<1> USE DEF LaneInv
<1>1. SUFFICES ASSUME NEW t \in Abandoned, res'[t] # res[t] PROVE FALSE
  OBVIOUS
<1>2. Driver
  BY <1>1, OthersLeave DEF Next, Rest, vars, drvVars
<1>3. PICK word \in Results \ {"none"} : step \in Steps /\ Ends(word)
  BY <1>1, <1>2, DriverEnds
<1>4. t = step /\ res[step] = "none"
  BY <1>1, <1>3, StepFacts DEF Ends, TypeOK, StepsInOrder, Abandoned
<1> QED BY <1>1, <1>4 DEF Abandoned

LEMMA BlameKept ==
    ASSUME LaneInv, Next
    PROVE  BlameIsEarned'
<1> USE DEF LaneInv
<1>0. Abandoned \subseteq Abandoned' /\ (guest = "exit" => guest' = "exit")
  BY StepsKept, GuestStaysGone
<1>1. SUFFICES ASSUME NEW s \in Checks, res'[s] \in {"mismatch", "broken"},
                      \A t \in Abandoned' : t < s => t \in Checks /\ res'[t] # "unserved"
               PROVE  guest' = "exit"
  BY DEF BlameIsEarned
<1>2. s \in Steps
  BY StepFacts
<1>3. CASE res'[s] = res[s]
  <2>1. \A t \in Abandoned : res'[t] = res[t]
    BY StepsStay
  <2> QED BY <1>0, <1>1, <1>3, <2>1 DEF BlameIsEarned
<1>4. CASE res'[s] # res[s]
  <2>1. Driver
    BY <1>4, OthersLeave DEF Next, Rest, vars, drvVars
  <2>2. PICK word \in Results \ {"none"} : step \in Steps /\ Ends(word)
    BY <1>4, <2>1, DriverEnds
  <2>3. s = step /\ word = res'[s] /\ res' = [res EXCEPT ![step] = word] /\ res[step] = "none"
    BY <1>2, <1>4, <2>2, StepFacts DEF Ends, TypeOK, StepsInOrder
  \* A check that was asked: no earlier one timed out.
  <2>4. ~gone
    <3>1. ~NotAsked
      BY <1>1, <2>3, StepFacts DEF NotAsked, Ends, TypeOK
    <3> QED BY <2>1, <2>2, <2>3, <3>1 DEF StepsInOrder, Invoking, Driver, Moves, AskFails, AskRefused, Askable, Asking,
          ReadFails, GotReply, ServeFails, ServeRefused, Timeout, Ask, ReadFrame, GotCall, Serve, Close, Closed, Kill, Ends
  <2>5. Abandoned = {}
    <3>1. SUFFICES ASSUME NEW t \in Steps, res[t] \in {"timeout", "unserved"} PROVE FALSE
      BY DEF Abandoned
    <3>2. t < step /\ t \in Abandoned'
      BY <1>0, <2>2, <3>1, StepFacts DEF StepsInOrder, Abandoned
    <3>3. t \in Checks /\ res[t] = "timeout"
      BY <1>1, <2>3, <3>1, <3>2, StepsStay DEF Abandoned
    <3> QED BY <2>4, <3>3 DEF StepsInOrder
  <2>6. Sync
    BY <2>5 DEF InStep
  <2> QED BY <1>0, <1>1, <2>1, <2>2, <2>3, <2>6, BrokenInStep
<1> QED BY <1>3, <1>4

----------------------------------------------------------------------------
(* The theorems.                                                           *)

LEMMA LaneStutters == ASSUME LaneInv, UNCHANGED vars PROVE LaneInv'
<1> USE DEF vars, drvVars, guestVars, pipes, LaneInv
<1>1. TypeOK' /\ StepsInOrder' /\ VerdictIsOwn' /\ BlameIsEarned'
  BY DEF TypeOK, StepsInOrder, VerdictIsOwn, BlameIsEarned, Abandoned, Invoking
<1>2. InStep'
  BY DEF InStep, Sync, Abandoned, Reading, Invoking, GuestsTurn, DriversTurn, NoTurn, InFlight, Fresh, Mine, Request, HostReply
<1> QED BY <1>1, <1>2

\* LaneInv is kept by every step of the driver, the guest and the readers.
LEMMA LaneNext == LaneInv /\ [Next]_vars => LaneInv'
<1> SUFFICES ASSUME LaneInv, [Next]_vars PROVE LaneInv'
  OBVIOUS
<1> USE DEF LaneInv
<1>1. CASE UNCHANGED vars
  BY <1>1, LaneStutters
<1>2. CASE Driver \/ Guest \/ \E r \in 1 .. Len(readers) : Read(r)
  <2>1. Next
    BY <1>2 DEF Next
  <2>2. TypeOK'
    BY <1>2, DriverTyped, GuestTyped, ReadTyped
  <2>3. StepsInOrder' /\ VerdictIsOwn' /\ BlameIsEarned' /\ Abandoned \subseteq Abandoned'
    BY <2>1, StepsKept, BlameKept
  <2>4. InStep'
    <3>1. SUFFICES ASSUME Abandoned' = {} PROVE Sync'
      BY DEF InStep
    <3>2. Sync
      BY <2>3, <3>1 DEF InStep
    <3>3. ~Timeout /\ ~ServeRefused
      <4>1. SUFFICES ASSUME Timeout \/ ServeRefused PROVE FALSE
        OBVIOUS
      <4>2. step \in Steps /\ res'[step] \in {"timeout", "unserved"}
        BY <4>1 DEF Timeout, ServeRefused, TypeOK, Invoking, Ends, NoAnswer
      <4> QED BY <3>1, <4>2 DEF Abandoned
    <3> QED BY <1>2, <3>2, <3>3, DriverInStep, GuestInStep, ReadInStep
  <2> QED BY <2>2, <2>3, <2>4
<1> QED BY <1>1, <1>2 DEF Next, Rest

\* Where the driver, its readers and the guest are, and what is in the pipes between them,
\* agree in every reachable state, until a read timed out or WriteFrame refused a reply to a
\* host call (Invoke, answer and readFrame of workerdrive/drive.go, Plugin.serve of serve.go).
THEOREM LaneInvariant == Spec => []LaneInv
  BY InitLane, LaneNext, PTL DEF Spec

\* The types of the lane: what goes to the guest is a request or a reply to a host call,
\* what comes from it a host call or a reply that names the request it is of.
THEOREM LaneTyped == Spec => []TypeOK
<1>1. LaneInv => TypeOK
  BY DEF LaneInv
<1> QED BY <1>1, LaneInvariant, PTL

\* decodeReply compares the reply's id with the step's: whatever abandoned readers and
\* late replies there are, a verdict is on the guest's answer to the step's own request.
THEOREM VerdictsAreOwn == Spec => []VerdictIsOwn
<1>1. LaneInv => VerdictIsOwn
  BY DEF LaneInv
<1> QED BY <1>1, LaneInvariant, PTL

\* Until a step has timed out, or its host call was left without a reply that is too large
\* to send, readFrame has one goroutine on the pipe, no byte of it is taken for another, no
\* request for a reply, and each host call is served in the step that made it.
THEOREM StaysInStep == Spec => []LaneInStep
<1>1. LaneInv => LaneInStep
  BY DEF LaneInv, InStep, Sync, LaneInStep
<1> QED BY <1>1, LaneInvariant, PTL

\* A run of `aiisdk test` that passes has served every host call in its own step, lost no
\* request and left no goroutine in readFrame.
THEOREM PassesAreClean == Spec => []PassIsClean
<1>1. LaneInv => PassIsClean
  <2> SUFFICES ASSUME LaneInv, Passed
               PROVE  (\A p \in served : p[1] = p[2]) /\ lost = {} /\ Reading = {}
    BY DEF PassIsClean
  <2>1. Abandoned = {} /\ drv = "exited"
    BY DEF Passed, Abandoned
  <2> QED BY <2>1 DEF LaneInv, InStep, Sync
<1> QED BY <1>1, LaneInvariant, PTL

\* runChecks stops asking at the first check that times out: one that is reported as
\* answered by something else, or not at all though its frames were sent, had a guest that
\* was gone, or follows a case that was abandoned or a check whose host call was.
THEOREM BlameEarned == Spec => []BlameIsEarned
<1>1. LaneInv => BlameIsEarned
  BY DEF LaneInv
<1> QED BY <1>1, LaneInvariant, PTL
=============================================================================

------------------------- MODULE SessionLaneProofs -------------------------
(***************************************************************************)
(* Proofs about SessionLane, for any number of controls, calls, events and *)
(* flushes and any capacities.                                             *)
(*                                                                         *)
(* Type correctness stands alone.  The safety properties rest on one       *)
(* inductive invariant, LaneInv: each frame has one place in the log, and  *)
(* what its caller was told, who claimed it and how far the writer got     *)
(* with it agree.  What the lane serves its host - the admission slots,    *)
(* the room kept for replies and what a clean return of serveSession       *)
(* means - rests on three more: Admission, where each control is between   *)
(* stdin and its handler; Room, what fills outQ and who holds a slot; and  *)
(* Ending, the order in which the goroutines of a lane stop.               *)
(***************************************************************************)
EXTENDS SessionLane, FiniteSetTheorems, TLAPS

----------------------------------------------------------------------------
(* The inductive invariant.                                                *)

\* A frame the writer has not tried to claim yet.
Unclaimed(i) == i > taken \/ (i = taken /\ wr \in {"release", "announce", "claim"})
\* A frame the writer is through with.
Past(i) == i < taken \/ (i = taken /\ wr \in {"after", "idle", "exit"})

\* The operation that owns the frame has queued it, and will not again.
Owned(x) ==
    /\ x \in Senders => snd[x] \in {"sent", "await", "leave", "returned", "accepted"}
    /\ x \in Controls => x \in answered /\ \A a \in Answerers : ans[<<x, a>>] # "respond"

\* Each frame is queued once.
LogOwned ==
    /\ \A i, j \in 1..Len(log) : log[i] = log[j] => i = j
    /\ \A i \in 1..Len(log) : Owned(log[i])
    /\ \A k \in Controls : \A a, b \in Answerers :
         ans[<<k, a>>] = "respond" => k \in answered /\ (ans[<<k, b>>] = "respond" => a = b)
    /\ \A e \in Events : snd[e] \in {"idle", "retry", "wait", "accepted", "refused"}

\* What each host call was told, against where it is.
CallsTold ==
    \A c \in Calls : /\ out[c] # "none" <=> snd[c] \in {"leave", "returned"}
                     /\ snd[c] = "await" => done[c] = "nil"
                     /\ out[c] = "Answered" => c \in wire
                     /\ done[c] # "none" => c \in claimed
                     /\ done[c] = "nil" => c \in wire
                     /\ done[c] = "notsent" => c \notin touched
                     /\ out[c] = "NotSent" => c \notin touched

\* Bytes follow the claim, whole frames follow their first byte, and a call
\* reported not sent keeps the writer off its frame, if it ever queued one.
Claims ==
    /\ wire \subseteq touched /\ touched \subseteq claimed
    /\ \A x \in claimed : Owned(x)
    /\ \A i \in 1..Len(log) : log[i] \in Calls /\ out[log[i]] = "NotSent" => log[i] \in claimed

\* Before the writer's own claim only a withdrawal can have claimed a frame,
\* and the writer reports on a frame last.
Unwritten ==
    \A i \in 1..Len(log) :
      /\ Unclaimed(i) => log[i] \notin touched
      /\ Unclaimed(i) /\ log[i] \in claimed => log[i] \in Calls /\ out[log[i]] = "NotSent"
      /\ log[i] \in Calls /\ ~Past(i) => done[log[i]] = "none"

\* The frame in the writer's hands.
AtWriter ==
    /\ wr \in {"check", "write", "torn", "failed"} => owed
    /\ wr = "check" => /\ Cur \in claimed /\ Cur \notin touched
                       /\ Cur \in Calls => out[Cur] # "NotSent"
    /\ wr \in {"write", "written", "torn", "failed"} => Cur \in touched
    /\ wr = "written" => Cur \in wire /\ ~owed
    /\ wr = "after" /\ ~owed => Accounted(Cur)

\* A frame written in part leaves a fault behind.
TornIsFault ==
    /\ \A i \in 1..taken : log[i] \in touched /\ log[i] \notin wire
                             => fault # "none" \/ (i = taken /\ wr = "write")
    /\ wr \in {"torn", "failed"} => fault # "none"

\* Session.wrote counts a prefix of accounted frames, and Flush compares with it.
WrotePrefix ==
    /\ \A i \in 1..wrote : Accounted(log[i])
    /\ wr \notin {"idle", "exit"} => wrote < taken
    /\ \A f \in Flushes : fl[f] = "ok" => target[f] <= wrote

LaneInv == /\ LogOwned /\ CallsTold /\ Claims /\ Unwritten /\ AtWriter
           /\ TornIsFault /\ StreamStaysFramed /\ WrotePrefix

----------------------------------------------------------------------------
(* Type correctness.                                                       *)

\* The frame the writer works on is one that was queued.
LEMMA CurIsFrame == TypeOK /\ wr \notin {"idle", "exit"} => Cur \in Frames
  BY DEF TypeOK, Cur

LEMMA TypeInit == Init => TypeOK
  <1> SUFFICES ASSUME Init PROVE TypeOK
  OBVIOUS
<1>1. /\ log \in Seq(Frames) /\ taken \in 0..Len(log) /\ wrote \in 0..taken
      /\ target \in [Flushes -> 0..Len(log)]
  BY DEF Init, InitLane
<1>2. admitCh \in Seq(Controls) /\ Len(admitCh) <= AdmitQueue
  BY LaneAssumption DEF Init, InitLane
<1>3. /\ snd \in [Senders -> SendStates] /\ out \in [Calls -> Outcomes]
      /\ ans \in [Answers -> {"idle", "respond", "done"}]
  BY DEF Init, InitLane, SendStates, Outcomes
<1>4. /\ admitClosed \in BOOLEAN /\ closed \in BOOLEAN /\ outClosed \in BOOLEAN
      /\ settled \in BOOLEAN /\ owed \in BOOLEAN /\ sawRead \in BOOLEAN
      /\ intr \in BOOLEAN /\ retErr \in BOOLEAN
  BY DEF Init, InitLane
<1> QED
  BY <1>1, <1>2, <1>3, <1>4 DEF Init, InitLane, TypeOK, Faults

LEMMA TypeStep == TypeOK /\ [Next]_vars => TypeOK'
<1> SUFFICES ASSUME TypeOK, [Next]_vars PROVE TypeOK'
  OBVIOUS
<1> USE LaneAssumption DEF SendStates, vars, outVars, endVars, admVars, rdVars, ansVars, wrVars,
                           mnVars, callVars, flVars, Senders, ending, written, ByReader,
                           ByAdmission, ByAnswer, ByWriter, ByMain, BySender, ByFlush,
                           End, Announce
<1>1. CASE ReaderFault
  BY <1>1 DEF ReaderFault, TypeOK
<1>2. CASE ReaderRead
  BY <1>2 DEF ReaderRead, TypeOK
<1>3. CASE ReaderClose
  BY <1>3 DEF ReaderClose, TypeOK
<1>4. CASE ReaderReport
  BY <1>4 DEF ReaderReport, TypeOK
<1>5. CASE AdmitTake
  BY <1>5 DEF AdmitTake, TypeOK
<1>6. CASE AdmitStop
  BY <1>6 DEF AdmitStop, TypeOK
<1>7. CASE AdmitClosed
  BY <1>7 DEF AdmitClosed, TypeOK
<1>8. CASE AdmitOne
  BY <1>8 DEF AdmitOne, TypeOK
<1>9. CASE AdmitRefused
  BY <1>9 DEF AdmitRefused, TypeOK, Faulted, Faults
<1>10. CASE AdmitEnd
  BY <1>10 DEF AdmitEnd, TypeOK
<1>11. CASE HandlerReturns
  BY <1>11 DEF HandlerReturns, TypeOK
<1>12. CASE WriterTake
  BY <1>12 DEF WriterTake, TypeOK, QLen
<1>13. CASE WriterMode
  BY <1>13 DEF WriterMode, TypeOK
<1>14. CASE WriterExit
  BY <1>14 DEF WriterExit, TypeOK
<1>15. CASE WriterRelease
  BY <1>15 DEF WriterRelease, TypeOK, Releases
<1>16. CASE WriterAnnounce
  BY <1>16 DEF WriterAnnounce, TypeOK, Waiters
<1>17. CASE WriterClaim
  <2>1. Cur \in Frames
    BY <1>17, CurIsFrame DEF WriterClaim
  <2>2. owed' \in BOOLEAN
    BY <1>17 DEF WriterClaim
  <2> QED
    BY <1>17, <2>1, <2>2 DEF WriterClaim, TypeOK
<1>18. CASE WriterRefuse
  BY <1>18 DEF WriterRefuse, TypeOK, Cur, Done
<1>19. CASE WriterBegin
  BY <1>19, CurIsFrame DEF WriterBegin, TypeOK, Cur
<1>20. CASE WriterWrite
  <2>1. Cur \in Frames
    BY <1>20, CurIsFrame DEF WriterWrite
  <2>2. owed' \in BOOLEAN
    BY <1>20 DEF WriterWrite
  <2> QED
    BY <1>20, <2>1, <2>2 DEF WriterWrite, TypeOK
<1>21. CASE WriterFail
  BY <1>21 DEF WriterFail, TypeOK, Faulted, Faults
<1>22. CASE WriterEnd
  BY <1>22 DEF WriterEnd, TypeOK
<1>23. CASE WriterReport
  BY <1>23 DEF WriterReport, TypeOK, Cur, Done
<1>24. CASE WriterAfter
  BY <1>24 DEF WriterAfter, TypeOK, Advances, Waiters
<1>25. CASE MainReadDone
  BY <1>25 DEF MainReadDone, TypeOK
<1>26. CASE MainClosed
  BY <1>26 DEF MainClosed, TypeOK
<1>27. CASE MainEnd
  BY <1>27 DEF MainEnd, TypeOK
<1>28. CASE Settle
  BY <1>28 DEF Settle, TypeOK
<1>29. CASE MainProceed
  BY <1>29 DEF MainProceed, TypeOK
<1>30. CASE MainTimeout
  BY <1>30 DEF MainTimeout, TypeOK, Faulted, Faults
<1>31. CASE MainReturn
  BY <1>31 DEF MainReturn, TypeOK
<1>32. ASSUME NEW c \in Calls, ReadReply(c) PROVE TypeOK'
  BY <1>32 DEF ReadReply, TypeOK
<1>33. ASSUME NEW k \in Controls, ReadControl(k) PROVE TypeOK'
  <2>1. CASE AdmitRoom
    <3>1. admitCh' = Append(admitCh, k) /\ rd' = "loop" /\ readErr' = readErr
      BY <1>33, <2>1 DEF ReadControl, TypeOK
    <3>2. admitCh' \in Seq(Controls) /\ Len(admitCh') <= AdmitQueue
      BY <3>1, <2>1 DEF TypeOK, AdmitRoom
    <3> QED
      BY <1>33, <3>1, <3>2 DEF ReadControl, TypeOK
  <2>2. CASE ~AdmitRoom
    BY <1>33, <2>2 DEF ReadControl, TypeOK
  <2> QED
    BY <2>1, <2>2
<1>34. ASSUME NEW x \in Answers, Answer(x) PROVE TypeOK'
  BY <1>34 DEF Answer, TypeOK, Answers
<1>35. ASSUME NEW x \in Answers, Respond(x) PROVE TypeOK'
  BY <1>35 DEF Respond, TypeOK, Answers, ReplyRefused, QLen, OutQueue, Faults, Frames
<1>36. ASSUME NEW x \in Senders, EnqueueStop(x) PROVE TypeOK'
  BY <1>36 DEF EnqueueStop, TypeOK, GiveUp, Outcomes
<1>37. ASSUME NEW x \in Senders, Enqueue(x) PROVE TypeOK'
  BY <1>37 DEF Enqueue, TypeOK, Frames
<1>38. ASSUME NEW x \in Senders, EnqueueWait(x) PROVE TypeOK'
  BY <1>38 DEF EnqueueWait, TypeOK, Waiters
<1>39. ASSUME NEW x \in Senders, EnqueueWake(x) PROVE TypeOK'
  BY <1>39 DEF EnqueueWake, TypeOK
<1>40. ASSUME NEW c \in Calls, CallRegister(c) PROVE TypeOK'
  BY <1>40 DEF CallRegister, TypeOK
<1>41. ASSUME NEW c \in Calls, CallTooMany(c) PROVE TypeOK'
  BY <1>41 DEF CallTooMany, TypeOK, Returns, Outcomes
<1>42. ASSUME NEW c \in Calls, CallBadOp(c) PROVE TypeOK'
  BY <1>42 DEF CallBadOp, TypeOK, Returns, Outcomes
<1>43. ASSUME NEW c \in Calls, CallWritten(c) PROVE TypeOK'
  <2>1. snd' \in [Senders -> SendStates]
    BY <1>43 DEF CallWritten, TypeOK, Returns
  <2>2. out' \in [Calls -> Outcomes]
    BY <1>43 DEF CallWritten, TypeOK, Returns, Outcomes
  <2> QED
    BY <1>43, <2>1, <2>2 DEF CallWritten, TypeOK
<1>44. ASSUME NEW c \in Calls, CallInterrupted(c) PROVE TypeOK'
  <2>1. snd' = [snd EXCEPT ![c] = "leave"] /\ out' \in [Calls -> Outcomes]
    BY <1>44 DEF CallInterrupted, TypeOK, Returns, Outcomes
  <2>2. claimed' \subseteq Frames
    BY <1>44 DEF CallInterrupted, TypeOK, Frames
  <2> QED
    BY <1>44, <2>1, <2>2 DEF CallInterrupted, TypeOK
<1>45. ASSUME NEW c \in Calls, CallAnswered(c) PROVE TypeOK'
  BY <1>45 DEF CallAnswered, TypeOK, Returns, Outcomes
<1>46. ASSUME NEW c \in Calls, CallAbandoned(c) PROVE TypeOK'
  BY <1>46 DEF CallAbandoned, TypeOK, Returns, Outcomes
<1>47. ASSUME NEW c \in Calls, CallLeave(c) PROVE TypeOK'
  BY <1>47 DEF CallLeave, TypeOK
<1>48. ASSUME NEW f \in Flushes, FlushStart(f) PROVE TypeOK'
  BY <1>48 DEF FlushStart, TypeOK
<1>49. ASSUME NEW f \in Flushes, FlushCheck(f) PROVE TypeOK'
  <2>1. CASE wrote >= target[f]
    BY <1>49, <2>1 DEF FlushCheck, TypeOK
  <2>2. CASE wrote < target[f]
    BY <1>49, <2>2 DEF FlushCheck, TypeOK
  <2> QED
    BY <1>49, <2>1, <2>2 DEF FlushCheck
<1>50. ASSUME NEW f \in Flushes, FlushLook(f) PROVE TypeOK'
  BY <1>50 DEF FlushLook, TypeOK
<1>51. ASSUME NEW f \in Flushes, FlushWake(f) PROVE TypeOK'
  BY <1>51 DEF FlushWake, TypeOK
<1>52. ASSUME NEW f \in Flushes, FlushCancelled(f) PROVE TypeOK'
  BY <1>52 DEF FlushCancelled, TypeOK
<1>53. ASSUME NEW err \in {"none", "error"}, ReadEnd(err) PROVE TypeOK'
  BY <1>53 DEF ReadEnd, TypeOK
<1>54. CASE UNCHANGED vars
  BY <1>54 DEF TypeOK
<1> QED
  BY <1>1, <1>2, <1>3, <1>4, <1>5, <1>6, <1>7, <1>8, <1>9, <1>10, <1>11, <1>12, <1>13, <1>14,
     <1>15, <1>16, <1>17, <1>18, <1>19, <1>20, <1>21, <1>22, <1>23, <1>24, <1>25, <1>26, <1>27,
     <1>28, <1>29, <1>30, <1>31, <1>32, <1>33, <1>34, <1>35, <1>36, <1>37, <1>38, <1>39, <1>40,
     <1>41, <1>42, <1>43, <1>44, <1>45, <1>46, <1>47, <1>48, <1>49, <1>50, <1>51, <1>52, <1>53,
     <1>54
  DEF Next, ReaderStep, ReadStep, AdmitStep, WriterStep, PipeStep, MainStep, AnswerStep,
      SendStep, CallStep, FlushStep, Returned

\* Every reachable state has the types, capacities and counter ranges of
\* TypeOK.
THEOREM TypeCorrect == Spec => []TypeOK
  BY TypeInit, TypeStep, PTL DEF Spec

----------------------------------------------------------------------------
(* The inductive invariant is preserved.                                   *)

\* What the proofs below use of TypeOK.
LaneTypes ==
    /\ log \in Seq(Frames) /\ taken \in 0..Len(log) /\ wrote \in 0..taken
    /\ claimed \subseteq Frames /\ touched \subseteq Frames /\ wire \subseteq Frames
    /\ done \in [Calls -> {"none", "nil", "notsent", "failed"}]
    /\ ans \in [Answers -> {"idle", "respond", "done"}]
    /\ wr \notin {"idle", "exit"} => taken > 0
    /\ snd \in [Senders -> SendStates] /\ out \in [Calls -> Outcomes]
    /\ fl \in [Flushes -> {"idle", "check", "look", "wait", "ok", "ended", "unknown"}]
    /\ target \in [Flushes -> 0..Len(log)]

\* The variables LaneInv speaks about, but for the fault, which only counts
\* as present or absent.
laneVars == <<log, taken, wrote, claimed, done, touched, wire, answered, ans, wr, owed, snd, out,
              fl, target>>

\* The steps of the reader, of admission, of the serving goroutine and of the
\* writer's loop leave LaneInv alone.
LEMMA QuietStep ==
    ASSUME LaneInv, UNCHANGED laneVars, fault # "none" => fault' # "none"
    PROVE  LaneInv'
  BY DEF LaneInv, laneVars, LogOwned, CallsTold, Claims, Unwritten, AtWriter, TornIsFault,
     StreamStaysFramed, WrotePrefix, Owned, Unclaimed, Owned,
         Past, Cur, Accounted

LEMMA LaneInit == Init => LaneInv
  BY LaneAssumption DEF Init, InitLane, LaneInv, LogOwned, CallsTold, Claims, Unwritten, AtWriter,
     TornIsFault, StreamStaysFramed, WrotePrefix,
         Owned, Unclaimed, Past, Cur, Accounted, Answers, Senders

LEMMA LaneStep == TypeOK /\ TypeOK' /\ LaneInv /\ [Next]_vars => LaneInv'
<1> SUFFICES ASSUME TypeOK, TypeOK', LaneInv, [Next]_vars PROVE LaneInv'
  OBVIOUS
<1>t. LaneTypes /\ LaneTypes'
  BY DEF TypeOK, LaneTypes
<1>i. /\ LogOwned /\ CallsTold /\ Claims /\ Unwritten /\ AtWriter
      /\ TornIsFault /\ StreamStaysFramed /\ WrotePrefix
  BY DEF LaneInv
<1> USE DEF outVars, endVars, admVars, rdVars, ansVars, wrVars, mnVars, callVars, flVars,
            ending, written, ByReader, ByAdmission, ByAnswer, ByWriter, ByMain, BySender,
            ByFlush, End, Announce
<1>q. ASSUME UNCHANGED laneVars, fault # "none" => fault' # "none" PROVE LaneInv'
  BY <1>q, QuietStep
<1>1. CASE ReaderFault
  BY <1>1, <1>q DEF ReaderFault, laneVars
<1>2. CASE ReaderRead
  BY <1>2, <1>q DEF ReaderRead, laneVars
<1>3. CASE ReaderClose
  BY <1>3, <1>q DEF ReaderClose, laneVars
<1>4. CASE ReaderReport
  BY <1>4, <1>q DEF ReaderReport, laneVars
<1>5. CASE AdmitTake
  BY <1>5, <1>q DEF AdmitTake, laneVars
<1>6. CASE AdmitStop
  BY <1>6, <1>q DEF AdmitStop, laneVars
<1>7. CASE AdmitClosed
  BY <1>7, <1>q DEF AdmitClosed, laneVars
<1>8. CASE AdmitOne
  BY <1>8, <1>q DEF AdmitOne, laneVars
<1>9. CASE AdmitRefused
  BY <1>9, <1>q DEF AdmitRefused, laneVars, Faulted
<1>10. CASE AdmitEnd
  BY <1>10, <1>q DEF AdmitEnd, laneVars
<1>11. CASE HandlerReturns
  BY <1>11, <1>q DEF HandlerReturns, laneVars
<1>12. CASE WriterMode
  BY <1>12, <1>q DEF WriterMode, laneVars
<1>13. CASE MainReadDone
  BY <1>13, <1>q DEF MainReadDone, laneVars
<1>14. CASE MainClosed
  BY <1>14, <1>q DEF MainClosed, laneVars
<1>15. CASE MainEnd
  BY <1>15, <1>q DEF MainEnd, laneVars
<1>16. CASE Settle
  BY <1>16, <1>q DEF Settle, laneVars
<1>17. CASE MainProceed
  BY <1>17, <1>q DEF MainProceed, laneVars
<1>18. CASE MainTimeout
  BY <1>18, <1>q DEF MainTimeout, laneVars, Faulted
<1>19. CASE MainReturn
  BY <1>19, <1>q DEF MainReturn, laneVars
<1>20. ASSUME NEW c \in Calls, ReadReply(c) PROVE LaneInv'
  BY <1>20, <1>q DEF ReadReply, laneVars
<1>21. ASSUME NEW k \in Controls, ReadControl(k) PROVE LaneInv'
  BY <1>21, <1>q DEF ReadControl, laneVars
<1>22. ASSUME NEW err \in {"none", "error"}, ReadEnd(err) PROVE LaneInv'
  BY <1>22, <1>q DEF ReadEnd, laneVars
<1>23. CASE WriterTake
  <2>1. LogOwned' /\ CallsTold' /\ Claims'
    BY <1>23, <1>i DEF WriterTake, LogOwned, Owned, CallsTold, Claims
  <2>2. Unwritten'
    BY <1>23, <1>t, <1>i, LaneAssumption DEF LaneTypes, WriterTake, QLen, Unwritten, Claims,
       LogOwned, CallsTold, Senders, Frames, Unclaimed, Past, Cur, Owned
  <2>3. AtWriter'
    BY <1>23, <1>t, <1>i, LaneAssumption DEF LaneTypes, WriterTake, QLen, AtWriter, LogOwned,
       CallsTold, Claims, Unwritten, Senders, Frames, Unclaimed, Past, Cur, Accounted
  <2>4. TornIsFault'
    BY <1>23, <1>t, <1>i DEF LaneTypes, WriterTake, QLen, TornIsFault, Unwritten, Unclaimed
  <2>5. StreamStaysFramed'
    BY <1>23, <1>t, <1>i, LaneAssumption DEF LaneTypes, WriterTake, QLen, StreamStaysFramed,
       LogOwned, Unwritten, TornIsFault, Unclaimed, Cur
  <2>6. WrotePrefix'
    BY <1>23, <1>t, <1>i, LaneAssumption DEF LaneTypes, WriterTake, QLen, WrotePrefix,
       LogOwned, CallsTold, AtWriter, Cur, Accounted
  <2> QED
    BY <2>1, <2>2, <2>3, <2>4, <2>5, <2>6 DEF LaneInv
<1>24. CASE WriterExit
  <2>1. LogOwned' /\ CallsTold' /\ Claims' /\ StreamStaysFramed'
    BY <1>24, <1>i DEF WriterExit, LogOwned, Owned, CallsTold, Claims, StreamStaysFramed
  <2>2. Unwritten'
    BY <1>24, <1>t, <1>i, LaneAssumption DEF LaneTypes, WriterExit, Unwritten, Claims,
       LogOwned, CallsTold, Senders, Frames, Unclaimed, Past, Cur, Owned
  <2>3. AtWriter'
    BY <1>24, <1>t, <1>i, LaneAssumption DEF LaneTypes, WriterExit, AtWriter, LogOwned,
       CallsTold, Claims, Unwritten, Senders, Frames, Unclaimed, Past, Cur, Accounted
  <2>4. TornIsFault'
    BY <1>24, <1>t, <1>i, LaneAssumption DEF LaneTypes, WriterExit, TornIsFault, LogOwned,
       Unwritten, AtWriter, Unclaimed, Cur
  <2>5. WrotePrefix'
    BY <1>24, <1>t, <1>i, LaneAssumption DEF LaneTypes, WriterExit, WrotePrefix, LogOwned,
       CallsTold, AtWriter, Cur, Accounted
  <2> QED
    BY <2>1, <2>2, <2>3, <2>4, <2>5 DEF LaneInv
<1>25. CASE WriterRelease
  <2>1. LogOwned' /\ CallsTold' /\ Claims' /\ StreamStaysFramed'
    BY <1>25, <1>i DEF WriterRelease, LogOwned, Owned, CallsTold, Claims, StreamStaysFramed
  <2>2. Unwritten'
    BY <1>25, <1>t, <1>i, LaneAssumption DEF LaneTypes, WriterRelease, Unwritten, Claims,
       LogOwned, CallsTold, Senders, Frames, Unclaimed, Past, Cur, Owned
  <2>3. AtWriter'
    BY <1>25, <1>t, <1>i, LaneAssumption DEF LaneTypes, WriterRelease, AtWriter, LogOwned,
       CallsTold, Claims, Unwritten, Senders, Frames, Unclaimed, Past, Cur, Accounted
  <2>4. TornIsFault'
    BY <1>25, <1>t, <1>i, LaneAssumption DEF LaneTypes, WriterRelease, TornIsFault, LogOwned,
       Unwritten, AtWriter, Unclaimed, Cur
  <2>5. WrotePrefix'
    BY <1>25, <1>t, <1>i, LaneAssumption DEF LaneTypes, WriterRelease, WrotePrefix, LogOwned,
       CallsTold, AtWriter, Cur, Accounted
  <2> QED
    BY <2>1, <2>2, <2>3, <2>4, <2>5 DEF LaneInv
<1>26. CASE WriterAnnounce
  <2>1. LogOwned' /\ CallsTold' /\ Claims' /\ StreamStaysFramed'
    BY <1>26, <1>i DEF WriterAnnounce, LogOwned, Owned, CallsTold, Claims, StreamStaysFramed
  <2>2. Unwritten'
    BY <1>26, <1>t, <1>i, LaneAssumption DEF LaneTypes, WriterAnnounce, Unwritten, Claims,
       LogOwned, CallsTold, Senders, Frames, Unclaimed, Past, Cur, Owned
  <2>3. AtWriter'
    BY <1>26, <1>t, <1>i, LaneAssumption DEF LaneTypes, WriterAnnounce, AtWriter, LogOwned,
       CallsTold, Claims, Unwritten, Senders, Frames, Unclaimed, Past, Cur, Accounted
  <2>4. TornIsFault'
    BY <1>26, <1>t, <1>i, LaneAssumption DEF LaneTypes, WriterAnnounce, TornIsFault, LogOwned,
       Unwritten, AtWriter, Unclaimed, Cur
  <2>5. WrotePrefix'
    BY <1>26, <1>t, <1>i, LaneAssumption DEF LaneTypes, WriterAnnounce, WrotePrefix, LogOwned,
       CallsTold, AtWriter, Cur, Accounted
  <2> QED
    BY <2>1, <2>2, <2>3, <2>4, <2>5 DEF LaneInv
<1>27. CASE WriterClaim
  <2>1. LogOwned' /\ StreamStaysFramed'
    BY <1>27, <1>i DEF WriterClaim, LogOwned, Owned, StreamStaysFramed
  <2>2. CallsTold'
    BY <1>27, <1>t, <1>i, LaneAssumption DEF LaneTypes, WriterClaim, CallsTold, LogOwned,
       Claims, Unwritten, AtWriter, Senders, Frames, Unclaimed, Past, Cur, Owned
  <2>3. Claims'
    BY <1>27, <1>t, <1>i, LaneAssumption DEF LaneTypes, WriterClaim, Claims, LogOwned,
       CallsTold, AtWriter, Senders, Frames, Answers, Cur, Owned
  <2>4. Unwritten'
    BY <1>27, <1>t, <1>i, LaneAssumption DEF LaneTypes, WriterClaim, Unwritten, Claims,
       LogOwned, CallsTold, Senders, Frames, Unclaimed, Past, Cur, Owned
  <2>5. AtWriter'
    BY <1>27, <1>t, <1>i, LaneAssumption DEF LaneTypes, WriterClaim, AtWriter, LogOwned,
       CallsTold, Claims, Unwritten, Senders, Frames, Unclaimed, Past, Cur, Accounted
  <2>6. TornIsFault'
    BY <1>27, <1>t, <1>i, LaneAssumption DEF LaneTypes, WriterClaim, TornIsFault, LogOwned,
       Unwritten, AtWriter, Unclaimed, Cur
  <2>7. WrotePrefix'
    BY <1>27, <1>t, <1>i, LaneAssumption DEF LaneTypes, WriterClaim, WrotePrefix, LogOwned,
       CallsTold, AtWriter, Cur, Accounted
  <2> QED
    BY <2>1, <2>2, <2>3, <2>4, <2>5, <2>6, <2>7 DEF LaneInv
<1>28. CASE WriterRefuse
  <2>1. LogOwned' /\ Claims' /\ StreamStaysFramed'
    BY <1>28, <1>i DEF WriterRefuse, LogOwned, Owned, Claims, StreamStaysFramed
  <2>2. CallsTold'
    BY <1>28, <1>t, <1>i, LaneAssumption DEF LaneTypes, WriterRefuse, Done, WriteAllowed,
       CallsTold, LogOwned, Claims, Unwritten, AtWriter, Senders, Frames, Unclaimed, Past, Cur,
       Owned
  <2>3. Unwritten'
    BY <1>28, <1>t, <1>i, LaneAssumption DEF LaneTypes, WriterRefuse, Done, WriteAllowed,
       Unwritten, Claims, LogOwned, CallsTold, Senders, Frames, Unclaimed, Past, Cur, Owned
  <2>4. AtWriter'
    BY <1>28, <1>t, <1>i, LaneAssumption DEF LaneTypes, WriterRefuse, Done, WriteAllowed,
       AtWriter, LogOwned, CallsTold, Claims, Unwritten, Senders, Frames, Unclaimed, Past, Cur,
       Accounted
  <2>5. TornIsFault'
    BY <1>28, <1>t, <1>i, LaneAssumption DEF LaneTypes, WriterRefuse, Done, WriteAllowed,
       TornIsFault, LogOwned, Unwritten, AtWriter, Unclaimed, Cur
  <2>6. WrotePrefix'
    BY <1>28, <1>t, <1>i, LaneAssumption DEF LaneTypes, WriterRefuse, Done, WriteAllowed,
       WrotePrefix, LogOwned, CallsTold, AtWriter, Cur, Accounted
  <2> QED
    BY <2>1, <2>2, <2>3, <2>4, <2>5, <2>6 DEF LaneInv
<1>29. CASE WriterBegin
  <2>1. LogOwned'
    BY <1>29, <1>i DEF WriterBegin, LogOwned, Owned
  <2>2. CallsTold'
    BY <1>29, <1>t, <1>i, LaneAssumption DEF LaneTypes, WriterBegin, WriteAllowed, CallsTold,
       LogOwned, Claims, Unwritten, AtWriter, Senders, Frames, Unclaimed, Past, Cur, Owned
  <2>3. Claims'
    BY <1>29, <1>t, <1>i, LaneAssumption DEF LaneTypes, WriterBegin, WriteAllowed, Claims,
       LogOwned, CallsTold, AtWriter, Senders, Frames, Answers, Cur, Owned
  <2>4. Unwritten'
    BY <1>29, <1>t, <1>i, LaneAssumption DEF LaneTypes, WriterBegin, WriteAllowed, Unwritten,
       Claims, LogOwned, CallsTold, Senders, Frames, Unclaimed, Past, Cur, Owned
  <2>5. AtWriter'
    BY <1>29, <1>t, <1>i, LaneAssumption DEF LaneTypes, WriterBegin, WriteAllowed, AtWriter,
       LogOwned, CallsTold, Claims, Unwritten, Senders, Frames, Unclaimed, Past, Cur, Accounted
  <2>6. TornIsFault'
    BY <1>29, <1>t, <1>i, LaneAssumption DEF LaneTypes, WriterBegin, WriteAllowed, TornIsFault,
       LogOwned, Unwritten, AtWriter, Unclaimed, Cur
  <2>7. StreamStaysFramed'
    BY <1>29, <1>t, <1>i, LaneAssumption DEF LaneTypes, WriterBegin, WriteAllowed,
       StreamStaysFramed, LogOwned, Unwritten, TornIsFault, Unclaimed, Cur
  <2>8. WrotePrefix'
    BY <1>29, <1>t, <1>i, LaneAssumption DEF LaneTypes, WriterBegin, WriteAllowed, WrotePrefix,
       LogOwned, CallsTold, AtWriter, Cur, Accounted
  <2> QED
    BY <2>1, <2>2, <2>3, <2>4, <2>5, <2>6, <2>7, <2>8 DEF LaneInv
<1>30. CASE WriterWrite
  <2>1. LogOwned'
    BY <1>30, <1>i DEF WriterWrite, LogOwned, Owned
  <2>2. CallsTold'
    BY <1>30, <1>t, <1>i, LaneAssumption DEF LaneTypes, WriterWrite, CallsTold, LogOwned,
       Claims, Unwritten, AtWriter, Senders, Frames, Unclaimed, Past, Cur, Owned
  <2>3. Claims'
    BY <1>30, <1>t, <1>i, LaneAssumption DEF LaneTypes, WriterWrite, Claims, LogOwned,
       CallsTold, AtWriter, Senders, Frames, Answers, Cur, Owned
  <2>4. Unwritten'
    BY <1>30, <1>t, <1>i, LaneAssumption DEF LaneTypes, WriterWrite, Unwritten, Claims,
       LogOwned, CallsTold, Senders, Frames, Unclaimed, Past, Cur, Owned
  <2>5. AtWriter'
    BY <1>30, <1>t, <1>i, LaneAssumption DEF LaneTypes, WriterWrite, AtWriter, LogOwned,
       CallsTold, Claims, Unwritten, Senders, Frames, Unclaimed, Past, Cur, Accounted
  <2>6. TornIsFault'
    BY <1>30, <1>t, <1>i, LaneAssumption DEF LaneTypes, WriterWrite, TornIsFault, LogOwned,
       Unwritten, AtWriter, Unclaimed, Cur
  <2>7. StreamStaysFramed'
    BY <1>30, <1>t, <1>i, LaneAssumption DEF LaneTypes, WriterWrite, StreamStaysFramed,
       LogOwned, Unwritten, TornIsFault, Unclaimed, Cur
  <2>8. WrotePrefix'
    BY <1>30, <1>t, <1>i, LaneAssumption DEF LaneTypes, WriterWrite, WrotePrefix, LogOwned,
       CallsTold, AtWriter, Cur, Accounted
  <2> QED
    BY <2>1, <2>2, <2>3, <2>4, <2>5, <2>6, <2>7, <2>8 DEF LaneInv
<1>31. CASE WriterFail
  <2>1. LogOwned' /\ CallsTold' /\ Claims' /\ StreamStaysFramed'
    BY <1>31, <1>i DEF WriterFail, LogOwned, Owned, CallsTold, Claims, StreamStaysFramed
  <2>2. Unwritten'
    BY <1>31, <1>t, <1>i, LaneAssumption DEF LaneTypes, WriterFail, Faulted, Unwritten, Claims,
       LogOwned, CallsTold, Senders, Frames, Unclaimed, Past, Cur, Owned
  <2>3. AtWriter'
    BY <1>31, <1>t, <1>i, LaneAssumption DEF LaneTypes, WriterFail, Faulted, AtWriter,
       LogOwned, CallsTold, Claims, Unwritten, Senders, Frames, Unclaimed, Past, Cur, Accounted
  <2>4. TornIsFault'
    BY <1>31, <1>t, <1>i, LaneAssumption DEF LaneTypes, WriterFail, Faulted, TornIsFault,
       LogOwned, Unwritten, AtWriter, Unclaimed, Cur
  <2>5. WrotePrefix'
    BY <1>31, <1>t, <1>i, LaneAssumption DEF LaneTypes, WriterFail, Faulted, WrotePrefix,
       LogOwned, CallsTold, AtWriter, Cur, Accounted
  <2> QED
    BY <2>1, <2>2, <2>3, <2>4, <2>5 DEF LaneInv
<1>32. CASE WriterEnd
  <2>1. LogOwned' /\ CallsTold' /\ Claims' /\ StreamStaysFramed'
    BY <1>32, <1>i DEF WriterEnd, LogOwned, Owned, CallsTold, Claims, StreamStaysFramed
  <2>2. Unwritten'
    BY <1>32, <1>t, <1>i, LaneAssumption DEF LaneTypes, WriterEnd, Unwritten, Claims, LogOwned,
       CallsTold, Senders, Frames, Unclaimed, Past, Cur, Owned
  <2>3. AtWriter'
    BY <1>32, <1>t, <1>i, LaneAssumption DEF LaneTypes, WriterEnd, AtWriter, LogOwned,
       CallsTold, Claims, Unwritten, Senders, Frames, Unclaimed, Past, Cur, Accounted
  <2>4. TornIsFault'
    BY <1>32, <1>t, <1>i, LaneAssumption DEF LaneTypes, WriterEnd, TornIsFault, LogOwned,
       Unwritten, AtWriter, Unclaimed, Cur
  <2>5. WrotePrefix'
    BY <1>32, <1>t, <1>i, LaneAssumption DEF LaneTypes, WriterEnd, WrotePrefix, LogOwned,
       CallsTold, AtWriter, Cur, Accounted
  <2> QED
    BY <2>1, <2>2, <2>3, <2>4, <2>5 DEF LaneInv
<1>33. CASE WriterReport
  <2>1. LogOwned' /\ Claims' /\ StreamStaysFramed'
    BY <1>33, <1>i DEF WriterReport, LogOwned, Owned, Claims, StreamStaysFramed
  <2>2. CallsTold'
    BY <1>33, <1>t, <1>i, LaneAssumption DEF LaneTypes, WriterReport, Done, CallsTold,
       LogOwned, Claims, Unwritten, AtWriter, Senders, Frames, Unclaimed, Past, Cur, Owned
  <2>3. Unwritten'
    BY <1>33, <1>t, <1>i, LaneAssumption DEF LaneTypes, WriterReport, Done, Unwritten, Claims,
       LogOwned, CallsTold, Senders, Frames, Unclaimed, Past, Cur, Owned
  <2>4. AtWriter'
    BY <1>33, <1>t, <1>i, LaneAssumption DEF LaneTypes, WriterReport, Done, AtWriter, LogOwned,
       CallsTold, Claims, Unwritten, Senders, Frames, Unclaimed, Past, Cur, Accounted
  <2>5. TornIsFault'
    BY <1>33, <1>t, <1>i, LaneAssumption DEF LaneTypes, WriterReport, Done, TornIsFault,
       LogOwned, Unwritten, AtWriter, Unclaimed, Cur
  <2>6. WrotePrefix'
    BY <1>33, <1>t, <1>i, LaneAssumption DEF LaneTypes, WriterReport, Done, WrotePrefix,
       LogOwned, CallsTold, AtWriter, Cur, Accounted
  <2> QED
    BY <2>1, <2>2, <2>3, <2>4, <2>5, <2>6 DEF LaneInv
<1>34. CASE WriterAfter
  <2>1. LogOwned' /\ CallsTold' /\ Claims' /\ StreamStaysFramed'
    BY <1>34, <1>i DEF WriterAfter, LogOwned, Owned, CallsTold, Claims, StreamStaysFramed
  <2>2. Unwritten'
    BY <1>34, <1>t, <1>i, LaneAssumption DEF LaneTypes, WriterAfter, Advances, Unwritten,
       Claims, LogOwned, CallsTold, Senders, Frames, Unclaimed, Past, Cur, Owned
  <2>3. AtWriter'
    BY <1>34, <1>t, <1>i, LaneAssumption DEF LaneTypes, WriterAfter, Advances, AtWriter,
       LogOwned, CallsTold, Claims, Unwritten, Senders, Frames, Unclaimed, Past, Cur, Accounted
  <2>4. TornIsFault'
    BY <1>34, <1>t, <1>i, LaneAssumption DEF LaneTypes, WriterAfter, Advances, TornIsFault,
       LogOwned, Unwritten, AtWriter, Unclaimed, Cur
  <2>5. WrotePrefix'
    BY <1>34, <1>t, <1>i, LaneAssumption DEF LaneTypes, WriterAfter, Advances, WrotePrefix,
       LogOwned, CallsTold, AtWriter, Cur, Accounted
  <2> QED
    BY <2>1, <2>2, <2>3, <2>4, <2>5 DEF LaneInv
<1>35. ASSUME NEW x \in Answers, Answer(x) PROVE LaneInv'
  <2>1. CallsTold' /\ Unwritten' /\ AtWriter' /\ TornIsFault' /\ StreamStaysFramed' /\ WrotePrefix'
    BY <1>35, <1>i DEF Answer, CallsTold, Unwritten, Unclaimed, Past, AtWriter, Cur, Accounted,
       TornIsFault, StreamStaysFramed, WrotePrefix
  <2>2. LogOwned'
    BY <1>35, <1>t, <1>i, LaneAssumption DEF LaneTypes, Answer, Answers, Wins, LogOwned,
       Senders, Frames, Answers, Owned
  <2>3. Claims'
    BY <1>35, <1>t, <1>i, LaneAssumption DEF LaneTypes, Answer, Answers, Wins, Claims,
       LogOwned, CallsTold, AtWriter, Senders, Frames, Answers, Cur, Owned
  <2> QED
    BY <2>1, <2>2, <2>3 DEF LaneInv
<1>36. ASSUME NEW x \in Answers, Respond(x) PROVE LaneInv'
  <2>1. LogOwned'
    BY <1>36, <1>t, <1>i, LaneAssumption DEF LaneTypes, Respond, Answers, LogOwned, Senders,
       Frames, Answers, Owned
  <2>2. CallsTold'
    BY <1>36, <1>i DEF Respond, CallsTold
  <2>3. Claims'
    BY <1>36, <1>t, <1>i, LaneAssumption DEF LaneTypes, Respond, Answers, Claims, LogOwned,
       CallsTold, AtWriter, Senders, Frames, Answers, Cur, Owned
  <2>4. Unwritten'
    BY <1>36, <1>t, <1>i, LaneAssumption DEF LaneTypes, Respond, Answers, Unwritten, Claims,
       LogOwned, CallsTold, Senders, Frames, Unclaimed, Past, Cur, Owned
  <2>5. AtWriter'
    BY <1>36, <1>t, <1>i, LaneAssumption DEF LaneTypes, Respond, Answers, AtWriter, LogOwned,
       CallsTold, Claims, Unwritten, Senders, Frames, Unclaimed, Past, Cur, Accounted
  <2>6. TornIsFault'
    BY <1>36, <1>t, <1>i, LaneAssumption DEF LaneTypes, Respond, Answers, TornIsFault,
       LogOwned, Unwritten, AtWriter, Unclaimed, Cur
  <2>7. StreamStaysFramed'
    BY <1>36, <1>t, <1>i, LaneAssumption DEF LaneTypes, Respond, Answers, StreamStaysFramed,
       LogOwned, Unwritten, TornIsFault, Unclaimed, Cur
  <2>8. WrotePrefix'
    BY <1>36, <1>t, <1>i, LaneAssumption DEF LaneTypes, Respond, Answers, WrotePrefix,
       LogOwned, CallsTold, AtWriter, Cur, Accounted
  <2> QED
    BY <2>1, <2>2, <2>3, <2>4, <2>5, <2>6, <2>7, <2>8 DEF LaneInv
<1>37. ASSUME NEW x \in Senders, EnqueueStop(x) PROVE LaneInv'
  <2>1. TornIsFault' /\ StreamStaysFramed'
    BY <1>37, <1>i DEF EnqueueStop, TornIsFault, StreamStaysFramed
  <2>2. LogOwned'
    BY <1>37, <1>t, <1>i, LaneAssumption DEF LaneTypes, EnqueueStop, AtEnqueue, GiveUp,
       LogOwned, Senders, Frames, Answers, Owned
  <2>3. CallsTold'
    BY <1>37, <1>t, <1>i, LaneAssumption DEF LaneTypes, EnqueueStop, AtEnqueue, GiveUp,
       CallsTold, LogOwned, Claims, Unwritten, AtWriter, Senders, Frames, Unclaimed, Past, Cur,
       Owned
  <2>4. Claims'
    <3>1. ~Owned(x)
      BY <1>37, <1>t, LaneAssumption DEF LaneTypes, EnqueueStop, AtEnqueue, GiveUp, Owned,
         Senders
    <3>2. \A y \in Calls : y # x => out'[y] = out[y]
      BY <1>37, <1>t DEF LaneTypes, EnqueueStop, AtEnqueue, GiveUp
    <3>3. \A y : Owned(y) => Owned(y)'
      BY <1>37, <3>1, <1>t DEF LaneTypes, EnqueueStop, AtEnqueue, GiveUp, Owned, Senders
    <3> QED
      BY <1>37, <1>t, <1>i, <3>1, <3>2, <3>3 DEF LaneTypes, EnqueueStop, Claims, LogOwned
  <2>5. Unwritten'
    BY <1>37, <1>t, <1>i, LaneAssumption DEF LaneTypes, EnqueueStop, AtEnqueue, GiveUp,
       Unwritten, Claims, LogOwned, CallsTold, Senders, Frames, Unclaimed, Past, Cur, Owned
  <2>6. AtWriter'
    <3>1. ~Owned(x)
      BY <1>37, <1>t, LaneAssumption DEF LaneTypes, EnqueueStop, AtEnqueue, GiveUp, Owned,
         Senders
    <3>2. \A y \in Calls : y # x => out'[y] = out[y]
      BY <1>37, <1>t DEF LaneTypes, EnqueueStop, AtEnqueue, GiveUp
    <3>3. wr \notin {"idle", "exit"} => Cur # x
      BY <3>1, <1>t, <1>i DEF LaneTypes, LogOwned, Cur
    <3> QED
      BY <1>37, <1>i, <3>2, <3>3 DEF EnqueueStop, AtWriter, Cur, Accounted
  <2>7. WrotePrefix'
    BY <1>37, <1>t, <1>i, LaneAssumption DEF LaneTypes, EnqueueStop, AtEnqueue, GiveUp,
       WrotePrefix, LogOwned, CallsTold, AtWriter, Cur, Accounted
  <2> QED
    BY <2>1, <2>2, <2>3, <2>4, <2>5, <2>6, <2>7 DEF LaneInv
<1>38. ASSUME NEW x \in Senders, Enqueue(x) PROVE LaneInv'
  <2>1. LogOwned'
    BY <1>38, <1>t, <1>i, LaneAssumption DEF LaneTypes, Enqueue, AtEnqueue, LogOwned, Senders,
       Frames, Answers, Owned
  <2>2. CallsTold'
    BY <1>38, <1>t, <1>i, LaneAssumption DEF LaneTypes, Enqueue, AtEnqueue, CallsTold,
       LogOwned, Claims, Unwritten, AtWriter, Senders, Frames, Unclaimed, Past, Cur, Owned
  <2>3. Claims'
    <3>1. ~Owned(x)
      BY <1>38, <1>t, LaneAssumption DEF LaneTypes, Enqueue, AtEnqueue, Owned, Senders
    <3>2. \A y : Owned(y) => Owned(y)'
      BY <1>38, <3>1, <1>t DEF LaneTypes, Enqueue, AtEnqueue, Owned, Senders
    <3>3. x \in Calls => out[x] = "none"
      BY <1>38, <1>i, <1>t DEF LaneTypes, Enqueue, AtEnqueue, CallsTold, Senders, SendStates,
         Outcomes
    <3> QED
      BY <1>38, <1>t, <1>i, <3>2, <3>3 DEF LaneTypes, Enqueue, Claims
  <2>4. Unwritten'
    <3>1. ~Owned(x)
      BY <1>38, <1>t, LaneAssumption DEF LaneTypes, Enqueue, AtEnqueue, Owned, Senders
    <3>2. x \notin claimed /\ x \notin touched
      BY <3>1, <1>i DEF Claims
    <3>3. x \in Calls => done[x] = "none"
      BY <3>2, <1>i, <1>t DEF LaneTypes, CallsTold
    <3> QED
      BY <1>38, <1>t, <1>i, <3>2, <3>3 DEF LaneTypes, Enqueue, Unwritten, Unclaimed, Past
  <2>5. AtWriter'
    BY <1>38, <1>t, <1>i, LaneAssumption DEF LaneTypes, Enqueue, AtEnqueue, AtWriter, LogOwned,
       CallsTold, Claims, Unwritten, Senders, Frames, Unclaimed, Past, Cur, Accounted
  <2>6. TornIsFault'
    BY <1>38, <1>t, <1>i, LaneAssumption DEF LaneTypes, Enqueue, AtEnqueue, TornIsFault,
       LogOwned, Unwritten, AtWriter, Unclaimed, Cur
  <2>7. StreamStaysFramed'
    BY <1>38, <1>t, <1>i, LaneAssumption DEF LaneTypes, Enqueue, AtEnqueue, StreamStaysFramed,
       LogOwned, Unwritten, TornIsFault, Unclaimed, Cur
  <2>8. WrotePrefix'
    BY <1>38, <1>t, <1>i, LaneAssumption DEF LaneTypes, Enqueue, AtEnqueue, WrotePrefix,
       LogOwned, CallsTold, AtWriter, Cur, Accounted
  <2> QED
    BY <2>1, <2>2, <2>3, <2>4, <2>5, <2>6, <2>7, <2>8 DEF LaneInv
<1>39. ASSUME NEW x \in Senders, EnqueueWait(x) PROVE LaneInv'
  <2>1. Unwritten' /\ AtWriter' /\ TornIsFault' /\ StreamStaysFramed' /\ WrotePrefix'
    BY <1>39, <1>i DEF EnqueueWait, Unwritten, Unclaimed, Past, AtWriter, Cur, Accounted,
       TornIsFault, StreamStaysFramed, WrotePrefix
  <2>2. LogOwned'
    BY <1>39, <1>t, <1>i, LaneAssumption DEF LaneTypes, EnqueueWait, AtEnqueue, LogOwned,
       Senders, Frames, Answers, Owned
  <2>3. CallsTold'
    BY <1>39, <1>t, <1>i, LaneAssumption DEF LaneTypes, EnqueueWait, AtEnqueue, CallsTold,
       LogOwned, Claims, Unwritten, AtWriter, Senders, Frames, Unclaimed, Past, Cur, Owned
  <2>4. Claims'
    BY <1>39, <1>t, <1>i, LaneAssumption DEF LaneTypes, EnqueueWait, AtEnqueue, Claims,
       LogOwned, CallsTold, AtWriter, Senders, Frames, Answers, Cur, Owned
  <2> QED
    BY <2>1, <2>2, <2>3, <2>4 DEF LaneInv
<1>40. ASSUME NEW x \in Senders, EnqueueWake(x) PROVE LaneInv'
  <2>1. Unwritten' /\ AtWriter' /\ TornIsFault' /\ StreamStaysFramed' /\ WrotePrefix'
    BY <1>40, <1>i DEF EnqueueWake, Unwritten, Unclaimed, Past, AtWriter, Cur, Accounted,
       TornIsFault, StreamStaysFramed, WrotePrefix
  <2>2. LogOwned'
    BY <1>40, <1>t, <1>i, LaneAssumption DEF LaneTypes, EnqueueWake, LogOwned, Senders, Frames,
       Answers, Owned
  <2>3. CallsTold'
    BY <1>40, <1>t, <1>i, LaneAssumption DEF LaneTypes, EnqueueWake, CallsTold, LogOwned,
       Claims, Unwritten, AtWriter, Senders, Frames, Unclaimed, Past, Cur, Owned
  <2>4. Claims'
    BY <1>40, <1>t, <1>i, LaneAssumption DEF LaneTypes, EnqueueWake, Claims, LogOwned,
       CallsTold, AtWriter, Senders, Frames, Answers, Cur, Owned
  <2> QED
    BY <2>1, <2>2, <2>3, <2>4 DEF LaneInv
<1>41. ASSUME NEW c \in Calls, CallRegister(c) PROVE LaneInv'
  <2>1. Unwritten' /\ AtWriter' /\ TornIsFault' /\ StreamStaysFramed' /\ WrotePrefix'
    BY <1>41, <1>i DEF CallRegister, Unwritten, Unclaimed, Past, AtWriter, Cur, Accounted,
       TornIsFault, StreamStaysFramed, WrotePrefix
  <2>2. LogOwned'
    BY <1>41, <1>t, <1>i, LaneAssumption DEF LaneTypes, CallRegister, LogOwned, Senders,
       Frames, Answers, Owned
  <2>3. CallsTold'
    BY <1>41, <1>t, <1>i, LaneAssumption DEF LaneTypes, CallRegister, CallsTold, LogOwned,
       Claims, Unwritten, AtWriter, Senders, Frames, Unclaimed, Past, Cur, Owned
  <2>4. Claims'
    BY <1>41, <1>t, <1>i, LaneAssumption DEF LaneTypes, CallRegister, Claims, LogOwned,
       CallsTold, AtWriter, Senders, Frames, Answers, Cur, Owned
  <2> QED
    BY <2>1, <2>2, <2>3, <2>4 DEF LaneInv
<1>42. ASSUME NEW c \in Calls, CallTooMany(c) PROVE LaneInv'
  <2>1. TornIsFault' /\ StreamStaysFramed'
    BY <1>42, <1>i DEF CallTooMany, TornIsFault, StreamStaysFramed
  <2>2. LogOwned'
    BY <1>42, <1>t, <1>i, LaneAssumption DEF LaneTypes, CallTooMany, Returns, LogOwned,
       Senders, Frames, Answers, Owned
  <2>3. CallsTold'
    BY <1>42, <1>t, <1>i, LaneAssumption DEF LaneTypes, CallTooMany, Returns, CallsTold,
       LogOwned, Claims, Unwritten, AtWriter, Senders, Frames, Unclaimed, Past, Cur, Owned
  <2>4. Claims'
    BY <1>42, <1>t, <1>i, LaneAssumption DEF LaneTypes, CallTooMany, Returns, Claims, LogOwned,
       CallsTold, AtWriter, Senders, Frames, Answers, Cur, Owned
  <2>5. Unwritten'
    BY <1>42, <1>t, <1>i, LaneAssumption DEF LaneTypes, CallTooMany, Returns, Unwritten,
       Claims, LogOwned, CallsTold, Senders, Frames, Unclaimed, Past, Cur, Owned
  <2>6. AtWriter'
    BY <1>42, <1>t, <1>i, LaneAssumption DEF LaneTypes, CallTooMany, Returns, AtWriter,
       LogOwned, CallsTold, Claims, Unwritten, Senders, Frames, Unclaimed, Past, Cur, Accounted
  <2>7. WrotePrefix'
    BY <1>42, <1>t, <1>i, LaneAssumption DEF LaneTypes, CallTooMany, Returns, WrotePrefix,
       LogOwned, CallsTold, AtWriter, Cur, Accounted
  <2> QED
    BY <2>1, <2>2, <2>3, <2>4, <2>5, <2>6, <2>7 DEF LaneInv
<1>43. ASSUME NEW c \in Calls, CallBadOp(c) PROVE LaneInv'
  <2>1. TornIsFault' /\ StreamStaysFramed'
    BY <1>43, <1>i DEF CallBadOp, TornIsFault, StreamStaysFramed
  <2>2. LogOwned'
    BY <1>43, <1>t, <1>i, LaneAssumption DEF LaneTypes, CallBadOp, Returns, LogOwned, Senders,
       Frames, Answers, Owned
  <2>3. CallsTold'
    BY <1>43, <1>t, <1>i, LaneAssumption DEF LaneTypes, CallBadOp, Returns, CallsTold,
       LogOwned, Claims, Unwritten, AtWriter, Senders, Frames, Unclaimed, Past, Cur, Owned
  <2>4. Claims'
    BY <1>43, <1>t, <1>i, LaneAssumption DEF LaneTypes, CallBadOp, Returns, Claims, LogOwned,
       CallsTold, AtWriter, Senders, Frames, Answers, Cur, Owned
  <2>5. Unwritten'
    BY <1>43, <1>t, <1>i, LaneAssumption DEF LaneTypes, CallBadOp, Returns, Unwritten, Claims,
       LogOwned, CallsTold, Senders, Frames, Unclaimed, Past, Cur, Owned
  <2>6. AtWriter'
    <3>1. \A y \in Calls : out[y] = "NotSent" <=> out'[y] = "NotSent"
      BY <1>43, <1>t, <1>i DEF LaneTypes, CallBadOp, Returns, CallsTold
    <3> QED
      BY <1>43, <1>t, <1>i, <3>1 DEF LaneTypes, CallBadOp, Returns, AtWriter, Cur, Accounted
  <2>7. WrotePrefix'
    BY <1>43, <1>t, <1>i, LaneAssumption DEF LaneTypes, CallBadOp, Returns, WrotePrefix,
       LogOwned, CallsTold, AtWriter, Cur, Accounted
  <2> QED
    BY <2>1, <2>2, <2>3, <2>4, <2>5, <2>6, <2>7 DEF LaneInv
<1>44. ASSUME NEW c \in Calls, CallWritten(c) PROVE LaneInv'
  <2>1. TornIsFault' /\ StreamStaysFramed'
    BY <1>44, <1>i DEF CallWritten, TornIsFault, StreamStaysFramed
  <2>2. LogOwned'
    <3>1. \A y : Owned(y) => Owned(y)'
      BY <1>44, <1>t DEF LaneTypes, CallWritten, Returns, Owned, Senders
    <3>2. \A e \in Events : snd'[e] = snd[e]
      BY <1>44, <1>t, LaneAssumption DEF LaneTypes, CallWritten, Returns, Senders
    <3> QED
      BY <1>44, <1>i, <3>1, <3>2 DEF CallWritten, LogOwned
  <2>3. CallsTold'
    BY <1>44, <1>t, <1>i, LaneAssumption DEF LaneTypes, CallWritten, Returns, CallsTold,
       LogOwned, Claims, Unwritten, AtWriter, Senders, Frames, Unclaimed, Past, Cur, Owned
  <2>4. Claims'
    <3>1. \A y : Owned(y) => Owned(y)'
      BY <1>44, <1>t DEF LaneTypes, CallWritten, Returns, Owned, Senders
    <3>2. \A y \in Calls : y # c => out'[y] = out[y]
      BY <1>44, <1>t DEF LaneTypes, CallWritten, Returns
    <3>3. c \in claimed
      BY <1>44, <1>i DEF CallWritten, CallsTold
    <3> QED
      BY <1>44, <1>i, <3>1, <3>2, <3>3 DEF CallWritten, Claims
  <2>5. Unwritten'
    BY <1>44, <1>t, <1>i, LaneAssumption DEF LaneTypes, CallWritten, Returns, Unwritten,
       Claims, LogOwned, CallsTold, Senders, Frames, Unclaimed, Past, Cur, Owned
  <2>6. AtWriter'
    BY <1>44, <1>t, <1>i, LaneAssumption DEF LaneTypes, CallWritten, Returns, AtWriter,
       LogOwned, CallsTold, Claims, Unwritten, Senders, Frames, Unclaimed, Past, Cur, Accounted
  <2>7. WrotePrefix'
    BY <1>44, <1>t, <1>i, LaneAssumption DEF LaneTypes, CallWritten, Returns, WrotePrefix,
       LogOwned, CallsTold, AtWriter, Cur, Accounted
  <2> QED
    BY <2>1, <2>2, <2>3, <2>4, <2>5, <2>6, <2>7 DEF LaneInv
<1>45. ASSUME NEW c \in Calls, CallInterrupted(c) PROVE LaneInv'
  <2>1. TornIsFault' /\ StreamStaysFramed'
    BY <1>45, <1>i DEF CallInterrupted, TornIsFault, StreamStaysFramed
  <2>2. LogOwned'
    <3>1. \A y : Owned(y) => Owned(y)'
      BY <1>45, <1>t DEF LaneTypes, CallInterrupted, Returns, CanWithdraw, Owned, Senders
    <3>2. \A e \in Events : snd'[e] = snd[e]
      BY <1>45, <1>t, LaneAssumption DEF LaneTypes, CallInterrupted, Returns, CanWithdraw,
         Senders
    <3> QED
      BY <1>45, <1>i, <3>1, <3>2 DEF CallInterrupted, LogOwned
  <2>3. CallsTold'
    BY <1>45, <1>t, <1>i, LaneAssumption DEF LaneTypes, CallInterrupted, Returns, CanWithdraw,
       CallsTold, LogOwned, Claims, Unwritten, AtWriter, Senders, Frames, Unclaimed, Past, Cur,
       Owned
  <2>4. Claims'
    BY <1>45, <1>t, <1>i, LaneAssumption DEF LaneTypes, CallInterrupted, Returns, CanWithdraw,
       Claims, LogOwned, CallsTold, AtWriter, Senders, Frames, Answers, Cur, Owned
  <2>5. Unwritten'
    BY <1>45, <1>t, <1>i, LaneAssumption DEF LaneTypes, CallInterrupted, Returns, CanWithdraw,
       Unwritten, Claims, LogOwned, CallsTold, Senders, Frames, Unclaimed, Past, Cur, Owned
  <2>6. AtWriter'
    <3>1. \A y \in Calls : y # c => out'[y] = out[y]
      BY <1>45, <1>t DEF LaneTypes, CallInterrupted, Returns, CanWithdraw
    <3>2. out[c] = "none" /\ (c \in claimed => out'[c] = "Unknown")
      BY <1>45, <1>t, <1>i DEF LaneTypes, CallInterrupted, Returns, CanWithdraw, CallsTold
    <3> QED
      BY <1>45, <1>i, <3>1, <3>2 DEF CallInterrupted, AtWriter, Cur, Accounted
  <2>7. WrotePrefix'
    <3>1. \A y \in Calls : y # c => out'[y] = out[y]
      BY <1>45, <1>t DEF LaneTypes, CallInterrupted, Returns, CanWithdraw
    <3>2. out[c] # "NotSent"
      BY <1>45, <1>i DEF CallInterrupted, CallsTold
    <3> QED
      BY <1>45, <1>i, <3>1, <3>2 DEF CallInterrupted, WrotePrefix, Accounted
  <2> QED
    BY <2>1, <2>2, <2>3, <2>4, <2>5, <2>6, <2>7 DEF LaneInv
<1>46. ASSUME NEW c \in Calls, CallAnswered(c) PROVE LaneInv'
  <2>1. TornIsFault' /\ StreamStaysFramed'
    BY <1>46, <1>i DEF CallAnswered, TornIsFault, StreamStaysFramed
  <2>2. LogOwned'
    BY <1>46, <1>t, <1>i, LaneAssumption DEF LaneTypes, CallAnswered, Returns, LogOwned,
       Senders, Frames, Answers, Owned
  <2>3. CallsTold'
    BY <1>46, <1>t, <1>i, LaneAssumption DEF LaneTypes, CallAnswered, Returns, CallsTold,
       LogOwned, Claims, Unwritten, AtWriter, Senders, Frames, Unclaimed, Past, Cur, Owned
  <2>4. Claims'
    BY <1>46, <1>t, <1>i, LaneAssumption DEF LaneTypes, CallAnswered, Returns, Claims,
       LogOwned, CallsTold, AtWriter, Senders, Frames, Answers, Cur, Owned
  <2>5. Unwritten'
    BY <1>46, <1>t, <1>i, LaneAssumption DEF LaneTypes, CallAnswered, Returns, Unwritten,
       Claims, LogOwned, CallsTold, Senders, Frames, Unclaimed, Past, Cur, Owned
  <2>6. AtWriter'
    BY <1>46, <1>t, <1>i, LaneAssumption DEF LaneTypes, CallAnswered, Returns, AtWriter,
       LogOwned, CallsTold, Claims, Unwritten, Senders, Frames, Unclaimed, Past, Cur, Accounted
  <2>7. WrotePrefix'
    BY <1>46, <1>t, <1>i, LaneAssumption DEF LaneTypes, CallAnswered, Returns, WrotePrefix,
       LogOwned, CallsTold, AtWriter, Cur, Accounted
  <2> QED
    BY <2>1, <2>2, <2>3, <2>4, <2>5, <2>6, <2>7 DEF LaneInv
<1>47. ASSUME NEW c \in Calls, CallAbandoned(c) PROVE LaneInv'
  <2>1. TornIsFault' /\ StreamStaysFramed'
    BY <1>47, <1>i DEF CallAbandoned, TornIsFault, StreamStaysFramed
  <2>2. LogOwned'
    BY <1>47, <1>t, <1>i, LaneAssumption DEF LaneTypes, CallAbandoned, Returns, LogOwned,
       Senders, Frames, Answers, Owned
  <2>3. CallsTold'
    BY <1>47, <1>t, <1>i, LaneAssumption DEF LaneTypes, CallAbandoned, Returns, CallsTold,
       LogOwned, Claims, Unwritten, AtWriter, Senders, Frames, Unclaimed, Past, Cur, Owned
  <2>4. Claims'
    BY <1>47, <1>t, <1>i, LaneAssumption DEF LaneTypes, CallAbandoned, Returns, Claims,
       LogOwned, CallsTold, AtWriter, Senders, Frames, Answers, Cur, Owned
  <2>5. Unwritten'
    BY <1>47, <1>t, <1>i, LaneAssumption DEF LaneTypes, CallAbandoned, Returns, Unwritten,
       Claims, LogOwned, CallsTold, Senders, Frames, Unclaimed, Past, Cur, Owned
  <2>6. AtWriter'
    BY <1>47, <1>t, <1>i, LaneAssumption DEF LaneTypes, CallAbandoned, Returns, AtWriter,
       LogOwned, CallsTold, Claims, Unwritten, Senders, Frames, Unclaimed, Past, Cur, Accounted
  <2>7. WrotePrefix'
    BY <1>47, <1>t, <1>i, LaneAssumption DEF LaneTypes, CallAbandoned, Returns, WrotePrefix,
       LogOwned, CallsTold, AtWriter, Cur, Accounted
  <2> QED
    BY <2>1, <2>2, <2>3, <2>4, <2>5, <2>6, <2>7 DEF LaneInv
<1>48. ASSUME NEW c \in Calls, CallLeave(c) PROVE LaneInv'
  <2>1. Unwritten' /\ AtWriter' /\ TornIsFault' /\ StreamStaysFramed' /\ WrotePrefix'
    BY <1>48, <1>i DEF CallLeave, Unwritten, Unclaimed, Past, AtWriter, Cur, Accounted,
       TornIsFault, StreamStaysFramed, WrotePrefix
  <2>2. LogOwned'
    BY <1>48, <1>t, <1>i, LaneAssumption DEF LaneTypes, CallLeave, LogOwned, Senders, Frames,
       Answers, Owned
  <2>3. CallsTold'
    BY <1>48, <1>t, <1>i, LaneAssumption DEF LaneTypes, CallLeave, CallsTold, LogOwned, Claims,
       Unwritten, AtWriter, Senders, Frames, Unclaimed, Past, Cur, Owned
  <2>4. Claims'
    BY <1>48, <1>t, <1>i, LaneAssumption DEF LaneTypes, CallLeave, Claims, LogOwned, CallsTold,
       AtWriter, Senders, Frames, Answers, Cur, Owned
  <2> QED
    BY <2>1, <2>2, <2>3, <2>4 DEF LaneInv
<1>49. ASSUME NEW f \in Flushes, FlushStart(f) PROVE LaneInv'
  <2>1. LogOwned' /\ CallsTold' /\ Claims' /\ Unwritten' /\ AtWriter' /\ TornIsFault' /\ StreamStaysFramed'
    BY <1>49, <1>i DEF FlushStart, LogOwned, Owned, CallsTold, Claims, Unwritten, Unclaimed,
       Past, AtWriter, Cur, Accounted, TornIsFault, StreamStaysFramed
  <2>2. WrotePrefix'
    BY <1>49, <1>t, <1>i, LaneAssumption DEF LaneTypes, FlushStart, WrotePrefix, LogOwned,
       CallsTold, AtWriter, Cur, Accounted
  <2> QED
    BY <2>1, <2>2 DEF LaneInv
<1>50. ASSUME NEW f \in Flushes, FlushCheck(f) PROVE LaneInv'
  <2>1. LogOwned' /\ CallsTold' /\ Claims' /\ Unwritten' /\ AtWriter' /\ TornIsFault' /\ StreamStaysFramed'
    BY <1>50, <1>i DEF FlushCheck, LogOwned, Owned, CallsTold, Claims, Unwritten, Unclaimed,
       Past, AtWriter, Cur, Accounted, TornIsFault, StreamStaysFramed
  <2>2. WrotePrefix'
    BY <1>50, <1>t, <1>i, LaneAssumption DEF LaneTypes, FlushCheck, WrotePrefix, LogOwned,
       CallsTold, AtWriter, Cur, Accounted
  <2> QED
    BY <2>1, <2>2 DEF LaneInv
<1>51. ASSUME NEW f \in Flushes, FlushLook(f) PROVE LaneInv'
  <2>1. LogOwned' /\ CallsTold' /\ Claims' /\ Unwritten' /\ AtWriter' /\ TornIsFault' /\ StreamStaysFramed'
    BY <1>51, <1>i DEF FlushLook, LogOwned, Owned, CallsTold, Claims, Unwritten, Unclaimed,
       Past, AtWriter, Cur, Accounted, TornIsFault, StreamStaysFramed
  <2>2. WrotePrefix'
    BY <1>51, <1>t, <1>i, LaneAssumption DEF LaneTypes, FlushLook, WrotePrefix, LogOwned,
       CallsTold, AtWriter, Cur, Accounted
  <2> QED
    BY <2>1, <2>2 DEF LaneInv
<1>52. ASSUME NEW f \in Flushes, FlushWake(f) PROVE LaneInv'
  <2>1. LogOwned' /\ CallsTold' /\ Claims' /\ Unwritten' /\ AtWriter' /\ TornIsFault' /\ StreamStaysFramed'
    BY <1>52, <1>i DEF FlushWake, LogOwned, Owned, CallsTold, Claims, Unwritten, Unclaimed,
       Past, AtWriter, Cur, Accounted, TornIsFault, StreamStaysFramed
  <2>2. WrotePrefix'
    BY <1>52, <1>t, <1>i, LaneAssumption DEF LaneTypes, FlushWake, WrotePrefix, LogOwned,
       CallsTold, AtWriter, Cur, Accounted
  <2> QED
    BY <2>1, <2>2 DEF LaneInv
<1>53. ASSUME NEW f \in Flushes, FlushCancelled(f) PROVE LaneInv'
  <2>1. LogOwned' /\ CallsTold' /\ Claims' /\ Unwritten' /\ AtWriter' /\ TornIsFault' /\ StreamStaysFramed'
    BY <1>53, <1>i DEF FlushCancelled, LogOwned, Owned, CallsTold, Claims, Unwritten,
       Unclaimed, Past, AtWriter, Cur, Accounted, TornIsFault, StreamStaysFramed
  <2>2. WrotePrefix'
    BY <1>53, <1>t, <1>i, LaneAssumption DEF LaneTypes, FlushCancelled, WrotePrefix, LogOwned,
       CallsTold, AtWriter, Cur, Accounted
  <2> QED
    BY <2>1, <2>2 DEF LaneInv
<1>54. CASE UNCHANGED vars
  BY <1>54, <1>q DEF vars, laneVars
<1> QED
  BY <1>1, <1>2, <1>3, <1>4, <1>5, <1>6, <1>7, <1>8, <1>9, <1>10, <1>11, <1>12, <1>13, <1>14,
     <1>15, <1>16, <1>17, <1>18, <1>19, <1>20, <1>21, <1>22, <1>23, <1>24, <1>25, <1>26, <1>27,
     <1>28, <1>29, <1>30, <1>31, <1>32, <1>33, <1>34, <1>35, <1>36, <1>37, <1>38, <1>39, <1>40,
     <1>41, <1>42, <1>43, <1>44, <1>45, <1>46, <1>47, <1>48, <1>49, <1>50, <1>51, <1>52, <1>53,
     <1>54
  DEF Next, ReaderStep, ReadStep, AdmitStep, WriterStep, PipeStep, MainStep, AnswerStep,
      SendStep, CallStep, FlushStep, Returned

\* What callers were told, who claimed a frame and what the writer did with
\* it agree in every reachable state.
THEOREM LaneInvariant == Spec => [](TypeOK /\ LaneInv)
  BY TypeInit, TypeStep, LaneInit, LaneStep, PTL DEF Spec

\* A host call reported not sent has no byte on the pipe, and one that returns
\* a reply was written whole.
THEOREM HonestOutcomes == Spec => []OutcomeIsHonest
<1>1. LaneInv => OutcomeIsHonest
  BY DEF LaneInv, CallsTold, OutcomeIsHonest
<1> QED
  BY <1>1, LaneInvariant, PTL

\* Flush returns nil only when all it promised is on the pipe or withdrawn.
THEOREM SoundFlush == Spec => []FlushedMeansWritten
<1>1. TypeOK /\ LaneInv => FlushedMeansWritten
  BY DEF TypeOK, LaneInv, WrotePrefix, FlushedMeansWritten
<1> QED
  BY <1>1, LaneInvariant, PTL

\* No frame is begun behind one that was written in part.
THEOREM FramedStream == Spec => []StreamStaysFramed
<1>1. LaneInv => StreamStaysFramed
  BY DEF LaneInv
<1> QED
  BY <1>1, LaneInvariant, PTL

\* One response per control, one frame per call and event.
THEOREM OneAnswer == Spec => []AnsweredOnce
<1>1. LaneInv => AnsweredOnce
  BY DEF LaneInv, LogOwned, AnsweredOnce
<1> QED
  BY <1>1, LaneInvariant, PTL

----------------------------------------------------------------------------
(* No lost wake-up.                                                        *)

wakeVars == <<log, taken, wr, snd, notified>>

LEMMA WakeStep == TypeOK /\ NoLostWakeup /\ [Next]_vars => NoLostWakeup'
<1> SUFFICES ASSUME TypeOK, NoLostWakeup, [Next]_vars PROVE NoLostWakeup'
  OBVIOUS
<1>t. LaneTypes
  BY DEF TypeOK, LaneTypes
<1> USE DEF outVars, endVars, admVars, rdVars, ansVars, wrVars, mnVars, callVars, flVars,
            ending, written, ByReader, ByAdmission, ByAnswer, ByWriter, ByMain, BySender,
            ByFlush, End, Announce
<1>q. ASSUME UNCHANGED wakeVars PROVE NoLostWakeup'
  BY <1>q DEF NoLostWakeup, wakeVars, Waiting, Waiters, EventsFull, QLen
<1>1. CASE ReaderFault
  BY <1>1, <1>q DEF ReaderFault, wakeVars
<1>2. CASE ReaderRead
  BY <1>2, <1>q DEF ReaderRead, wakeVars
<1>3. CASE ReaderClose
  BY <1>3, <1>q DEF ReaderClose, wakeVars
<1>4. CASE ReaderReport
  BY <1>4, <1>q DEF ReaderReport, wakeVars
<1>5. CASE AdmitTake
  BY <1>5, <1>q DEF AdmitTake, wakeVars
<1>6. CASE AdmitStop
  BY <1>6, <1>q DEF AdmitStop, wakeVars
<1>7. CASE AdmitClosed
  BY <1>7, <1>q DEF AdmitClosed, wakeVars
<1>8. CASE AdmitOne
  BY <1>8, <1>q DEF AdmitOne, wakeVars
<1>9. CASE AdmitRefused
  BY <1>9, <1>q DEF AdmitRefused, wakeVars
<1>10. CASE AdmitEnd
  BY <1>10, <1>q DEF AdmitEnd, wakeVars
<1>11. CASE HandlerReturns
  BY <1>11, <1>q DEF HandlerReturns, wakeVars
<1>12. CASE WriterTake
  BY <1>12, <1>t, LaneAssumption DEF WriterTake, QLen, LaneTypes, NoLostWakeup, Waiting,
     Waiters, Senders, EventsFull
<1>13. CASE WriterMode
  BY <1>13, <1>q DEF WriterMode, wakeVars
<1>14. CASE WriterExit
  BY <1>14, <1>t, LaneAssumption DEF WriterExit, LaneTypes, NoLostWakeup, Waiting, Waiters,
     Senders, EventsFull, QLen
<1>15. CASE WriterRelease
  BY <1>15, <1>t, LaneAssumption DEF WriterRelease, LaneTypes, NoLostWakeup, Waiting, Waiters,
     Senders, EventsFull, QLen
<1>16. CASE WriterAnnounce
  BY <1>16, <1>t, LaneAssumption DEF WriterAnnounce, LaneTypes, NoLostWakeup, Waiting, Waiters,
     Senders, EventsFull, QLen
<1>17. CASE WriterClaim
  BY <1>17, <1>t, LaneAssumption DEF WriterClaim, LaneTypes, NoLostWakeup, Waiting, Waiters,
     Senders, EventsFull, QLen
<1>18. CASE WriterRefuse
  BY <1>18, <1>t, LaneAssumption DEF WriterRefuse, Done, WriteAllowed, LaneTypes, NoLostWakeup,
     Waiting, Waiters, Senders, EventsFull, QLen
<1>19. CASE WriterBegin
  BY <1>19, <1>t, LaneAssumption DEF WriterBegin, WriteAllowed, LaneTypes, NoLostWakeup,
     Waiting, Waiters, Senders, EventsFull, QLen
<1>20. CASE WriterWrite
  BY <1>20, <1>t, LaneAssumption DEF WriterWrite, LaneTypes, NoLostWakeup, Waiting, Waiters,
     Senders, EventsFull, QLen
<1>21. CASE WriterFail
  BY <1>21, <1>t, LaneAssumption DEF WriterFail, Faulted, LaneTypes, NoLostWakeup, Waiting,
     Waiters, Senders, EventsFull, QLen
<1>22. CASE WriterEnd
  BY <1>22, <1>t, LaneAssumption DEF WriterEnd, LaneTypes, NoLostWakeup, Waiting, Waiters,
     Senders, EventsFull, QLen
<1>23. CASE WriterReport
  BY <1>23, <1>t, LaneAssumption DEF WriterReport, Done, LaneTypes, NoLostWakeup, Waiting,
     Waiters, Senders, EventsFull, QLen
<1>24. CASE WriterAfter
  BY <1>24, <1>t, LaneAssumption DEF WriterAfter, Advances, LaneTypes, NoLostWakeup, Waiting,
     Waiters, Senders, EventsFull, QLen
<1>25. CASE MainReadDone
  BY <1>25, <1>q DEF MainReadDone, wakeVars
<1>26. CASE MainClosed
  BY <1>26, <1>q DEF MainClosed, wakeVars
<1>27. CASE MainEnd
  BY <1>27, <1>q DEF MainEnd, wakeVars
<1>28. CASE Settle
  BY <1>28, <1>q DEF Settle, wakeVars
<1>29. CASE MainProceed
  BY <1>29, <1>q DEF MainProceed, wakeVars
<1>30. CASE MainTimeout
  BY <1>30, <1>q DEF MainTimeout, wakeVars
<1>31. CASE MainReturn
  BY <1>31, <1>q DEF MainReturn, wakeVars
<1>32. ASSUME NEW c \in Calls, ReadReply(c) PROVE NoLostWakeup'
  BY <1>32, <1>q DEF ReadReply, wakeVars
<1>33. ASSUME NEW k \in Controls, ReadControl(k) PROVE NoLostWakeup'
  BY <1>33, <1>q DEF ReadControl, wakeVars
<1>34. ASSUME NEW x \in Answers, Answer(x) PROVE NoLostWakeup'
  BY <1>34, <1>q DEF Answer, wakeVars
<1>35. ASSUME NEW x \in Answers, Respond(x) PROVE NoLostWakeup'
  <2>1. Len(log') >= Len(log)
    BY <1>35, <1>t DEF Respond, LaneTypes, Answers, Frames
  <2> QED
    BY <1>35, <1>t, <2>1, LaneAssumption DEF Respond, LaneTypes, NoLostWakeup, Waiting,
       Waiters, EventsFull, OutQueue, QLen
<1>36. ASSUME NEW x \in Senders, EnqueueStop(x) PROVE NoLostWakeup'
  BY <1>36, <1>t, LaneAssumption DEF EnqueueStop, AtEnqueue, GiveUp, LaneTypes, NoLostWakeup,
     Waiting, Waiters, Senders, EventsFull, QLen
<1>37. ASSUME NEW x \in Senders, Enqueue(x) PROVE NoLostWakeup'
  BY <1>37, <1>t, LaneAssumption DEF Enqueue, AtEnqueue, LaneTypes, NoLostWakeup, Waiting,
     Waiters, Senders, EventsFull, QLen
<1>38. ASSUME NEW x \in Senders, EnqueueWait(x) PROVE NoLostWakeup'
  BY <1>38, <1>t, LaneAssumption DEF EnqueueWait, AtEnqueue, LaneTypes, NoLostWakeup, Waiting,
     Waiters, Senders, EventsFull, OutQueue, QLen
<1>39. ASSUME NEW x \in Senders, EnqueueWake(x) PROVE NoLostWakeup'
  BY <1>39, <1>t, LaneAssumption DEF EnqueueWake, LaneTypes, NoLostWakeup, Waiting, Waiters,
     Senders, EventsFull, QLen
<1>40. ASSUME NEW c \in Calls, CallRegister(c) PROVE NoLostWakeup'
  BY <1>40, <1>t, LaneAssumption DEF CallRegister, LaneTypes, NoLostWakeup, Waiting, Waiters,
     Senders, EventsFull, QLen
<1>41. ASSUME NEW c \in Calls, CallTooMany(c) PROVE NoLostWakeup'
  BY <1>41, <1>t, LaneAssumption DEF CallTooMany, Returns, LaneTypes, NoLostWakeup, Waiting,
     Waiters, Senders, EventsFull, QLen
<1>42. ASSUME NEW c \in Calls, CallBadOp(c) PROVE NoLostWakeup'
  BY <1>42, <1>t, LaneAssumption DEF CallBadOp, Returns, LaneTypes, NoLostWakeup, Waiting,
     Waiters, Senders, EventsFull, QLen
<1>43. ASSUME NEW c \in Calls, CallWritten(c) PROVE NoLostWakeup'
  BY <1>43, <1>t, LaneAssumption DEF CallWritten, Returns, LaneTypes, NoLostWakeup, Waiting,
     Waiters, Senders, EventsFull, QLen
<1>44. ASSUME NEW c \in Calls, CallInterrupted(c) PROVE NoLostWakeup'
  BY <1>44, <1>t, LaneAssumption DEF CallInterrupted, Returns, CanWithdraw, LaneTypes,
     NoLostWakeup, Waiting, Waiters, Senders, EventsFull, QLen
<1>45. ASSUME NEW c \in Calls, CallAnswered(c) PROVE NoLostWakeup'
  BY <1>45, <1>t, LaneAssumption DEF CallAnswered, Returns, LaneTypes, NoLostWakeup, Waiting,
     Waiters, Senders, EventsFull, QLen
<1>46. ASSUME NEW c \in Calls, CallAbandoned(c) PROVE NoLostWakeup'
  BY <1>46, <1>t, LaneAssumption DEF CallAbandoned, Returns, LaneTypes, NoLostWakeup, Waiting,
     Waiters, Senders, EventsFull, QLen
<1>47. ASSUME NEW c \in Calls, CallLeave(c) PROVE NoLostWakeup'
  BY <1>47, <1>t, LaneAssumption DEF CallLeave, LaneTypes, NoLostWakeup, Waiting, Waiters,
     Senders, EventsFull, QLen
<1>48. ASSUME NEW f \in Flushes, FlushStart(f) PROVE NoLostWakeup'
  BY <1>48, <1>q DEF FlushStart, wakeVars
<1>49. ASSUME NEW f \in Flushes, FlushCheck(f) PROVE NoLostWakeup'
  BY <1>49, <1>t, LaneAssumption DEF FlushCheck, LaneTypes, NoLostWakeup, Waiting, Waiters,
     Senders, EventsFull, QLen
<1>50. ASSUME NEW f \in Flushes, FlushLook(f) PROVE NoLostWakeup'
  BY <1>50, <1>q DEF FlushLook, wakeVars
<1>51. ASSUME NEW f \in Flushes, FlushWake(f) PROVE NoLostWakeup'
  BY <1>51, <1>q DEF FlushWake, wakeVars
<1>52. ASSUME NEW f \in Flushes, FlushCancelled(f) PROVE NoLostWakeup'
  BY <1>52, <1>q DEF FlushCancelled, wakeVars
<1>53. ASSUME NEW err \in {"none", "error"}, ReadEnd(err) PROVE NoLostWakeup'
  BY <1>53, <1>q DEF ReadEnd, wakeVars
<1>54. CASE UNCHANGED vars
  BY <1>54, <1>q DEF vars, wakeVars
<1> QED
  BY <1>1, <1>2, <1>3, <1>4, <1>5, <1>6, <1>7, <1>8, <1>9, <1>10, <1>11, <1>12, <1>13, <1>14,
     <1>15, <1>16, <1>17, <1>18, <1>19, <1>20, <1>21, <1>22, <1>23, <1>24, <1>25, <1>26, <1>27,
     <1>28, <1>29, <1>30, <1>31, <1>32, <1>33, <1>34, <1>35, <1>36, <1>37, <1>38, <1>39, <1>40,
     <1>41, <1>42, <1>43, <1>44, <1>45, <1>46, <1>47, <1>48, <1>49, <1>50, <1>51, <1>52, <1>53,
     <1>54
  DEF Next, ReaderStep, ReadStep, AdmitStep, WriterStep, PipeStep, MainStep, AnswerStep,
      SendStep, CallStep, FlushStep, Returned

\* A sender that waits, unwoken, waits for room that is not there yet.
THEOREM WakeupsKept == Spec => []NoLostWakeup
<1>1. Init => NoLostWakeup
  BY DEF Init, InitLane, NoLostWakeup
<1> QED
  BY <1>1, TypeInit, TypeStep, WakeStep, PTL DEF Spec

----------------------------------------------------------------------------
(* The admission slots, the room kept for replies, and the order in which  *)
(* the goroutines of a lane stop.                                          *)

\* A control is in one place on its way from stdin to its handler.
Queue == {admitCh[i] : i \in 1..Len(admitCh)}
InHand == IF ad = "got" THEN {cur} ELSE {}
Admission ==
    /\ \A i, j \in 1..Len(admitCh) : admitCh[i] = admitCh[j] => i = j
    /\ Queue \cap handed = {} /\ InHand \cap (Queue \cup handed) = {}
    /\ Queue \cup InHand \cup handed \subseteq received

\* The places of outQ that events and host calls fill, and those of replies.
SenderPlaces == {i \in taken + 1 .. Len(log) : log[i] \in Senders}
ReplyPlaces  == {i \in taken + 1 .. Len(log) : log[i] \in Controls}

\* Events and host calls keep to their share, and a slot is held for each reply.
Room == SlotsAreHeld /\ Cardinality(SenderPlaces) <= EventQueue

\* What the reader took off stdin is with admission or was handed over, and
\* an inline handler returns only after its answer was queued.
NothingDropped ==
    /\ fault = "none" /\ readErr # "saturated" => received \subseteq handed \cup Queue \cup InHand
    /\ fault = "none" => \A k \in handed \cap Inline :
         /\ k \in answered \/ (ad = "handler" /\ cur = k)
         /\ k \in answered => \/ \E a \in Answerers : ans[<<k, a>>] = "respond"
                              \/ \E i \in 1..Len(log) : log[i] = k
         /\ \A a \in Answerers : ans[<<k, a>>] = "respond" => ad = "handler" /\ cur = k

\* The goroutines stop in this order: the reader, admission, settlement, the
\* writer; and the serving goroutine waits for them unless it gives up.
StopOrder ==
    /\ rd \in {"report", "exit"} <=> admitClosed
    /\ rd \in {"loop", "read"} => readErr = "none"
    /\ ad = "fault" => fault # "none"
    /\ ad = "exit" /\ fault = "none" => admitClosed /\ admitCh = <<>>
    /\ settled <=> outClosed
    /\ settled => ad = "exit" /\ mn \notin {"wait", "end"}
    /\ mode = "final" => settled
    /\ wr = "exit" => mode = "final" /\ QLen = 0
    /\ closed => fault # "none" \/ mn \notin {"wait", "end"}
    /\ mn # "wait" => sawRead \/ fault # "none"
    /\ sawRead => rd = "exit"
    /\ mn \in {"writer", "join", "returned"} => settled \/ retErr
    /\ mn \in {"join", "returned"} => wr = "exit" \/ retErr
    /\ ret = "nil" => mn = "returned" /\ sawRead /\ readErr = "none" /\ fault = "none" /\ ~retErr

\* Without a fault the writer leaves no gap behind it.
NoGap ==
    fault = "none" => /\ wr \in {"idle", "exit"} => wrote = taken
                      /\ wr \notin {"idle", "exit"} => wrote + 1 = taken
                      /\ wr = "after" => ~owed

Ending == NothingDropped /\ StopOrder /\ NoGap

----------------------------------------------------------------------------
(* Admission.                                                              *)

\* Which steps can move a control on its way to a handler.
admissionVars == <<admitCh, ad, cur, handed, received>>

LEMMA AdmissionMovers ==
    [Next]_vars => \/ UNCHANGED admissionVars
                   \/ AdmitStep \/ HandlerReturns \/ \E k \in Controls : ReadControl(k)
<1> SUFFICES ASSUME [Next]_vars PROVE \/ UNCHANGED admissionVars
                   \/ AdmitStep \/ HandlerReturns \/ \E k \in Controls : ReadControl(k)
  OBVIOUS
<1> USE DEF admissionVars, rdVars, admVars, ByReader, ByWriter, ByMain, ByAnswer, BySender, ByFlush
<1>1. CASE ReaderStep
  BY <1>1 DEF ReaderStep, ReaderFault, ReaderRead, ReaderClose, ReaderReport
<1>2. CASE ReadStep
  BY <1>2 DEF ReadStep, ReadReply, ReadEnd
<1>3. CASE WriterStep
  BY <1>3 DEF WriterStep, WriterTake, WriterMode, WriterExit, WriterRelease, WriterAnnounce,
     WriterClaim, WriterRefuse, WriterBegin, WriterEnd, WriterReport, WriterAfter
<1>4. CASE PipeStep
  BY <1>4 DEF PipeStep, WriterWrite, WriterFail
<1>5. CASE MainStep \/ Settle
  BY <1>5 DEF MainStep, MainReadDone, MainClosed, MainEnd, MainProceed, MainTimeout, MainReturn, Settle
<1>6. CASE AnswerStep
  BY <1>6 DEF AnswerStep, Answer, Respond
<1>7. ASSUME NEW x \in Senders, SendStep(x) PROVE UNCHANGED admissionVars
  BY <1>7 DEF SendStep, EnqueueStop, Enqueue, EnqueueWait, EnqueueWake
<1>8. ASSUME NEW c \in Calls, CallStep(c) PROVE UNCHANGED admissionVars
  BY <1>8 DEF CallStep, CallRegister, CallTooMany, CallBadOp, CallWritten, CallInterrupted,
     CallAnswered, CallAbandoned, CallLeave
<1>9. ASSUME NEW f \in Flushes, FlushStep(f) PROVE UNCHANGED admissionVars
  BY <1>9 DEF FlushStep, FlushStart, FlushCheck, FlushLook, FlushWake, FlushCancelled
<1>10. CASE UNCHANGED vars
  BY <1>10 DEF vars
<1> QED
  BY <1>1, <1>2, <1>3, <1>4, <1>5, <1>6, <1>7, <1>8, <1>9, <1>10 DEF Next, Returned

LEMMA AdmissionStep == TypeOK /\ Admission /\ [Next]_vars => Admission'
<1> SUFFICES ASSUME TypeOK, Admission, [Next]_vars PROVE Admission'
  OBVIOUS
<1>t. admitCh \in Seq(Controls) /\ cur \in Controls \cup {"none"}
  BY DEF TypeOK
<1> USE <1>t DEF Admission, Queue, InHand, ByAdmission, ByReader, admVars, rdVars
<1>1. CASE UNCHANGED admissionVars
  BY <1>1 DEF admissionVars
<1>2. ASSUME UNCHANGED <<admitCh, cur, handed, received>>, ad' # "got" PROVE Admission'
  BY <1>2
<1>3. CASE AdmitTake
  <2>1. /\ cur' = admitCh[1] /\ ad' = "got" /\ ad # "got" /\ UNCHANGED <<handed, received>>
        /\ Len(admitCh) > 0
        /\ admitCh' \in Seq(Controls) /\ Len(admitCh') = Len(admitCh) - 1
        /\ \A i \in 1..Len(admitCh') : admitCh'[i] = admitCh[i + 1]
    BY <1>3 DEF AdmitTake
  <2>2. \A i \in 1..Len(admitCh') : i + 1 \in 1..Len(admitCh) /\ i + 1 # 1
    BY <2>1
  <2>3. \A i, j \in 1..Len(admitCh') : admitCh'[i] = admitCh'[j] => i = j
    BY <2>1, <2>2
  <2>4. Queue' \subseteq Queue \ {cur'}
    BY <2>1, <2>2
  <2>5. cur' \in Queue
    BY <2>1
  <2> QED
    BY <2>1, <2>3, <2>4, <2>5
<1>4. CASE AdmitOne
  BY <1>4 DEF AdmitOne
<1>5. CASE AdmitStop \/ AdmitClosed \/ AdmitRefused \/ AdmitEnd
  BY <1>5, <1>2 DEF AdmitStop, AdmitClosed, AdmitRefused, AdmitEnd
<1>6. CASE HandlerReturns
  BY <1>6, <1>2 DEF HandlerReturns
<1>7. ASSUME NEW k \in Controls, ReadControl(k) PROVE Admission'
  <2>1. /\ k \notin received /\ received' = received \cup {k}
        /\ UNCHANGED <<ad, cur, handed>>
    BY <1>7 DEF ReadControl
  <2>2. CASE admitCh' = Append(admitCh, k)
    <3>1. /\ Len(admitCh') = Len(admitCh) + 1 /\ admitCh'[Len(admitCh) + 1] = k
          /\ \A i \in 1..Len(admitCh) : admitCh'[i] = admitCh[i]
      BY <2>2
    <3>2. Queue' = Queue \cup {k}
      BY <3>1
    <3>3. k \notin Queue \cup handed \cup InHand
      BY <2>1
    <3>4. \A i, j \in 1..Len(admitCh') : admitCh'[i] = admitCh'[j] => i = j
      BY <3>1, <3>3
    <3>5. InHand' = InHand
      BY <2>1
    <3>6. /\ Queue' \cap handed' = {} /\ InHand' \cap (Queue' \cup handed') = {}
          /\ Queue' \cup InHand' \cup handed' \subseteq received'
      <4> HIDE DEF Queue, InHand
      <4> QED
        BY <2>1, <3>2, <3>3, <3>5
    <3> HIDE DEF Queue, InHand
    <3> QED
      BY <3>4, <3>6
  <2>3. CASE UNCHANGED admitCh
    BY <2>1, <2>3
  <2> QED
    BY <1>7, <2>2, <2>3 DEF ReadControl
<1> QED
  BY <1>1, <1>3, <1>4, <1>5, <1>6, <1>7, AdmissionMovers DEF AdmitStep

----------------------------------------------------------------------------
(* Admission slots and the room in outQ.                                   *)

\* What Holders and the places are made of; the only state of the writer that
\* counts is the one between its receive and the release of the slot.
slotVars == <<log, taken, slots, answered, ans, handed, wr = "release">>

LEMMA SlotMovers ==
    [Next]_vars => \/ UNCHANGED slotVars
                   \/ AdmitOne \/ WriterTake \/ WriterRelease
                   \/ (\E x \in Answers : Answer(x) \/ Respond(x))
                   \/ (\E x \in Senders : Enqueue(x))
<1> SUFFICES ASSUME [Next]_vars PROVE \/ UNCHANGED slotVars
                   \/ AdmitOne \/ WriterTake \/ WriterRelease
                   \/ (\E x \in Answers : Answer(x) \/ Respond(x))
                   \/ (\E x \in Senders : Enqueue(x))
  OBVIOUS
<1> USE DEF slotVars, outVars, ansVars, wrVars, admVars, ByReader, ByAdmission, ByWriter, ByMain,
            BySender, ByFlush
<1>1. CASE ReaderStep
  BY <1>1 DEF ReaderStep, ReaderFault, ReaderRead, ReaderClose, ReaderReport
<1>2. CASE ReadStep
  BY <1>2 DEF ReadStep, ReadReply, ReadControl, ReadEnd
<1>3. CASE AdmitStep \/ HandlerReturns
  BY <1>3 DEF AdmitStep, AdmitTake, AdmitStop, AdmitClosed, AdmitRefused, AdmitEnd, HandlerReturns
<1>4. CASE WriterStep
  BY <1>4 DEF WriterStep, WriterMode, WriterExit, WriterAnnounce,
     WriterClaim, WriterRefuse, WriterBegin, WriterEnd, WriterReport, WriterAfter
<1>5. CASE PipeStep
  BY <1>5 DEF PipeStep, WriterWrite, WriterFail
<1>6. CASE MainStep \/ Settle
  BY <1>6 DEF MainStep, MainReadDone, MainClosed, MainEnd, MainProceed, MainTimeout, MainReturn, Settle
<1>7. ASSUME NEW x \in Senders, SendStep(x) PROVE Enqueue(x) \/ UNCHANGED slotVars
  BY <1>7 DEF SendStep, EnqueueStop, EnqueueWait, EnqueueWake
<1>8. ASSUME NEW c \in Calls, CallStep(c) PROVE UNCHANGED slotVars
  BY <1>8 DEF CallStep, CallRegister, CallTooMany, CallBadOp, CallWritten, CallInterrupted,
     CallAnswered, CallAbandoned, CallLeave
<1>9. ASSUME NEW f \in Flushes, FlushStep(f) PROVE UNCHANGED slotVars
  BY <1>9 DEF FlushStep, FlushStart, FlushCheck, FlushLook, FlushWake, FlushCancelled
<1>10. CASE UNCHANGED vars
  BY <1>10 DEF vars
<1>11. CASE AnswerStep
  BY <1>11 DEF AnswerStep
<1> HIDE DEF slotVars
<1> QED
  BY <1>1, <1>2, <1>3, <1>4, <1>5, <1>6, <1>7, <1>8, <1>9, <1>10, <1>11 DEF Next, Returned

\* The holders are controls, of which there are finitely many.
LEMMA HoldersFinite == TypeOK => Holders \subseteq Controls /\ IsFiniteSet(Holders)
<1> SUFFICES ASSUME TypeOK PROVE Holders \subseteq Controls /\ IsFiniteSet(Holders)
  OBVIOUS
<1>1. Holders \subseteq Controls
  BY DEF TypeOK, Holders
<1> QED
  BY <1>1, FS_Subset, LaneAssumption

\* A slot is taken when a control is handed over and given back once: by the
\* Answer that lost its reply or by the writer that received it.
LEMMA SlotsStep ==
    TypeOK /\ TypeOK' /\ LaneInv /\ Admission /\ SlotsAreHeld /\ [Next]_vars => SlotsAreHeld'
<1> SUFFICES ASSUME TypeOK, TypeOK', LaneInv, Admission, SlotsAreHeld, [Next]_vars
             PROVE  SlotsAreHeld'
  OBVIOUS
<1>t. LaneTypes /\ LaneTypes' /\ handed \subseteq Controls /\ answered \subseteq handed
  BY DEF TypeOK, LaneTypes
<1>l. LogOwned
  BY DEF LaneInv
<1>n. /\ slots = Cardinality(Holders) /\ slots <= AdmitQueue
      /\ Holders \subseteq Controls /\ IsFiniteSet(Holders) /\ AdmitQueue \in Nat
      /\ Controls \cap Senders = {} /\ slots \in Nat
  BY HoldersFinite, LaneAssumption, FS_CardinalityType DEF SlotsAreHeld
<1>s. ASSUME Holders' = Holders, slots' = slots PROVE SlotsAreHeld'
  BY <1>s, <1>n DEF SlotsAreHeld
<1>r. ASSUME NEW k \in Holders, Holders' = Holders \ {k}, slots' = slots - 1 PROVE SlotsAreHeld'
  <2>1. Cardinality(Holders \ {k}) = Cardinality(Holders) - 1
    BY <1>n, FS_RemoveElement
  <2> QED
    BY <1>r, <2>1, <1>n DEF SlotsAreHeld
<1>1. CASE UNCHANGED slotVars
  <2>1. Holders' = Holders
    BY <1>1 DEF slotVars, Holders, Queued
  <2> QED
    BY <1>1, <2>1, <1>s DEF slotVars
<1>2. CASE AdmitOne
  <2>1. /\ handed' = handed \cup {cur} /\ slots' = slots + 1 /\ slots < AdmitQueue
        /\ UNCHANGED <<answered, ans, log, taken, wr>>
    BY <1>2 DEF AdmitOne, ByAdmission, ansVars, outVars, wrVars
  <2>2. cur \notin handed
    BY <1>2 DEF AdmitOne, Admission, InHand
  <2>3. Holders' = Holders \cup {cur} /\ cur \notin Holders
    BY <2>1, <2>2, <1>t DEF Holders, Queued
  <2>4. Cardinality(Holders \cup {cur}) = Cardinality(Holders) + 1
    BY <2>3, <1>n, FS_AddElement
  <2> QED
    BY <2>1, <2>3, <2>4, <1>n DEF SlotsAreHeld
<1>3. ASSUME NEW x \in Answers, Answer(x) PROVE SlotsAreHeld'
  <2>1. /\ ans[x] = "idle" /\ x[1] \in handed /\ answered' = answered \cup {x[1]}
        /\ ans' = [ans EXCEPT ![x] = IF x[1] \notin answered THEN "respond" ELSE "done"]
        /\ UNCHANGED <<log, slots, handed, taken, wr>>
    BY <1>3 DEF Answer, Wins, ByAnswer, wrVars
  <2>2. PICK k \in Controls, a \in Answerers : x = <<k, a>>
    BY DEF Answers
  <2>3. \A y \in Answers : ans'[y] = IF y = x THEN IF k \notin answered THEN "respond" ELSE "done"
                                     ELSE ans[y]
    BY <2>1, <2>2, <1>t DEF LaneTypes
  <2>4. \A j \in Controls, b \in Answerers : <<j, b>> \in Answers /\ (<<j, b>> = x <=> j = k /\ b = a)
    BY <2>2 DEF Answers
  <2>5. ASSUME NEW j \in handed PROVE j \in Holders' <=> j \in Holders
    <3>1. CASE j # k
      BY <3>1, <2>1, <2>2, <2>3, <2>4, <1>t DEF Holders, Queued
    <3>2. CASE j = k
      <4>1. CASE k \notin answered
        <5>1. ans'[<<k, a>>] = "respond"
          BY <4>1, <2>2, <2>3
        <5> QED
          BY <4>1, <5>1, <3>2, <2>1 DEF Holders
      <4>2. CASE k \in answered
        <5>1. \A b \in Answerers : ans'[<<k, b>>] = "respond" <=> ans[<<k, b>>] = "respond"
          BY <4>2, <2>1, <2>2, <2>3, <2>4, <1>t
        <5> QED
          BY <4>2, <5>1, <3>2, <2>1, <2>2 DEF Holders, Queued
      <4> QED
        BY <4>1, <4>2
    <3> QED
      BY <3>1, <3>2
  <2>6. Holders' = Holders
    BY <2>5, <2>1 DEF Holders
  <2> QED
    BY <2>1, <2>6, <1>s
<1>4. ASSUME NEW x \in Answers, Respond(x) PROVE SlotsAreHeld'
  <2>1. PICK k \in Controls, a \in Answerers : x = <<k, a>>
    BY DEF Answers
  <2>2. /\ ans[x] = "respond" /\ ans' = [ans EXCEPT ![x] = "done"]
        /\ UNCHANGED <<answered, handed, taken, wr>>
    BY <1>4 DEF Respond, ByAnswer, wrVars
  <2>3. \A j \in Controls, b \in Answerers :
          /\ ans'[<<j, b>>] = IF j = k /\ b = a THEN "done" ELSE ans[<<j, b>>]
          /\ j = k /\ b # a => ans[<<j, b>>] # "respond"
    BY <2>1, <2>2, <1>t, <1>l DEF LaneTypes, Answers, LogOwned
  <2>4. k \in answered /\ k \in handed /\ k \in Holders
    BY <2>1, <2>2, <1>l, <1>t DEF LogOwned, Holders
  <2>5. \A i \in 1..Len(log) : log[i] # k
    BY <2>1, <2>2, <1>l DEF LogOwned, Owned
  <2>6. CASE log' = Append(log, k) /\ slots' = slots
    <3>1. /\ Len(log') = Len(log) + 1 /\ log'[Len(log) + 1] = k
          /\ \A i \in 1..Len(log) : log'[i] = log[i]
      BY <2>6, <1>t DEF LaneTypes
    <3>2. Len(log) + 1 \in 1..Len(log') /\ Len(log) + 1 > taken
      BY <3>1, <1>t DEF LaneTypes
    <3>3. k \in Holders'
      BY <3>1, <3>2, <2>2, <2>4 DEF Holders, Queued
    <3>4. \A j \in handed : j # k => (j \in Holders' <=> j \in Holders)
      <4>1. ASSUME NEW j \in handed, j # k PROVE j \in Holders' <=> j \in Holders
        <5>1. (\E i \in 1..Len(log') : Queued(i)' /\ log'[i] = j)
                <=> (\E i \in 1..Len(log) : Queued(i) /\ log[i] = j)
          <6>1. Len(log) \in Nat /\ taken' = taken /\ wr' = wr
            BY <2>2, <1>t DEF LaneTypes
          <6>2. \A i \in 1..Len(log') : log'[i] = j => i \in 1..Len(log)
            BY <3>1, <4>1, <6>1
          <6>3. \A i \in 1..Len(log) : i \in 1..Len(log') /\ log'[i] = log[i]
            BY <3>1, <6>1
          <6> QED
            BY <6>1, <6>2, <6>3 DEF Queued
        <5>2. \A b \in Answerers : ans'[<<j, b>>] = ans[<<j, b>>]
          BY <2>3, <4>1, <1>t
        <5> QED
          BY <5>1, <5>2, <2>2 DEF Holders
      <4> QED
        BY <4>1
    <3>5. Holders' = Holders
      BY <3>3, <3>4, <2>4, <2>2 DEF Holders
    <3> QED
      BY <3>5, <2>6, <1>s
  <2>7. CASE log' = log /\ slots' = slots - 1
    <3>1. k \notin Holders'
      <4>1. \A a1 \in Answerers : ans'[<<k, a1>>] # "respond"
        BY <2>3
      <4>2. k \in answered'
        BY <2>2, <2>4
      <4> QED
        BY <4>1, <4>2, <2>5, <2>7 DEF Holders
    <3>2. \A j \in handed : j # k => (j \in Holders' <=> j \in Holders)
      <4>1. ASSUME NEW j \in handed, j # k PROVE j \in Holders' <=> j \in Holders
        <5>1. \A b \in Answerers : ans'[<<j, b>>] = ans[<<j, b>>]
          BY <2>3, <4>1, <1>t
        <5> QED
          BY <5>1, <4>1, <2>7, <2>2 DEF Holders, Queued
      <4> QED
        BY <4>1
    <3>3. Holders' = Holders \ {k}
      BY <3>1, <3>2, <2>2 DEF Holders
    <3> QED
      BY <3>3, <2>4, <2>7, <1>r
  <2> QED
    BY <1>4, <2>1, <2>6, <2>7 DEF Respond
<1>5. ASSUME NEW x \in Senders, Enqueue(x) PROVE SlotsAreHeld'
  <2>1. /\ log' = Append(log, x) /\ UNCHANGED <<slots, handed, answered, ans, taken, wr>>
    BY <1>5 DEF Enqueue, BySender, admVars, ansVars, wrVars
  <2>2. /\ Len(log') = Len(log) + 1 /\ log'[Len(log) + 1] = x
        /\ \A i \in 1..Len(log) : log'[i] = log[i]
    BY <2>1, <1>t DEF LaneTypes
  <2>3. ASSUME NEW j \in Controls
        PROVE  (\E i \in 1..Len(log') : Queued(i)' /\ log'[i] = j)
                 <=> (\E i \in 1..Len(log) : Queued(i) /\ log[i] = j)
    BY <2>1, <2>2, <1>t, <1>n DEF Queued, LaneTypes
  <2>4. Holders' = Holders
    BY <2>1, <2>3, <1>t DEF Holders
  <2> QED
    BY <2>1, <2>4, <1>s
<1>6. CASE WriterTake
  <2>1. /\ wr = "idle" /\ wr' = "release" /\ taken' = taken + 1
        /\ UNCHANGED <<slots, handed, answered, ans, log>>
    BY <1>6 DEF WriterTake, ByWriter, ansVars
  <2>2. \A i \in 1..Len(log) : Queued(i)' <=> Queued(i)
    BY <2>1, <1>t DEF Queued, LaneTypes
  <2>3. Holders' = Holders
    BY <2>1, <2>2 DEF Holders
  <2> QED
    BY <2>1, <2>3, <1>s
<1>7. CASE WriterRelease
  <2>1. /\ wr = "release" /\ wr' = "announce" /\ slots' = slots - Releases(Cur)
        /\ UNCHANGED <<handed, answered, ans, log, taken>>
    BY <1>7 DEF WriterRelease, ByWriter, ansVars
  <2>2. \A i \in 1..Len(log) : Queued(i)' <=> Queued(i) /\ i # taken
    BY <2>1, <1>t DEF Queued, LaneTypes
  <2>3. taken \in 1..Len(log) /\ Queued(taken) /\ Cur = log[taken]
    BY <2>1, <1>t DEF LaneTypes, Queued, Cur
  <2>4. CASE Cur \in Controls
    <3>1. Cur \in answered /\ (\A a \in Answerers : ans[<<Cur, a>>] # "respond")
      BY <2>3, <2>4, <1>l DEF LogOwned, Owned
    <3>2. Cur \in Holders
      BY <3>1, <2>3, <1>t DEF Holders
    <3>3. Cur \notin Holders'
      BY <3>1, <2>1, <2>2, <2>3, <1>l DEF Holders, LogOwned
    <3>4. \A j \in handed : j # Cur => (j \in Holders' <=> j \in Holders)
      BY <2>1, <2>2, <2>3 DEF Holders
    <3>5. Holders' = Holders \ {Cur}
      BY <3>3, <3>4, <2>1 DEF Holders
    <3> QED
      BY <3>2, <3>5, <2>1, <2>4, <1>r DEF Releases
  <2>5. CASE Cur \notin Controls
    <3>1. \A j \in handed : j \in Holders' <=> j \in Holders
      BY <2>1, <2>2, <2>3, <2>5, <1>t DEF Holders
    <3>2. Holders' = Holders
      BY <3>1, <2>1 DEF Holders
    <3> QED
      BY <3>2, <2>1, <2>5, <1>s, <1>n DEF Releases
  <2> QED
    BY <2>4, <2>5
<1> QED
  BY <1>1, <1>2, <1>3, <1>4, <1>5, <1>6, <1>7, SlotMovers

\* A set mapped one to one into another is no larger.
LEMMA OneToOneBound ==
    ASSUME NEW S, NEW T, IsFiniteSet(S), IsFiniteSet(T), NEW f \in [S -> T],
           \A x, y \in S : f[x] = f[y] => x = y
    PROVE  Cardinality(S) <= Cardinality(T)
<1>1. Cardinality(S) \in Nat /\ Cardinality(T) \in Nat
  BY FS_CardinalityType
<1>2. ~(Cardinality(T) < Cardinality(S))
  BY FS_PigeonHole
<1> QED
  BY <1>1, <1>2

\* The places of outQ are those of senders and those of replies.
PlacesFit ==
    /\ IsFiniteSet(SenderPlaces) /\ IsFiniteSet(ReplyPlaces)
    /\ Cardinality(SenderPlaces) \in Nat /\ Cardinality(ReplyPlaces) \in Nat
    /\ QLen = Cardinality(SenderPlaces) + Cardinality(ReplyPlaces)

LEMMA PlacesFill == TypeOK => PlacesFit
<1> SUFFICES ASSUME TypeOK PROVE PlacesFit
  OBVIOUS
<1> DEFINE I == taken + 1 .. Len(log)
<1>t. log \in Seq(Frames) /\ taken \in 0..Len(log) /\ Len(log) \in Nat
  BY DEF TypeOK
<1>1. IsFiniteSet(I) /\ Cardinality(I) = QLen
  <2>1. taken + 1 \in Int /\ Len(log) \in Int
    BY <1>t
  <2>2. IsFiniteSet(I) /\ Cardinality(I) = IF taken + 1 > Len(log) THEN 0 ELSE Len(log) - (taken + 1) + 1
    BY <2>1, FS_Interval
  <2> HIDE DEF I
  <2> QED
    BY <2>2, <1>t DEF QLen
<1>2. SenderPlaces \subseteq I /\ ReplyPlaces \subseteq I
  BY DEF SenderPlaces, ReplyPlaces
<1>3. /\ IsFiniteSet(SenderPlaces) /\ IsFiniteSet(ReplyPlaces)
      /\ Cardinality(SenderPlaces) \in Nat /\ Cardinality(ReplyPlaces) \in Nat
  BY <1>1, <1>2, FS_Subset, FS_CardinalityType
<1>4. SenderPlaces \cup ReplyPlaces = I /\ SenderPlaces \cap ReplyPlaces = {}
  <2>1. \A i \in I : log[i] \in Frames
    BY <1>t
  <2> QED
    BY <2>1, LaneAssumption DEF SenderPlaces, ReplyPlaces, Frames
<1>5. Cardinality(SenderPlaces \cup ReplyPlaces) = Cardinality(SenderPlaces)
        + Cardinality(ReplyPlaces) - Cardinality(SenderPlaces \cap ReplyPlaces)
  BY <1>3, FS_Union
<1>6. Cardinality(SenderPlaces \cap ReplyPlaces) = 0
  BY <1>4, FS_EmptySet
<1> HIDE DEF I
<1>7. Cardinality(I) = Cardinality(SenderPlaces) + Cardinality(ReplyPlaces)
  BY <1>3, <1>4, <1>5, <1>6
<1> QED
  BY <1>1, <1>3, <1>7 DEF PlacesFit

\* tryEnqueue leaves AdmitQueue places to replies.
LEMMA SendersStep ==
    TypeOK /\ TypeOK' /\ Cardinality(SenderPlaces) <= EventQueue /\ [Next]_vars
      => Cardinality(SenderPlaces') <= EventQueue
<1> SUFFICES ASSUME TypeOK, TypeOK', Cardinality(SenderPlaces) <= EventQueue, [Next]_vars
             PROVE  Cardinality(SenderPlaces') <= EventQueue
  OBVIOUS
<1>t. LaneTypes /\ LaneTypes'
  BY DEF TypeOK, LaneTypes
<1>a. EventQueue \in Nat /\ AdmitQueue \in Nat /\ Controls \cap Senders = {}
  BY LaneAssumption
<1>f. /\ IsFiniteSet(SenderPlaces) /\ Cardinality(SenderPlaces) \in Nat
      /\ Cardinality(SenderPlaces') \in Nat
      /\ QLen' = Cardinality(SenderPlaces') + Cardinality(ReplyPlaces')
      /\ Cardinality(ReplyPlaces') \in Nat
  <2>1. PlacesFit
    BY PlacesFill
  <2>2. TypeOK' => PlacesFit'
    BY PlacesFill, PTL
  <2> QED
    BY <2>1, <2>2 DEF PlacesFit
<1>s. ASSUME SenderPlaces' \subseteq SenderPlaces PROVE Cardinality(SenderPlaces') <= EventQueue
  <2>1. Cardinality(SenderPlaces') <= Cardinality(SenderPlaces)
    BY <1>s, <1>f, FS_Subset
  <2> QED
    BY <2>1, <1>f, <1>a
<1>1. CASE UNCHANGED <<log, taken>>
  BY <1>1, <1>s DEF SenderPlaces
<1>2. CASE WriterTake
  <2>1. log' = log /\ taken' = taken + 1
    BY <1>2 DEF WriterTake, ByWriter
  <2> QED
    BY <2>1, <1>s, <1>t DEF SenderPlaces, LaneTypes
<1>3. ASSUME NEW x \in Answers, Respond(x) PROVE Cardinality(SenderPlaces') <= EventQueue
  <2>1. x[1] \in Controls /\ taken' = taken /\ (log' = log \/ log' = Append(log, x[1]))
    BY <1>3 DEF Respond, ByAnswer, Answers
  <2>2. SenderPlaces' \subseteq SenderPlaces
    BY <2>1, <1>t, <1>a DEF SenderPlaces, LaneTypes
  <2> QED
    BY <2>2, <1>s
<1>4. ASSUME NEW x \in Senders, Enqueue(x) PROVE Cardinality(SenderPlaces') <= EventQueue
  <2>1. /\ taken' = taken /\ log' = Append(log, x) /\ QLen < OutQueue - AdmitQueue
    BY <1>4, <1>t, <1>a DEF Enqueue, BySender, EventsFull, QLen, OutQueue, LaneTypes
  <2>2. QLen' <= EventQueue
    BY <2>1, <1>t, <1>a DEF QLen, OutQueue, LaneTypes
  <2> QED
    BY <2>2, <1>f, <1>a DEF QLen
<1> QED
  <2>1. CASE UNCHANGED slotVars
    BY <2>1, <1>1 DEF slotVars
  <2>2. CASE AdmitOne \/ WriterRelease
    BY <2>2, <1>1 DEF AdmitOne, WriterRelease, ByAdmission, ByWriter, outVars
  <2>3. ASSUME NEW x \in Answers, Answer(x) PROVE UNCHANGED <<log, taken>>
    BY <2>3 DEF Answer, ByAnswer
  <2> QED
    BY <1>1, <1>2, <1>3, <1>4, <2>1, <2>2, <2>3, SlotMovers

\* Each queued reply has a slot of its own, and so has the one at hand.
LEMMA RoomFits == TypeOK /\ LaneInv /\ Room => ReplyAlwaysFits
<1> SUFFICES ASSUME TypeOK, LaneInv, Room, NEW x \in Answers, ans[x] = "respond"
             PROVE  QLen < OutQueue
  BY DEF ReplyAlwaysFits
<1>t. LaneTypes /\ handed \subseteq Controls /\ answered \subseteq handed
  BY DEF TypeOK, LaneTypes
<1>l. LogOwned
  BY DEF LaneInv
<1>p. /\ IsFiniteSet(ReplyPlaces)
      /\ Cardinality(SenderPlaces) \in Nat /\ Cardinality(ReplyPlaces) \in Nat
      /\ QLen = Cardinality(SenderPlaces) + Cardinality(ReplyPlaces)
  BY PlacesFill DEF PlacesFit
<1>h. IsFiniteSet(Holders) /\ Cardinality(Holders) \in Nat /\ Cardinality(Holders) <= AdmitQueue
  BY HoldersFinite, FS_CardinalityType DEF Room, SlotsAreHeld
<1>1. PICK k \in Controls, a \in Answerers : x = <<k, a>>
  BY DEF Answers
<1>2. k \in Holders /\ \A i \in 1..Len(log) : log[i] # k
  BY <1>1, <1>l, <1>t DEF LogOwned, Owned, Holders
<1> DEFINE g == [i \in ReplyPlaces |-> log[i]]
<1>3. IsFiniteSet(Holders \ {k}) /\ Cardinality(Holders \ {k}) = Cardinality(Holders) - 1
  BY <1>2, <1>h, FS_RemoveElement
<1>4. ReplyPlaces \subseteq 1..Len(log) /\ \A i \in ReplyPlaces : i > taken /\ log[i] \in Controls
  BY <1>t DEF ReplyPlaces, LaneTypes
<1>5. \A i \in ReplyPlaces : log[i] \in Holders \ {k}
  <2>1. ASSUME NEW i \in ReplyPlaces PROVE log[i] \in Holders \ {k}
    <3>1. log[i] \in handed
      BY <1>4, <1>l, <1>t DEF LogOwned, Owned
    <3> QED
      BY <3>1, <1>4, <1>2 DEF Holders, Queued
  <2> QED
    BY <2>1
<1>6. \A i, j \in ReplyPlaces : log[i] = log[j] => i = j
  BY <1>4, <1>l DEF LogOwned
<1>7. Cardinality(ReplyPlaces) <= Cardinality(Holders \ {k})
  <2>1. g \in [ReplyPlaces -> Holders \ {k}] /\ \A i, j \in ReplyPlaces : g[i] = g[j] => i = j
    BY <1>5, <1>6
  <2> HIDE DEF g
  <2> QED
    BY <2>1, <1>3, <1>p, OneToOneBound
<1>8. Cardinality(SenderPlaces) <= EventQueue
  BY DEF Room
<1> QED
  BY <1>3, <1>7, <1>8, <1>p, <1>h, LaneAssumption DEF OutQueue

\* A control the peer has the answer of was handed over and holds no slot.
LEMMA AnswerHolderGone ==
    TypeOK /\ LaneInv => Holders \cap wire = {} /\ wire \cap Controls \subseteq handed
<1> SUFFICES ASSUME TypeOK, LaneInv, NEW k \in Controls, k \in wire
             PROVE  k \notin Holders /\ k \in handed
  BY DEF Holders, TypeOK
<1>t. LaneTypes /\ handed \subseteq Controls /\ answered \subseteq handed
  BY DEF TypeOK, LaneTypes
<1>1. k \in touched /\ Owned(k)
  BY DEF LaneInv, Claims
<1>2. k \in answered /\ \A a \in Answerers : ans[<<k, a>>] # "respond"
  BY <1>1 DEF Owned
<1>3. ASSUME NEW i \in 1..Len(log), Queued(i), log[i] = k PROVE FALSE
  <2>1. Unclaimed(i)
    BY <1>3 DEF Queued, Unclaimed
  <2> QED
    BY <2>1, <1>1, <1>3 DEF LaneInv, Unwritten
<1> QED
  BY <1>2, <1>3, <1>t DEF Holders

\* Only a full admitCh and a lack of slots cut the host off.
LEMMA CutMovers ==
    [Next]_vars /\ CutsOff => AdmitRefused \/ (\E k \in Controls : ReadControl(k) /\ ~AdmitRoom)
<1> SUFFICES ASSUME [Next]_vars, CutsOff, ~AdmitRefused,
                    ~(\E k \in Controls : ReadControl(k) /\ ~AdmitRoom)
             PROVE  FALSE
  OBVIOUS
<1> USE DEF CutsOff, endVars, rdVars, ending, ByReader, ByAdmission, ByAnswer, ByWriter, ByMain,
            BySender, ByFlush, Faulted, End
<1>1. CASE ReaderStep
  BY <1>1 DEF ReaderStep, ReaderFault, ReaderRead, ReaderClose, ReaderReport
<1>2. CASE ReadStep
  BY <1>2 DEF ReadStep, ReadReply, ReadControl, ReadEnd
<1>3. CASE AdmitStep \/ HandlerReturns
  BY <1>3 DEF AdmitStep, AdmitTake, AdmitStop, AdmitClosed, AdmitOne, AdmitEnd, HandlerReturns
<1>4. CASE WriterStep
  BY <1>4 DEF WriterStep, WriterTake, WriterMode, WriterExit, WriterRelease, WriterAnnounce,
     WriterClaim, WriterRefuse, WriterBegin, WriterEnd, WriterReport, WriterAfter
<1>5. CASE PipeStep
  BY <1>5 DEF PipeStep, WriterWrite, WriterFail
<1>6. CASE MainStep \/ Settle
  BY <1>6 DEF MainStep, MainReadDone, MainClosed, MainEnd, MainProceed, MainTimeout, MainReturn,
     Settle
<1>7. CASE AnswerStep
  BY <1>7 DEF AnswerStep, Answer, Respond
<1>8. ASSUME NEW x \in Senders, SendStep(x) PROVE FALSE
  BY <1>8 DEF SendStep, EnqueueStop, Enqueue, EnqueueWait, EnqueueWake
<1>9. ASSUME NEW c \in Calls, CallStep(c) PROVE FALSE
  BY <1>9 DEF CallStep, CallRegister, CallTooMany, CallBadOp, CallWritten, CallInterrupted,
     CallAnswered, CallAbandoned, CallLeave
<1>10. ASSUME NEW f \in Flushes, FlushStep(f) PROVE FALSE
  BY <1>10 DEF FlushStep, FlushStart, FlushCheck, FlushLook, FlushWake, FlushCancelled
<1>11. CASE UNCHANGED vars
  BY <1>11 DEF vars
<1> QED
  BY <1>1, <1>2, <1>3, <1>4, <1>5, <1>6, <1>7, <1>8, <1>9, <1>10, <1>11 DEF Next, Returned

\* The control that does not fit, and those before it, are all unanswered.
LEMMA CutStep ==
    TypeOK /\ TypeOK' /\ LaneInv /\ Admission /\ SlotsAreHeld /\ [Next]_vars
      => (CutsOff => Cardinality(received' \ wire) > AdmitQueue)
<1> SUFFICES ASSUME TypeOK, TypeOK', LaneInv, Admission, SlotsAreHeld, [Next]_vars, CutsOff
             PROVE  Cardinality(received' \ wire) > AdmitQueue
  OBVIOUS
<1>t. /\ handed \subseteq Controls /\ received \subseteq Controls /\ received' \subseteq Controls
      /\ admitCh \in Seq(Controls) /\ Len(admitCh) \in Nat
  BY DEF TypeOK
<1>w. Holders \cap wire = {} /\ wire \cap Controls \subseteq handed
  BY AnswerHolderGone
<1>h. /\ IsFiniteSet(Holders) /\ Cardinality(Holders) = slots /\ slots \in Nat
      /\ AdmitQueue \in Nat
  BY HoldersFinite, FS_CardinalityType, LaneAssumption DEF SlotsAreHeld
<1>f. IsFiniteSet(received' \ wire) /\ Cardinality(received' \ wire) \in Nat
  <2>1. received' \ wire \subseteq Controls
    BY <1>t
  <2> QED
    BY <2>1, FS_Subset, FS_CardinalityType, LaneAssumption
<1>b. ASSUME NEW S, NEW k, S \cup {k} \subseteq received' \ wire, k \notin S,
             IsFiniteSet(S), Cardinality(S) >= AdmitQueue
      PROVE  Cardinality(received' \ wire) > AdmitQueue
  <2>1. IsFiniteSet(S \cup {k}) /\ Cardinality(S \cup {k}) = Cardinality(S) + 1
    BY <1>b, FS_AddElement
  <2>2. Cardinality(S \cup {k}) <= Cardinality(received' \ wire)
    BY <1>b, <1>f, FS_Subset
  <2>3. Cardinality(S) \in Nat
    BY <1>b, FS_CardinalityType
  <2> QED
    BY <2>1, <2>2, <2>3, <1>b, <1>f, <1>h
<1>1. CASE AdmitRefused
  <2>1. slots >= AdmitQueue /\ ad = "got" /\ received' = received
    BY <1>1 DEF AdmitRefused, ByAdmission, rdVars
  <2>2. cur \in received /\ cur \notin handed
    BY <2>1 DEF Admission, InHand
  <2>3. Holders \subseteq handed /\ handed \subseteq received
    BY DEF Holders, Admission
  <2>4. Holders \cup {cur} \subseteq received' \ wire /\ cur \notin Holders
    BY <2>1, <2>2, <2>3, <1>t, <1>w
  <2> QED
    BY <2>1, <2>4, <1>b, <1>h
<1>2. ASSUME NEW k \in Controls, ReadControl(k), ~AdmitRoom
      PROVE  Cardinality(received' \ wire) > AdmitQueue
  <2>1. /\ k \notin received /\ received' = received \cup {k} /\ Len(admitCh) >= AdmitQueue
    BY <1>2, <1>t, <1>h DEF ReadControl, AdmitRoom
  <2>2. Queue \subseteq received /\ Queue \cap handed = {} /\ handed \subseteq received
    BY DEF Admission
  <2>3. Queue \cup {k} \subseteq received' \ wire /\ k \notin Queue
    BY <2>1, <2>2, <1>t, <1>w
  <2>4. IsFiniteSet(Queue)
    <3>1. Queue \subseteq Controls
      BY <2>2, <1>t
    <3> QED
      BY <3>1, FS_Subset, LaneAssumption
  <2>5. IsFiniteSet(1..Len(admitCh)) /\ Cardinality(1..Len(admitCh)) = Len(admitCh)
    BY <1>t, FS_Interval
  <2>6. Cardinality(1..Len(admitCh)) <= Cardinality(Queue)
    <3> DEFINE g == [i \in 1..Len(admitCh) |-> admitCh[i]]
    <3>1. g \in [1..Len(admitCh) -> Queue] /\ \A i, j \in 1..Len(admitCh) : g[i] = g[j] => i = j
      BY DEF Queue, Admission
    <3> HIDE DEF g
    <3> QED
      BY <3>1, <2>4, <2>5, OneToOneBound
  <2>7. Cardinality(Queue) \in Nat
    BY <2>4, FS_CardinalityType
  <2>8. Cardinality(Queue) >= AdmitQueue
    BY <2>1, <2>5, <2>6, <2>7, <1>t, <1>h
  <2> QED
    BY <2>3, <2>4, <2>8, <1>b
<1> QED
  BY <1>1, <1>2, CutMovers

----------------------------------------------------------------------------
(* The end of the lane.                                                    *)

LEMMA StopStep == TypeOK /\ LaneInv /\ StopOrder /\ [Next]_vars => StopOrder'
<1> SUFFICES ASSUME TypeOK, LaneInv, StopOrder, [Next]_vars PROVE StopOrder'
  OBVIOUS
<1>t. /\ LaneTypes /\ admitCh \in Seq(Controls) /\ fault \in Faults
      /\ rd \in {"loop", "read", "close", "report", "exit"}
      /\ mn \in {"wait", "end", "settle", "writer", "join", "returned"}
      /\ admitClosed \in BOOLEAN /\ closed \in BOOLEAN /\ outClosed \in BOOLEAN
      /\ settled \in BOOLEAN /\ sawRead \in BOOLEAN /\ retErr \in BOOLEAN
  BY DEF TypeOK, LaneTypes
<1>l. wr \in {"torn", "failed"} => fault # "none"
  BY DEF LaneInv, TornIsFault
<1> DEFINE stopVars == <<rd, admitClosed, ad, fault, admitCh, settled, outClosed, mn, mode, wr,
                         log, taken, closed, sawRead, retErr, ret, readErr>>
<1>q. ASSUME UNCHANGED stopVars PROVE StopOrder'
  BY <1>q DEF StopOrder, QLen
<1> HIDE DEF stopVars
<1> USE DEF outVars, endVars, admVars, rdVars, ansVars, wrVars, mnVars, callVars, flVars,
            ending, ByReader, ByAdmission, ByAnswer, ByWriter, ByMain, BySender,
            ByFlush, End, Faulted
<1>1. CASE ReaderStep
  BY <1>1, <1>t DEF ReaderStep, ReaderFault, ReaderRead, ReaderClose, ReaderReport, StopOrder, QLen
<1>2. ASSUME NEW k \in Controls, ReadControl(k) PROVE StopOrder'
  BY <1>2, <1>t DEF ReadControl, StopOrder, QLen
<1>3. ASSUME NEW c \in Calls, ReadReply(c) PROVE StopOrder'
  BY <1>3, <1>t DEF ReadReply, StopOrder, QLen
<1>4. ASSUME NEW err \in {"none", "error"}, ReadEnd(err) PROVE StopOrder'
  BY <1>4, <1>t DEF ReadEnd, StopOrder, QLen
<1>5. CASE AdmitTake \/ AdmitClosed \/ AdmitOne
  BY <1>5, <1>t DEF AdmitTake, AdmitClosed, AdmitOne, StopOrder, QLen
<1>6. CASE AdmitStop
  BY <1>6, <1>t DEF AdmitStop, StopOrder, QLen
<1>7. CASE AdmitRefused
  BY <1>7, <1>t DEF AdmitRefused, StopOrder, QLen
<1>8. CASE AdmitEnd
  BY <1>8, <1>t DEF AdmitEnd, StopOrder, QLen
<1>9. CASE HandlerReturns
  BY <1>9, <1>t DEF HandlerReturns, StopOrder, QLen
<1>10. CASE WriterTake \/ WriterMode \/ WriterExit
  BY <1>10, <1>t DEF WriterTake, WriterMode, WriterExit, StopOrder, QLen, LaneTypes
<1>11. CASE WriterRelease \/ WriterAnnounce \/ WriterRefuse \/ WriterBegin
  BY <1>11, <1>t DEF WriterRelease, WriterAnnounce, WriterRefuse, WriterBegin, StopOrder, QLen
<1>12. CASE WriterClaim
  BY <1>12, <1>t DEF WriterClaim, StopOrder, QLen
<1>13. CASE WriterEnd \/ WriterReport \/ WriterAfter
  BY <1>13, <1>t, <1>l DEF WriterEnd, WriterReport, WriterAfter, StopOrder, QLen
<1>14. CASE WriterWrite \/ WriterFail
  BY <1>14, <1>t DEF WriterWrite, WriterFail, StopOrder, QLen
<1>15. CASE MainReadDone \/ MainClosed
  BY <1>15, <1>t DEF MainReadDone, MainClosed, StopOrder, QLen
<1>16. CASE MainEnd \/ MainProceed
  BY <1>16, <1>t DEF MainEnd, MainProceed, StopOrder, QLen
<1>17. CASE MainTimeout
  BY <1>17, <1>t DEF MainTimeout, StopOrder, QLen
<1>18. CASE MainReturn
  BY <1>18, <1>t DEF MainReturn, StopOrder, QLen
<1>19. CASE Settle
  BY <1>19, <1>t DEF Settle, StopOrder, QLen
<1>20. ASSUME NEW x \in Answers, Answer(x) PROVE StopOrder'
  BY <1>20, <1>q DEF Answer, stopVars
<1>21. ASSUME NEW x \in Answers, Respond(x) PROVE StopOrder'
  BY <1>21, <1>t DEF Respond, ReplyRefused, StopOrder, QLen
<1>22. ASSUME NEW x \in Senders, Enqueue(x) PROVE StopOrder'
  BY <1>22, <1>t DEF Enqueue, EnqueueRefused, StopOrder, QLen
<1>23. ASSUME NEW x \in Senders, EnqueueStop(x) \/ EnqueueWait(x) \/ EnqueueWake(x)
       PROVE  StopOrder'
  BY <1>23, <1>q DEF EnqueueStop, EnqueueWait, EnqueueWake, stopVars
<1>24. ASSUME NEW c \in Calls, CallStep(c) PROVE StopOrder'
  BY <1>24, <1>q DEF CallStep, CallRegister, CallTooMany, CallBadOp, CallWritten, CallInterrupted,
     CallAnswered, CallAbandoned, CallLeave, stopVars
<1>25. ASSUME NEW f \in Flushes, FlushStep(f) PROVE StopOrder'
  BY <1>25, <1>q DEF FlushStep, FlushStart, FlushCheck, FlushLook, FlushWake, FlushCancelled,
     stopVars
<1>26. CASE UNCHANGED vars
  BY <1>26, <1>q DEF vars, stopVars
<1>27. ASSUME NEW x \in Senders, SendStep(x) PROVE StopOrder'
  BY <1>27, <1>22, <1>23 DEF SendStep
<1> QED
  BY <1>1, <1>2, <1>3, <1>4, <1>5, <1>6, <1>7, <1>8, <1>9, <1>10, <1>11, <1>12, <1>13, <1>14,
     <1>15, <1>16, <1>17, <1>18, <1>19, <1>20, <1>21, <1>24, <1>25, <1>26, <1>27
  DEF Next, ReadStep, AdmitStep, WriterStep, PipeStep, MainStep, AnswerStep, Returned

\* The writer skips nothing unless the lane faulted.
LEMMA NoGapStep == TypeOK /\ LaneInv /\ NoGap /\ [Next]_vars => NoGap'
<1> SUFFICES ASSUME TypeOK, LaneInv, NoGap, [Next]_vars, fault' = "none"
             PROVE  /\ wr' \in {"idle", "exit"} => wrote' = taken'
                    /\ wr' \notin {"idle", "exit"} => wrote' + 1 = taken'
                    /\ wr' = "after" => ~owed'
  BY DEF NoGap
<1> DEFINE goal == /\ wr' \in {"idle", "exit"} => wrote' = taken'
                   /\ wr' \notin {"idle", "exit"} => wrote' + 1 = taken'
                   /\ wr' = "after" => ~owed'
<1> SUFFICES goal
  OBVIOUS
<1>t. taken \in Nat /\ wrote \in Nat /\ fault \in Faults
  BY DEF TypeOK
<1>l. /\ wr \in {"torn", "failed"} => fault # "none"
      /\ wr = "written" => ~owed
  BY DEF LaneInv, TornIsFault, AtWriter
<1> USE DEF outVars, endVars, wrVars, ending, written, ByReader, ByAdmission, ByAnswer, ByWriter,
            ByMain, BySender, ByFlush, End, Faulted
<1>q. ASSUME UNCHANGED <<taken, wrote, wr, owed>>, fault # "none" => fault' # "none" PROVE goal
  BY <1>q DEF NoGap
<1>1. CASE ReaderStep
  BY <1>1, <1>q DEF ReaderStep, ReaderFault, ReaderRead, ReaderClose, ReaderReport
<1>2. CASE ReadStep
  BY <1>2, <1>q DEF ReadStep, ReadReply, ReadControl, ReadEnd
<1>3. CASE AdmitStep \/ HandlerReturns
  BY <1>3, <1>q DEF AdmitStep, AdmitTake, AdmitStop, AdmitClosed, AdmitOne, AdmitRefused, AdmitEnd,
     HandlerReturns
<1>4. CASE WriterTake \/ WriterMode \/ WriterExit
  BY <1>4, <1>t DEF WriterTake, WriterMode, WriterExit, NoGap
<1>5. CASE WriterRelease \/ WriterAnnounce \/ WriterBegin
  BY <1>5 DEF WriterRelease, WriterAnnounce, WriterBegin, NoGap
<1>6. CASE WriterClaim
  BY <1>6 DEF WriterClaim, NoGap
<1>7. CASE WriterRefuse
  BY <1>7 DEF WriterRefuse, WriteAllowed
<1>8. CASE WriterEnd \/ WriterReport
  BY <1>8, <1>l DEF WriterEnd, WriterReport, NoGap
<1>9. CASE WriterAfter
  BY <1>9, <1>t DEF WriterAfter, Advances, NoGap
<1>10. CASE WriterWrite \/ WriterFail
  BY <1>10 DEF WriterWrite, WriterFail, NoGap
<1>11. CASE MainStep \/ Settle
  BY <1>11, <1>q DEF MainStep, MainReadDone, MainClosed, MainEnd, MainProceed, MainTimeout,
     MainReturn, Settle
<1>12. CASE AnswerStep
  BY <1>12, <1>q DEF AnswerStep, Answer, Respond
<1>13. ASSUME NEW x \in Senders, SendStep(x) PROVE goal
  BY <1>13, <1>q DEF SendStep, EnqueueStop, Enqueue, EnqueueWait, EnqueueWake
<1>14. ASSUME NEW c \in Calls, CallStep(c) PROVE goal
  BY <1>14, <1>q DEF CallStep, CallRegister, CallTooMany, CallBadOp, CallWritten, CallInterrupted,
     CallAnswered, CallAbandoned, CallLeave
<1>15. ASSUME NEW f \in Flushes, FlushStep(f) PROVE goal
  BY <1>15, <1>q DEF FlushStep, FlushStart, FlushCheck, FlushLook, FlushWake, FlushCancelled
<1>16. CASE UNCHANGED vars
  BY <1>16, <1>q DEF vars
<1> HIDE DEF goal
<1> QED
  BY <1>1, <1>2, <1>3, <1>4, <1>5, <1>6, <1>7, <1>8, <1>9, <1>10, <1>11, <1>12, <1>13, <1>14,
     <1>15, <1>16 DEF Next, WriterStep, PipeStep, Returned

\* Which steps can lose, answer or queue a control.
keptVars == <<received, handed, admitCh, ad, cur, answered, ans, log>>
Kept == /\ UNCHANGED keptVars
        /\ fault # "none" => fault' # "none"
        /\ readErr = "saturated" => readErr' = "saturated"

LEMMA KeptMovers ==
    StopOrder /\ [Next]_vars => \/ Kept \/ AdmitStep \/ HandlerReturns
                                \/ (\E k \in Controls : ReadControl(k))
                                \/ (\E x \in Answers : Answer(x) \/ Respond(x))
                                \/ (\E x \in Senders : Enqueue(x))
<1> SUFFICES ASSUME StopOrder, [Next]_vars
             PROVE  \/ Kept \/ AdmitStep \/ HandlerReturns
                    \/ (\E k \in Controls : ReadControl(k))
                    \/ (\E x \in Answers : Answer(x) \/ Respond(x))
                    \/ (\E x \in Senders : Enqueue(x))
  OBVIOUS
<1>r. rd \in {"loop", "read"} => readErr = "none"
  BY DEF StopOrder
<1> USE DEF Kept, keptVars, outVars, endVars, rdVars, admVars, ansVars, ending, ByReader, ByWriter,
            ByMain, BySender, ByFlush, Faulted
<1>1. CASE ReaderStep
  BY <1>1, <1>r DEF ReaderStep, ReaderFault, ReaderRead, ReaderClose, ReaderReport
<1>2. ASSUME NEW c \in Calls, ReadReply(c) PROVE Kept
  BY <1>2 DEF ReadReply
<1>3. ASSUME NEW err \in {"none", "error"}, ReadEnd(err) PROVE Kept
  BY <1>3, <1>r DEF ReadEnd
<1>4. CASE WriterStep
  BY <1>4 DEF WriterStep, WriterTake, WriterMode, WriterExit, WriterRelease, WriterAnnounce,
     WriterClaim, WriterRefuse, WriterBegin, WriterEnd, WriterReport, WriterAfter
<1>5. CASE PipeStep
  BY <1>5 DEF PipeStep, WriterWrite, WriterFail
<1>6. CASE MainStep \/ Settle
  BY <1>6 DEF MainStep, MainReadDone, MainClosed, MainEnd, MainProceed, MainTimeout, MainReturn,
     Settle
<1>7. ASSUME NEW x \in Senders, SendStep(x) PROVE Enqueue(x) \/ Kept
  BY <1>7 DEF SendStep, EnqueueStop, EnqueueWait, EnqueueWake
<1>8. ASSUME NEW c \in Calls, CallStep(c) PROVE Kept
  BY <1>8 DEF CallStep, CallRegister, CallTooMany, CallBadOp, CallWritten, CallInterrupted,
     CallAnswered, CallAbandoned, CallLeave
<1>9. ASSUME NEW f \in Flushes, FlushStep(f) PROVE Kept
  BY <1>9 DEF FlushStep, FlushStart, FlushCheck, FlushLook, FlushWake, FlushCancelled
<1>10. CASE UNCHANGED vars
  BY <1>10 DEF vars
<1> HIDE DEF Kept
<1> QED
  BY <1>1, <1>2, <1>3, <1>4, <1>5, <1>6, <1>7, <1>8, <1>9, <1>10
  DEF Next, ReadStep, AnswerStep, Returned

\* No control is dropped between stdin and its handler, and no answer of an
\* inline handler on its way to outQ, unless the lane faulted.
LEMMA KeptStep ==
    TypeOK /\ LaneInv /\ Admission /\ StopOrder /\ NothingDropped /\ [Next]_vars => NothingDropped'
<1> SUFFICES ASSUME TypeOK, LaneInv, Admission, StopOrder, NothingDropped, [Next]_vars
             PROVE  NothingDropped'
  OBVIOUS
<1>t. /\ log \in Seq(Frames) /\ admitCh \in Seq(Controls) /\ handed \subseteq Controls
      /\ answered \subseteq handed /\ ans \in [Answers -> {"idle", "respond", "done"}]
      /\ Len(log) \in Nat /\ Len(admitCh) \in Nat
  BY DEF TypeOK
<1> DEFINE InLog(k) == \E i \in 1..Len(log) : log[i] = k
           Responding(k) == \E a \in Answerers : ans[<<k, a>>] = "respond"
           AtHand(k) == ad = "handler" /\ cur = k
           Answering(k) == /\ k \in answered \/ AtHand(k)
                           /\ k \in answered => Responding(k) \/ InLog(k)
                           /\ Responding(k) => AtHand(k)
           Received == fault = "none" /\ readErr # "saturated"
                         => received \subseteq handed \cup Queue \cup InHand
<1>d. NothingDropped <=> Received /\ (fault = "none" => \A k \in handed \cap Inline : Answering(k))
  BY DEF NothingDropped
<1>e. Received' /\ (fault' = "none" => \A k \in handed' \cap Inline : Answering(k)')
        => NothingDropped'
  BY DEF NothingDropped
<1>r. \A k \in Controls : Responding(k) => k \in answered
  BY DEF LaneInv, LogOwned
<1> HIDE DEF Answering, Received
<1>1. CASE Kept
  <2>1. /\ UNCHANGED <<received, handed, admitCh, ad, cur, answered, ans, log>>
        /\ fault # "none" => fault' # "none"
        /\ readErr = "saturated" => readErr' = "saturated"
    BY <1>1 DEF Kept, keptVars
  <2>2. Queue' = Queue /\ InHand' = InHand
    BY <2>1 DEF Queue, InHand
  <2> QED BY <2>1, <2>2 DEF NothingDropped
<1>2. CASE AdmitStep \/ HandlerReturns
  <2>0. /\ UNCHANGED <<readErr, received, answered, ans, log>>
        /\ fault # "none" => fault' # "none"
    BY <1>2 DEF AdmitStep, AdmitTake, AdmitStop, AdmitClosed, AdmitOne, AdmitRefused, AdmitEnd,
       HandlerReturns, ByAdmission, rdVars, ansVars, outVars, ending, Faulted
  <2>1. CASE fault' # "none"
    BY <2>1, <1>e DEF Received
  <2>2. CASE fault' = "none"
    <3>0. fault = "none" /\ Received /\ \A k \in handed \cap Inline : Answering(k)
      BY <2>0, <2>2, <1>d
    <3>1. CASE AdmitTake
      <4>1. /\ ad \in {"sel", "drain"} /\ ad' = "got" /\ handed' = handed /\ admitCh # <<>>
            /\ cur' = Head(admitCh) /\ admitCh' = Tail(admitCh)
        BY <3>1 DEF AdmitTake, ByAdmission
      <4>2. Queue \subseteq Queue' \cup InHand' /\ InHand = {}
        <5>1. InHand' = {admitCh[1]} /\ InHand = {}
          BY <4>1, <1>t DEF InHand
        <5>2. ASSUME NEW i \in 2..Len(admitCh) PROVE admitCh[i] \in Queue'
          <6>1. i - 1 \in 1..Len(admitCh') /\ admitCh'[i - 1] = admitCh[i]
            BY <4>1, <1>t
          <6> QED
            BY <6>1 DEF Queue
        <5>3. ASSUME NEW i \in 1..Len(admitCh) PROVE admitCh[i] \in Queue' \cup InHand'
          BY <5>1, <5>2, <1>t
        <5> QED
          BY <5>1, <5>3 DEF Queue
      <4>3. Received'
        BY <4>1, <4>2, <3>0, <2>0 DEF Received
      <4>4. \A k \in handed' \cap Inline : Answering(k)'
        BY <4>1, <3>0, <2>0 DEF Answering
      <4> QED
        BY <4>3, <4>4, <1>e
    <3>2. CASE AdmitOne
      <4>1. /\ ad = "got" /\ ad' = "handler" /\ handed' = handed \cup {cur}
            /\ cur' = cur /\ admitCh' = admitCh
        BY <3>2 DEF AdmitOne, ByAdmission
      <4>2. cur \notin handed /\ cur \notin answered /\ cur \in Controls
        BY <4>1, <1>t DEF Admission, InHand, TypeOK
      <4>3. Received'
        BY <4>1, <3>0, <2>0 DEF Received, Queue, InHand
      <4>4. ASSUME NEW k \in handed' \cap Inline PROVE Answering(k)'
        <5>1. CASE k = cur
          BY <5>1, <4>1, <4>2, <2>0, <1>r DEF Answering
        <5>2. CASE k # cur
          BY <5>2, <4>1, <3>0, <2>0 DEF Answering
        <5> QED
          BY <5>1, <5>2
      <4> QED
        BY <4>3, <4>4, <1>e
    <3>3. CASE AdmitStop \/ AdmitClosed
      <4>1. /\ ad \in {"sel", "drain"} /\ ad' \in {"exit", "drain"}
            /\ UNCHANGED <<cur, handed, admitCh>>
        BY <3>3, <3>0 DEF AdmitStop, AdmitClosed, ByAdmission
      <4>2. Received'
        BY <4>1, <3>0, <2>0 DEF Received, Queue, InHand
      <4>3. \A k \in handed' \cap Inline : Answering(k)'
        BY <4>1, <3>0, <2>0 DEF Answering
      <4> QED
        BY <4>2, <4>3, <1>e
    <3>4. CASE AdmitRefused
      BY <3>4, <3>0, <2>2 DEF AdmitRefused, Faulted
    <3>5. CASE AdmitEnd
      BY <3>5, <3>0 DEF AdmitEnd, StopOrder
    <3>6. CASE HandlerReturns
      <4>1. /\ ad = "handler" /\ ad' = "sel" /\ UNCHANGED <<cur, handed, admitCh>>
            /\ cur \in Inline => cur \in answered /\ ~Responding(cur)
        BY <3>6 DEF HandlerReturns, ByAdmission
      <4>2. Received'
        BY <4>1, <3>0, <2>0 DEF Received, Queue, InHand
      <4>3. \A k \in handed' \cap Inline : Answering(k)'
        BY <4>1, <3>0, <2>0 DEF Answering
      <4> QED
        BY <4>2, <4>3, <1>e
    <3> QED
      BY <1>2, <3>1, <3>2, <3>3, <3>4, <3>5, <3>6 DEF AdmitStep
  <2> QED
    BY <2>1, <2>2
<1>3. ASSUME NEW k \in Controls, ReadControl(k) PROVE NothingDropped'
  <2>1. /\ UNCHANGED <<handed, ad, cur, answered, ans, log, fault>>
        /\ received' = received \cup {k}
        /\ \/ admitCh' = Append(admitCh, k) /\ readErr' = readErr
           \/ readErr' = "saturated"
    BY <1>3 DEF ReadControl, ByReader, endVars, outVars, ansVars
  <2>2. Received'
    <3>1. CASE admitCh' = Append(admitCh, k) /\ readErr' = readErr
      <4>1. Queue' = Queue \cup {k}
        <5>1. /\ Len(admitCh') = Len(admitCh) + 1 /\ admitCh'[Len(admitCh) + 1] = k
              /\ \A i \in 1..Len(admitCh) : admitCh'[i] = admitCh[i]
          BY <3>1, <1>t
        <5> QED
          BY <5>1, <1>t DEF Queue
      <4>2. InHand' = InHand
        BY <2>1 DEF InHand
      <4> QED
        BY <4>1, <4>2, <3>1, <2>1, <1>d DEF Received
    <3>2. CASE readErr' = "saturated"
      BY <3>2 DEF Received
    <3> QED
      BY <3>1, <3>2, <2>1
  <2>3. fault' = "none" => \A j \in handed' \cap Inline : Answering(j)'
    BY <2>1, <1>d DEF Answering
  <2> QED
    BY <2>2, <2>3, <1>e
<1>4. ASSUME NEW x \in Answers, Answer(x) \/ Respond(x) PROVE NothingDropped'
  <2>1. PICK k \in Controls, a \in Answerers : x = <<k, a>>
    BY DEF Answers
  <2>2. /\ UNCHANGED <<received, handed, admitCh, ad, cur, readErr>>
        /\ fault # "none" => fault' # "none"
    BY <1>4 DEF Answer, Respond, ByAnswer, rdVars
  <2>3. Received'
    BY <2>2, <1>d DEF Received, Queue, InHand
  <2>4. ASSUME fault' = "none", NEW j \in handed' \cap Inline PROVE Answering(j)'
    <3>0. fault = "none" /\ j \in handed \cap Inline /\ j \in Controls /\ Answering(j)
      BY <2>2, <2>4, <1>d, <1>t
    <3>1. CASE Answer(x)
      <4>1. /\ ans[x] = "idle" /\ answered' = answered \cup {k} /\ log' = log
            /\ ans' = [ans EXCEPT ![x] = IF k \notin answered THEN "respond" ELSE "done"]
        BY <3>1, <2>1 DEF Answer, Wins, ByAnswer
      <4>2. \A b \in Answerers : ans'[<<j, b>>] = IF j = k /\ b = a
                THEN IF k \notin answered THEN "respond" ELSE "done" ELSE ans[<<j, b>>]
        BY <4>1, <3>0, <2>1, <1>t DEF Answers
      <4>3. InLog(j)' <=> InLog(j)
        BY <4>1
      <4>4. AtHand(j)' <=> AtHand(j)
        BY <2>2
      <4>5. CASE j = k /\ k \notin answered
        <5>1. Responding(j)' /\ AtHand(j)
          BY <4>2, <4>5, <3>0 DEF Answering
        <5> QED
          BY <5>1, <4>4 DEF Answering
      <4>6. CASE j = k /\ k \in answered
        <5>1. Responding(j)' <=> Responding(j)
          <6>1. \A b \in Answerers : ans'[<<j, b>>] = "respond" <=> ans[<<j, b>>] = "respond"
            BY <4>1, <4>2, <4>6, <2>1
          <6> QED
            BY <6>1
        <5> QED
          BY <5>1, <4>1, <4>3, <4>4, <4>6, <3>0 DEF Answering
      <4>7. CASE j # k
        <5>1. Responding(j)' <=> Responding(j)
          BY <4>2, <4>7
        <5> QED
          BY <5>1, <4>1, <4>3, <4>4, <4>7, <3>0 DEF Answering
      <4> QED
        BY <4>5, <4>6, <4>7
    <3>2. CASE Respond(x)
      <4>1. ans[x] = "respond" /\ ans' = [ans EXCEPT ![x] = "done"] /\ answered' = answered
        BY <3>2 DEF Respond, ByAnswer
      <4>2. \A b \in Answerers :
              ans'[<<j, b>>] = IF j = k /\ b = a THEN "done" ELSE ans[<<j, b>>]
        BY <4>1, <3>0, <2>1, <1>t DEF Answers
      <4>3. Responding(j)' => Responding(j)
        BY <4>2
      <4>4. AtHand(j)' <=> AtHand(j)
        BY <2>2
      <4>5. log' = log \/ log' = Append(log, k)
        BY <3>2, <2>1 DEF Respond
      <4>6. InLog(j) => InLog(j)'
        <5>1. \A i \in 1..Len(log) : i \in 1..Len(log') /\ log'[i] = log[i]
          <6>1. CASE log' = log
            BY <6>1
          <6>2. CASE log' = Append(log, k)
            BY <6>2, <1>t
          <6> QED
            BY <6>1, <6>2, <4>5
        <5> QED
          BY <5>1
      <4>7. CASE j # k
        <5>1. Responding(j) => Responding(j)'
          BY <4>2, <4>7
        <5> QED
          BY <5>1, <4>1, <4>3, <4>4, <4>6, <3>0 DEF Answering
      <4>8. CASE j = k
        <5>1. AtHand(k)
          BY <4>1, <4>8, <3>0, <2>1 DEF Answering
        <5>2. ~ReplyRefused
          BY <5>1, <3>0 DEF ReplyRefused, StopOrder
        <5>3. log' = Append(log, k)
          <6>1. QLen \in Int /\ OutQueue \in Int
            BY <1>t, LaneAssumption DEF TypeOK, QLen, OutQueue
          <6>2. x[1] = k
            BY <2>1
          <6> QED
            BY <6>1, <6>2, <5>2, <3>2, <2>4 DEF Respond
        <5>4. InLog(j)'
          <6>1. Len(log) + 1 \in 1..Len(log') /\ log'[Len(log) + 1] = k
            BY <5>3, <1>t
          <6> QED
            BY <6>1, <4>8
        <5> QED
          BY <5>1, <5>4, <4>1, <4>4, <4>8, <3>0 DEF Answering
      <4> QED
        BY <4>7, <4>8
    <3> QED
      BY <1>4, <3>1, <3>2
  <2> QED
    BY <2>3, <2>4, <1>e
<1>5. ASSUME NEW x \in Senders, Enqueue(x) PROVE NothingDropped'
  <2>1. /\ UNCHANGED <<received, handed, admitCh, ad, cur, answered, ans, fault, readErr>>
        /\ log' = Append(log, x)
    BY <1>5 DEF Enqueue, BySender, endVars, admVars, rdVars, ansVars
  <2>2. \A i \in 1..Len(log) : i \in 1..Len(log') /\ log'[i] = log[i]
    BY <2>1, <1>t
  <2>3. Received'
    BY <2>1, <1>d DEF Received, Queue, InHand
  <2>4. ASSUME fault' = "none", NEW j \in handed' \cap Inline PROVE Answering(j)'
    <3>1. Answering(j)
      BY <2>1, <2>4, <1>d
    <3>2. InLog(j) => InLog(j)'
      BY <2>2
    <3> QED
      BY <3>1, <3>2, <2>1 DEF Answering
  <2> QED
    BY <2>3, <2>4, <1>e
<1> QED
  BY <1>1, <1>2, <1>3, <1>4, <1>5, KeptMovers

----------------------------------------------------------------------------
(* The theorems.                                                           *)

ServeInv == Admission /\ Room /\ Ending

LEMMA ServeInit == Init => ServeInv
<1> SUFFICES ASSUME Init PROVE ServeInv
  OBVIOUS
<1>1. Admission
  BY DEF Init, InitLane, Admission, Queue, InHand
<1>2. Room
  <2>1. Holders = {} /\ SenderPlaces = {}
    BY DEF Init, InitLane, Holders, SenderPlaces
  <2> QED
    BY <2>1, FS_EmptySet, LaneAssumption DEF Init, InitLane, Room, SlotsAreHeld
<1>3. Ending
  BY DEF Init, InitLane, Ending, NothingDropped, StopOrder, NoGap, QLen
<1> QED
  BY <1>1, <1>2, <1>3 DEF ServeInv

LEMMA ServeStep ==
    TypeOK /\ TypeOK' /\ LaneInv /\ ServeInv /\ [Next]_vars => ServeInv'
  BY AdmissionStep, SlotsStep, SendersStep, StopStep, NoGapStep, KeptStep
  DEF ServeInv, Room, Ending

\* Every control has its place on the way to its handler, every admission slot
\* its holder, and the goroutines stop in the order serveSession relies on, in
\* every reachable state.
THEOREM ServeInvariant == Spec => []ServeInv
  BY ServeInit, ServeStep, LaneInvariant, PTL DEF Spec

\* admissionSlots counts exactly the controls that hold one: none leaks and none
\* is given back twice, whichever of Answer and the writer gives it back.
THEOREM SlotsHeld == Spec => []SlotsAreHeld
<1>1. ServeInv => SlotsAreHeld
  BY DEF ServeInv, Room
<1> QED
  BY <1>1, ServeInvariant, PTL

\* The reply of an Answer that has won finds room in outQ, for any capacities:
\* the fault in Control.Answer is dead code.
THEOREM RepliesFit == Spec => []ReplyAlwaysFits
<1>1. TypeOK /\ LaneInv /\ ServeInv => ReplyAlwaysFits
  BY RoomFits DEF ServeInv
<1> QED
  BY <1>1, LaneInvariant, ServeInvariant, PTL

\* The lane faults for want of admission room only when the host has more than
\* sessionAdmitQueue controls unanswered.
THEOREM WindowServed == Spec => WindowedHostIsServed
<1>1. TypeOK /\ TypeOK' /\ LaneInv /\ ServeInv /\ [Next]_vars
        => (CutsOff => Cardinality(received' \ wire) > AdmitQueue)
  BY CutStep DEF ServeInv, Room
<1>2. [Next]_vars /\ TypeOK /\ TypeOK' /\ LaneInv /\ ServeInv
        => [CutsOff => Cardinality(received' \ wire) > AdmitQueue]_vars
  BY <1>1
<1> QED
  BY <1>2, LaneInvariant, ServeInvariant, PTL DEF Spec, WindowedHostIsServed

\* When serveSession returns nil, all that was accepted is on the pipe or was
\* withdrawn, and every control for an inline handler has its answer there.
THEOREM CleanReturn == Spec => []CleanReturnDelivers
<1>1. TypeOK /\ LaneInv /\ ServeInv => CleanReturnDelivers
  <2> SUFFICES ASSUME TypeOK, LaneInv, ServeInv, ret = "nil"
               PROVE  /\ \A i \in 1..Len(log) : Accounted(log[i])
                      /\ received \cap Inline \subseteq wire
    BY DEF CleanReturnDelivers
  <2>t. /\ taken \in 0..Len(log) /\ Len(log) \in Nat /\ received \subseteq Controls
        /\ Controls \cap Senders = {} /\ Calls \subseteq Senders
    BY LaneAssumption DEF TypeOK, Senders
  <2>1. /\ rd = "exit" /\ readErr = "none" /\ fault = "none" /\ wr = "exit"
        /\ settled /\ ad = "exit" /\ admitCh = <<>> /\ QLen = 0
    BY DEF ServeInv, Ending, StopOrder
  <2>2. wrote = taken /\ taken = Len(log)
    BY <2>1, <2>t DEF ServeInv, Ending, NoGap, QLen
  <2>3. \A i \in 1..Len(log) : Accounted(log[i])
    BY <2>2 DEF LaneInv, WrotePrefix
  <2>4. ASSUME NEW k \in received \cap Inline PROVE k \in wire
    <3>1. Queue = {} /\ InHand = {}
      BY <2>1 DEF Queue, InHand
    <3>2. k \in handed
      BY <2>1, <3>1, <2>4 DEF ServeInv, Ending, NothingDropped
    <3>3. PICK i \in 1..Len(log) : log[i] = k
      BY <2>1, <3>2, <2>4 DEF ServeInv, Ending, NothingDropped
    <3> QED
      BY <2>3, <3>3, <2>4, <2>t DEF Accounted
  <2> QED
    BY <2>3, <2>4
<1> QED
  BY <1>1, LaneInvariant, ServeInvariant, PTL
=============================================================================

---------------------------- MODULE VoiceEngine ----------------------------
(***************************************************************************)
(* The engine of examples/voice-skel behind the session lane: its controls *)
(* run one at a time (`ctl`), and beside them a goroutine per reply (run), *)
(* one per input cutoff (finishTail), one per close, and one that echoes   *)
(* the input audio.  They share the engine under its mutex and emit        *)
(* events, each under the mutex and with the session of that moment.       *)
(*                                                                         *)
(* The host is external: it sends any control, its audio and its playback  *)
(* reports at any time.                                                    *)
(***************************************************************************)
EXTENDS Naturals, Sequences, FiniteSets

CONSTANTS MaxSessions,   \* bound: sessions opened
          MaxGens,       \* bound: generations, replies and echoes
          MaxOut         \* bound: samples of a stream

VARIABLES eng,       \* [session, life, hears, fin, input, synth]
          gens,      \* Seq of generations; the number of one is its id and its stream
          ctl,       \* what the control in progress has left to do
          tails,     \* session -> its finishTail
          closers,   \* session -> its close
          echo,      \* the echo goroutine
          mixed      \* ghost: sessions a tail of an earlier one reached into

voiceVars == <<eng, gens, ctl, tails, closers, echo, mixed>>

Sessions == 1 .. MaxSessions
NoGen == 0
Idle == [at |-> "idle"]
Reading == [at |-> "read", g |-> NoGen]

VoiceInit ==
    /\ eng = [session |-> 0, life |-> "none", hears |-> TRUE, fin |-> FALSE,
              input |-> "accepting", synth |-> NoGen]
    /\ gens = <<>> /\ ctl = Idle /\ echo = Reading
    /\ tails = [s \in Sessions |-> "none"]
    /\ closers = [s \in Sessions |-> [at |-> "none"]]
    /\ mixed = {}

Ours(g) == gens[g].of = eng.session          \* byID, which an open empties
Set(g, r) == gens' = [gens EXCEPT ![g] = r]
\* The events on what became of a generation are kept with it; the others change nothing here.
Told(g, type, at) == [gens[g] EXCEPT !.told = @ \cup {type}, !.at = at]

NewGen(kind, at) ==
    [kind |-> kind, of |-> eng.session, at |-> at, cancelled |-> FALSE, stopped |-> FALSE,
     ended |-> FALSE, carried |-> FALSE, out |-> 0, reported |-> 0, resolved |-> FALSE,
     drained |-> FALSE, owed |-> FALSE, cut |-> FALSE, told |-> {}]

----------------------------------------------------------------------------
\* The controls.

Open ==
    /\ ctl = Idle /\ eng.life \in {"none", "closed"} /\ eng.session < MaxSessions
    /\ \E hears \in BOOLEAN :
         eng' = [session |-> eng.session + 1, life |-> "open", hears |-> hears, fin |-> FALSE,
                 input |-> IF hears THEN "accepting" ELSE "absent", synth |-> NoGen]
    /\ UNCHANGED <<gens, ctl, tails, closers, echo, mixed>>

Synthesize ==
    /\ ctl = Idle /\ eng.life = "open" /\ Len(gens) < MaxGens
    /\ LET g == Len(gens) + 1 IN
         /\ gens' = Append(gens, NewGen("reply", "admitted"))
         /\ eng' = [eng EXCEPT !.synth = g]
         /\ ctl' = [at |-> "announce", g |-> g]
    /\ UNCHANGED <<tails, closers, echo, mixed>>

\* The stream is named before the goroutine that fills it starts.
Announce ==
    /\ ctl.at = "announce"
    /\ Set(ctl.g, Told(ctl.g, "synthesis_start", "loop"))
    /\ ctl' = Idle
    /\ UNCHANGED <<eng, tails, closers, echo, mixed>>

\* Mutant: a generation that has ended is still promised to end cancelled.
CancellableAny(g) == Ours(g)

\* cancel: the current generation, or one whose output has not ended, is still to resolve.
Cancellable(g) == eng.synth = g \/ (Ours(g) /\ ~gens[g].ended)

Cancel ==
    /\ ctl = Idle /\ eng.session > 0
    /\ \E g \in DOMAIN gens :
         /\ Cancellable(g)
         /\ Set(g, [gens[g] EXCEPT !.cancelled = TRUE, !.owed = TRUE])
    /\ UNCHANGED <<eng, ctl, tails, closers, echo, mixed>>

Stop ==
    /\ ctl = Idle /\ eng.session > 0
    /\ \E g \in DOMAIN gens :
         /\ eng.synth = g \/ Ours(g)
         /\ Set(g, [gens[g] EXCEPT !.stopped = TRUE])
    /\ UNCHANGED <<eng, ctl, tails, closers, echo, mixed>>

\* A second finish_input answers and does nothing.
FinishInput ==
    /\ ctl = Idle /\ eng.life = "open" /\ eng.hears /\ ~eng.fin
    /\ eng' = [eng EXCEPT !.fin = TRUE, !.input = "finishing"]
    /\ tails' = [tails EXCEPT ![eng.session] = "due"]
    /\ UNCHANGED <<gens, ctl, closers, echo, mixed>>

\* Mutant: a terminal report is taken for output that is still live.
TerminalAny(g, n) == gens[g].stopped \/ gens[g].cancelled \/ n = gens[g].out

\* What may be reported as the end of a stream's rendering.
TerminalFits(g, n) ==
    \/ gens[g].stopped \/ gens[g].cancelled
    \/ gens[g].ended /\ n = gens[g].out

Report ==
    /\ ctl = Idle /\ eng.life \in {"open", "draining"}
    /\ \E g \in DOMAIN gens : \E n \in gens[g].reported .. gens[g].out, terminal \in BOOLEAN :
         /\ Ours(g) /\ ~gens[g].resolved
         /\ IF terminal THEN TerminalFits(g, n) ELSE n > gens[g].reported
         /\ Set(g, [gens[g] EXCEPT !.reported = n])
         /\ ctl' = IF terminal THEN [at |-> "resolve", g |-> g,
                                     drained |-> ~gens[g].stopped /\ ~gens[g].cancelled]
                    ELSE Idle
    /\ UNCHANGED <<eng, tails, closers, echo, mixed>>

Resolve ==
    /\ ctl.at = "resolve"
    /\ Set(ctl.g, [gens[ctl.g] EXCEPT !.resolved = TRUE, !.drained = ctl.drained])
    /\ ctl' = Idle
    /\ UNCHANGED <<eng, tails, closers, echo, mixed>>

Fenced(r) == IF r.of = eng.session /\ ~r.ended THEN [r EXCEPT !.cancelled = TRUE, !.stopped = TRUE] ELSE r

Close ==
    /\ ctl = Idle /\ eng.life = "open"
    /\ \/ /\ eng.hears => eng.fin
          /\ eng' = [eng EXCEPT !.life = "draining"]
          /\ UNCHANGED gens
       \/ /\ eng' = [eng EXCEPT !.life = "aborting"]
          /\ gens' = [g \in DOMAIN gens |-> Fenced(IF g = eng.synth THEN [gens[g] EXCEPT !.cancelled = TRUE, !.stopped = TRUE] ELSE gens[g])]
    /\ closers' = [closers EXCEPT ![eng.session] = [at |-> "wait", mode |-> eng'.life, g |-> eng.synth]]
    /\ UNCHANGED <<ctl, tails, echo, mixed>>

----------------------------------------------------------------------------
\* run, the goroutine of a reply: it looks at the flags under the mutex, then speaks.
Look(g) ==
    /\ gens[g].at = "loop"
    /\ \E at \in {IF gens[g].cancelled THEN "end" ELSE IF gens[g].stopped THEN "hush" ELSE "speak", "end"} :
         Set(g, [gens[g] EXCEPT !.at = at])
    /\ UNCHANGED <<eng, ctl, tails, closers, echo, mixed>>

Speak(g) ==
    /\ gens[g].at = "speak"
    /\ Set(g, IF gens[g].ended \/ gens[g].out = MaxOut
              THEN [gens[g] EXCEPT !.at = "end"]
              ELSE [gens[g] EXCEPT !.at = "loop", !.out = @ + 1, !.carried = TRUE])
    /\ UNCHANGED <<eng, ctl, tails, closers, echo, mixed>>

EndStream(g) ==
    /\ gens[g].at \in {"hush", "end"}
    /\ Set(g, [gens[g] EXCEPT !.ended = TRUE, !.carried = TRUE,
                              !.at = IF @ = "hush" THEN "end" ELSE "finish"])
    /\ UNCHANGED <<eng, ctl, tails, closers, echo, mixed>>

Finish(g) ==
    /\ gens[g].at = "finish"
    /\ Set(g, [gens[g] EXCEPT !.at = "tell", !.cut = gens[g].cancelled, !.owed = @ /\ ~gens[g].cancelled])
    /\ eng' = [eng EXCEPT !.synth = IF @ = g THEN NoGen ELSE @]
    /\ UNCHANGED <<ctl, tails, closers, echo, mixed>>

Tell(g) ==
    /\ gens[g].at = "tell"
    /\ Set(g, Told(g, IF gens[g].cut THEN "synthesis_cancelled" ELSE "synthesis_end", "done"))
    /\ UNCHANGED <<eng, ctl, tails, closers, echo, mixed>>

----------------------------------------------------------------------------
\* finishTail: the event and the state it stands for change under one lock.
FinishTail(s) ==
    /\ tails[s] = "due"
    /\ eng' = [eng EXCEPT !.input = "finished"]
    /\ tails' = [tails EXCEPT ![s] = "done"]
    /\ mixed' = IF s = eng.session THEN mixed ELSE mixed \cup {eng.session}
    /\ UNCHANGED <<gens, ctl, closers, echo>>

\* The generations of the session that no terminal report has resolved.
Pending == {g \in DOMAIN gens : Ours(g) /\ ~gens[g].resolved}

\* The close waits for the reply that was current, for a drain also for the tail and the
\* reports; the first two stay so, the third is read last.
CloseWaits(s) ==
    /\ closers[s].at = "wait"
    /\ closers[s].g # NoGen => gens[closers[s].g].at = "done"
    /\ closers[s].mode = "draining" => (eng.hears => eng.input = "finished") /\ Pending = {}
    /\ closers' = [closers EXCEPT ![s].at = "close"]
    /\ UNCHANGED <<eng, gens, ctl, tails, echo, mixed>>

CloseEnds(s) ==
    /\ closers[s].at = "close"
    /\ eng' = [eng EXCEPT !.life = "closed"]
    /\ closers' = [closers EXCEPT ![s].at = "tell"]
    /\ UNCHANGED <<gens, ctl, tails, echo, mixed>>

CloseTells(s) ==
    /\ closers[s].at = "tell"
    /\ closers' = [closers EXCEPT ![s].at = "done"]
    /\ UNCHANGED <<eng, gens, ctl, tails, echo, mixed>>

----------------------------------------------------------------------------
\* echoAudio: an input frame; the first of a stream makes a generation for its echo.
EchoRead ==
    /\ echo.at = "read" /\ eng.hears /\ eng.session > 0
    /\ \E kind \in {"pcm", "end"} :
         \/ /\ Len(gens) < MaxGens
            /\ gens' = Append(gens, NewGen("echo", "echo"))
            /\ echo' = [at |-> "announce", g |-> Len(gens) + 1, kind |-> kind]
         \/ /\ echo.g # NoGen /\ ~gens[echo.g].ended
            /\ kind = "end" \/ gens[echo.g].out < MaxOut
            /\ echo' = [at |-> "write", g |-> echo.g,
                        kind |-> IF gens[echo.g].cancelled \/ gens[echo.g].stopped THEN "end" ELSE kind]
            /\ UNCHANGED gens
    /\ UNCHANGED <<eng, ctl, tails, closers, mixed>>

EchoAnnounce ==
    /\ echo.at = "announce"
    /\ Set(echo.g, Told(echo.g, "synthesis_start", "echo"))
    /\ echo' = [echo EXCEPT !.at = "write"]
    /\ UNCHANGED <<eng, ctl, tails, closers, mixed>>

EchoWrite ==
    /\ echo.at = "write"
    /\ Set(echo.g, [gens[echo.g] EXCEPT !.carried = TRUE])
    /\ echo' = [echo EXCEPT !.at = "account"]
    /\ UNCHANGED <<eng, ctl, tails, closers, mixed>>

EchoAccount ==
    /\ echo.at = "account"
    /\ LET over == echo.kind = "end" IN
         /\ Set(echo.g, [gens[echo.g] EXCEPT !.ended = over, !.out = IF over THEN @ ELSE @ + 1,
                                             !.owed = @ /\ ~(over /\ gens[echo.g].cancelled)])
         /\ echo' = IF over THEN [at |-> "tell", g |-> echo.g, cancelled |-> gens[echo.g].cancelled]
                    ELSE [at |-> "read", g |-> echo.g]
    /\ UNCHANGED <<eng, ctl, tails, closers, mixed>>

EchoTell ==
    /\ echo.at = "tell"
    /\ Set(echo.g, Told(echo.g, IF echo.cancelled THEN "synthesis_cancelled" ELSE "synthesis_end", "done"))
    /\ echo' = [at |-> "read", g |-> echo.g]
    /\ UNCHANGED <<eng, ctl, tails, closers, mixed>>

VoiceNext ==
    \/ Open \/ Synthesize \/ Announce \/ Cancel \/ Stop \/ FinishInput \/ Close
    \/ Report \/ Resolve
    \/ \E g \in DOMAIN gens : Look(g) \/ Speak(g) \/ EndStream(g) \/ Finish(g) \/ Tell(g)
    \/ \E s \in Sessions : FinishTail(s) \/ CloseWaits(s) \/ CloseEnds(s) \/ CloseTells(s)
    \/ EchoRead \/ EchoAnnounce \/ EchoWrite \/ EchoAccount \/ EchoTell

----------------------------------------------------------------------------
\* "Every output stream is named before it carries audio", each generation's one terminal
\* event says what became of it, and a cancel answered "not yet resolved" is a promise:
\* that event is synthesis_cancelled (cancel, run, echoAudio).
RepliesAreTold ==
    \A g \in DOMAIN gens :
        /\ gens[g].carried => "synthesis_start" \in gens[g].told
        /\ ~("synthesis_end" \in gens[g].told /\ "synthesis_cancelled" \in gens[g].told)
        /\ "synthesis_end" \in gens[g].told => ~gens[g].owed

\* A drain that ends with session_end was whole: its input was finished first, unless a
\* tail of an earlier session said so, and every reply was reported to its end; one
\* reported as drained, neither stopped nor cancelled, was rendered to its last sample.
DrainIsWhole ==
    \A s \in Sessions :
        closers[s].at \in {"tell", "done"} /\ closers[s].mode = "draining" =>
            /\ tails[s] = "due" => s \in mixed
            /\ \A g \in DOMAIN gens :
                 gens[g].of = s /\ gens[g].kind = "reply" =>
                    /\ gens[g].resolved
                    /\ gens[g].drained => gens[g].ended /\ gens[g].reported = gens[g].out
=============================================================================

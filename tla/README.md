# TLA+ models of the AII plugin SDK

This directory is a verification development for the repository beside it: TLA+
modules that model the concurrent and protocol-bearing parts of the SDK, TLC
configurations that check them on small instances, and TLAPS proofs of their
safety properties for every value of the constants. `PROJECT.json`
maps every definition to the Go lines it stands for, lists the hazards of the
code with the properties that watch them, and names a mutant for each property.

## 1. The system

The SDK has a guest side (what is compiled into a plugin), a tool side
(`aiisdk`, which builds, drives, checks, packages, signs and publishes plugins)
and a format library shared by both.

| Component | State it keeps | Operations | Hard part | What makes it correct |
|---|---|---|---|---|
| Session lane, `pkg/aiiosdk/session.go`, `frame.go` | outQ and its counters, admission slots, pending host calls, fault, closed/outClosed/settled | Serve, Answer, Emit, HostCall, Flush | six goroutines and the plugin's own on one pipe | what a caller is told is true of the pipe; the pipe stays framed; owed answers are delivered; nobody waits for ever |
| Request lane, guest: `serve.go`, `plugin.go`, `guest.go` | the registries, the host call's id | Serve, respond, host call | the next frame is taken for the reply | one reply per request, with its id |
| Request lane, driver: `internal/workerdrive/drive.go`, `cmd/aiisdk/checks.go` | the child and its pipes, the next id, the verdicts | Invoke, answer, Close, runChecks | a read given up leaves its goroutine on the pipe | a verdict is on its own reply |
| Session driver and checks: `internal/workerdrive/session.go`, `cmd/aiisdk/checks_session.go`, `pkg/aiiospkg/session_checks.go` | pending controls, the event buffer, the sender, the tally of speech, `gone` | open, listen, pace, end, abort, retire | replies, events, speech and the end arrive through four goroutines | one session at a time; slow is never wrong |
| Test command: `cmd/aiisdk/test.go`, `test_native.go` | the report, the case's settings, whether a check runs | the steps of a run, finish | a case or a check given up, calls beside the run | a pass is proven; a case's settings are its own |
| Stand-in host, `cmd/aiisdk/harness.go`, `harness_memory.go` | KV, files, streams, memories, published tools | one handler per host operation | files other programs change too; streams in pieces | the host's contract |
| Host-call library: `hostcall.go`, `files.go`, `memory.go`, ... | a stream's `done` | typed wrappers of one request and one reply | chunked reads, streams, publication | what is returned is what the host said |
| Send window, `sendwindow.go` | the recent sends, in the KV store | Admit, Record | read-modify-write, clocks that step back | never more sends than the limit, never a longer wait than needed |
| Channel adapters: `examples/gmail`, `telegram`, `twilio-sms` | a cursor or an offset and what is not yet confirmed, in KV | receive, notify, sync, send, setup | answers lost, calls killed, the service changing meanwhile | nothing is passed over that nobody holds; what is reported is true |
| Calendar: `examples/google-calendar` | none between calls | create, update, delete, availability | others change the event; a lost answer; clocks moved | only what was read is changed, once |
| Voice example: `examples/voice-skel` | generations, input, lifecycle | the session's controls | controls race with the engine's goroutines | one terminal event per generation; a drain is whole |
| Document example: `examples/document-ingest` | a document's chunks, in KV | ingest | an ingest cut off | the chunks are the document's and no others |
| Packaging: `package.go`, `runtimepack.go`, `pkg/aiiospkg/{validation,session_checks,runtime,tree,tar,digest,manifest}.go` | the output tree | package, runtime-pack | files read twice while somebody writes | what is packed is what was judged and listed |
| Signing and publication: `sign.go`, `publish*.go`, `revoke.go`, `devcert.go`, `keys.go`, `revocation.go` | key files, the trust snapshot, the staged tree | devcert, sign, publish, revoke | a command stopped in the middle, two at once | a signature is of what was measured; a revocation is never lost |
| Other declarations: `settings.go`, `webhooks.go`, `subscriptions.go`, `schedule.go`, `semver.go`, `embeddings.go`, `author.go`, `schema.go` | none | pure functions | boundary values | agree with the host's rules |
| Session audio `audio.go`, JSON codec `strictjson.go`, descriptors, command line, `internal/fileperm` | none, or a pipe | one call each | | |

How they meet: a plugin runs as a process with a control lane on stdin and
stdout (length-prefixed JSON frames) and, for an engine, two audio pipes. On the
request lane the host asks and the guest answers, and may call back in between.
On the session lane both sides send at any time. The driver plays the host: it
answers host calls with the stand-in host's handlers and gives the verdicts. The
example plugins keep what must outlive a call in the host's KV store, and meet a
service (Gmail, Telegram, Google Calendar, Pub/Sub) only by requests the host makes
for them. The release commands meet only in files.

## 2. Modules

| Module | Models | Extends |
|---|---|---|
| `SessionLane` | the guest library's session lane | Integers, Sequences, FiniteSets |
| `MCSessionLane` | instances in two parts, a symmetry set, a bound and starts in the middle | `SessionLane` |
| `SessionLaneProofs` | theorems about `SessionLane` | `SessionLane`, FiniteSetTheorems, TLAPS |
| `RequestLane`, `MCRequestLane` | the driver and one guest on the request lane | Naturals, Sequences |
| `SessionCheck`, `MCSessionCheck` | the package checks of a speech engine | Naturals, Sequences, FiniteSets |
| `RequestLaneProofs` | theorems about `RequestLane` | `RequestLane`, SequenceTheorems, TLAPS |
| `SessionCheckProofs` | theorems about `SessionCheck` | `SessionCheck`, TLAPS |
| `VoiceEngine` | `examples/voice-skel` | Naturals, Sequences, FiniteSets |
| `TestRun` | the steps and the report of `aiisdk test`, and what its host allows each | Naturals, Sequences, FiniteSets |
| `HostFiles` | fs.* of the stand-in host with `FilesClient` | Integers, Sequences, FiniteSets, SequencesExt |
| `HostMemory` | memory.remember and recall | Naturals, Sequences, FiniteSets, SequencesExt |
| `HostStreams` | streamed http.*, http.read and http.close with `HTTPStream` | Naturals, FiniteSets, Functions |
| `DocumentIngest` | `examples/document-ingest` over kv.* | Integers, FiniteSets, Functions |
| `ReleaseTools` | package, devcert, sign, revoke, publish on files | Naturals, Sequences, FiniteSets |
| `CheckFile` | validation.json and its recordings, read and packed | Naturals, Sequences, FiniteSets, FiniteSetsExt |
| `RuntimePack` | the runtime archive | Naturals, Sequences, FiniteSets, FiniteSetsExt |
| `MailSync`, `TelegramPoll` | the inboxes of the gmail and telegram adapters | Integers, Sequences, FiniteSets, SequencesExt |
| `HandOver` | what any such inbox promises, which both implement | Naturals |
| `MailSyncProofs` | the proof that `MailSync` implements it | `MailSync`, FiniteSetTheorems, SequenceTheorems, TLAPS |
| `TelegramPollProofs` | the proof that `TelegramPoll` implements it | `TelegramPoll`, FiniteSetTheorems, TLAPS |
| `MailSend`, `MailSetup` | gmail's sends and its setup | Naturals, Sequences, FiniteSets |
| `SendWindow` | the send window with the three adapters' sends | Integers, Sequences, FiniteSets, SequencesExt |
| `CalendarWrite`, `Availability` | the calendar's writes; the free times | Integers, Sequences, FiniteSets, SequencesExt |
| `MCEngines` | one instance of each module from `VoiceEngine` to `RuntimePack` | by INSTANCE |
| `MCChannels`, `MCMail`, `MCSends` | one instance of each adapter and of the calendar; of `MailSync` and of `SendWindow` alone | by INSTANCE; `MailSync`; `SendWindow` |
| `EnginesProofs` | theorems about `RuntimePack`, `CheckFile`, `VoiceEngine` and `ReleaseTools` in `MCEngines` | `MCEngines`, library theorems, TLAPS |
| `HostProofs` | theorems about `TestRun`, `HostFiles`, `HostMemory`, `HostStreams` and `DocumentIngest` in `MCEngines` | `MCEngines`, library theorems, TLAPS |
| `ChannelsProofs` | theorems about the setup, the sends, the calendar, the send window and the inboxes in `MCChannels` | `MCChannels`, library theorems, TLAPS |

`RequestLane` and `SessionCheck` each compose both ends: the driver's goroutines
and the guest, or an engine that is the environment. `SessionLane` has the host
as its environment, and `SessionCheck` has the guest library as its: the two meet
at the frames of the control lane.

### SessionLane

One action per step of a goroutine between two points where another may run.
`log`, `taken` and `wrote` are everything ever put on `outQ`, what the writer has
received and `Session.wrote`; `len(outQ)` is `Len(log) - taken`. `claimed` is
`outbound.claimed`, won by the writer (`WriterClaim`) or by a cancelled caller
(`CallInterrupted`). `touched` and `wire` are the frames of which some byte, or
every byte, is on the pipe: between `WriterBegin` and `WriterWrite` or
`WriterFail` the pipe may be full for ever. `notified` is the set of waiters
whose captured `outChanged` is closed, so a lost wakeup is a waiter that is not
in it although there is room. `slots` is `len(admissionSlots)`.

| Goroutine or method | Actions |
|---|---|
| readLoop | `ReaderFault`, `ReaderRead`, `ReadReply`, `ReadControl`, `ReadEnd`, `ReaderClose`, `ReaderReport` |
| admission and the handler | `AdmitTake`, `AdmitStop`, `AdmitClosed`, `AdmitOne`, `AdmitRefused`, `AdmitEnd`, `HandlerReturns` |
| Control.Answer | `Answer`, `Respond` |
| writer | `WriterTake`, `WriterMode`, `WriterExit`, `WriterRelease`, `WriterAnnounce`, `WriterClaim`, `WriterRefuse`, `WriterBegin`, `WriterWrite`, `WriterFail`, `WriterEnd`, `WriterReport`, `WriterAfter` |
| serveSession and the settlement | `MainReadDone`, `MainClosed`, `MainEnd`, `Settle`, `MainProceed`, `MainTimeout`, `MainReturn` |
| Emit, HostCallTo | `Enqueue`, `EnqueueWait`, `EnqueueWake`, `EnqueueStop`; `CallRegister`, `CallTooMany`, `CallBadOp`, `CallWritten`, `CallInterrupted`, `CallAnswered`, `CallAbandoned`, `CallLeave` |
| Flush | `FlushStart`, `FlushCheck`, `FlushLook`, `FlushWake`, `FlushCancelled` |

Abstracted: contexts and timeouts may be found done whenever they are waited
for. `end()` closes `outClosed` only on a lane that is not served (only tests
make one). Whether closing stdin interrupts a read is chosen in `MainReturn`. A
frame that is too large is a write that fails. `Respond` merges the branch for a
full queue, which the reserved places make unreachable (`ReplyAlwaysFits` checks
that they do) with the fault it would record.

### RequestLane

The driver goes through its steps (cases, checks, the undeclared operation) with
one worker. `readers` are the goroutines of `Worker.readFrame`, each in the
header or the body of a frame; a read that timed out leaves its reader there, and
the pipe `stdout` is a sequence of headers and bodies that any of them may take.
Once a body was taken for a header, `torn`, lengths are chance and `ReadJunk` takes
any number of parts. The guest is `Plugin.serve`: `GuestRead`, `GuestRefuse`,
`GuestCall`, `GuestResult`, `GuestReply`, `GuestEnd`, and `GuestDies` at any
point. `WriteFrame` writes nothing of a frame over 1 MiB: `AskRefused` is a request
that is too large (the step ends, the guest is alive and was sent nothing) and
`ServeRefused` a reply to a host call that is (Invoke returns, and the guest goes on
waiting in `hostInvokeNative`, so the next request is what it reads for that reply).
`AskFails` and `ServeFails` are writes to a guest that exited. A step whose read was
given up or whose host call got no reply is *abandoned* (`Abandoned`).
Not modelled: how long a handler runs, the last frame of a dying guest cut in two, a
full stdout, a guest's own frame over the limit. A wasm plugin's worker is driven over the same pipes and is
taken to behave as `serve.go` does.

### SessionCheck

The driver runs the checks one after the other on one carrier: `sessionDriver.run`
opens a session, `listen` takes events, the sender's end and the tally's signal
in the order a `select` may, `retire` and `abort` clean up. The other goroutines
are the reader of the control lane, one sender per recording and the tally of the
engine's speech. A control goes through `Call`, `CallLocks` (`writeMu`) and
`CallWrites`; the reader answers a call of the engine's own (`EngineAsks`) the same way,
`ReaderAsked`, `ReaderLocks`, `ReaderWrites`, and holds `writeMu` for as long as that
write takes. A write ends when the engine has read enough of what fills its standard
input (`CtlRoom`), or with an error when it exits (`CallFails`, `ReaderFails`); a frame
over the limit is not written (`CallTooLarge`, `ReaderTooLarge`). The engine is the environment: it answers controls in any order,
says each of the things it has to say about a session once, and `Slips` names what
else it may do (refuse, announce other formats or rates, fail, ask for a retry,
quit a session, answer wrongly, exit, close its audio input, call the host). `LaneRoom`
bounds its pipe.

### The engines' half: `MCEngines`

A behaviour of `MCEngines` is a behaviour of one component, which the variable
`part` names; the others' variables do not exist, since the components share the
variables `v1`, `v2`, ... by substitution. So the state spaces add up and do not
multiply, and each property says which part it is about. Packages, trees, hosts and
tools are constants; `engines.cfg` gives them the small ones that the module defines.

- `VoiceEngine`. `gens` are the generations with the step their goroutine is at
  (`Look`, `Speak`, `EndStream`, `Finish`, `Tell` for `run`), `ctl` the control in
  its handler, `tails`, `closers` and `echo` the other goroutines. A step ends where
  `engine.mu` is given up. `mixed` marks sessions into which the tail of an earlier
  one was written, which the code allows after an abort.
- `TestRun`. `steps` is the list of what the lane (wasm, native, session) goes
  through, `rep` the report, `call` a host call read by the driver: beside the run
  for a session engine, within a step for the others. `answer` reads
  `h.checking` twice (lines 214 and 221), so `Take` and the handler are two steps.
- `HostFiles`. A publish is `Compare`, `Spill` or `Measure`, `Rename`; other updates
  of the plugin wait for its answer, an `Outsider` does not. `InSandbox` and
  `InPrivate` are the checks of a call's own path over symlinks and `..`; the staged file
  a publish takes from goes through `SandboxRel` or `CleanRel` only, and its temporary
  file through neither. `Plant` is another program that lays a link at one of these two
  names: `Spill` and `Measure` follow it where the code does, `Rename` moves the link, and
  `Refuse` is every later call on a name that is one. `beyond` is what the link leads to.
- `HostMemory`, `HostStreams`, `DocumentIngest`. Remember supersedes, recall ranks;
  a stream is answered in pieces and closed or forgotten; an ingest puts, finds the
  end of the old chunks and removes them from the end down, and stops anywhere.
- `ReleaseTools`. A command's reads and decision are one step; its files are then
  written one after the other, each opened (empty) before it is whole. `alone` says
  whether two commands ever wrote the keys at once.
- `CheckFile`. `packValidation` parses the file from the folder, takes the
  recordings, and parses it again from the package; `Save` is the author's editor.
  `Allowed` is `ValidatePackageChecks`, one operator a lane (`OnEmbeddings`, `OnSession`,
  `OnOperation`), for a package (`family`) that is a source of vectors, a speech engine
  or neither.
- `RuntimePack`. `Stat` and `Hash` per file, `Judge` for the inventory and the
  ceilings, `Copy` per file, with `Disturb` writing to the tree in between; and the
  search for the least `-max-files` that admits the tree.

### The channels' half: `MCChannels`

- `MailSync`: `box` is the mailbox's history, external; `mailKV` what the adapter
  keeps; a call goes from `Start` through `ReadHistory`, `Fetch` and `Batch`, or
  through `Rebaseline` when the history is gone, and `Save` is the KV write that
  makes it last. `Killed` ends it in any state. The host's record of arrivals may
  refuse one.
- `TelegramPoll`: `Receive` settles what the last call returned, saves the offset
  and polls; the bot's memory is lost with its worker.
- `HandOver` has four variables: how much arrived, what the host holds (`kept`), what
  is gone or said to be left out (`excused`) and what the position is past
  (`passed`). `MailSync!MailHandOver` and `TelegramPoll!PollHandOver` are the
  refinement mappings.
- `SendWindow`: `Outcomes` are what a request can have done and what the host can
  say of it; `Counts` says which are recorded, and `went` why a send is not. That an
  answer alone never leaves one out (`SendsCount`) holds of telegram and gmail and is
  checked of them in `channels`; of twilio it is false (`send_uncounted`).
- `MailSend`, `CalendarWrite`: a request that may have been received takes effect at
  once, late or never, people act meanwhile, and the answer is checked against what
  really happened, then and later.
- `MailSetup`: each step finds or makes one resource; other admins change the policy
  between its read and its write.
- `Availability`: a zone whose clock skips or repeats an hour, events by pages, and
  the gaps compared with a definition of free time that looks at every instant.

## 3. Runs

TLC needs about fifteen minutes for all of them with two workers.

| Run | Instance | Shows |
|---|---|---|
| `lane_serves` | 2 calls and 1 Flush, queue of 1; or 2 controls with 2 answering goroutines, admission queue of 1; or 1 control beside 2 events | a caller told `ErrNotSent` has nothing on the pipe, an answered call was written whole; nothing is written behind a torn frame; a Flush that returns nil covers only what is written or withdrawn; no sender misses the room it waits for; a reply finds its reserved place; slots neither leak nor return twice; one response per control; a clean return delivered what was owed; a host within its window is never cut off |
| `lane_ends` | an event in the pipe; then an Emit behind a full queue, or a call, or a Flush | after the end of the lane serveSession returns and every caller is released; a Flush returns while the pipe is read |
| `request_steps` | 1 case, 2 checks, 1 undeclared operation, 1 host call | verdicts on their own replies; the lane in step until a read was given up or the reply to a host call was too large to send; a clean pass, earned blame; and the run ends |
| `request_blocked` | 2 steps, a full pipe | finding: a write has no deadline |
| `check_sessions` | a recording's check, then a spoken one | nothing of a recording outlives its check; finish_input follows all of it; sessions do not overlap; the end of speech is noticed; a pass was complete; lateness is never called wrong |
| `check_ends` | a recording's check and an operation check; the engine refuses, opens with other formats or rates, quits, exits, calls the host | the checks end, if the engine reads its standard input or exits |
| `check_complete` | one spoken check | finding: an answer complete on both lanes is judged wrong |
| `check_after` | a recording's check, then an operation check | finding: an engine given up is asked again |
| `channels` | 3 mails in 2 records, 3 updates, 3 sends, 3 asks, 2 admins' changes, each with a few troubles | no message is passed over that nobody holds or was told of (`HandOver`), and every one comes to be held; the window is exact; answers about sends and writes are true; only what was read is changed; free times are exact; a setup overwrites nobody's policy |
| `mail_refused` | 2 mails, history gone twice | finding: refused mail is lost |
| `send_uncounted` | 3 sends, one kill or failed call of KV | finding: a send that may have gone is not counted by twilio |
| `engines` | 2 sessions with 2 generations; 2 updates with an outsider and a planted link; 3 memories; 3 streams; 4 ingests; 2 terminals, 3 commands; 2 checks of the three lanes, for packages of two kinds, and a save; 4 files and 2 writes; a case and 2 checks | see the seven properties at the end of `MCEngines`, each with the parts it is about |

Why these bounds are enough to be interesting. Two callers are what a race for a
claim, a room or a slot takes, and the queue of one makes every second frame
wait. Two answering goroutines race for one reply. A step that times out, a later
one that is confused and one that is not asked any more need three steps; the
hostile operation follows. A pipe of six frames never blocks the writes of
`request_steps`; in `request_blocked` one frame fills it, which stands for 64 KiB
and frames of up to 1 MiB. A recording of two frames can be cut between them, and
the buffer of one event makes the reader block. `lane_serves` begins with the
plugin's half idle and the host's silent, or the other way round (`Parts`), and its
constraint `Apart` bounds each: the plugin's half runs without controls, with a reader
that meets the end of its input or none and that serveSession waits for, until it waits for its writer, after which the properties it is about no longer
change except as `lane_ends` and the host's half explore; the host's half has two controls
at once, or events beside one control that is answered once. The answerers of a control
are alike, so it loses nothing that one of them is always the first to begin (`InTurn`);
calls and events are symmetric. No run with a liveness property uses symmetry.
`lane_ends` starts in states a lane reaches in a few steps
(`Blocked`), since from `Init` the same instance does not finish in time.

In `channels` and `engines` the bounds are on what the environment does (mails,
troubles, commands, edits) and large enough that a loss can be followed by a retry
and the retry by another trouble: three commands are devcert and two revokes, or a
package, a sign and an edit between them; two writes change a runtime file and change
it back; a case before two checks is what it takes for a setting to leak. The
constraint of `engines` (`Bounded`) cuts sessions plus generations at three, a
folder with a planted link at two generations of its file and at the link's end, ends a
release at its catalog entry or once two commands wrote the keys together (which
nothing is claimed of), and one failed step a test run. The constraint of `channels`
(`OneAtATime`) tries a moved clock on calendars of one event; calendars are not under
its liveness property. Beside the mutant that `PROJECT.json` names for each property,
the modules of these two runs carry further ones (operators marked `Mutant`), one for
most conjuncts of the properties that have several.

Deadlock is checked in every run on the lanes: a lane that has returned and a run
that is over stutter by an action of their own (`Returned`, `Rest`), so any other
state without a successor is an error. `channels`, `mail_refused` and `engines` do
not check it: a component whose environment has used up its bound rests.

## 4. Fairness

Goroutines that can go on do (`WF`): the reader, the admission goroutine, the
writer, the serving goroutine, the settlement, and a caller that is not waiting
for anyone. Go's scheduler gives that. The host, the pipe's other end, handlers,
and contexts get none: `ServeReturns` and `CallersReleased` hold
although nobody reads the pipe and a handler never returns. `FlushReturns` is the
one that needs the pipe, and says so: `WF_vars(PipeStep) => ...`.
`RequestLane!FairSpec` has `WF(Moves)`, the driver's own steps: its timers expire, and
nothing makes the guest or the driver's helper goroutines move. `SessionCheck!FairSpec`
has `WF(Driver)`; `SF(CallLocks)`, since a Go mutex comes to one who keeps waiting for it
however often another takes it in between; and `WF` on the errors of a write to a process
that exited. A write has no deadline there, as on the request lane, and the reader may
hold `writeMu` during one: so `ChecksEnd` has the premise `WF_vars(EngineReads)`, that an
engine which is alive reads its standard input. Without it the defect of
`request_blocked` is this lane's too.

`MCChannels!FairSpec` has `WF` on the adapters' steps, since the host calls sync,
receive and setup again and again and a call that was begun goes on unless it is
killed, and `SF` on the start of a sync, which other calls of the mailbox may
disable again and again. The service, the kills and the lost answers have none, and
their number is bounded: `ChannelsGoOn` says that once they stop everything arrives.

## 5. Proofs

Every invariant and every action property that a run checks is also a theorem, for
all values of the constants that the modules assume; `PROJECT.json` lists the
theorems. The constraints, the symmetry and the starts in the middle that TLC needs
(`Bounded`, `OneAtATime`, `Apart`, `Parts`, `Blocked`) play no part in them.

What is assumed of the constants: the frames of a lane are of different kinds and
its capacities positive (`LaneAssumption`, `RequestAssumption`, `CheckAssumption`);
the numbers of `MCEngines` are naturals, a check with audio is on the session lane,
and a tree's directories and a host's ceilings are finite (`EnginesAssumption`,
`ChecksAssumption`, `RuntimeAssumption`); the numbers of `MCChannels` are naturals, a
page and a send's limit are at least one, and the write bound too
(`ChannelsAssumption`). The members of a package, the trees, their clashes, the
hosts' ceilings and the limits and windows of sends are constants, so
what is proved holds for any of them.

Few of the properties are inductive. What each proof adds is what the code relies on
without saying it. Each action is one step of the proof and each conjunct it can
disturb one step below it.

| Module | Theorems | What carries them |
|---|---|---|
| `SessionLaneProofs` | `TypeCorrect`; `HonestOutcomes`, `SoundFlush`, `FramedStream`, `OneAnswer`, `WakeupsKept` | `LaneInv`: which frames of the log are claimed by whom, where the writer is with the frame it holds, that `done` is told what happened to that frame, that a torn frame means a recorded fault, that `wrote` counts a prefix, that a captured target is within the log, and that a waiter who is not notified saw a full queue that only the writer can change |
| | `SlotsHeld`, `RepliesFit`, `WindowServed`, `CleanReturn` | `ServeInv`: a control is in the admission queue, in admission's hand or with its handler, one at a time; a slot is held for each reply and events and host calls keep to their share of the queue; what the reader took off stdin is still somewhere, and the goroutines stop in the order reader, admission, settlement, writer |
| `RequestLaneProofs` | `VerdictsAreOwn`, `StaysInStep`, `PassesAreClean`, `BlameEarned` | `InStep`: as long as no step was abandoned, one of driver and guest has the turn, and the turn tells what is in each pipe and where the one reader is. Of the pipe after a read was given up, or of the guest after its reply was refused, nothing is known, and the theorems need nothing of it |
| `SessionCheckProofs` | `FinishAfterWhole`, `SessionsOneByOne`, `EndsNoticed`, `PassedWasComplete`, `SlowNeverWrong`; the action property `RecordingStopsWithCheck` | `CheckInv`: where the driver is tells which session is open, which controls it owes or is owed, how far the sender may be and what was heard; a word that was said is true of the session it names |
| `MailSyncProofs` | `CursorsAreEarned`, `MailImplementsHandOver` | `MailInv`: the mailbox's history is in order, every cut is told, what KV keeps is a position everything before which is accounted for, and what a call has gathered continues it (`Placed`) |
| `TelegramPollProofs` | `OffsetsAreEarned`, `PollImplementsHandOver` | `PollInv`: every update below an offset is accounted for, whichever offset it is (in the process, in KV, at Telegram), and what awaits settling is a row of updates that begins where everything before it is |
| `ChannelsProofs` | `InboxesHandedOver` | the two refinements above, as parts of the composition |
| | `SetupClean`, `AnswersStayTrue`, `ChangesAreBound`, `WritesStayTrue` | `SetupInv`: where a setup is tells what it has made or found, and a grant that is under way is of the policy it read. `SendInv`, `CalInv`: where a call is tells whether its request took effect, may still, or cannot, and every answer given stays true |
| | `WindowStaysExact` | `WindowInv`: the sends that count map one to one into the times the KV store keeps; a send is let go on only while there is room, at a time the clock has not passed by more than the skew |
| | `FreeTimeStaysExact` | `FreeInv`: the window's ends are instants that their clocks show once, and what was read so far is a prefix of what touches the window. Two lemmas carry the end: the cursor of the gap scan is the latest end of what it passed, so the gaps are the listed times in both directions |
| `HostProofs` | `HonestTests` | `TestInv`: what is asked, what runs and what the plugin was told go with the step the run is at; a step passed by is in the report or among the outcomes still to report; only a session engine's call outlives what it was asked |
| | `FilesStaySafe` | `FilesInv`: every update brings a generation of its own that was never in place; one that saw a digest has read those contents, or they will not be there again; and what stands between compare and rename is what was compared, unless an outsider wrote meanwhile. `LinkInv`: a name that is the link is no file, and how the link came by its name tells through which publish |
| | `DataStaysTrue` | `MemInv` (what is superseded names the one memory that did it, which supersedes no other), `StreamsInv` (what was read and what the host has left are the body, and a handle in use has its stream), `IngestInv` (the chunks in KV are a stretch from zero, whatever was cut off, and the first of them this ingest's) |
| `EnginesProofs` | `EngineTellsTruth` | `VoiceInv`: what each goroutine of the voice engine knows of its generation, who is still to tell its end, and what a drain waits for |
| | `ReleasesStayTrue` | `ReleaseInv`: what each command has left to write fits the files it read; and as long as no two commands wrote the keys together, the snapshot to be written is past every one that was whole or reported before |
| | `PackagesStayTrue`, `ArchiveListed`, `SearchBeginsLow` | `PackInv`: nothing is written while the tree is measured, and the archive is a prefix of the rows, each compared as it was copied; `ListInv`: the second reading of a check file finds what the package holds, and judges what a host will. `SearchBeginsLow` is a lemma about the search for the least `-max-files`: it starts at or below every budget that admits the tree |

`HandOver` is implemented: every step of either inbox maps to a step of `HandOver` or
a stutter, for any number of messages, kills and failed calls and any length of an
answer. So no mail and no update is passed that the host does not hold, unless it
makes no arrival, is gone, was named as left out (or would have been, by the notice of
section 6 that the host drops), or an older host was trusted with it. For Telegram the row that awaits settling is needed, although the code only looks
at the answer it holds: without it `settle` could jump a gap. For Gmail what a call
has gathered has to be related, record by record, to the position it will leave as
pending: that becomes the cursor once the host has every id of the batch, and no later
call looks behind it.

A behaviour of `MCChannels` or `MCEngines` is a behaviour of one component. The
others leave its variables alone, so each invariant is proved for its own part and
says nothing of the rest.

Proving changed the model where it could not be reasoned about or was looser than the
code: alternatives whose guards overlapped are now exclusive (`ReleaseTools`,
`CalendarWrite`, `CheckFile`); orders with ties name what they choose
(`Availability!Held`, `HostMemory!Ranked`); `SendWindow!Recent` and the lists and gaps
of `Availability` say what they are instead of folding over a sequence; and the
packages, trees and hosts of `MCEngines` became constants.

Only model-checked: the six liveness properties (`ServeReturns`, `CallersReleased`,
`FlushReturns`, `RunEnds`, `ChecksEnd`, `ChannelsGoOn`), since reasoning about
fairness and ENABLED is out of the proof system's reach, and the five findings.

## 6. Findings

Five runs end in a counterexample, each against a sentence of the repository
quoted in `PROJECT.json`: `request_blocked` (a per-call deadline that does not
cover the write), `check_complete` (slow is never wrong, except for an END frame
tallied late), `check_after` (nothing is asked after a session that never ended,
except on the operation lane), `mail_refused` (one the host refused is not lost,
except when the history is gone twice), `send_uncounted` (a send whose outcome is not
known counts, except twilio's that a 5xx or an unreadable answer ended).

Three more disagree with a sentence of the guide. The models do what the code does, and
the properties say how far the code keeps its word; no run of their own refutes them:

- `fs.publish` in the private folder. "In your private directory a path is relative, with
  no traversal and no symlink followed" (WRITING_A_PLUGIN.md:822-823): the file named in
  `from` goes through `cleanRel` only and is read through a link (harness.go:840-850), and
  the bytes of the other form are written through a link at the target's `.publish-tmp`
  (harness.go:833-834), in the sandbox too. `StaysInside` asks of `from` only that it
  never goes up, and `OutOnlyByLinks` that there is no third way out.
- "your operation's end closes what it opened" (WRITING_A_PLUGIN.md:794-795): the stand-in
  host keeps the streams an operation leaves open, for the rest of the run
  (harness.go:948). `StreamsAreExact` says nothing of streams that were dropped.
- "reads come in pieces under the response ceiling" (WRITING_A_PLUGIN.md:824). The
  stand-in host's piece is up to 768 KiB (harness.go:572, 744), which in base64 is 1 MiB
  before its envelope: `WriteFrame` refuses that answer (frame.go:31, drive.go:229) and the
  lane is out of step from then on. `LaneInStep` and `BlameIsEarned` name the case.

Seen while modelling and kept out of the properties, because no sentence promises
otherwise or because it is one of wording:

- `SendVerdict.RetryAt` is in whole seconds, which WRITING_A_PLUGIN.md:1490 does not
  say; `FilesClient.Read` does not return the sha256 WRITING_A_PLUGIN.md speaks of.
- `examples/gmail`: the notice of a gap has the id `"gap-"` and the old cursor
  (channel.go:646), and the host records an arrival once by its id
  (WRITING_A_PLUGIN.md:879). If the notice was recorded and its batch was not
  confirmed, the next rebaseline repeats the id with another text, which the host
  drops: mail that the second search leaves out is passed and nobody is told. The
  model has it (`unsaid`), and `HandOver` counts it among what is excused.
- `calendar.delete` sends no If-Match; a zero-length event splits a free slot.
- `tools.publish` gives "a.b" and "a_b" one registry name (harness.go:562);
  `fs.publish` writes under the target's name with `.publish-tmp` appended, which a
  plugin may use for a file of its own (harness.go:833).
- After an interrupted `devcert -force`, sign can pair one chain's certificate with
  another's key. Two revokes at once lose one. A snapshot torn by an interrupted
  revoke is refused from then on, and removing it begins again at epoch 1.
- `package` warns from ceilings that do not count directories.
- A call of a session engine read as the last check ends is answered with the
  operator's settings.
- A worker that wrote its banner and exited at once counts as started
  (drive.go:85); its stderr buffer is read by an error path while the scanner
  goroutine writes it (drive.go:98); a reply and the end of the lane ready at once
  are taken in either order (workerdrive/session.go:230).

## 7. Not modelled, and the plan

`PROJECT.json` lists every component with the reason. Left out for good: JSON
scanning and rendering, archive bytes, canonical JSON and cryptography, which are
data and not control; flag parsing, file permissions and the platform calls, which
keep no state; declarations other than the checks, whose rules are tables. Left out
so far: `Worker.Start` with its banner, the audio endpoints of the session carrier,
the host's interactions and webhooks, fs.list, embeddings.create, voice.observe, playback
events of the voice example, and the examples that keep nothing.

Next:

1. An abstract host call (asked, then answered or refused once) that `SessionLane`
   implements, and its proof from `LaneInv`.
2. `Worker.Start`, and the carrier's audio endpoints under `SessionCheck`.
3. The host-call library's typed wrappers that `HostFiles` and `HostStreams` do not
   use yet.

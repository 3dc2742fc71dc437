----------------------------- MODULE MCEngines -----------------------------
(***************************************************************************)
(* What stands behind the lanes and beside them, one small instance of     *)
(* each: the voice example's engine, the stand-in host's files, memories   *)
(* and streams, the document example, the release commands, the checks'    *)
(* file, the packing of a runtime and a run of `aiisdk test`.  A behaviour *)
(* is one of them, `part`, over the variables v1, v2, ...; those it does   *)
(* not use are 0.                                                          *)
(***************************************************************************)
EXTENDS Naturals, Sequences, FiniteSets

CONSTANTS MaxSessions, MaxGens, MaxOut,
          Updaters, Whole, MaxFiles,
          Words, MaxText, MaxMemories, Limit,
          MaxBody, MaxOpened,
          MaxChunks, MaxIngests,
          Terminals, MaxChains, MaxCommands,
          Members, Contents, Checks, Packed, Variants, Operations, Families, MaxChars,
          MaxList, MaxEdits, MaxAudio,
          FileNames, Dirs, Clashes, Versions, Hosts, Windows, MaxWrites,
          Tools, MaxTools, MaxCases, MaxChecks

\* Sessions, and what a run of `aiisdk test` may hold, are counted; a file has
\* pieces; a recall and a stream have their limits.  Only a session check has a
\* recording (check's case LaneSession).  A host has its ceilings, and a file lies in
\* finitely many directories.
ASSUME EnginesAssumption ==
    /\ MaxSessions \in Nat /\ MaxCases \in Nat /\ MaxChecks \in Nat
    /\ Whole \in Nat \ {0} /\ MaxBody \in Nat /\ Limit \in Nat
ASSUME ChecksAssumption ==
    \A c \in Checks : c.audio # "none" => c.lane = "session"
ASSUME RuntimeAssumption ==
    /\ \A i \in 1 .. Len(FileNames) : IsFiniteSet(Dirs[FileNames[i]])
    /\ \A host \in Hosts : host.files \in Nat /\ host.depth \in Nat

VARIABLES part, v1, v2, v3, v4, v5, v6, v7, v8, v9, v10, v11, v12, v13
vars == <<part, v1, v2, v3, v4, v5, v6, v7, v8, v9, v10, v11, v12, v13>>

----------------------------------------------------------------------------
\* The instances' data.

\* Releases: a WASM package, or one of two native variants of one machine.
Builds    == << <<"wasm">>, <<"linux", "gpu">> >>
Strangers == {<<"linux", "linux">>, <<"wasm", "linux">>}
Portable  == {"wasm"}
Target    == [v \in {"wasm", "linux", "gpu"} |-> IF v = "wasm" THEN "*" ELSE "linux/amd64"]

\* Checks: a JSON member and two recordings, on three operations, in a package that is a
\* source of vectors of two numbers or a speech engine.
CheckMembers == {"probes.json", "a.wav", "b.wav"}
Json(numbers) == [json |-> TRUE, wav |-> FALSE, length |-> 0, size |-> 1, numbers |-> numbers]
Wav(length, size) == [json |-> FALSE, wav |-> TRUE, length |-> length, size |-> size, numbers |-> 0]
CheckContents == {Json(1), Json(2), Wav(1, 1), Wav(2, 2)}
Value(refs, malformed, fits) == [refs |-> refs, malformed |-> malformed, fits |-> fits]
PlainValue == Value({}, FALSE, TRUE)
Probes == Value({"probes.json"}, FALSE, TRUE)
ACheck(name, lane, set, operation, input, expect, recording, within) ==
    [name |-> name, lane |-> lane, sets |-> {set}, operation |-> operation, input |-> input,
     expect |-> expect, audio |-> recording, within |-> within, kind |-> "", chars |-> 0, numbers |-> 0]
AnEmbedding(name, expect, kind, chars, numbers) ==
    [ACheck(name, "embeddings", "wasm", "", PlainValue, expect, "none", 1)
        EXCEPT !.kind = kind, !.chars = chars, !.numbers = numbers]
Listable ==
    {ACheck("x", "operation", "wasm", "read", Probes, PlainValue, "none", 1),
     ACheck("y", "operation", "native", "read", Value({"a.wav"}, TRUE, TRUE),
            Value({"probes.json"}, FALSE, FALSE), "none", 1),
     ACheck("x", "operation", "native", "write", PlainValue, PlainValue, "none", 1),
     ACheck("y", "operation", "native", "ask", PlainValue, PlainValue, "none", 1),
     ACheck("z", "session", "native", "", PlainValue, PlainValue, "a.wav", 1),
     ACheck("u", "session", "native", "", Probes, PlainValue, "a.wav", 2),
     ACheck("v", "session", "native", "", PlainValue, PlainValue, "b.wav", 2),
     ACheck("w", "session", "wasm", "", PlainValue, PlainValue, "b.wav", 2),
     ACheck("z", "memory", "native", "", PlainValue, PlainValue, "none", 2),
     AnEmbedding("e", Probes, "memory", 2, 0), AnEmbedding("f", PlainValue, "cue", 1, 2),
     AnEmbedding("e", PlainValue, "cue", 3, 2), AnEmbedding("f", Probes, "text", 1, 0)}
AlwaysPacked == {"probes.json"}
ComponentSets == [v \in {"wasm", "native"} |-> [native |-> v = "native"]]
DeclaredOperations == [o \in {"read", "write", "ask"} |-> [reads |-> o # "write", confirms |-> o = "ask"]]
SourceOrSpeech == {[dimension |-> 2, speech |-> FALSE], [dimension |-> 0, speech |-> TRUE]}

\* Runtime trees: four files, three directories, a name that clashes with one of them.
TreeNames == <<"bin", "lib/a", "lib/x/b", "lib/x/y/c">>
TreeDirs  == [n \in {TreeNames[i] : i \in 1 .. 4} |->
                CASE n = "bin" -> {}
                  [] n = "lib/a" -> {"lib"}
                  [] n = "lib/x/b" -> {"lib", "lib/x"}
                  [] OTHER -> {"lib", "lib/x", "lib/x/y"}]
TreeClashes == {{"bin", "lib"}}
Held(size, bytes, exec) == [size |-> size, bytes |-> bytes, exec |-> exec]
TreeVersions == {Held(1, "a", FALSE), Held(1, "b", TRUE), Held(2, "c", FALSE)}
TreeHosts == {[files |-> 1, depth |-> 2], [files |-> 2, depth |-> 3], [files |-> 6, depth |-> 4]}

\* Test runs: a setting with a default and a secret, two network grants.
Declared == [k \in {"tone", "key"} |->
               IF k = "tone" THEN [default |-> "soft", fits |-> {"soft", "loud"}]
                             ELSE [default |-> "null", fits |-> {"handle"}]]
Line(tone, key) == [k \in (IF key = "" THEN {"tone"} ELSE {"tone", "key"}) |-> IF k = "tone" THEN tone ELSE key]
Lines  == {<<>>, Line("loud", ""), Line("null", "handle"), Line("odd", "")}
Scopes == {[local |-> FALSE, hosts |-> {"a"}, any |-> FALSE, port |-> 0],
           [local |-> TRUE, hosts |-> {"b"}, any |-> FALSE, port |-> 0]}
Places == {[host |-> "a", port |-> 443], [host |-> "a", port |-> 22], [host |-> "b", port |-> 22]}

----------------------------------------------------------------------------
Voice == INSTANCE VoiceEngine WITH
    eng <- v1, gens <- v2, ctl <- v3, tails <- v4, closers <- v5, echo <- v6, mixed <- v7
Files == INSTANCE HostFiles WITH
    store <- v1, temp <- v2, piece <- v3, ops <- v4, call <- v5, gens <- v6,
    replaced <- v7, linked <- v8, at <- v9, root <- v10, link <- v11, beyond <- v12
Memory == INSTANCE HostMemory WITH
    memories <- v1, clock <- v2, bygone <- v3
Streams == INSTANCE HostStreams WITH
    table <- v1, opened <- v2, handle <- v3, bodies <- v4, dropped <- v5
Ingest == INSTANCE DocumentIngest WITH
    kv <- v1, job <- v2, runs <- v3
Release == INSTANCE ReleaseTools WITH
    source <- v1, disk <- v2, chains <- v3, begun <- v4, run <- v5, alone <- v6,
    told <- v7, seen <- v8, listed <- v9
Check == INSTANCE CheckFile WITH
    folder <- v1, install <- v2, list <- v3, pass <- v4, cache <- v5, audio <- v6,
    results <- v7, edits <- v8, verdict <- v9, family <- v10
Pack == INSTANCE RuntimePack WITH
    tree <- v1, at <- v2, rows <- v3, half <- v4, archive <- v5, phase <- v6,
    budget <- v7, writes <- v8
Test == INSTANCE TestRun WITH
    opts <- v1, steps <- v2, pos <- v3, asked <- v4, rep <- v5, outcomes <- v6,
    values <- v7, checking <- v8, kv <- v9, published <- v10, call <- v11, last <- v12,
    code <- v13

Init ==
    \/ /\ part = "voice" /\ Voice!VoiceInit
       /\ v8 = 0 /\ v9 = 0 /\ v10 = 0 /\ v11 = 0 /\ v12 = 0 /\ v13 = 0
    \/ /\ part = "files" /\ Files!FilesInit
       \* The paths are tried on a folder where nothing goes on.
       /\ v1 = Files!Absent \/ (v9 = <<>> /\ v8 = "inside")
       \* The two folders differ only in where a link may lead: one file is enough for it.
       /\ v10 = "private" \/ v1 = Files!Absent
       /\ v13 = 0
    \/ /\ part = "memory" /\ Memory!MemInit
       /\ v4 = 0 /\ v5 = 0 /\ v6 = 0 /\ v7 = 0 /\ v8 = 0 /\ v9 = 0 /\ v10 = 0 /\ v11 = 0 /\ v12 = 0 /\ v13 = 0
    \/ /\ part = "streams" /\ Streams!StreamsInit
       /\ v6 = 0 /\ v7 = 0 /\ v8 = 0 /\ v9 = 0 /\ v10 = 0 /\ v11 = 0 /\ v12 = 0 /\ v13 = 0
    \/ /\ part = "ingest" /\ Ingest!IngestInit
       /\ v4 = 0 /\ v5 = 0 /\ v6 = 0 /\ v7 = 0 /\ v8 = 0 /\ v9 = 0 /\ v10 = 0 /\ v11 = 0 /\ v12 = 0 /\ v13 = 0
    \/ /\ part = "release" /\ Release!ReleaseInit
       /\ v10 = 0 /\ v11 = 0 /\ v12 = 0 /\ v13 = 0
    \/ /\ part = "check" /\ Check!CheckFileInit
       \* The probes are JSON or missing; elsewhere any JSON is no recording.
       /\ v1["probes.json"] \in {Json(1), Json(2), Check!Absent}
       /\ \A m \in Members : m # "probes.json" => v1[m] # Json(1)
       \* The package is what its first check asks for, if it asks for anything.
       /\ (v10.dimension > 0) <=> (v3[1].lane = "embeddings")
       /\ v11 = 0 /\ v12 = 0 /\ v13 = 0
    \/ /\ part = "pack" /\ Pack!PackInit
       /\ v9 = 0 /\ v10 = 0 /\ v11 = 0 /\ v12 = 0 /\ v13 = 0
    \/ /\ part = "test"
       \* A run is given every grant or none, and asked for its report.
       /\ v1 \in [lane : {"wasm", "native", "session"}, own : Lines, kv : BOOLEAN, tools : BOOLEAN,
                  scopes : {{}, Scopes}, report : {TRUE}]
       /\ v1.kv = v1.tools /\ v1.kv = (v1.scopes # {})
       /\ Test!TestRunInit

Next ==
    \/ part = "voice" /\ Voice!VoiceNext /\ UNCHANGED <<part, v8, v9, v10, v11, v12, v13>>
    \/ part = "files" /\ v9 = <<>> /\ v8 = "inside" /\ Files!FilesNext /\ UNCHANGED <<part, v13>>
    \/ part = "memory" /\ Memory!MemNext /\ UNCHANGED <<part, v4, v5, v6, v7, v8, v9, v10, v11, v12, v13>>
    \/ part = "streams" /\ Streams!StreamsNext /\ UNCHANGED <<part, v6, v7, v8, v9, v10, v11, v12, v13>>
    \/ part = "ingest" /\ Ingest!IngestNext /\ UNCHANGED <<part, v4, v5, v6, v7, v8, v9, v10, v11, v12, v13>>
    \/ part = "release" /\ Release!ReleaseNext /\ UNCHANGED <<part, v10, v11, v12, v13>>
    \/ part = "check" /\ Check!CheckFileNext /\ UNCHANGED <<part, v11, v12, v13>>
    \/ part = "pack" /\ Pack!PackNext /\ UNCHANGED <<part, v9, v10, v11, v12, v13>>
    \/ part = "test" /\ Test!TestRunNext /\ UNCHANGED <<part>>

Spec == Init /\ [][Next]_vars

\* Bounds: of sessions and generations together, two of which are replies; two
\* generations of a file where a link was laid, until it is gone; a catalog entry ends a
\* behaviour, as do two commands that wrote the keys at once; one trouble in a test run.
Bounded ==
    /\ part = "voice" => /\ Len(v2) + v1.session <= 3
                         /\ Len(v2) = 2 => \A g \in 1 .. 2 : v2[g].kind = "reply"
    /\ part = "files" => v11.how = "no" \/ (v6 <= 2 /\ v11.at # "gone")
    /\ part = "release" => v6 /\ v9.author = {}
    /\ part = "test" => v5.fails <= 1

----------------------------------------------------------------------------
\* What the parts promise, by the names of their own modules.

\* The voice example: every event is told of its own generation, in order, each reply
\* that was admitted ends in one terminal event, and a drained session said all it had.
EngineSpeaksTrue == part = "voice" => Voice!RepliesAreTold /\ Voice!DrainIsWhole

\* The host's files: no update is lost that a digest was given for; no call acts outside
\* its folder by the path it names, nor a publish but through a link at its .publish-tmp
\* or at its staged file.
FilesHold ==
    part = "files" => Files!NoUpdateIsLost /\ Files!StaysInside /\ Files!OutOnlyByLinks

\* What an operation gets back of what it gave or was given: memories that were not
\* replaced, the ones that match best first, a stream's bytes once each up to its end,
\* and after an ingest the chunks of the document and no others.
DataComesBack ==
    /\ part = "memory" => Memory!MemoryIsKept /\ Memory!RecallIsRanked
    /\ part = "streams" => Streams!StreamsAreExact
    /\ part = "ingest" => Ingest!IngestIsWhole

\* The release commands: what is signed was measured, a trust snapshot that verifies
\* lost no entry and never went back, and a catalog row is of the bundle it names.
ReleasesAreTrue ==
    part = "release" =>
        Release!SignedIsMeasured /\ Release!SnapshotForgetsNothing /\ Release!CatalogIsTrue

\* Packaging: the checks that were packed can pass, and the ceilings `package` names
\* admit the runtime on every host that has them.
PackagesAreTrue ==
    /\ part = "check" => Check!PackedChecksCanPass
    /\ part = "pack" => Pack!CeilingsAdmit

\* The packed runtime is the tree that was listed, file by file.
ArchiveIsAsListed == part = "pack" => Pack!ArchiveIsAsListed

\* A run of `aiisdk test` that passes was proven, and the host keeps the run's cases and
\* the package's checks apart.
TestsAreHonest == part = "test" => Test!PassIsProven /\ Test!HostKeepsApart
=============================================================================

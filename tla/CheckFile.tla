------------------------------ MODULE CheckFile ------------------------------
(***************************************************************************)
(* How a package's validation.json is read and packed: ParseValidation and *)
(* ValidatePackageChecks (pkg/aiiospkg/validation.go, session_checks.go)   *)
(* under packValidation (cmd/aiisdk/package.go).  The packager reads the   *)
(* file twice: first from the author's folder, to find the recordings the  *)
(* session checks name and carry them, then from what the package will     *)
(* hold, as a host will.  The author may save a file in between.           *)
(*                                                                         *)
(* Abstracted: a value is what its walk can meet - the members its $refs   *)
(* name, whether one is malformed, whether what comes out fits its place - *)
(* and a check is the two values it takes (its input or arguments, what it *)
(* expects), its recording and its bound; on the embeddings lane also the  *)
(* kind and the characters of its text (none where it is blank) and how    *)
(* many numbers its reference holds, if it is written in the file.  A      *)
(* member is JSON that holds the place a $ref points at, with so many      *)
(* numbers there, or a recording of some length, or neither.               *)
(***************************************************************************)
EXTENDS Naturals, Sequences, FiniteSets, FiniteSetsExt

CONSTANTS Members,   \* the members a check may name
          Contents,  \* what a member may hold: [json, wav, length, size, numbers]
          Checks,    \* the checks a file may list
          Packed,    \* the members packed whatever the checks name
          Variants,  \* the component sets, [native |-> BOOLEAN] each
          Operations,\* the declared operations, [reads, confirms |-> BOOLEAN] each
          Families,  \* what the package may be: the [dimension] of the vectors it is a
                     \* source of, 0 when it is none, and whether it is a [speech] engine
          MaxChars,  \* MaxEmbedChars
          MaxList,   \* bound: checks of a file
          MaxEdits,  \* bound: saves while the packager runs
          MaxAudio   \* MaxCheckAudioBytes

VARIABLES folder,   \* the author's folder
          install,  \* the members of the package so far
          list,     \* the checks validation.json lists
          pass,     \* which reading: 1, 2, or 0 when it is over
          cache,    \* the members this reading has read (resolver.raws)
          audio,    \* the recordings this reading has read (resolver.recordings)
          results,  \* how each check read so far came out
          edits,
          verdict,  \* "none", "refused" or "packed"
          family    \* what the package is
checkFileVars == <<folder, install, list, pass, cache, audio, results, edits, verdict, family>>

Absent == [json |-> FALSE, wav |-> FALSE, length |-> 0, size |-> 0, numbers |-> 0]
NoAudio == "none"
KnownLanes == {"operation", "embeddings", "session"}

CheckFileInit ==
  /\ folder \in [Members -> Contents \cup {Absent}]
  /\ install = [m \in Members |-> IF m \in Packed THEN folder[m] ELSE Absent]
  /\ list \in UNION {[1..n -> Checks] : n \in 1..MaxList}
  /\ pass = 1 /\ edits = 0
  /\ cache = <<>> /\ audio = {} /\ results = <<>>
  /\ verdict = "none" /\ family \in Families

\* The first reading falls back on the folder, the second does not; either
\* reads a member once.
FromFolderToo(m) == IF install[m] # Absent THEN install[m] ELSE folder[m]
FromPackage(m) == install[m]
LeakyReader(m) == FromFolderToo(m)
Reader(m) == IF pass = 1 THEN FromFolderToo(m) ELSE FromPackage(m)
ReadOnce(m) == IF m \in DOMAIN cache THEN cache[m] ELSE Reader(m)

\* walk and take: a malformed $ref refuses the file, one that brings nothing or
\* brings the wrong thing fails its check alone; a value written in the file
\* that does not fit refuses it.  A map is walked in any order, so a value with
\* both faults may end either way.
Parsed(x)    == x.json
Malformed(v) == v.malformed
Fitting(v)   == v.fits
Lost(v, read) == \E m \in v.refs : ~Parsed(read[m])
Take(v, read) ==
  IF Malformed(v) \/ Lost(v, read)
  THEN (IF Malformed(v) THEN {"refused"} ELSE {}) \cup (IF Lost(v, read) THEN {"unresolved"} ELSE {})
  ELSE {IF Fitting(v) THEN "held" ELSE IF v.refs # {} THEN "unresolved" ELSE "refused"}

\* recording: what a session check sends is a recording the package carries, no
\* longer than the check's bound.
IsRecording(x) == x.wav
Sendable(c, read) == IsRecording(read[c.audio]) /\ read[c.audio].length <= c.within

\* check: a refusal ends the reading, an unresolved value does not; an unknown
\* lane's check is read no further than its bound.
Outcome(c, in, ex, read) ==
  IF c.lane \notin KnownLanes THEN "held"
  ELSE IF "refused" \in {in, ex} THEN "refused"
  ELSE IF "unresolved" \in {in, ex} THEN "unresolved"
  ELSE IF c.audio = NoAudio \/ Sendable(c, read) THEN "held" ELSE "unresolved"
Outcomes(c, read) ==
  {Outcome(c, in, ex, read) : in \in Take(c.input, read), ex \in Take(c.expect, read)}

Touched(c) == c.input.refs \cup c.expect.refs \cup ({c.audio} \ {NoAudio})

\* The next check of the list is read.
ReadCheck ==
  /\ pass # 0 /\ Len(results) < Len(list)
  /\ LET c == list[Len(results) + 1]
         read == [m \in Members |-> ReadOnce(m)]
     IN  \E o \in Outcomes(c, read) :
           /\ cache' = [m \in DOMAIN cache \cup Touched(c) |-> read[m]]
           /\ audio' = audio \cup (IF Take(c.input, read) = {"held"} THEN {c.audio} \ {NoAudio} ELSE {})
           /\ IF o = "refused" \/ c.name \in {list[i].name : i \in 1..Len(results)}
              THEN verdict' = "refused" /\ pass' = 0 /\ UNCHANGED results
              ELSE results' = Append(results, o) /\ UNCHANGED <<verdict, pass>>
  /\ UNCHANGED <<folder, install, list, edits, family>>

TooMuchAudio == FoldSet(LAMBDA m, n : cache[m].size + n, 0, audio) > MaxAudio

Refuse == verdict' = "refused" /\ pass' = 0 /\ UNCHANGED <<install, cache, audio, results>>

Recordings == {list[i].audio : i \in {j \in 1..Len(list) : list[j].lane = "session"}} \ {NoAudio}

\* The first reading is over: the recordings it read are carried, as read.
CarryRecordings ==
  /\ pass = 1 /\ Len(results) = Len(list)
  /\ IF \/ TooMuchAudio
        \/ \E i \in 1..Len(list) : list[i].audio \in Recordings /\ results[i] = "unresolved"
     THEN Refuse
     ELSE /\ install' = [m \in Members |->
                           IF m \in Recordings /\ install[m] = Absent THEN cache[m] ELSE install[m]]
          /\ pass' = 2
          /\ cache' = <<>> /\ audio' = {} /\ results' = <<>>
          /\ UNCHANGED verdict
  /\ UNCHANGED <<folder, list, edits, family>>

\* The reference of an embeddings check is written in the file or is what its $ref brings.
Reference(c, read) ==
  IF c.expect.refs = {} THEN c.numbers ELSE read[CHOOSE m \in c.expect.refs : TRUE].numbers

OnEmbeddings(c, read) ==
  /\ family.dimension > 0 /\ Reference(c, read) = family.dimension
  /\ c.kind \in {"memory", "cue"} /\ c.chars \in 1..MaxChars
OnSession(c) == family.speech /\ \A s \in c.sets : Variants[s].native
OnOperation(c) ==
  c.operation \in DOMAIN Operations /\ Operations[c.operation].reads /\ ~Operations[c.operation].confirms

\* ValidatePackageChecks.
Allowed(c, read) ==
  /\ c.lane \in KnownLanes
  /\ c.sets \subseteq DOMAIN Variants
  /\ c.lane = "embeddings" => OnEmbeddings(c, read)
  /\ c.lane = "session" => OnSession(c)
  /\ c.lane = "operation" => OnOperation(c)

NoneUnresolved == \A i \in 1..Len(results) : results[i] # "unresolved"

\* The second reading is over.
Pack ==
  /\ pass = 2 /\ Len(results) = Len(list)
  /\ IF TooMuchAudio \/ ~NoneUnresolved \/ \E i \in 1..Len(list) : ~Allowed(list[i], cache)
     THEN Refuse
     ELSE verdict' = "packed" /\ pass' = 0 /\ UNCHANGED <<install, cache, audio, results>>
  /\ UNCHANGED <<folder, list, edits, family>>

\* The author saves a file while the packager runs.
Save ==
  /\ pass # 0 /\ edits < MaxEdits
  /\ \E m \in Members, x \in Contents : folder' = [folder EXCEPT ![m] = x]
  /\ edits' = edits + 1
  /\ UNCHANGED <<install, list, pass, cache, audio, results, verdict, family>>

CheckFileNext == ReadCheck \/ CarryRecordings \/ Pack \/ Save

\* A packed check can pass (WRITING_A_PLUGIN.md section 20: "the packer refuses a check of
\* an operation that is not a read, of one that waits for the operator, of an operation or
\* set you do not declare, the embeddings lane on a package that is no source of vectors,
\* the session lane on one that is no resident engine or on a set that is not native, a
\* recording the host cannot send, any lane but the three above, and a value that cannot
\* resolve"): whatever is saved while the packager runs and in whatever order a value is
\* walked, once the file is packed a host that reads it from the package alone holds every
\* check and may ask it, a reference has as many numbers as the package's vectors, each
\* recording is there, and the recordings together are no more than a package's share.
PackedChecksCanPass ==
  verdict = "packed" =>
    /\ \A i \in 1..Len(list) : Outcomes(list[i], install) = {"held"} /\ Allowed(list[i], install)
    /\ ~(FoldSet(LAMBDA m, n : install[m].size + n, 0, Recordings) > MaxAudio)
    /\ \A i, j \in 1..Len(list) : i # j => list[i].name # list[j].name
=============================================================================

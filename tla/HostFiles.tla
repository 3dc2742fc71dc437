----------------------------- MODULE HostFiles -----------------------------
(***************************************************************************)
(* The files the stand-in host of aiisdk test serves (answerFS of          *)
(* cmd/aiisdk/harness.go) and the guest's clients of them (files.go of     *)
(* pkg/aiiosdk).  Calls are answered one at a time; a writer of the        *)
(* sandbox folder, `Outsider`, acts between any two steps of one, and so   *)
(* does one who lays a link out of the folder, `Plant`.                    *)
(*                                                                         *)
(* A file is a sequence of pieces, a piece what one fs.read answers or one *)
(* fs.write carries; a digest is the contents it was taken of.  The        *)
(* plugin's operations, external, update the store: Digest, then ReadAll,  *)
(* then publish expecting that digest.                                     *)
(***************************************************************************)
EXTENDS Integers, Sequences, FiniteSets, SequencesExt

CONSTANTS Updaters,    \* the plugin's operations, under way together
          Whole,       \* how many pieces a generation has
          MaxFiles     \* bound: generations written, by anyone

VARIABLES store, temp, piece,   \* the contents of the target, its .publish-tmp, a staging file
          ops,                  \* updater -> [at, digest, read, gen]
          call,                 \* the fs.publish the host is answering
          gens,                 \* generations made so far
          replaced,             \* ghost: [what, expected, base, crossed] of each publish
          linked, at,           \* where the folder's link points, the path of an fs call
          root,                 \* the folder: the plugin's own ("private") or the identity's
          link,                 \* a link that leads out: the name it has, how it came there
          beyond                \* the contents it leads to
fileVars == <<store, temp, piece, ops, call, gens, replaced, linked, at, root, link, beyond>>

Absent == <<-1>>                    \* no contents are this
Gen(g) == [i \in 1 .. Whole |-> g]
NoCall == [at |-> "idle"]
NoLink == [at |-> "none", how |-> "no", was |-> Absent]

----------------------------------------------------------------------------
\* Paths: names below the folder.  "d" is a directory in it, "l" a symlink, "n" is not there.
Names == {"d", "l", "n", ".."}
Outside == <<"..">>

\* filepath.Clean: a name followed by ".." goes.
Cleaned(p) ==
    FoldLeft(LAMBDA c, n : IF n = ".." /\ c # <<>> /\ Last(c) # ".." THEN Front(c) ELSE Append(c, n),
             <<>>, p)

\* EvalSymlinks of the longest part that resolves, joined with the rest of the path.
Resolved(c) ==
    IF c # <<>> /\ c[1] = "l" /\ linked # "nowhere"
    THEN (IF linked = "outside" THEN Outside ELSE <<"d">>) \o Tail(c)
    ELSE c

\* Mutant: no name of the path is looked at.
AnyPath(c) == TRUE

\* noSymlinkOnPath: a link that does not resolve is still on the path.
RealPath(c) == c = <<>> \/ c[1] # "l"

\* The name by which a path is taken, or "refused": sandboxRel's, cleanRel's.
SandboxRel(p) == LET r == Resolved(Cleaned(p)) IN IF r # <<>> /\ r[1] = ".." THEN <<"refused">> ELSE r
CleanRel(p) == IF ".." \in ToSet(p) THEN <<"refused">> ELSE p

\* Where a call on `p` acts.  The staged file of a publish is found by SandboxRel or
\* CleanRel alone.
InSandbox(p) == IF RealPath(SandboxRel(p)) THEN SandboxRel(p) ELSE <<"refused">>
InPrivate(p) == IF RealPath(CleanRel(p)) THEN CleanRel(p) ELSE <<"refused">>

----------------------------------------------------------------------------
FilesInit ==
    /\ store \in {Absent, Gen(0)} /\ temp = Absent /\ piece = Absent
    /\ ops = [u \in Updaters |-> [at |-> "digest", digest |-> Absent, read |-> <<>>, gen |-> 0]]
    /\ call = NoCall /\ gens = 0 /\ replaced = {}
    /\ linked \in {"inside", "outside", "nowhere"}
    /\ at \in UNION {[1 .. n -> Names] : n \in 0 .. 3}
    /\ root \in {"private", "sandbox"} /\ link = NoLink /\ beyond = Absent

Step(u, r) == ops' = [ops EXCEPT ![u] = r]

\* Real paths only: a call on a name that is a link is refused, whatever it is to do.
Refuse(u) ==
    /\ call = NoCall
    /\ \/ ops[u].at # "done" /\ link.at = "target"
       \/ ops[u].at \in {"write", "publish"} /\ link.at = "piece"
    /\ Step(u, [ops[u] EXCEPT !.at = "done"])
    /\ UNCHANGED <<store, temp, piece, call, gens, replaced, linked, at, root, link, beyond>>

Digest(u) ==
    /\ ops[u].at = "digest" /\ call = NoCall /\ link.at # "target"
    /\ Step(u, [ops[u] EXCEPT !.digest = store, !.read = <<>>,
                              !.at = IF store = Absent THEN "write" ELSE "read"])
    /\ UNCHANGED <<store, temp, piece, call, gens, replaced, linked, at, root, link, beyond>>

\* fs.read at an offset; ReadAll goes on until the end of the file of that moment.
Read(u) ==
    /\ ops[u].at = "read" /\ call = NoCall /\ link.at # "target"
    /\ LET n == Len(ops[u].read) + 1 IN
         IF store = Absent
         THEN Step(u, [ops[u] EXCEPT !.at = "done"])
         ELSE Step(u, [ops[u] EXCEPT !.read = IF n <= Len(store) THEN Append(@, store[n]) ELSE @,
                                     !.at = IF n >= Len(store) THEN "write" ELSE "read"])
    /\ UNCHANGED <<store, temp, piece, call, gens, replaced, linked, at, root, link, beyond>>

\* fs.write truncates, or appends: a staging file comes to be whole piece by piece.
Write(u) ==
    /\ ops[u].at = "write" /\ call = NoCall /\ link.at # "piece" /\ (gens < MaxFiles \/ ops[u].gen # 0)
    /\ LET g == IF ops[u].gen = 0 THEN gens + 1 ELSE ops[u].gen IN
         \E append \in BOOLEAN :
            /\ gens' = IF ops[u].gen = 0 THEN gens + 1 ELSE gens
            /\ piece' = IF append /\ piece # Absent /\ Len(piece) < Whole THEN Append(piece, g) ELSE <<g>>
            /\ Step(u, [ops[u] EXCEPT !.gen = g, !.at = IF Len(piece') = Whole THEN "publish" ELSE "write"])
    /\ UNCHANGED <<store, temp, call, replaced, linked, at, root, link, beyond>>

Delete(u) ==
    /\ ops[u].at \in {"write", "publish"} /\ call = NoCall /\ piece # Absent
    /\ piece' = Absent
    /\ Step(u, [ops[u] EXCEPT !.at = "done"])
    /\ UNCHANGED <<store, temp, call, gens, replaced, linked, at, root, link, beyond>>

Publish(u) ==
    /\ ops[u].at \in {"write", "publish"} /\ call = NoCall /\ link.at # "target"
    /\ \E staged \in BOOLEAN :
         /\ staged => ops[u].at = "publish"
         /\ staged \/ ops[u].gen # 0 \/ gens < MaxFiles
         /\ LET g == IF ops[u].gen = 0 THEN gens + 1 ELSE ops[u].gen IN
              /\ gens' = IF ops[u].gen = 0 THEN gens + 1 ELSE gens
              /\ call' = [at |-> "compare", by |-> u, staged |-> staged, data |-> Gen(g), crossed |-> FALSE]
    /\ UNCHANGED <<store, temp, piece, ops, replaced, linked, at, root, link, beyond>>

Answered == call' = NoCall /\ Step(call.by, [ops[call.by] EXCEPT !.at = "done"])

\* Mutant: the digest in place is not compared.
ExpectsAny(d) == TRUE

\* expected_sha256 of the digest it saw, expected_absent where there was no file.
Expects(d) == store = d

Compare ==
    /\ call.at = "compare"
    /\ IF Expects(ops[call.by].digest)
       THEN call' = [call EXCEPT !.at = IF call.staged THEN "measure" ELSE "spill"] /\ UNCHANGED ops
       ELSE Answered
    /\ UNCHANGED <<store, temp, piece, gens, replaced, linked, at, root, link, beyond>>

\* The bytes go beside the target under its name with .publish-tmp, through a link that
\* has that name; a write that fails may have emptied what it leads to, and goes itself.
Spill ==
    /\ call.at = "spill"
    /\ \/ /\ IF link.at = "temp" THEN beyond' = call.data /\ UNCHANGED temp
                                 ELSE temp' = call.data /\ UNCHANGED beyond
          /\ call' = [call EXCEPT !.at = "rename"] /\ UNCHANGED <<ops, link>>
       \/ /\ temp' = Absent /\ Answered
          /\ IF link.at = "temp" THEN beyond' \in {beyond, <<>>} /\ link' = [link EXCEPT !.at = "gone"]
                                ELSE UNCHANGED <<beyond, link>>
    /\ UNCHANGED <<store, piece, gens, replaced, linked, at, root>>

\* What the staged file's name leads to: in the sandbox a name that leads out is refused.
Staged == IF link.at # "piece" THEN piece ELSE IF root = "private" THEN beyond ELSE Absent

\* The staged file must measure to what the plugin declared; it is left where it is.
Measure ==
    /\ call.at = "measure"
    /\ IF Staged = call.data THEN call' = [call EXCEPT !.at = "rename"] /\ UNCHANGED ops ELSE Answered
    /\ UNCHANGED <<store, temp, piece, gens, replaced, linked, at, root, link, beyond>>

\* A name that is a link is renamed as the link it is.
Rename ==
    /\ call.at = "rename"
    /\ IF call.staged THEN store' = piece /\ piece' = Absent /\ UNCHANGED temp
                      ELSE store' = temp /\ temp' = Absent /\ UNCHANGED piece
    /\ link' = IF link.at = (IF call.staged THEN "piece" ELSE "temp")
               THEN [link EXCEPT !.at = "target"] ELSE link
    /\ replaced' = replaced \cup {[what |-> store, expected |-> ops[call.by].digest,
                                   base |-> ops[call.by].read, crossed |-> call.crossed]}
    /\ Answered
    /\ UNCHANGED <<gens, linked, at, root, beyond>>

\* External: another program of the operator replaces the target, whole.
Outsider ==
    /\ gens < MaxFiles
    /\ gens' = gens + 1 /\ store' = Gen(gens + 1)
    /\ link' = IF link.at = "target" THEN [link EXCEPT !.at = "gone"] ELSE link
    /\ call' = IF call.at = "rename" \/ call.at = "spill" \/ call.at = "measure"
               THEN [call EXCEPT !.crossed = TRUE] ELSE call
    /\ UNCHANGED <<temp, piece, ops, replaced, linked, at, root, beyond>>

\* External, once (bound): another program makes .publish-tmp a link that leads out, or
\* moves the staging file out and leaves a link in its place; a file that has been
\* measured and is not renamed yet is "swapped".
Plant ==
    /\ link = NoLink
    /\ \/ temp' = Absent /\ link' = [at |-> "temp", how |-> "temp", was |-> beyond] /\ UNCHANGED <<piece, beyond>>
       \/ /\ piece # Absent /\ piece' = Absent /\ beyond' = piece /\ UNCHANGED temp
          /\ \E how \in {"piece", "swapped"} :
               /\ (how = "swapped") <=> (call.at = "rename" /\ call.staged)
               /\ link' = [at |-> "piece", how |-> how, was |-> piece]
    /\ UNCHANGED <<store, ops, call, gens, replaced, linked, at, root>>

FilesNext ==
    \/ \E u \in Updaters : Refuse(u) \/ Digest(u) \/ Read(u) \/ Write(u) \/ Delete(u) \/ Publish(u)
    \/ Compare \/ Spill \/ Measure \/ Rename \/ Outsider \/ Plant

----------------------------------------------------------------------------
\* "A lost concurrent update is impossible", but for an outsider's in the middle of a
\* publish: what a publish replaces is what was expected, and the plugin had read exactly
\* that; and "nothing partial ever has the name", however long the staging file is written.
NoUpdateIsLost ==
    /\ \A r \in replaced :
         ~r.crossed => r.what = r.expected /\ (r.what # Absent => r.base = r.what)
    /\ store # Absent => \E g \in 0 .. gens : store = Gen(g)

\* A call acts below its folder and on no symlink, by the name as the system resolves it.
\* The file a publish takes from has less: its name never goes up, but in the plugin's own
\* folder it may pass a link, in the sandbox only one that leads nowhere.
StaysInside ==
    /\ \A p \in {InSandbox(at), InPrivate(at)} :
          p # <<"refused">> => ".." \notin ToSet(p) /\ (p = <<>> \/ p[1] # "l")
    /\ \A p \in {SandboxRel(at), CleanRel(at)} : p # <<"refused">> => ".." \notin ToSet(p)
    /\ LET r == SandboxRel(at) IN r # <<>> /\ r[1] = "l" => linked = "nowhere"

\* The two ways out a publish leaves: what a link leads to changes only when the link has
\* the .publish-tmp name, and the target becomes a link only by that one, by one laid
\* after the staged file was measured, or by a staged link in the plugin's own folder.
OutOnlyByLinks ==
    /\ link.how # "temp" => beyond = link.was
    /\ link.at = "target" /\ link.how = "piece" => root = "private"
=============================================================================

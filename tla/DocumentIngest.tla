--------------------------- MODULE DocumentIngest ---------------------------
(***************************************************************************)
(* examples/document-ingest over the kv operations (KVClient of            *)
(* pkg/aiiosdk/hostcall.go, answerKV of cmd/aiisdk/harness.go): a document *)
(* is kept as numbered chunks.  A call of the host may fail and the worker *)
(* may be killed; the document is then ingested again, perhaps changed.    *)
(***************************************************************************)
EXTENDS Integers, FiniteSets, Functions

CONSTANTS MaxChunks,    \* bound: chunks of a document
          MaxIngests    \* bound: times it is ingested

VARIABLES kv,      \* chunk number -> the ingest that put it
          job,     \* the ingest in progress: [at, n, i, run]
          runs     \* ingests begun
ingestVars == <<kv, job, runs>>

Resting == [at |-> "rest", n |-> 0, i |-> 0, run |-> 0]
IngestInit == kv = <<>> /\ job = Resting /\ runs = 0

\* How many chunks a text makes, the empty one none.
Chunkings == 0 .. MaxChunks

Has(i) == i \in DOMAIN kv
Put(i, v) == kv' = [k \in DOMAIN kv \cup {i} |-> IF k = i THEN v ELSE kv[k]]
Delete(i) == kv' = Restrict(kv, DOMAIN kv \ {i})

Ingest ==
    /\ job.at \in {"rest", "stored"} /\ runs < MaxIngests
    /\ \E n \in Chunkings : job' = [at |-> "put", n |-> n, i |-> 0, run |-> runs + 1]
    /\ runs' = runs + 1
    /\ UNCHANGED kv

PutChunk ==
    /\ job.at = "put" /\ job.i < job.n
    /\ Put(job.i, job.run)
    /\ job' = [job EXCEPT !.i = @ + 1]
    /\ UNCHANGED runs

\* removeStale: first the end of the chunks, one kv.get after the other.
FindEnd ==
    /\ \/ job.at = "put" /\ job.i = job.n
       \/ job.at = "find"
    /\ job' = IF Has(job.i) THEN [job EXCEPT !.at = "find", !.i = @ + 1]
              ELSE [job EXCEPT !.at = "remove", !.i = @ - 1]
    /\ UNCHANGED <<kv, runs>>

\* Mutant: from the first stale chunk up.
FirstStale(j) == CHOOSE i \in DOMAIN kv : i >= j.n /\ \A k \in DOMAIN kv : k >= j.n => i <= k

\* The chunk that goes next: the last one.
NextStale(j) == j.i

Remove ==
    /\ job.at = "remove" /\ job.i >= job.n
    /\ Delete(NextStale(job))
    /\ job' = [job EXCEPT !.i = @ - 1]
    /\ UNCHANGED runs

Stored ==
    /\ job.at = "remove" /\ job.i < job.n
    /\ job' = [job EXCEPT !.at = "stored"]
    /\ UNCHANGED <<kv, runs>>

Fails ==
    /\ job.at \in {"put", "find", "remove"}
    /\ job' = Resting
    /\ UNCHANGED <<kv, runs>>

IngestNext == Ingest \/ PutChunk \/ FindEnd \/ Remove \/ Stored \/ Fails

\* An ingest that succeeds leaves the chunks of its document and no other, whatever was cut
\* off before it; the chunks have no gap a later one would stop at.
IngestIsWhole ==
    /\ job.at = "stored" =>
         DOMAIN kv = 0 .. job.n - 1 /\ \A i \in DOMAIN kv : kv[i] = job.run
    /\ DOMAIN kv = 0 .. Cardinality(DOMAIN kv) - 1
=============================================================================

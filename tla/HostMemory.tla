----------------------------- MODULE HostMemory -----------------------------
(***************************************************************************)
(* memory.remember and memory.recall of the stand-in host                  *)
(* (cmd/aiisdk/harness_memory.go) with the client of pkg/aiiosdk/memory.go *)
(* that asks them.  A text is a sequence of words; how often a memory was  *)
(* used, which nothing here reads, is left out.                            *)
(***************************************************************************)
EXTENDS Naturals, Sequences, FiniteSets, SequencesExt

CONSTANTS Words, MaxText,   \* the texts: at most MaxText of Words
          MaxMemories,      \* bound: memories made
          Limit             \* how many hits a recall shows

VARIABLES memories,   \* Seq of [text, by, made]; a memory's id is its place
          clock,      \* the time of the next memory, which may be that of the last
          bygone      \* ghost: the ids each superseded memory stood for
memVars == <<memories, clock, bygone>>

Texts == UNION {[1 .. n -> Words] : n \in 1 .. MaxText}
Current(m) == memories[m].by = 0
Ids == DOMAIN memories

MemInit == memories = <<>> /\ clock = 1 /\ bygone = {}

Tick == clock' \in {clock, clock + 1} /\ clock' <= MaxMemories

New(text) == [text |-> text, by |-> 0, made |-> clock]

\* Mutant: an update of a memory that was superseded is taken.
KnownOld(m) == m \in Ids

\* A memory an update may name: one of this run that nothing superseded.
Replaceable(m) == m \in Ids /\ Current(m)

Supersede(m, text) ==
    /\ Replaceable(m) /\ Len(memories) < MaxMemories
    /\ memories' = Append([memories EXCEPT ![m].by = Len(memories) + 1], New(text))
    /\ bygone' = bygone \cup {<<m, Len(memories) + 1>>}
    /\ Tick

\* The same words, in whatever order and number, are the same memory.
Alike(text) == {m \in Ids : Current(m) /\ ToSet(memories[m].text) = ToSet(text)}

\* Then it is reinforced, which changes its use alone.
Remember(text) ==
    /\ Alike(text) = {} /\ Len(memories) < MaxMemories
    /\ memories' = Append(memories, New(text))
    /\ Tick /\ UNCHANGED bygone

----------------------------------------------------------------------------
\* The score of a text against a query, in tenths; 0 is no hit.
Within(q, text) == \E i \in 0 .. Len(text) - Len(q) : SubSeq(text, i + 1, i + Len(q)) = q
Score(kind, q, text) ==
    LET all == ToSet(q) \subseteq ToSet(text)
        sub == Within(q, text) IN
    CASE kind = "recent" -> 1
      [] kind = "exact" -> IF sub THEN 10 ELSE 0
      [] kind = "words" -> IF all /\ sub THEN 10 ELSE IF all THEN 9 ELSE IF sub THEN 5 ELSE 0

Found(kind, q, since) ==
    {m \in Ids : Current(m) /\ memories[m].made >= since /\ Score(kind, q, memories[m].text) > 0}

\* Mutant: the older of two equal scores comes first.
OlderFirst(kind, q, m, n) ==
    LET s == Score(kind, q, memories[m].text) t == Score(kind, q, memories[n].text) IN
    s > t \/ (s = t /\ m < n)

\* The order: score, then the newer by its time, and the stable sort keeps the rest.
Before(kind, q, m, n) ==
    LET s == Score(kind, q, memories[m].text) t == Score(kind, q, memories[n].text) IN
    \/ s > t
    \/ s = t /\ memories[m].made > memories[n].made
    \/ s = t /\ memories[m].made = memories[n].made /\ m < n

Ranked(kind, q, since) ==
    CHOOSE hits \in SetToSeqs(Found(kind, q, since)) :
        \A i, j \in DOMAIN hits : i < j => Before(kind, q, hits[i], hits[j])

Shown(kind, q, since) ==
    LET hits == Ranked(kind, q, since) IN
    SubSeq(hits, 1, IF Len(hits) < Limit THEN Len(hits) ELSE Limit)

MemNext == \E text \in Texts : Remember(text) \/ \E m \in Ids : Supersede(m, text)

----------------------------------------------------------------------------
\* What is superseded stays so, under the one memory that replaced it, through whatever
\* is remembered and recalled later; and a recall shows the current memories that match,
\* the best and of equals the newest first, and says when it leaves some out.
MemoryIsKept ==
    /\ \A p \in bygone : memories[p[1]].by = p[2]
    /\ \A m \in Ids : Cardinality({p \in bygone : p[2] = m}) <= 1
    /\ \A p, r \in bygone : p[1] = r[1] => p = r

RecallIsRanked ==
    \A kind \in {"recent", "exact", "words"}, q \in Texts, since \in 1 .. clock :
        LET fit == Found(kind, q, since)
            hit == Shown(kind, q, since)
            score(m) == Score(kind, q, memories[m].text) IN
        \A i \in DOMAIN hit : \A m \in fit \ ToSet(SubSeq(hit, 1, i)) :
            score(hit[i]) > score(m) \/ (score(hit[i]) = score(m) /\ memories[hit[i]].made >= memories[m].made)
=============================================================================

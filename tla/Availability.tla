---------------------------- MODULE Availability ----------------------------
(***************************************************************************)
(* calendar.availability of examples/google-calendar: the wall clocks of   *)
(* the window are placed in the calendar's zone, the events of the window  *)
(* are read page by page, and the free times between them are computed.    *)
(*                                                                         *)
(* Google is external: it gives the events of the window by start.  Times  *)
(* are half hours; the zone's clock reads `t` until it is moved by `shift` *)
(* at the instant Moves.                                                   *)
(***************************************************************************)
EXTENDS Integers, Sequences, FiniteSets, SequencesExt

CONSTANTS PageSize,    \* freePage
          Pages,       \* freePages
          Span,        \* bound: instants are 0 .. Span
          Most,        \* bound: events of the calendar
          Needs        \* values of minutes

Shifts == {-2, -1, 0, 1, 2, 4}
Moves == 2

VARIABLES zone,        \* how far the zone's clock moves
          ask,         \* from and to as wall clocks, and the minutes needed
          calendar,    \* Seq([s, e, held]): the events, by start; not all hold time
          reading,     \* where the call is
          items,       \* what list has read
          free         \* the answer

freeVars == <<zone, ask, calendar, reading, items, free>>

Local(t) == IF t >= Moves THEN t + zone ELSE t

Events == {ev \in [s : 0 .. Span, e : 0 .. Span, held : BOOLEAN] : ev.s <= ev.e}
Sorted(q) == \A i, j \in DOMAIN q : i < j => q[i].s <= q[j].s

AvailInit ==
    /\ zone \in Shifts
    /\ ask \in [from : 0 .. Span, to : 0 .. Span, need : Needs]
    /\ calendar = <<>> /\ reading = "asked"
    /\ items = <<>> /\ free = {}

\* The calendar as the call finds it (declined, transparent and cancelled events hold
\* no time: busy).
Filled ==
    /\ reading = "asked"
    /\ calendar' \in {q \in UNION {[1 .. n -> Events] : n \in 0 .. Most} : Sorted(q)}
    /\ reading' = "place"
    /\ UNCHANGED <<zone, ask, items, free>>

\* wallClock: time.ParseInLocation gives an instant of one of the two offsets; a clock
\* it does not read back, or that an instant around it reads too, is refused.
Parsed(w) == {t \in {w, w - zone} : Local(t) = w}
              \cup (IF \E t \in {w, w - zone} : Local(t) = w THEN {} ELSE {w, w - zone})
Around == {1, 2, 4}
Happens(w, t) == Local(t) = w /\ \A d \in Around : Local(t + d) # w /\ Local(t - d) # w

Place ==
    /\ reading = "place"
    /\ \E from \in Parsed(ask.from), to \in Parsed(ask.to) :
         reading' = IF Happens(ask.from, from) /\ Happens(ask.to, to) /\ to > from
                    THEN "list" ELSE "refused"
    /\ UNCHANGED <<zone, ask, calendar, items, free>>

\* The instant a wall clock that happens once stands for.
Instant(w) == CHOOSE t \in {w, w - zone} : Local(t) = w
From == Instant(ask.from)
To == Instant(ask.to)

\* list: pages of the events that touch the window, in turn, at most Pages of them.
Touching == {i \in DOMAIN calendar : calendar[i].s < To /\ calendar[i].e > From}
Listed ==
    LET turn == CHOOSE p \in SetToSeqs(Touching) : \A i, j \in DOMAIN p : i < j => p[i] < p[j]
    IN [i \in DOMAIN turn |-> calendar[turn[i]]]
More == Len(items) < Len(Listed)

NextPage ==
    /\ reading = "list"
    /\ LET n == IF Len(items) + PageSize < Len(Listed) THEN Len(items) + PageSize ELSE Len(Listed)
       IN /\ items' = SubSeq(Listed, 1, n)
          /\ reading' = IF n = Len(Listed) \/ n >= PageSize * Pages THEN "compute" ELSE "list"
    /\ UNCHANGED <<zone, ask, calendar, free>>

\* Mutant: the answer covers the window though not all of it was read.
UpToEnd == To

\* availability: what was not read begins no earlier than the last event that was.
UpTo ==
    IF ~More THEN To
    ELSE IF items # <<>> /\ Last(items).s > From /\ Last(items).s < To THEN Last(items).s
    ELSE From

\* busy: the events that hold time, by start.  The sort leaves those of one start in any
\* order.
Held ==
    {held \in {[i \in DOMAIN p |-> items[p[i]]] : p \in SetToSeqs({i \in DOMAIN items : items[i].held})} :
        Sorted(held)}

\* gaps: the events that begin before `to` are passed one after the other.  The cursor is
\* behind every event so far, and a gap ends where one begins.
Latest(S) == CHOOSE t \in S : \A u \in S : u <= t
Passed(to, held) == {i \in DOMAIN held : \A j \in 1 .. i : held[j].s < to}
Cursor(from, held, before) == Latest({from} \cup {held[j].e : j \in before})

Gaps(from, to, held, need) ==
    LET passed == Passed(to, held)
        at(i) == Cursor(from, held, 1 .. i - 1)
        last == Cursor(from, held, passed)
        slots == {<<at(i), held[i].s>> : i \in {i \in passed : held[i].s > at(i)}}
                   \cup (IF to > last THEN {<<last, to>>} ELSE {})
    IN {slot \in slots : slot[2] - slot[1] >= need}

Compute ==
    /\ reading = "compute"
    /\ \E held \in Held : free' = Gaps(From, UpTo, held, ask.need)
    /\ reading' = "answered"
    /\ UNCHANGED <<zone, ask, calendar, items>>

AvailNext == Filled \/ Place \/ NextPage \/ Compute

----------------------------------------------------------------------------
\* The reference: a slot is a longest stretch of the window, long enough, in which no event
\* of the whole calendar that holds time takes place, begins or ends.
Clear(s, e, evs) == \A i \in DOMAIN evs : evs[i].held => evs[i].e <= s \/ evs[i].s >= e
SlotFrom(s, to, evs) ==
    {e \in s + 1 .. to :
        /\ e - s >= ask.need /\ Clear(s, e, evs)
        /\ s = From \/ ~Clear(s - 1, e, evs) \/ (\E i \in DOMAIN evs : evs[i].held /\ evs[i].e = s)
        /\ e = to \/ ~Clear(s, e + 1, evs) \/ (\E i \in DOMAIN evs : evs[i].held /\ evs[i].s = e)}
Slots(to, evs) == UNION {{<<s, e>> : e \in SlotFrom(s, to, evs)} : s \in From .. to}

\* The free times are those of the calendar, of all its events though not all were read, up
\* to the instant the answer names, and none is claimed after it; a wall clock that does
\* not happen, or happens twice, is refused (availability, gaps, wallClock).
FreeTimeIsExact ==
    /\ reading = "answered" => free = Slots(UpTo, calendar)
    /\ reading = "list" => \A w \in {ask.from, ask.to} :
                              Cardinality({t \in -8 .. Span + 8 : Local(t) = w}) = 1
    /\ reading = "refused" =>
         \/ \E w \in {ask.from, ask.to} : Cardinality({t \in -8 .. Span + 8 : Local(t) = w}) # 1
         \/ To <= From
=============================================================================

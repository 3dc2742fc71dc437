------------------------------ MODULE MailSync ------------------------------
(***************************************************************************)
(* The inbox of examples/gmail as a channel: gmail.notify and gmail.sync   *)
(* read the mailbox's history from a cursor kept in the host's KV store,   *)
(* hand at most `Room` arrivals to the host and move the cursor only when  *)
(* a later call is told that the host holds them; gmail.renew takes the    *)
(* mailbox's place as the first cursor.                                    *)
(*                                                                         *)
(* The mailbox is external: `box` is its history, one record per change    *)
(* with the inbox messages it added; record i has history id i, and the    *)
(* records below `floor` are no longer kept.  Messages are numbered as     *)
(* they arrive, which is also their internalDate.  An operation is killed  *)
(* (by its deadline, with its worker, or by a failed KV write) in any      *)
(* state: KV then holds what was put.                                      *)
(***************************************************************************)
EXTENDS Integers, Sequences, FiniteSets, SequencesExt

CONSTANTS Room,        \* maxArrivals
          Page,        \* the records of one answer of history.list
          MaxMail,     \* bound: messages ever
          MaxRecords,  \* bound: history records ever
          MaxTrouble   \* bound: kills, failed reads, lost answers, refusals

VARIABLES box,         \* Seq(Seq(message)): the history
          floor,       \* the first record the service still keeps
          gone,        \* messages deleted from the mailbox
          mailKV,      \* the three keys: cursor, pend, last
          call,        \* the operation in progress, or Idle
          lastIds,     \* ids of the last answer with arrivals the host saw
          recorded,    \* ids the host holds
          told,        \* messages some recorded notice says were left out
          unsaid,      \* ghost: messages left out with a notice the host had already recorded
          start,       \* ghost: the first cursor; mail from before it is not handed over
          offered,     \* ghost: messages of the answers the host took
          trouble

mailbox == <<box, floor, gone>>
held == <<lastIds, recorded, told>>
mailVars == <<mailbox, mailKV, call, held, unsaid, start, offered, trouble>>

Mail(m) == <<"mail", m>>
Cut(r) == <<"cut", r>>
Gap(c) == <<"gap", c>>
NoCursor == 0
NoBatch == [ids |-> {}, next |-> NoCursor]
Idle == [at |-> "idle"]

\* A cursor is the first record not yet read (its history id less one is what the code
\* keeps), so that 0 is "no cursor".
HistoryId == Len(box) + 1
AllMail == {m \in 1 .. MaxMail : \E r \in DOMAIN box : m \in ToSet(box[r])}
Arrived == Cardinality(AllMail)
MailOf(rs) == UNION {ToSet(box[r]) : r \in rs}

MailInit ==
    /\ box = <<>> /\ floor = 1 /\ gone = {}
    /\ mailKV = [cursor |-> NoCursor, pend |-> NoBatch, last |-> 0]
    /\ call = Idle
    /\ lastIds = {} /\ recorded = {} /\ told = {} /\ unsaid = {} /\ offered = {}
    /\ start = NoCursor /\ trouble = 0

----------------------------------------------------------------------------
\* The mailbox.

Receives ==
    /\ Len(box) < MaxRecords
    /\ \E n \in 0 .. MaxMail - Arrived :
         box' = Append(box, [i \in 1 .. n |-> Arrived + i])
    /\ UNCHANGED <<floor, gone, mailKV, call, held, unsaid, start, offered, trouble>>

Deletes ==
    /\ trouble < MaxTrouble
    /\ \E m \in AllMail \ gone : gone' = gone \cup {m}
    /\ trouble' = trouble + 1
    /\ UNCHANGED <<box, floor, mailKV, call, held, unsaid, start, offered>>

\* "It keeps about a week": the older history is dropped.
Forgets ==
    /\ trouble < MaxTrouble
    /\ \E f \in floor + 1 .. HistoryId : floor' = f
    /\ trouble' = trouble + 1
    /\ UNCHANGED <<box, gone, mailKV, call, held, unsaid, start, offered>>

----------------------------------------------------------------------------
\* The operations.  `st` is the mailState of the call.

\* loadState and confirm: the batch is confirmed only when the host names all of it.
Confirm(st, rec) ==
    IF st.pend.next # NoCursor /\ st.pend.ids \subseteq rec
    THEN [st EXCEPT !.cursor = st.pend.next, !.pend = NoBatch]
    ELSE st

\* A webhook or scheduled call carries the ids of the last answer the host holds.
Start(op) ==
    /\ call = Idle
    /\ call' = [at |-> op, rec |-> lastIds \cap recorded]
    /\ UNCHANGED <<mailbox, mailKV, held, unsaid, start, offered, trouble>>

Save(st, out) == [at |-> "save", st |-> st, left |-> <<"cursor", "pend", "last">>, out |-> out]

\* renew: users.watch answers the mailbox's history id; the state is loaded after it.
Watch ==
    /\ call.at = "renew"
    /\ call' = IF mailKV.cursor = NoCursor THEN Save([mailKV EXCEPT !.cursor = HistoryId], <<>>) ELSE Idle
    /\ UNCHANGED <<mailbox, mailKV, held, unsaid, start, offered, trouble>>

\* syncMailbox: without a cursor the mailbox's place becomes one and nothing is read.
FirstCursor ==
    /\ call.at = "sync"
    /\ LET st == Confirm(mailKV, call.rec) IN
         /\ st.cursor = NoCursor
         /\ call' = Save([st EXCEPT !.cursor = HistoryId], <<>>)
    /\ UNCHANGED <<mailbox, mailKV, held, unsaid, start, offered, trouble>>

\* historySince: one page of the records since the cursor, or a 404.
ReadHistory ==
    /\ call.at = "sync"
    /\ LET st == Confirm(mailKV, call.rec)
           top == IF st.cursor + Page - 1 < Len(box) THEN st.cursor + Page - 1 ELSE Len(box)
       IN /\ st.cursor # NoCursor
          /\ IF st.cursor < floor
             THEN call' = [at |-> "profile", st |-> st]
             ELSE call' = [at |-> "walk", st |-> st, next |-> st.cursor, todo |-> <<>>, cut |-> FALSE,
                           r |-> st.cursor, top |-> top, more |-> top < Len(box),
                           current |-> HistoryId, out |-> <<>>]
    /\ UNCHANGED <<mailbox, mailKV, held, unsaid, start, offered, trouble>>

RoomLeft == Room - Len(call.out)

\* The walk takes up a record that fits, or the first one cut to the room there is.
TakeRecord ==
    /\ call.at = "walk" /\ call.r <= call.top /\ call.todo = <<>> /\ ~call.cut
    /\ LET ids == box[call.r] IN
         /\ Len(ids) <= RoomLeft \/ call.out = <<>>
         /\ call' = [call EXCEPT !.at = "fetch",
                                 !.todo = SubSeq(ids, 1, IF Len(ids) > RoomLeft THEN RoomLeft ELSE Len(ids)),
                                 !.cut = Len(ids) > RoomLeft]
    /\ UNCHANGED <<mailbox, mailKV, held, unsaid, start, offered, trouble>>

\* arrivalOf: a message that is gone is skipped; lastMS is of every message read.
Fetched(c, m) ==
    IF m \in gone THEN c
    ELSE [c EXCEPT !.st.last = IF m > @ THEN m ELSE @, !.out = Append(@, Mail(m))]

Fetch ==
    /\ call.at = "fetch" /\ call.todo # <<>>
    /\ call' = [Fetched(call, Head(call.todo)) EXCEPT !.todo = Tail(@)]
    /\ UNCHANGED <<mailbox, mailKV, held, unsaid, start, offered, trouble>>

\* The record is done: what it was cut by is announced, and next moves on to it.
RecordDone ==
    /\ call.at = "fetch" /\ call.todo = <<>>
    /\ call' = [call EXCEPT !.at = "walk", !.r = @ + 1, !.next = call.r + 1, !.cut = FALSE,
                            !.out = IF call.cut THEN Append(@, Cut(call.r)) ELSE @]
    /\ UNCHANGED <<mailbox, mailKV, held, unsaid, start, offered, trouble>>

\* The end of the walk: every record taken, no room for the next, or a read that failed.
Batch(c, next) ==
    IF c.out = <<>>
    THEN Save([c.st EXCEPT !.cursor = next, !.pend = NoBatch], <<>>)
    ELSE Save([c.st EXCEPT !.pend = [ids |-> ToSet(c.out), next |-> next]], c.out)

WalkEnds ==
    /\ call.at = "walk"
    /\ \/ /\ call.r > call.top
          /\ call' = Batch(call, IF call.more THEN call.next ELSE call.current)
       \/ /\ call.r <= call.top /\ call.out # <<>> /\ Len(box[call.r]) > RoomLeft
          /\ call' = Batch(call, call.next)
    /\ UNCHANGED <<mailbox, mailKV, held, unsaid, start, offered, trouble>>

\* A read fails after arrivals were taken: they are handed over, next stays behind.
ReadFails ==
    /\ trouble < MaxTrouble
    /\ call.at = "fetch" /\ call.out # <<>> /\ (call.todo # <<>> \/ call.cut)
    /\ call' = Batch(call, call.next)
    /\ trouble' = trouble + 1
    /\ UNCHANGED <<mailbox, mailKV, held, unsaid, start, offered>>

\* rebaseline: the history is gone; the inbox is searched from the second of the last
\* message read on (for the last week when there is none), newest first, Room of it
\* fetched.
Found(last) == {m \in AllMail \ gone : m >= last}
Newest(S, n) == {m \in S : Cardinality({x \in S : x > m}) < n}

\* The mailbox's place is read before the search, so what comes in between is found twice.
ReadPlace ==
    /\ call.at = "profile"
    /\ call' = [at |-> "search", st |-> call.st, now |-> HistoryId]
    /\ UNCHANGED <<mailbox, mailKV, held, unsaid, start, offered, trouble>>

InOrder(S) == [i \in 1 .. Cardinality(S) |-> CHOOSE m \in S : Cardinality({x \in S : x < m}) = i - 1]

\* The notice has the id of the cursor it could not read from: said again, the host has
\* it already and what it says now is not read.
Rebaseline ==
    /\ call.at = "search"
    /\ LET hits == InOrder(Newest(Found(call.st.last), Room))
           notice == Gap(call.st.cursor)
           out == <<notice>> \o [i \in DOMAIN hits |-> Mail(hits[i])]
           last == IF hits = <<>> THEN call.st.last ELSE Last(hits)
           left == {m \in MailOf({r \in DOMAIN box : r >= call.st.cursor /\ r < call.now}) : Mail(m) \notin ToSet(out)}
       IN /\ call' = Save([call.st EXCEPT !.last = last, !.pend = [ids |-> ToSet(out), next |-> call.now]], out)
          /\ unsaid' = IF notice \in recorded THEN unsaid \cup (left \ (gone \cup told)) ELSE unsaid
    /\ UNCHANGED <<mailbox, mailKV, held, start, offered, trouble>>

\* save: three puts, one after the other.
Put ==
    /\ call.at = "save" /\ call.left # <<>>
    /\ mailKV' = [mailKV EXCEPT ![Head(call.left)] = call.st[Head(call.left)]]
    /\ call' = [call EXCEPT !.left = Tail(@)]
    /\ start' = IF start = NoCursor THEN mailKV'.cursor ELSE start
    /\ UNCHANGED <<mailbox, held, unsaid, offered, trouble>>

----------------------------------------------------------------------------
\* The host takes an answer; it may refuse to record some of it, and records an arrival
\* once by its id.  A notice tells, when it is recorded, of what it stands for: the rest of
\* a cut record, everything a gap may hide.
ToldBy(id) ==
    CASE id[1] = "cut" -> ToSet(SubSeq(box[id[2]], Room + 1, Len(box[id[2]])))
      [] id[1] = "gap" -> MailOf({r \in DOMAIN box : r >= id[2] /\ r < call.st.pend.next})
      [] OTHER -> {}

Answer ==
    /\ call.at = "save" /\ call.left = <<>>
    /\ \E ids \in SUBSET ToSet(call.out) :
         /\ ids # ToSet(call.out) => trouble < MaxTrouble
         /\ trouble' = IF ids = ToSet(call.out) THEN trouble ELSE trouble + 1
         /\ recorded' = recorded \cup ids
         /\ told' = told \cup UNION {ToldBy(id) : id \in recorded' \ recorded}
    /\ lastIds' = IF call.out = <<>> THEN lastIds ELSE ToSet(call.out)
    /\ offered' = offered \cup {id[2] : id \in {a \in ToSet(call.out) : a[1] = "mail"}}
    /\ call' = Idle
    /\ UNCHANGED <<mailbox, mailKV, unsaid, start>>

\* The operation ends without an answer: killed, a KV call or a read failed, or its answer
\* was lost on the way.
Killed ==
    /\ call # Idle /\ trouble < MaxTrouble
    /\ call' = Idle
    /\ trouble' = trouble + 1
    /\ UNCHANGED <<mailbox, mailKV, held, unsaid, start, offered>>

MailStep == \/ Start("sync") \/ Start("renew") \/ Watch \/ FirstCursor \/ ReadHistory \/ TakeRecord
            \/ Fetch \/ RecordDone \/ WalkEnds \/ ReadPlace \/ Rebaseline \/ Put \/ Answer

MailNext == MailStep \/ Receives \/ Deletes \/ Forgets \/ ReadFails \/ Killed

----------------------------------------------------------------------------
\* What the adapter promises.

MailPassed == MailOf({r \in DOMAIN box : r < mailKV.cursor})
MailKept == {m \in AllMail : Mail(m) \in recorded}
BeforeStart == MailOf({r \in DOMAIN box : r < start})
MailExcused == gone \cup told \cup unsaid \cup BeforeStart

MailHandOver == INSTANCE HandOver WITH
    arrived <- Arrived, kept <- MailKept, excused <- MailExcused, passed <- MailPassed

\* The cursor never passes a message that was in an answer to the host and that the host
\* did not record: "one the host refused is not lost" (README of examples/gmail).
CutAway == UNION {ToSet(SubSeq(box[r], Room + 1, Len(box[r]))) : r \in {q \in DOMAIN box : Cut(q) \in recorded}}
RefusedIsNotLost == (offered \cap MailPassed) \ (BeforeStart \cup CutAway) \subseteq MailKept \cup gone
=============================================================================

--------------------------- MODULE MailSyncProofs ---------------------------
(***************************************************************************)
(* Proof that the inbox of examples/gmail implements HandOver, for any     *)
(* room and page, any amount of mail, history and trouble.  What carries   *)
(* it: the cursor is past no message that is not accounted for, and the    *)
(* batch that waits leads only past messages the host will then hold or    *)
(* have been told of - or be told of, where its gap notice is not yet      *)
(* recorded.                                                               *)
(***************************************************************************)
EXTENDS MailSync, FiniteSetTheorems, SequenceTheorems, TLAPS

MailSpec == MailInit /\ [][MailNext]_mailVars

\* Held by the host, gone, from before the first cursor, or left out with a notice.
Accounted == MailKept \cup MailExcused

Below(n) == MailOf({r \in DOMAIN box : r < n})
Rest(r) == ToSet(SubSeq(box[r], Room + 1, Len(box[r])))

\* What becomes of m once the host holds all of ids.
Stands(m, ids) ==
    \/ m \in Accounted
    \/ Mail(m) \in ids
    \/ \E id \in ids : id[1] = "cut" /\ id[2] \in DOMAIN box /\ m \in Rest(id[2])
    \/ \E id \in ids : id[1] = "gap" /\ id \notin recorded

\* A cursor that may be moved to n, and one that may be once the host holds ids.
Earned(n) == n \in 1 .. HistoryId /\ Below(n) \subseteq Accounted
Leads(ids, n) == n \in 1 .. HistoryId /\ \A m \in Below(n) : Stands(m, ids)

Shaped(st) == st = [cursor |-> st.cursor, pend |-> st.pend, last |-> st.last]

Sound(st) ==
    /\ Shaped(st) /\ Earned(st.cursor)
    /\ st.pend.next # NoCursor => Leads(st.pend.ids, st.pend.next)

\* Messages are numbered as they come; nothing is said of one that did not.
BoxInOrder ==
    /\ box \in Seq(Seq(Nat)) /\ Arrived \in 0 .. MaxMail
    /\ MailOf(DOMAIN box) = 1 .. Arrived
    /\ gone \cup told \cup unsaid \subseteq 1 .. Arrived

\* The messages and the records that ids name exist.
Known(ids) ==
    \A id \in ids : /\ id[1] = "mail" => id[2] \in 1 .. Arrived
                    /\ id[1] = "cut" => id[2] \in DOMAIN box

CutsAreTold == Known(recorded) /\ \A id \in recorded : id[1] = "cut" => Rest(id[2]) \subseteq told

\* What KV holds, before the first cursor and after.
KeptInKV ==
    /\ Shaped(mailKV)
    /\ IF start = NoCursor THEN mailKV.cursor = NoCursor /\ mailKV.pend = NoBatch
       ELSE start \in 1 .. HistoryId /\ Sound(mailKV)

Outgoing(out) == out \in Seq({"mail", "cut", "gap"} \X Nat) /\ Known(ToSet(out))

\* The records below c.r are taken up.
Walked(c) ==
    /\ c = [at |-> c.at, st |-> c.st, next |-> c.next, todo |-> c.todo, cut |-> c.cut, r |-> c.r,
            top |-> c.top, more |-> c.more, current |-> c.current, out |-> c.out]
    /\ start # NoCursor /\ Sound(c.st) /\ Outgoing(c.out)
    /\ c.r \in 1 .. HistoryId /\ c.next = c.r /\ c.r <= c.top + 1 /\ c.top \in 0 .. Len(box)
    /\ ~c.more => c.current = c.top + 1
    /\ Leads(ToSet(c.out), c.r) /\ (\A id \in ToSet(c.out) : id[1] # "gap")

\* Of the record being read, what is not cut away is taken, gone or still to do.
Reading(c) ==
    /\ c.r <= c.top /\ c.todo \in Seq(1 .. Arrived)
    /\ c.cut => Len(box[c.r]) > Room
    /\ \A i \in 1 .. IF c.cut THEN Room ELSE Len(box[c.r]) :
         box[c.r][i] \in gone \/ Mail(box[c.r][i]) \in ToSet(c.out) \/ box[c.r][i] \in ToSet(c.todo)

AllKeys == <<"cursor", "pend", "last">>

\* What is being saved, key after key.
Saving(c) ==
    /\ c = [at |-> c.at, st |-> c.st, left |-> c.left, out |-> c.out]
    /\ Shaped(c.st) /\ Outgoing(c.out)
    /\ c.left \in {AllKeys, <<"pend", "last">>, <<"last">>, <<>>}
    /\ IF start = NoCursor
       THEN /\ c.left = AllKeys /\ c.out = <<>>
            /\ c.st.cursor \in 1 .. HistoryId /\ c.st.pend = NoBatch
       ELSE Sound(c.st)
    /\ c.left # AllKeys => mailKV.cursor = c.st.cursor
    /\ c.left \in {<<"last">>, <<>>} => mailKV.pend = c.st.pend
    /\ \A id \in ToSet(c.out) : id[1] = "gap" => id[2] = c.st.cursor
    /\ c.out # <<>> => c.st.pend.ids = ToSet(c.out)

Placed(c) ==
    \/ c = Idle
    \/ c.at \in {"sync", "renew"} /\ c.rec \subseteq recorded
    \/ c.at = "walk" /\ Walked(c) /\ c.todo = <<>> /\ ~c.cut
    \/ c.at = "fetch" /\ Walked(c) /\ Reading(c)
    \/ /\ c.at \in {"profile", "search"} /\ start # NoCursor /\ Sound(c.st)
       /\ c.at = "search" => c.now \in 1 .. HistoryId
    \/ c.at = "save" /\ Saving(c)

MailInv == BoxInOrder /\ CutsAreTold /\ KeptInKV /\ Placed(call)

----------------------------------------------------------------------------
\* What a step may do to what is said of cursors and batches, if the host records nothing.
Grows ==
    /\ \A r \in DOMAIN box : r \in DOMAIN box' /\ box'[r] = box[r]
    /\ Len(box') \in Nat /\ Len(box) <= Len(box') /\ DOMAIN box' = 1 .. Len(box')
    /\ AllMail \subseteq AllMail' /\ gone \subseteq gone' /\ told \subseteq told' /\ unsaid \subseteq unsaid'
    /\ BeforeStart \subseteq BeforeStart' /\ recorded' = recorded

LEMMA BoxTyped ==
    ASSUME MaxMail \in Nat, BoxInOrder
    PROVE  /\ Len(box) \in Nat /\ DOMAIN box = 1 .. Len(box) /\ Arrived \in Nat
           /\ \A r \in DOMAIN box : /\ box[r] \in Seq(1 .. Arrived) /\ Len(box[r]) \in Nat
                                    /\ DOMAIN box[r] = 1 .. Len(box[r])
           /\ AllMail = 1 .. Arrived
<1>1. box \in Seq(Seq(Nat)) /\ Arrived \in 0 .. MaxMail /\ MailOf(DOMAIN box) = 1 .. Arrived
  BY DEF BoxInOrder
<1>2. Len(box) \in Nat /\ DOMAIN box = 1 .. Len(box) /\ Arrived \in Nat
  BY <1>1
<1>3. ASSUME NEW r \in DOMAIN box
      PROVE  box[r] \in Seq(1 .. Arrived) /\ Len(box[r]) \in Nat /\ DOMAIN box[r] = 1 .. Len(box[r])
  <2>1. box[r] \in Seq(Nat)
    BY <1>1, <1>2, <1>3
  <2>2. Len(box[r]) \in Nat /\ DOMAIN box[r] = 1 .. Len(box[r])
    BY <2>1
  <2>3. \A i \in 1 .. Len(box[r]) : box[r][i] \in MailOf(DOMAIN box)
    BY <1>3, <2>2 DEF MailOf, ToSet
  <2> QED BY <1>1, <2>1, <2>2, <2>3
<1>4. AllMail = 1 .. Arrived
  <2>1. ASSUME NEW m PROVE m \in MailOf(DOMAIN box) <=> \E r \in DOMAIN box : m \in ToSet(box[r])
    BY DEF MailOf
  <2>2. 1 .. Arrived \subseteq 1 .. MaxMail
    BY <1>1
  <2> QED BY <1>1, <2>1, <2>2 DEF AllMail
<1> QED BY <1>2, <1>3, <1>4

LEMMA NoneBelow == ASSUME Len(box) \in Nat, DOMAIN box = 1 .. Len(box) PROVE Below(NoCursor) = {} /\ Below(1) = {}
<1>1. {r \in DOMAIN box : r < 0} = {} /\ {r \in DOMAIN box : r < 1} = {}
  OBVIOUS
<1> QED BY <1>1 DEF Below, MailOf, NoCursor

\* A batch leads where its cursor is, and further with more ids.
LEMMA LeadsMore ==
    ASSUME NEW ids, NEW more, NEW n
    PROVE  /\ Earned(n) => Leads(ids, n)
           /\ Leads(ids, n) /\ ids \subseteq more => Leads(more, n)
  BY DEF Earned, Leads, Stands

LEMMA Kept ==
    ASSUME MaxMail \in Nat, BoxInOrder, Grows
    PROVE  /\ \A n : n \in 1 .. HistoryId => n \in 1 .. HistoryId'
           /\ \A n : Earned(n) => Earned(n)'
           /\ \A ids, n : Leads(ids, n) => Leads(ids, n)'
           /\ \A st : Sound(st) => Sound(st)'
<1>1. Accounted \subseteq Accounted'
  BY DEF Grows, Accounted, MailKept, MailExcused
<1>2. Len(box) \in Nat /\ DOMAIN box = 1 .. Len(box)
  BY BoxTyped
<1>3. ASSUME NEW n, n \in 1 .. HistoryId PROVE n \in 1 .. HistoryId' /\ Below(n)' = Below(n)
  <2>1. n \in 1 .. HistoryId'
    BY <1>2, <1>3 DEF Grows, HistoryId
  <2>2. {r \in DOMAIN box' : r < n} = {r \in DOMAIN box : r < n}
    BY <1>2, <1>3 DEF Grows, HistoryId
  <2>3. \A r \in DOMAIN box : box'[r] = box[r]
    BY DEF Grows
  <2>4. UNION {ToSet(box'[r]) : r \in {q \in DOMAIN box' : q < n}} = UNION {ToSet(box[r]) : r \in {q \in DOMAIN box : q < n}}
    BY <2>2, <2>3
  <2> QED BY <2>1, <2>4 DEF Below, MailOf
<1>4. ASSUME NEW n, Earned(n) PROVE Earned(n)'
  BY <1>1, <1>3, <1>4 DEF Earned
<1>5. ASSUME NEW ids, NEW m, Stands(m, ids) PROVE Stands(m, ids)'
  <2>1. \A r \in DOMAIN box : r \in DOMAIN box' /\ Rest(r)' = Rest(r)
    BY DEF Grows, Rest
  <2> QED BY <1>1, <1>5, <2>1 DEF Stands, Grows
<1>6. ASSUME NEW ids, NEW n, Leads(ids, n) PROVE Leads(ids, n)'
  BY <1>3, <1>5, <1>6 DEF Leads
<1>7. ASSUME NEW st, Sound(st) PROVE Sound(st)'
  BY <1>4, <1>6, <1>7 DEF Sound, Shaped
<1> QED BY <1>3, <1>4, <1>6, <1>7

\* confirm: the host holds the batch, so its cuts and its gap are told.
LEMMA Confirmed ==
    ASSUME MaxMail \in Nat, CutsAreTold, NEW ids, ids \subseteq recorded, NEW n, Leads(ids, n), BoxInOrder
    PROVE  Earned(n)
<1>1. ASSUME NEW m \in Below(n) PROVE m \in Accounted
  <2>1. Stands(m, ids)
    BY <1>1 DEF Leads
  <2>2. CASE Mail(m) \in ids
    <3>1. m \in AllMail
      BY <1>1, BoxTyped DEF Below, MailOf, BoxInOrder
    <3> QED BY <2>2, <3>1 DEF Accounted, MailKept
  <2>3. CASE \E id \in ids : id[1] = "cut" /\ id[2] \in DOMAIN box /\ m \in Rest(id[2])
    BY <2>3 DEF CutsAreTold, Accounted, MailExcused
  <2> QED BY <2>1, <2>2, <2>3 DEF Stands
<1> QED BY <1>1 DEF Leads, Earned

LEMMA ConfirmSound ==
    ASSUME MaxMail \in Nat, BoxInOrder, CutsAreTold, KeptInKV, NEW rec, rec \subseteq recorded
    PROVE  /\ start = NoCursor => Confirm(mailKV, rec) = mailKV
           /\ start # NoCursor => Sound(Confirm(mailKV, rec)) /\ Confirm(mailKV, rec).cursor # NoCursor
<1>1. CASE start = NoCursor
  BY <1>1 DEF KeptInKV, Confirm, NoBatch
<1>2. CASE start # NoCursor
  <2>1. Sound(mailKV) /\ Earned(mailKV.cursor)
    BY <1>2 DEF KeptInKV, Sound
  <2>2. CASE mailKV.pend.next # NoCursor /\ mailKV.pend.ids \subseteq rec
    <3> DEFINE st == Confirm(mailKV, rec)
    <3>1. Earned(mailKV.pend.next)
      BY <2>1, <2>2, Confirmed DEF Sound
    <3>2. mailKV = [cursor |-> mailKV.cursor, pend |-> mailKV.pend, last |-> mailKV.last]
      BY <2>1 DEF Sound, Shaped
    <3>3. st = [mailKV EXCEPT !.cursor = mailKV.pend.next, !.pend = NoBatch]
      BY <2>2 DEF Confirm
    <3>4. st = [cursor |-> mailKV.pend.next, pend |-> NoBatch, last |-> mailKV.last]
      BY <3>2, <3>3
    <3> HIDE DEF st
    <3>5. Sound(st)
      BY <3>1, <3>4 DEF Sound, Shaped, NoBatch
    <3> QED BY <1>2, <2>2, <3>4, <3>5 DEF st
  <2>3. CASE ~(mailKV.pend.next # NoCursor /\ mailKV.pend.ids \subseteq rec)
    <3>1. Confirm(mailKV, rec) = mailKV
      BY <2>3 DEF Confirm
    <3>2. mailKV.cursor # NoCursor
      BY <2>1 DEF Earned, NoCursor
    <3> QED BY <1>2, <2>1, <3>1, <3>2
  <2> QED BY <2>2, <2>3
<1> QED BY <1>1, <1>2

----------------------------------------------------------------------------
\* Where mail may come and go and nothing is recorded, what is so stays so.

LEMMA StillKnown ==
    ASSUME MaxMail \in Nat, BoxInOrder, BoxInOrder', Grows
    PROVE  /\ Arrived \in Nat /\ Arrived' \in Nat /\ Arrived <= Arrived'
           /\ \A ids : Known(ids) => Known(ids)'
           /\ \A out : Outgoing(out) => Outgoing(out)'
           /\ CutsAreTold => CutsAreTold'
<1>1. /\ Arrived \in Nat /\ AllMail = 1 .. Arrived
      /\ Arrived' \in Nat /\ AllMail' = 1 .. Arrived'
  <2>1. Arrived' \in Nat /\ MailOf(DOMAIN box)' = 1 .. Arrived' /\ AllMail' = 1 .. Arrived'
    <3>1. Arrived' \in 0 .. MaxMail /\ MailOf(DOMAIN box)' = 1 .. Arrived'
      BY DEF BoxInOrder
    <3>2. ASSUME NEW m PROVE m \in MailOf(DOMAIN box)' <=> \E r \in DOMAIN box' : m \in ToSet(box'[r])
      BY DEF MailOf
    <3>3. 1 .. Arrived' \subseteq 1 .. MaxMail
      BY <3>1
    <3>4. AllMail' = {m \in 1 .. MaxMail : \E r \in DOMAIN box' : m \in ToSet(box'[r])}
      BY DEF AllMail
    <3>5. AllMail' = 1 .. Arrived'
      BY <3>1, <3>2, <3>3, <3>4, Zenon
    <3>6. Arrived' \in Nat
      BY <3>1
    <3> QED BY <3>1, <3>5, <3>6
  <2> QED BY <2>1, BoxTyped
<1>2. Arrived <= Arrived'
  <2>1. 1 .. Arrived \subseteq 1 .. Arrived'
    BY <1>1 DEF Grows
  <2>2. CASE Arrived = 0
    BY <1>1, <2>2
  <2>3. CASE Arrived # 0
    <3>1. Arrived \in 1 .. Arrived
      BY <1>1, <2>3
    <3> QED BY <2>1, <3>1
  <2> QED BY <2>2, <2>3
<1>3. ASSUME NEW ids, Known(ids) PROVE Known(ids)'
  BY <1>1, <1>2, <1>3 DEF Known, Grows
<1>4. ASSUME NEW out, Outgoing(out) PROVE Outgoing(out)'
  BY <1>3, <1>4 DEF Outgoing
<1>5. ASSUME CutsAreTold PROVE CutsAreTold'
  <2>1. \A r \in DOMAIN box : Rest(r)' = Rest(r)
    BY DEF Grows, Rest
  <2>2. Known(recorded)'
    BY <1>3, <1>5 DEF CutsAreTold, Grows
  <2>3. ASSUME NEW id \in recorded, id[1] = "cut" PROVE Rest(id[2])' \subseteq told'
    BY <2>1, <2>3, <1>5 DEF CutsAreTold, Known, Grows
  <2> QED BY <2>2, <2>3 DEF CutsAreTold, Grows
<1> QED BY <1>1, <1>2, <1>3, <1>4, <1>5

LEMMA StillInOrder ==
    ASSUME MaxMail \in Nat, BoxInOrder, BoxInOrder', Grows, UNCHANGED <<mailKV, start>>
    PROVE  /\ KeptInKV => KeptInKV'
           /\ \A c : Walked(c) => Walked(c)'
           /\ \A c : Walked(c) /\ Reading(c) => Reading(c)'
           /\ \A c : Saving(c) => Saving(c)'
           /\ \A c : Placed(c) => Placed(c)'
<1>1. ASSUME KeptInKV PROVE KeptInKV'
  BY <1>1, Kept DEF KeptInKV, Shaped
<1>2. ASSUME NEW c, Walked(c) PROVE Walked(c)'
  <2>1. Outgoing(c.out)' /\ Sound(c.st)' /\ Leads(ToSet(c.out), c.r)' /\ c.r \in 1 .. HistoryId'
    BY <1>2, Kept, StillKnown DEF Walked
  <2>2. c.top \in 0 .. Len(box')
    BY <1>2, BoxTyped DEF Walked, Grows
  <2> QED BY <1>2, <2>1, <2>2 DEF Walked
<1>3. ASSUME NEW c, Walked(c), Reading(c) PROVE Reading(c)'
  <2>1. c.r \in DOMAIN box
    BY <1>3, BoxTyped DEF Walked, Reading, HistoryId
  <2>2. box'[c.r] = box[c.r]
    BY <2>1 DEF Grows
  <2>3. 1 .. Arrived \subseteq 1 .. Arrived'
    BY StillKnown
  <2>4. c.todo \in Seq(1 .. Arrived')
    <3>1. ASSUME NEW S, NEW T, S \subseteq T, NEW s \in Seq(S) PROVE s \in Seq(T)
      BY <3>1
    <3> QED BY <1>3, <2>3, <3>1 DEF Reading
  <2> QED BY <1>3, <2>2, <2>4 DEF Reading, Grows
<1>4. ASSUME NEW c, Saving(c) PROVE Saving(c)'
  <2>1. Outgoing(c.out)' /\ (Sound(c.st) => Sound(c.st)')
    BY <1>4, Kept, StillKnown DEF Saving
  <2>2. c.st.cursor \in 1 .. HistoryId => c.st.cursor \in 1 .. HistoryId'
    BY Kept
  <2> QED BY <1>4, <2>1, <2>2 DEF Saving, Shaped
<1>5. ASSUME NEW c, Placed(c) PROVE Placed(c)'
  <2>1. (Sound(c.st) => Sound(c.st)') /\ (c.now \in 1 .. HistoryId => c.now \in 1 .. HistoryId')
    BY Kept
  <2> QED BY <1>2, <1>3, <1>4, <1>5, <2>1 DEF Placed, Grows
<1> QED BY <1>1, <1>2, <1>3, <1>4, <1>5

\* What happens to the mailbox leaves the call where it is.
LEMMA MailboxMoves ==
    ASSUME MaxMail \in Nat, MailInv, BoxInOrder', Grows, UNCHANGED <<mailKV, start, call>>
    PROVE  MailInv'
<1>1. CutsAreTold' /\ KeptInKV'
  BY StillKnown, StillInOrder DEF MailInv
<1>2. Placed(call)'
  BY StillInOrder DEF MailInv
<1> QED BY <1>1, <1>2 DEF MailInv

LEMMA ReceivesKeeps ==
    ASSUME MaxMail \in Nat, MailInv, Receives
    PROVE  MailInv'
<1>1. PICK n \in 0 .. MaxMail - Arrived : box' = Append(box, [i \in 1 .. n |-> Arrived + i])
  BY DEF Receives
<1>2. Len(box) \in Nat /\ DOMAIN box = 1 .. Len(box) /\ Arrived \in Nat /\ AllMail = 1 .. Arrived /\ box \in Seq(Seq(Nat))
      /\ MailOf(DOMAIN box) = 1 .. Arrived /\ Arrived <= MaxMail
  BY BoxTyped DEF MailInv, BoxInOrder
<1> DEFINE new == [i \in 1 .. n |-> Arrived + i]
<1>3. new \in Seq(Nat) /\ ToSet(new) = (Arrived + 1) .. (Arrived + n) /\ n \in Nat /\ Arrived + n <= MaxMail
  <2>1. n \in Nat /\ Arrived + n <= MaxMail
    BY <1>2
  <2>2. new \in Seq(Nat) /\ DOMAIN new = 1 .. n
    BY <1>2, <2>1
  <2>3. ToSet(new) = {Arrived + i : i \in 1 .. n}
    BY <2>2 DEF ToSet
  <2>4. {Arrived + i : i \in 1 .. n} = (Arrived + 1) .. (Arrived + n)
    <3>1. ASSUME NEW k \in (Arrived + 1) .. (Arrived + n) PROVE \E i \in 1 .. n : k = Arrived + i
      <4>1. k - Arrived \in 1 .. n /\ k = Arrived + (k - Arrived)
        BY <1>2, <2>1
      <4> QED BY <4>1
    <3>2. ASSUME NEW i \in 1 .. n PROVE Arrived + i \in (Arrived + 1) .. (Arrived + n)
      BY <1>2, <2>1
    <3> QED BY <3>1, <3>2
  <2> QED BY <2>1, <2>2, <2>3, <2>4
<1> HIDE DEF new
<1>4. /\ box' = Append(box, new) /\ box' \in Seq(Seq(Nat)) /\ Len(box') = Len(box) + 1
      /\ DOMAIN box' = 1 .. Len(box) + 1 /\ \A r \in DOMAIN box : r \in DOMAIN box' /\ box'[r] = box[r]
      /\ box'[Len(box) + 1] = new
  BY <1>1, <1>2, <1>3 DEF new
<1>5. MailOf(DOMAIN box)' = 1 .. (Arrived + n)
  <2>1. DOMAIN box' = DOMAIN box \cup {Len(box) + 1}
    BY <1>2, <1>4
  <2>2. MailOf(DOMAIN box)' = MailOf(DOMAIN box) \cup ToSet(new)
    BY <1>4, <2>1 DEF MailOf
  <2>3. (1 .. Arrived) \cup ((Arrived + 1) .. (Arrived + n)) = 1 .. (Arrived + n)
    BY <1>2, <1>3
  <2> QED BY <1>2, <1>3, <2>2, <2>3, Zenon
<1>6. AllMail' = 1 .. (Arrived + n)
  <2>1. ASSUME NEW m PROVE m \in MailOf(DOMAIN box)' <=> \E r \in DOMAIN box' : m \in ToSet(box'[r])
    BY DEF MailOf
  <2>2. 1 .. (Arrived + n) \subseteq 1 .. MaxMail
    BY <1>2, <1>3
  <2> QED BY <1>5, <2>1, <2>2 DEF AllMail
<1>7. Arrived' = Arrived + n
  <2>1. Cardinality(1 .. (Arrived + n)) = Arrived + n
    <3>1. Cardinality(1 .. (Arrived + n)) = IF 1 > Arrived + n THEN 0 ELSE (Arrived + n) - 1 + 1
      BY <1>2, <1>3, FS_Interval, 1 \in Int, Arrived + n \in Int
    <3> QED BY <1>2, <1>3, <3>1
  <2>2. Arrived' = Cardinality(AllMail')
    BY DEF Arrived
  <2> QED BY <1>6, <2>1, <2>2
<1>8. UNCHANGED <<gone, told, unsaid, recorded, start, mailKV, call>>
  BY DEF Receives, held
<1>9. BoxInOrder'
  <2>1. 1 .. Arrived \subseteq 1 .. (Arrived + n)
    BY <1>2, <1>3
  <2>2. gone \cup told \cup unsaid \subseteq 1 .. Arrived
    BY DEF MailInv, BoxInOrder
  <2>3. Arrived + n \in 0 .. MaxMail
    BY <1>2, <1>3
  <2> QED BY <1>4, <1>5, <1>7, <1>8, <2>1, <2>2, <2>3 DEF BoxInOrder
<1>10. Grows
  <2>1. AllMail \subseteq AllMail'
    BY <1>2, <1>3, <1>6
  <2>2. BeforeStart \subseteq BeforeStart'
    BY <1>4, <1>8 DEF BeforeStart, MailOf
  <2> QED BY <1>2, <1>4, <1>8, <2>1, <2>2 DEF Grows
<1> QED BY <1>8, <1>9, <1>10, MailboxMoves

LEMMA DeletesForgetsKeep ==
    ASSUME MaxMail \in Nat, MailInv, Deletes \/ Forgets
    PROVE  MailInv'
<1>1. UNCHANGED <<box, told, unsaid, recorded, start, mailKV, call>> /\ gone \subseteq gone' /\ gone' \subseteq gone \cup AllMail
  BY DEF Deletes, Forgets, held
<1>2. AllMail = 1 .. Arrived
  BY BoxTyped DEF MailInv
<1>3. BoxInOrder'
  BY <1>1, <1>2 DEF MailInv, BoxInOrder, Arrived, AllMail, MailOf
<1>4. Grows
  BY <1>1, BoxTyped DEF MailInv, Grows, AllMail, BeforeStart, MailOf
<1> QED BY <1>1, <1>3, <1>4, MailboxMoves

----------------------------------------------------------------------------
\* The steps of an operation that move nothing but the call.

LEMMA CallMoves ==
    ASSUME MaxMail \in Nat, MailInv, UNCHANGED <<mailbox, mailKV, held, unsaid, start>>, Placed(call')
    PROVE  MailInv'
<1>1. UNCHANGED <<box, gone, told, unsaid, recorded, start, mailKV>>
  BY DEF mailbox, held
<1>2. BoxInOrder'
  BY <1>1 DEF MailInv, BoxInOrder, Arrived, AllMail, MailOf
<1>3. Grows
  BY <1>1, BoxTyped DEF MailInv, Grows, AllMail, BeforeStart, MailOf
<1>4. CutsAreTold' /\ KeptInKV' /\ Placed(call)'
  BY <1>1, <1>2, <1>3, StillKnown, StillInOrder DEF MailInv
<1> QED BY <1>2, <1>4 DEF MailInv

LEMMA StartKeeps ==
    ASSUME MaxMail \in Nat, MailInv, Start("sync") \/ Start("renew")
    PROVE  MailInv'
<1>1. PICK op \in {"sync", "renew"} : Start(op)
  OBVIOUS
<1>2. Placed(call')
  BY <1>1 DEF Start, Placed
<1> QED BY <1>1, <1>2, CallMoves DEF Start

\* A first cursor: the mailbox's place, and no batch.
LEMMA FirstSaved ==
    ASSUME MaxMail \in Nat, BoxInOrder, KeptInKV, start = NoCursor
    PROVE  Placed(Save([mailKV EXCEPT !.cursor = HistoryId], <<>>))
<1> DEFINE st == [mailKV EXCEPT !.cursor = HistoryId]
           c == Save(st, <<>>)
<1>1. mailKV = [cursor |-> mailKV.cursor, pend |-> NoBatch, last |-> mailKV.last]
  BY DEF KeptInKV, Shaped
<1>2. st = [cursor |-> HistoryId, pend |-> NoBatch, last |-> mailKV.last]
  BY <1>1
<1>3. HistoryId \in 1 .. HistoryId
  BY BoxTyped DEF HistoryId
<1> HIDE DEF st
<1>4. c = [at |-> "save", st |-> st, left |-> AllKeys, out |-> <<>>]
  BY DEF Save, AllKeys
<1> HIDE DEF c
<1>5. Outgoing(<<>>)
  BY DEF Outgoing, Known, ToSet
<1>6. Saving(c)
  BY <1>2, <1>3, <1>4, <1>5 DEF Saving, Shaped, AllKeys, ToSet
<1>7. c.at = "save"
  BY <1>4
<1>8. Placed(c)
  BY <1>6, <1>7 DEF Placed
<1> QED BY <1>8 DEF c, st

LEMMA FirstCursorKeeps ==
    ASSUME MaxMail \in Nat, MailInv, Watch \/ FirstCursor
    PROVE  MailInv'
<1>1. CASE Watch
  <2>1. CASE mailKV.cursor = NoCursor
    <3>1. start = NoCursor
      BY <2>1 DEF MailInv, KeptInKV, Sound, Earned, NoCursor
    <3>2. Placed(call')
      BY <1>1, <2>1, <3>1, FirstSaved DEF Watch, MailInv
    <3> QED BY <1>1, <3>2, CallMoves DEF Watch
  <2>2. CASE mailKV.cursor # NoCursor
    <3>1. Placed(call')
      BY <1>1, <2>2 DEF Watch, Placed
    <3> QED BY <1>1, <3>1, CallMoves DEF Watch
  <2> QED BY <2>1, <2>2
<1>2. CASE FirstCursor
  <2>1. call.at = "sync" /\ call.rec \subseteq recorded
    BY <1>2 DEF FirstCursor, MailInv, Placed, Idle
  <2>2. Confirm(mailKV, call.rec).cursor = NoCursor
    BY <1>2 DEF FirstCursor
  <2>3. start = NoCursor /\ Confirm(mailKV, call.rec) = mailKV
    BY <2>1, <2>2, ConfirmSound DEF MailInv
  <2>4. Placed(call')
    BY <1>2, <2>3, FirstSaved DEF FirstCursor, MailInv
  <2> QED BY <1>2, <2>4, CallMoves DEF FirstCursor
<1> QED BY <1>1, <1>2

LEMMA ReadHistoryKeeps ==
    ASSUME Page \in Nat \ {0}, MaxMail \in Nat, MailInv, ReadHistory
    PROVE  MailInv'
<1> DEFINE st == Confirm(mailKV, call.rec)
           top == IF st.cursor + Page - 1 < Len(box) THEN st.cursor + Page - 1 ELSE Len(box)
<1>1. call.at = "sync" /\ call.rec \subseteq recorded
  BY DEF ReadHistory, MailInv, Placed, Idle
<1>2. st.cursor # NoCursor
  BY DEF ReadHistory
<1>3. start # NoCursor
  BY <1>1, <1>2, ConfirmSound DEF MailInv, KeptInKV
<1>4. Sound(st)
  BY <1>1, <1>3, ConfirmSound DEF MailInv
<1> HIDE DEF st
<1>5. Len(box) \in Nat /\ st.cursor \in 1 .. Len(box) + 1 /\ Earned(st.cursor)
  BY <1>4, BoxTyped DEF Sound, Earned, HistoryId, MailInv
<1>6. CASE st.cursor < floor
  <2>1. call' = [at |-> "profile", st |-> st]
    BY <1>6 DEF ReadHistory, st
  <2>2. Placed(call')
    BY <2>1, <1>3, <1>4 DEF Placed
  <2> QED BY <2>2, CallMoves DEF ReadHistory
<1>7. CASE ~(st.cursor < floor)
  <2> DEFINE c == [at |-> "walk", st |-> st, next |-> st.cursor, todo |-> <<>>, cut |-> FALSE,
                   r |-> st.cursor, top |-> top, more |-> top < Len(box),
                   current |-> HistoryId, out |-> <<>>]
  <2>1. call' = c
    BY <1>7 DEF ReadHistory, st
  <2>2. top \in 0 .. Len(box) /\ st.cursor <= top + 1 /\ (~(top < Len(box)) => HistoryId = top + 1)
    BY <1>5 DEF HistoryId
  <2> HIDE DEF top
  <2>3. Outgoing(<<>>) /\ ToSet(<<>>) = {}
    BY DEF Outgoing, Known, ToSet
  <2>4. Leads({}, st.cursor)
    BY <1>5, LeadsMore
  <2>5. st.cursor \in 1 .. HistoryId
    BY <1>5 DEF HistoryId
  <2>0. /\ c.at = "walk" /\ c.st = st /\ c.next = st.cursor /\ c.todo = <<>> /\ c.cut = FALSE /\ c.r = st.cursor
        /\ c.top = top /\ c.more = (top < Len(box)) /\ c.current = HistoryId /\ c.out = <<>>
        /\ c = [at |-> c.at, st |-> c.st, next |-> c.next, todo |-> c.todo, cut |-> c.cut, r |-> c.r,
                top |-> c.top, more |-> c.more, current |-> c.current, out |-> c.out]
    OBVIOUS
  <2> HIDE DEF c
  <2>11. ~c.more => c.current = c.top + 1
    BY <2>2 DEF c
  <2>12. Sound(c.st) /\ Outgoing(c.out) /\ Leads(ToSet(c.out), c.r)
    BY <1>4, <2>0, <2>3, <2>4
  <2>13. c.r \in 1 .. HistoryId /\ c.next = c.r /\ c.r <= c.top + 1 /\ c.top \in 0 .. Len(box)
    BY <2>0, <2>2, <2>5
  <2>14. \A id \in ToSet(c.out) : id[1] # "gap"
    BY <2>0, <2>3
  <2>6. Walked(c)
    BY <1>3, <2>11, <2>12, <2>13, <2>14, <2>0 DEF Walked
  <2>7. Placed(c)
    BY <2>6, <2>0 DEF Placed
  <2>8. Placed(call')
    BY <2>1, <2>7 DEF c
  <2> QED BY <2>8, CallMoves DEF ReadHistory
<1> QED BY <1>6, <1>7

----------------------------------------------------------------------------
\* The walk over the records.

LEMMA TakeRecordKeeps ==
    ASSUME Room \in Nat, MaxMail \in Nat, MailInv, TakeRecord
    PROVE  MailInv'
<1> DEFINE ids == box[call.r]
           n == IF Len(ids) > RoomLeft THEN RoomLeft ELSE Len(ids)
           todo == SubSeq(ids, 1, n)
<1>1. call.at = "walk" /\ Walked(call) /\ call.r <= call.top
  BY DEF TakeRecord, MailInv, Placed, Idle
<1>2. call' = [call EXCEPT !.at = "fetch", !.todo = todo, !.cut = Len(ids) > RoomLeft]
  BY DEF TakeRecord
<1>3. /\ call.r \in DOMAIN box /\ Len(ids) \in Nat /\ DOMAIN ids = 1 .. Len(ids)
      /\ \A i \in 1 .. Len(ids) : ids[i] \in 1 .. Arrived
  <2>1. call.r \in DOMAIN box
    BY <1>1, BoxTyped DEF Walked, HistoryId, MailInv
  <2>2. ids \in Seq(1 .. Arrived) /\ Len(ids) \in Nat /\ DOMAIN ids = 1 .. Len(ids)
    BY <2>1, BoxTyped DEF MailInv
  <2> HIDE DEF ids
  <2>3. \A i \in 1 .. Len(ids) : ids[i] \in 1 .. Arrived
    <3>1. ASSUME NEW S, NEW s \in Seq(S) PROVE \A i \in 1 .. Len(s) : s[i] \in S
      OBVIOUS
    <3> QED BY <2>2, <3>1
  <2> QED BY <2>1, <2>2, <2>3
<1>4. Len(call.out) \in Nat /\ (Len(call.out) = 0 <=> call.out = <<>>)
  <2>1. call.out \in Seq({"mail", "cut", "gap"} \X Nat)
    BY <1>1 DEF Walked, Outgoing
  <2> QED BY <2>1
<1>5. n \in 0 .. Len(ids) /\ (Len(ids) > RoomLeft => n = Room)
  <2>1. Len(ids) <= RoomLeft \/ call.out = <<>>
    BY DEF TakeRecord
  <2>2. RoomLeft = Room - Len(call.out)
    BY DEF RoomLeft
  <2>3. \A l, o \in Nat : l <= Room - o \/ o = 0 =>
          LET k == IF l > Room - o THEN Room - o ELSE l IN k \in 0 .. l /\ (l > Room - o => k = Room)
    OBVIOUS
  <2> HIDE DEF ids
  <2>4. Len(ids) <= Room - Len(call.out) \/ Len(call.out) = 0
    BY <1>4, <2>1, <2>2, Zenon DEF ids
  <2> QED BY <1>3, <1>4, <2>2, <2>3, <2>4
<1> HIDE DEF ids, n
<1>6. todo \in Seq(1 .. Arrived) /\ Len(todo) = n /\ \A i \in 1 .. n : todo[i] = ids[i]
  BY <1>3, <1>5
<1>7. \A i \in 1 .. n : ids[i] \in ToSet(todo)
  <2>1. DOMAIN todo = 1 .. n
    BY <1>5, <1>6
  <2> QED BY <1>6, <2>1 DEF ToSet
<1> HIDE DEF todo
<1>8. Walked(call)
  BY <1>1
<1>9. /\ call'.at = "fetch" /\ call'.todo = todo /\ (call'.cut <=> Len(ids) > RoomLeft)
      /\ call'.st = call.st /\ call'.next = call.next /\ call'.r = call.r /\ call'.top = call.top
      /\ call'.more = call.more /\ call'.current = call.current /\ call'.out = call.out
      /\ call' = [at |-> call'.at, st |-> call'.st, next |-> call'.next, todo |-> call'.todo, cut |-> call'.cut,
                  r |-> call'.r, top |-> call'.top, more |-> call'.more, current |-> call'.current, out |-> call'.out]
  BY <1>2, <1>8 DEF Walked
<1>10. Walked(call')
  BY <1>8, <1>9 DEF Walked
<1>11. Reading(call')
  <2>1. CASE Len(ids) > RoomLeft
    <3>1. Room = n /\ Len(ids) > Room
      <4>1. RoomLeft = n
        BY <2>1 DEF n
      <4> QED BY <4>1, <2>1, <1>5
    <3> QED BY <1>1, <1>5, <1>6, <1>7, <1>9, <2>1, <3>1 DEF Reading, ids
  <2>2. CASE ~(Len(ids) > RoomLeft)
    <3>1. Len(ids) = n
      BY <2>2 DEF n
    <3> QED BY <1>1, <1>6, <1>7, <1>9, <2>2, <3>1 DEF Reading, ids
  <2> QED BY <2>1, <2>2
<1>12. Placed(call')
  BY <1>9, <1>10, <1>11 DEF Placed
<1> QED BY <1>12, CallMoves DEF TakeRecord

\* What is added to the end of an answer.
LEMMA OneMore ==
    ASSUME NEW out, Outgoing(out), NEW id \in {"mail", "cut", "gap"} \X Nat, Known({id})
    PROVE  Outgoing(Append(out, id)) /\ ToSet(Append(out, id)) = ToSet(out) \cup {id}
<1>1. out \in Seq({"mail", "cut", "gap"} \X Nat)
  BY DEF Outgoing
<1>2. Len(out) \in Nat /\ DOMAIN out = 1 .. Len(out)
  BY <1>1
<1>3. Append(out, id) \in Seq({"mail", "cut", "gap"} \X Nat)
  BY <1>1
<1>4. DOMAIN Append(out, id) = 1 .. Len(out) + 1 /\ Append(out, id)[Len(out) + 1] = id
      /\ \A i \in 1 .. Len(out) : Append(out, id)[i] = out[i]
  BY <1>1, <1>2
<1>5. ToSet(Append(out, id)) = ToSet(out) \cup {id}
  <2>1. 1 .. Len(out) + 1 = (1 .. Len(out)) \cup {Len(out) + 1}
    BY <1>2
  <2> QED BY <1>2, <1>4, <2>1 DEF ToSet
<1>6. Known(ToSet(out) \cup {id})
  BY DEF Outgoing, Known
<1> QED BY <1>3, <1>5, <1>6 DEF Outgoing

LEMMA HeadAndTail ==
    ASSUME NEW S, NEW s \in Seq(S), s # <<>>
    PROVE  Head(s) \in S /\ Tail(s) \in Seq(S) /\ ToSet(s) = {Head(s)} \cup ToSet(Tail(s))
<1>1. Len(s) \in Nat \ {0} /\ DOMAIN s = 1 .. Len(s) /\ Head(s) = s[1] /\ Head(s) \in S
  OBVIOUS
<1>2. Tail(s) \in Seq(S) /\ Len(Tail(s)) = Len(s) - 1 /\ \A i \in 1 .. Len(s) - 1 : Tail(s)[i] = s[i + 1]
  BY <1>1
<1>3. DOMAIN Tail(s) = 1 .. Len(s) - 1
  BY <1>1, <1>2
<1>4. ASSUME NEW x PROVE x \in ToSet(s) <=> x \in {Head(s)} \cup ToSet(Tail(s))
  <2>1. ASSUME NEW i \in 1 .. Len(s), x = s[i] PROVE x = Head(s) \/ \E j \in 1 .. Len(s) - 1 : x = Tail(s)[j]
    <3>1. CASE i = 1
      BY <1>1, <2>1, <3>1
    <3>2. CASE i # 1
      <4>1. i - 1 \in 1 .. Len(s) - 1 /\ Tail(s)[i - 1] = s[i]
        BY <1>1, <1>2, <3>2
      <4> QED BY <2>1, <4>1
    <3> QED BY <3>1, <3>2
  <2>2. ASSUME NEW j \in 1 .. Len(s) - 1 PROVE Tail(s)[j] \in ToSet(s)
    <3>1. j + 1 \in 1 .. Len(s) /\ Tail(s)[j] = s[j + 1]
      BY <1>1, <1>2
    <3> QED BY <1>1, <3>1 DEF ToSet
  <2>3. Head(s) \in ToSet(s)
    BY <1>1 DEF ToSet
  <2> QED BY <1>1, <1>3, <2>1, <2>2, <2>3 DEF ToSet
<1> QED BY <1>1, <1>2, <1>4

LEMMA FetchKeeps ==
    ASSUME MaxMail \in Nat, MailInv, Fetch
    PROVE  MailInv'
<1> DEFINE m == Head(call.todo)
<1>1. call.at = "fetch" /\ Walked(call) /\ Reading(call) /\ call.todo # <<>>
  BY DEF Fetch, MailInv, Placed, Idle
<1>2. m \in 1 .. Arrived /\ Tail(call.todo) \in Seq(1 .. Arrived) /\ ToSet(call.todo) = {m} \cup ToSet(Tail(call.todo))
  BY <1>1, HeadAndTail DEF Reading
<1>3. call' = [Fetched(call, m) EXCEPT !.todo = Tail(@)]
  BY DEF Fetch
<1> HIDE DEF m
<1>4. call = [at |-> call.at, st |-> call.st, next |-> call.next, todo |-> call.todo, cut |-> call.cut, r |-> call.r,
              top |-> call.top, more |-> call.more, current |-> call.current, out |-> call.out]
  BY <1>1 DEF Walked
<1>5. Sound(call.st) /\ Shaped(call.st) /\ Outgoing(call.out)
  BY <1>1 DEF Walked, Sound
<1>6. CASE m \in gone
  <2>1. call' = [call EXCEPT !.todo = Tail(call.todo)]
    BY <1>3, <1>4, <1>6 DEF Fetched
  <2>2. /\ call'.at = "fetch" /\ call'.todo = Tail(call.todo) /\ (call'.cut <=> call.cut)
        /\ call'.st = call.st /\ call'.next = call.next /\ call'.r = call.r /\ call'.top = call.top
        /\ (call'.more <=> call.more) /\ call'.current = call.current /\ call'.out = call.out
        /\ call' = [at |-> call'.at, st |-> call'.st, next |-> call'.next, todo |-> call'.todo, cut |-> call'.cut,
                    r |-> call'.r, top |-> call'.top, more |-> call'.more, current |-> call'.current, out |-> call'.out]
    BY <1>1, <1>4, <2>1
  <2>3. Walked(call')
    BY <1>1, <2>2 DEF Walked
  <2>4. Reading(call')
    BY <1>1, <1>2, <1>6, <2>2 DEF Reading
  <2>5. Placed(call')
    BY <2>2, <2>3, <2>4 DEF Placed
  <2> QED BY <2>5, CallMoves DEF Fetch
<1>7. CASE m \notin gone
  <2> DEFINE last == IF m > call.st.last THEN m ELSE call.st.last
             st == [call.st EXCEPT !.last = last]
             out == Append(call.out, Mail(m))
  <2>1. call' = [call EXCEPT !.st = st, !.out = out, !.todo = Tail(call.todo)]
    BY <1>3, <1>4, <1>7 DEF Fetched
  <2>2. Mail(m) \in {"mail", "cut", "gap"} \X Nat /\ Mail(m)[1] = "mail" /\ Mail(m)[2] = m
    BY <1>2, BoxTyped DEF Mail, MailInv
  <2>3. Outgoing(out) /\ ToSet(out) = ToSet(call.out) \cup {Mail(m)}
    <3>1. Known({Mail(m)})
      BY <1>2, <2>2 DEF Known
    <3> QED BY <1>5, <2>2, <3>1, OneMore
  <2>4. Sound(st)
    <3>1. call.st = [cursor |-> call.st.cursor, pend |-> call.st.pend, last |-> call.st.last]
      BY <1>5 DEF Shaped
    <3> HIDE DEF last
    <3>2. st.cursor = call.st.cursor /\ st.pend = call.st.pend /\ st = [cursor |-> st.cursor, pend |-> st.pend, last |-> st.last]
      BY <3>1
    <3> HIDE DEF st
    <3> QED BY <1>5, <3>2 DEF Sound, Shaped
  <2> HIDE DEF st, out
  <2>5. /\ call'.at = "fetch" /\ call'.todo = Tail(call.todo) /\ (call'.cut <=> call.cut)
        /\ call'.st = st /\ call'.next = call.next /\ call'.r = call.r /\ call'.top = call.top
        /\ (call'.more <=> call.more) /\ call'.current = call.current /\ call'.out = out
        /\ call' = [at |-> call'.at, st |-> call'.st, next |-> call'.next, todo |-> call'.todo, cut |-> call'.cut,
                    r |-> call'.r, top |-> call'.top, more |-> call'.more, current |-> call'.current, out |-> call'.out]
    BY <1>1, <1>4, <2>1
  <2>6. Leads(ToSet(out), call.r)
    BY <1>1, <2>3, LeadsMore DEF Walked
  <2>7. \A id \in ToSet(out) : id[1] # "gap"
    BY <1>1, <2>2, <2>3 DEF Walked
  <2>8. Walked(call')
    BY <1>1, <2>3, <2>4, <2>5, <2>6, <2>7 DEF Walked
  <2>9. Reading(call')
    BY <1>1, <1>2, <2>3, <2>5 DEF Reading
  <2>10. Placed(call')
    BY <2>5, <2>8, <2>9 DEF Placed
  <2> QED BY <2>10, CallMoves DEF Fetch
<1> QED BY <1>6, <1>7

\* The record that is done: taken, gone, or cut with a notice.
LEMMA RecordTaken ==
    ASSUME MaxMail \in Nat, BoxInOrder, NEW c, Walked(c), Reading(c), c.todo = <<>>,
           NEW ids, ToSet(c.out) \subseteq ids, c.cut => Cut(c.r) \in ids, Room \in Nat
    PROVE  Leads(ids, c.r + 1)
<1>1. c.r \in DOMAIN box /\ Len(box) \in Nat /\ DOMAIN box = 1 .. Len(box)
  BY BoxTyped DEF Walked, Reading, HistoryId
<1>2. Len(box[c.r]) \in Nat /\ DOMAIN box[c.r] = 1 .. Len(box[c.r]) /\ box[c.r] \in Seq(1 .. Arrived)
  BY <1>1, BoxTyped
<1>3. c.r + 1 \in 1 .. HistoryId
  BY <1>1 DEF HistoryId
<1>4. Leads(ids, c.r)
  BY LeadsMore DEF Walked
<1>5. Below(c.r + 1) = Below(c.r) \cup ToSet(box[c.r])
  <2>1. {r \in DOMAIN box : r < c.r + 1} = {r \in DOMAIN box : r < c.r} \cup {c.r}
    BY <1>1
  <2> QED BY <2>1 DEF Below, MailOf
<1>6. ASSUME NEW m \in ToSet(box[c.r]) PROVE Stands(m, ids)
  <2>1. PICK i \in 1 .. Len(box[c.r]) : m = box[c.r][i]
    BY <1>2, <1>6 DEF ToSet
  <2>2. CASE c.cut /\ i > Room
    <3>1. m \in Rest(c.r)
      <4> DEFINE s == box[c.r]
      <4> HIDE DEF s
      <4>1. Len(s) \in Nat /\ s \in Seq(1 .. Arrived) /\ i \in 1 .. Len(s) /\ i > Room /\ m = s[i]
        BY <1>2, <2>1, <2>2 DEF s
      <4> DEFINE t == SubSeq(s, Room + 1, Len(s))
      <4>2. t[i - Room] = s[i] /\ i - Room \in DOMAIN t
        BY <4>1
      <4> HIDE DEF t
      <4>3. m \in ToSet(t)
        BY <4>1, <4>2 DEF ToSet
      <4> QED BY <4>3 DEF t, s, Rest
    <3>2. Cut(c.r)[1] = "cut" /\ Cut(c.r)[2] = c.r
      BY DEF Cut
    <3> QED BY <1>1, <2>2, <3>1, <3>2 DEF Stands
  <2>3. CASE ~(c.cut /\ i > Room)
    <3>1. i \in 1 .. IF c.cut THEN Room ELSE Len(box[c.r])
      BY <2>1, <2>3, <1>2
    <3>2. m \in gone \/ Mail(m) \in ToSet(c.out) \/ m \in ToSet(c.todo)
      BY <2>1, <3>1 DEF Reading
    <3>3. ToSet(c.todo) = {}
      BY DEF ToSet
    <3> QED BY <3>2, <3>3 DEF Stands, Accounted, MailExcused
  <2> QED BY <2>2, <2>3
<1> QED BY <1>3, <1>4, <1>5, <1>6 DEF Leads

LEMMA RecordDoneKeeps ==
    ASSUME Room \in Nat, MaxMail \in Nat, MailInv, RecordDone
    PROVE  MailInv'
<1> DEFINE out == IF call.cut THEN Append(call.out, Cut(call.r)) ELSE call.out
<1>1. call.at = "fetch" /\ Walked(call) /\ Reading(call) /\ call.todo = <<>>
  BY DEF RecordDone, MailInv, Placed, Idle
<1>2. call = [at |-> call.at, st |-> call.st, next |-> call.next, todo |-> call.todo, cut |-> call.cut, r |-> call.r,
              top |-> call.top, more |-> call.more, current |-> call.current, out |-> call.out]
  BY <1>1 DEF Walked
<1>3. call.r \in 1 .. call.top /\ call.top \in 0 .. Len(box) /\ DOMAIN box = 1 .. Len(box) /\ Len(box) \in Nat
  BY <1>1, BoxTyped DEF Walked, Reading, HistoryId, MailInv
<1>4. Outgoing(out) /\ ToSet(call.out) \subseteq ToSet(out) /\ (call.cut => Cut(call.r) \in ToSet(out))
      /\ \A id \in ToSet(out) : id[1] # "gap"
  <2>1. Outgoing(call.out) /\ \A id \in ToSet(call.out) : id[1] # "gap"
    BY <1>1 DEF Walked
  <2>2. CASE ~call.cut
    BY <2>1, <2>2
  <2>3. CASE call.cut
    <3>1. Cut(call.r) \in {"mail", "cut", "gap"} \X Nat /\ Cut(call.r)[1] = "cut" /\ Cut(call.r)[2] = call.r
      BY <1>3 DEF Cut
    <3>2. Known({Cut(call.r)})
      BY <1>3, <3>1 DEF Known
    <3>3. out = Append(call.out, Cut(call.r))
      BY <2>3
    <3> HIDE DEF out
    <3>4. Outgoing(out) /\ ToSet(out) = ToSet(call.out) \cup {Cut(call.r)}
      BY <2>1, <3>1, <3>2, <3>3, OneMore
    <3> QED BY <2>1, <3>1, <3>4
  <2> QED BY <2>2, <2>3
<1>5. call' = [call EXCEPT !.at = "walk", !.r = call.r + 1, !.next = call.r + 1, !.cut = FALSE, !.out = out]
  BY <1>2 DEF RecordDone
<1> HIDE DEF out
<1>6. /\ call'.at = "walk" /\ call'.todo = <<>> /\ ~call'.cut
      /\ call'.st = call.st /\ call'.next = call.r + 1 /\ call'.r = call.r + 1 /\ call'.top = call.top
      /\ (call'.more <=> call.more) /\ call'.current = call.current /\ call'.out = out
      /\ call' = [at |-> call'.at, st |-> call'.st, next |-> call'.next, todo |-> call'.todo, cut |-> call'.cut,
                  r |-> call'.r, top |-> call'.top, more |-> call'.more, current |-> call'.current, out |-> call'.out]
  BY <1>1, <1>2, <1>5
<1>7. Leads(ToSet(out), call.r + 1)
  BY <1>1, <1>4, RecordTaken DEF MailInv
<1>8. Walked(call')
  BY <1>1, <1>3, <1>4, <1>6, <1>7 DEF Walked, HistoryId
<1>9. Placed(call')
  BY <1>6, <1>8 DEF Placed
<1> QED BY <1>9, CallMoves DEF RecordDone

\* What is put in KV when the walk ends leads as far as it says.
LEMMA BatchPlaced ==
    ASSUME MaxMail \in Nat, BoxInOrder, NEW c, Walked(c), NEW n, Leads(ToSet(c.out), n)
    PROVE  Placed(Batch(c, n))
<1>1. /\ c.st = [cursor |-> c.st.cursor, pend |-> c.st.pend, last |-> c.st.last] /\ Earned(c.st.cursor)
      /\ start # NoCursor /\ Outgoing(c.out) /\ \A id \in ToSet(c.out) : id[1] # "gap"
  BY DEF Walked, Sound, Shaped
<1>2. CASE c.out = <<>>
  <2> DEFINE st == [c.st EXCEPT !.cursor = n, !.pend = NoBatch]
             d == Save(st, <<>>)
  <2>0. c.st = [cursor |-> c.st.cursor, pend |-> c.st.pend, last |-> c.st.last]
    BY <1>1
  <2>1. st = [cursor |-> n, pend |-> NoBatch, last |-> c.st.last]
    <3>1. ASSUME NEW s, s = [cursor |-> s.cursor, pend |-> s.pend, last |-> s.last], NEW t,
                 t = [s EXCEPT !.cursor = n, !.pend = NoBatch]
          PROVE  t = [cursor |-> n, pend |-> NoBatch, last |-> s.last]
      BY <3>1
    <3> QED BY <2>0, <3>1
  <2>2. Earned(n)
    <3>1. ToSet(c.out) = {}
      BY <1>2 DEF ToSet
    <3> QED BY <3>1 DEF Leads, Stands, Earned
  <2>3. Sound(st) /\ Shaped(st)
    BY <2>1, <2>2 DEF Sound, Shaped, NoBatch
  <2> HIDE DEF st
  <2>4. d = [at |-> "save", st |-> st, left |-> AllKeys, out |-> <<>>]
    BY DEF Save, AllKeys
  <2>5. Batch(c, n) = d
    BY <1>2 DEF Batch, st
  <2> HIDE DEF d
  <2>6. Saving(d) /\ d.at = "save"
    BY <1>1, <1>2, <2>3, <2>4 DEF Saving, AllKeys, ToSet
  <2> QED BY <2>5, <2>6 DEF Placed
<1>3. CASE c.out # <<>>
  <2> DEFINE st == [c.st EXCEPT !.pend = [ids |-> ToSet(c.out), next |-> n]]
             d == Save(st, c.out)
  <2>1. st = [cursor |-> c.st.cursor, pend |-> [ids |-> ToSet(c.out), next |-> n], last |-> c.st.last]
    BY <1>1
  <2>3. Sound(st) /\ Shaped(st) /\ st.pend.ids = ToSet(c.out)
    BY <1>1, <2>1 DEF Sound, Shaped
  <2> HIDE DEF st
  <2>4. d = [at |-> "save", st |-> st, left |-> AllKeys, out |-> c.out]
    BY DEF Save, AllKeys
  <2>5. Batch(c, n) = d
    BY <1>3 DEF Batch, st
  <2> HIDE DEF d
  <2>6. Saving(d) /\ d.at = "save"
    BY <1>1, <2>3, <2>4 DEF Saving, AllKeys
  <2> QED BY <2>5, <2>6 DEF Placed
<1> QED BY <1>2, <1>3

LEMMA WalkEndsKeeps ==
    ASSUME MaxMail \in Nat, MailInv, WalkEnds
    PROVE  MailInv'
<1>1. call.at = "walk" /\ Walked(call)
  BY DEF WalkEnds, MailInv, Placed, Idle
<1>2. PICK n : call' = Batch(call, n) /\ (n = call.next \/ (call.r > call.top /\ ~call.more /\ n = call.current))
  BY DEF WalkEnds
<1>3. n = call.r
  BY <1>1, <1>2, BoxTyped DEF Walked, HistoryId, MailInv
<1>4. Placed(call')
  BY <1>1, <1>2, <1>3, BatchPlaced DEF Walked, MailInv
<1> QED BY <1>4, CallMoves DEF WalkEnds

LEMMA ReadFailsKeeps ==
    ASSUME MaxMail \in Nat, MailInv, ReadFails
    PROVE  MailInv'
<1>1. call.at = "fetch" /\ Walked(call)
  BY DEF ReadFails, MailInv, Placed, Idle
<1>2. Placed(call')
  BY <1>1, BatchPlaced DEF Walked, MailInv, ReadFails
<1> QED BY <1>2, CallMoves DEF ReadFails

LEMMA KilledKeeps ==
    ASSUME MaxMail \in Nat, MailInv, Killed
    PROVE  MailInv'
<1>1. Placed(call')
  BY DEF Killed, Placed
<1> QED BY <1>1, CallMoves DEF Killed

LEMMA ReadPlaceKeeps ==
    ASSUME MaxMail \in Nat, MailInv, ReadPlace
    PROVE  MailInv'
<1>1. call.at = "profile" /\ start # NoCursor /\ Sound(call.st)
  BY DEF ReadPlace, MailInv, Placed, Idle
<1>2. HistoryId \in 1 .. HistoryId
  BY BoxTyped DEF HistoryId, MailInv
<1>3. call' = [at |-> "search", st |-> call.st, now |-> HistoryId]
  BY DEF ReadPlace
<1>4. Placed(call')
  BY <1>1, <1>2, <1>3 DEF Placed
<1> QED BY <1>4, CallMoves DEF ReadPlace

----------------------------------------------------------------------------
\* The search.

\* The i-th of a finite set of numbers is one of them.
LEMMA InOrderOf ==
    ASSUME NEW S, IsFiniteSet(S), S \subseteq Nat
    PROVE  Cardinality(S) \in Nat /\ \A i \in 1 .. Cardinality(S) : InOrder(S)[i] \in S
<1> DEFINE below(m) == {x \in S : x < m}
           n == Cardinality(S)
           T == 0 .. n - 1
           f == [m \in S |-> Cardinality(below(m))]
<1>1. n \in Nat
  BY FS_CardinalityType
<1>2. ASSUME NEW m \in S PROVE IsFiniteSet(below(m)) /\ Cardinality(below(m)) \in T
  <2>1. below(m) \subseteq S /\ below(m) # S
    <3>1. m \notin below(m)
      BY <1>2
    <3> QED BY <1>2, <3>1
  <2>2. IsFiniteSet(below(m)) /\ Cardinality(below(m)) <= n /\ Cardinality(below(m)) # n
    BY <2>1, FS_Subset
  <2>3. Cardinality(below(m)) \in Nat
    BY <2>2, FS_CardinalityType
  <2> QED BY <1>1, <2>2, <2>3
<1>3. ASSUME NEW m \in S, NEW k \in S, m < k PROVE Cardinality(below(m)) # Cardinality(below(k))
  <2>1. below(m) \subseteq below(k)
    <3>1. \A x \in S : x < m => x < k
      BY <1>3
    <3> QED BY <3>1
  <2>2. m \in below(k) /\ m \notin below(m)
    BY <1>3
  <2>3. IsFiniteSet(below(k))
    BY <1>2
  <2> QED BY <2>1, <2>2, <2>3, FS_Subset
<1>4. f \in Injection(S, T)
  <2>1. f \in [S -> T]
    BY <1>2
  <2>2. ASSUME NEW m \in S, NEW k \in S, f[m] = f[k] PROVE m = k
    BY <1>3, <2>2
  <2> QED BY <2>1, <2>2 DEF Injection, IsInjective
<1>5. IsFiniteSet(T) /\ Cardinality(T) = n
  <2>1. IsFiniteSet(T) /\ Cardinality(T) = IF 0 > n - 1 THEN 0 ELSE (n - 1) - 0 + 1
    BY <1>1, FS_Interval, 0 \in Int, n - 1 \in Int
  <2> QED BY <1>1, <2>1
<1>6. f \in Surjection(S, T)
  BY <1>4, <1>5, FS_Injection
<1>7. ASSUME NEW i \in 1 .. n PROVE InOrder(S)[i] \in S
  <2>1. i - 1 \in T
    BY <1>1
  <2>2. PICK m \in S : Cardinality(below(m)) = i - 1
    BY <1>6, <2>1 DEF Surjection
  <2>3. (CHOOSE x \in S : Cardinality(below(x)) = i - 1) \in S
    BY <2>2
  <2> QED BY <1>1, <2>3 DEF InOrder
<1> QED BY <1>1, <1>7

\* The answer of a search that found S: the notice and the mail.
CameToInbox(S) == S \subseteq 1 .. Arrived
Announced(n, S) == <<Gap(n)>> \o [i \in DOMAIN InOrder(S) |-> Mail(InOrder(S)[i])]

LEMMA SearchAnswer ==
    ASSUME MaxMail \in Nat, BoxInOrder, NEW S, CameToInbox(S), NEW n \in Nat, NEW out,
           out = Announced(n, S)
    PROVE  /\ Outgoing(out) /\ out # <<>> /\ Gap(n) \in ToSet(out)
           /\ \A id \in ToSet(out) : id[1] = "gap" => id[2] = n
<1> DEFINE hits == InOrder(S)
           k == Cardinality(S)
           found == [i \in 1 .. k |-> Mail(hits[i])]
           Ids == {"mail", "cut", "gap"} \X Nat
<1>1. Arrived \in Nat /\ S \subseteq 1 .. Arrived
  BY BoxTyped DEF CameToInbox
<1>0. \A x \in S : x \in 1 .. Arrived /\ x \in Nat
  BY <1>1
<1>2. k \in Nat /\ \A i \in 1 .. k : hits[i] \in S
  <2>1. IsFiniteSet(1 .. Arrived)
    BY <1>1, FS_Interval, 1 \in Int, Arrived \in Int
  <2>2. IsFiniteSet(S)
    BY <1>1, <2>1, FS_Subset
  <2>3. S \subseteq Nat
    BY <1>1
  <2> QED BY <2>2, <2>3, InOrderOf
<1>3. DOMAIN hits = 1 .. k
  BY DEF InOrder
<1> HIDE DEF hits, k
<1>4. ASSUME NEW i \in 1 .. k PROVE Mail(hits[i]) \in Ids /\ Mail(hits[i])[1] = "mail" /\ Mail(hits[i])[2] \in 1 .. Arrived
  <2>0. hits[i] \in S
    BY <1>2, <1>4, Zenon
  <2>1. hits[i] \in 1 .. Arrived /\ hits[i] \in Nat
    BY <1>0, <2>0, Zenon
  <2> QED BY <2>1 DEF Mail
<1>5. found \in Seq(Ids) /\ Len(found) = k /\ \A i \in 1 .. k : found[i] = Mail(hits[i])
  BY <1>2, <1>4
<1>6. Gap(n) \in Ids /\ Gap(n)[1] = "gap" /\ Gap(n)[2] = n
  BY DEF Gap
<1>7. out = <<Gap(n)>> \o found
  BY <1>3 DEF hits, Announced
<1> HIDE DEF found, Ids
<1>8. out \in Seq(Ids) /\ Len(out) = k + 1 /\ out[1] = Gap(n) /\ \A i \in 2 .. k + 1 : out[i] = found[i - 1]
  <2>1. ASSUME NEW T, NEW g \in T, NEW s \in Seq(T), NEW o, o = <<g>> \o s
        PROVE  o \in Seq(T) /\ Len(o) = Len(s) + 1 /\ o[1] = g /\ \A i \in 2 .. Len(s) + 1 : o[i] = s[i - 1]
    <3>1. <<g>> \in Seq(T) /\ Len(<<g>>) = 1 /\ <<g>>[1] = g /\ Len(s) \in Nat
      OBVIOUS
    <3>2. o \in Seq(T) /\ Len(o) = 1 + Len(s)
          /\ \A i \in 1 .. 1 + Len(s) : o[i] = IF i <= 1 THEN <<g>>[i] ELSE s[i - 1]
      BY <2>1, <3>1
    <3> QED BY <3>1, <3>2
  <2>2. found \in Seq(Ids) /\ Len(found) = k /\ Gap(n) \in Ids
    BY <1>5, <1>6
  <2> QED BY <1>7, <2>1, <2>2
<1>9. DOMAIN out = 1 .. k + 1 /\ out # <<>>
  BY <1>2, <1>8
<1>10. ASSUME NEW id \in ToSet(out) PROVE id = Gap(n) \/ \E i \in 1 .. k : id = Mail(hits[i])
  <2>1. PICK j \in 1 .. k + 1 : id = out[j]
    BY <1>9, <1>10 DEF ToSet
  <2>2. CASE j = 1
    BY <1>8, <2>1, <2>2
  <2>3. CASE j # 1
    <3>1. j - 1 \in 1 .. k /\ j \in 2 .. k + 1
      BY <1>2, <2>3
    <3> QED BY <1>5, <1>8, <2>1, <3>1
  <2> QED BY <2>2, <2>3
<1>11. Gap(n) \in ToSet(out)
  BY <1>2, <1>8, <1>9 DEF ToSet
<1>12. Known(ToSet(out)) /\ \A id \in ToSet(out) : id[1] = "gap" => id[2] = n
  BY <1>4, <1>6, <1>10 DEF Known
<1> QED BY <1>8, <1>9, <1>11, <1>12 DEF Outgoing, Ids

\* rebaseline: what the search leaves out is told with the notice, unless the host has
\* that notice already.
LEMMA RebaselineKeeps ==
    ASSUME MaxMail \in Nat, MailInv, Rebaseline
    PROVE  MailInv'
<1>1. call.at = "search" /\ start # NoCursor /\ Sound(call.st) /\ call.now \in 1 .. HistoryId
  BY DEF Rebaseline, MailInv, Placed, Idle
<1>2. PICK st, n : st = call.st /\ n = call.now
  OBVIOUS
<1>3. PICK S : S = Newest(Found(st.last), Room)
  OBVIOUS
<1> DEFINE notice == Gap(st.cursor)
<1>4. PICK out : out = Announced(st.cursor, S)
  OBVIOUS
<1> DEFINE rs == {r \in DOMAIN box : r >= st.cursor /\ r < n}
           left == {m \in MailOf(rs) : Mail(m) \notin ToSet(out)}
<1>5. PICK last : call' = Save([st EXCEPT !.last = last, !.pend = [ids |-> ToSet(out), next |-> n]], out)
                  /\ unsaid' = IF notice \in recorded THEN unsaid \cup (left \ (gone \cup told)) ELSE unsaid
  BY <1>2, <1>3, <1>4 DEF Rebaseline, Announced
<1>6. UNCHANGED <<box, gone, told, recorded, start, mailKV>>
  BY DEF Rebaseline, mailbox, held
<1>7. st.cursor \in Nat /\ n \in 1 .. HistoryId /\ Sound(st) /\ Shaped(st) /\ Earned(st.cursor)
  BY <1>1, <1>2, BoxTyped DEF Sound, Earned, MailInv, HistoryId
<1>8. Outgoing(out) /\ out # <<>> /\ notice \in ToSet(out) /\ \A id \in ToSet(out) : id[1] = "gap" => id[2] = st.cursor
  <2>1. CameToInbox(S)
    BY <1>3, BoxTyped DEF Newest, Found, MailInv, CameToInbox
  <2>2. BoxInOrder
    BY DEF MailInv
  <2>3. MaxMail \in Nat /\ st.cursor \in Nat /\ out = Announced(st.cursor, S)
    BY <1>4, <1>7, Zenon
  <2> QED BY <2>1, <2>2, <2>3, SearchAnswer
<1>9. rs \subseteq DOMAIN box /\ left \subseteq 1 .. Arrived
  <2>1. MailOf(rs) \subseteq MailOf(DOMAIN box)
    BY DEF MailOf
  <2> QED BY <2>1 DEF MailInv, BoxInOrder
<1> HIDE DEF notice
<1>10. Arrived' = Arrived /\ AllMail' = AllMail
  BY <1>6 DEF Arrived, AllMail
<1>11. BoxInOrder'
  BY <1>5, <1>6, <1>9, <1>10 DEF MailInv, BoxInOrder, MailOf
<1>12. Grows
  BY <1>5, <1>6, <1>10, BoxTyped DEF MailInv, Grows, BeforeStart, MailOf
<1>13. CutsAreTold' /\ KeptInKV' /\ Outgoing(out)'
  <2>1. CutsAreTold' /\ Outgoing(out)'
    BY <1>8, <1>11, <1>12, StillKnown DEF MailInv
  <2> QED BY <1>6, <1>11, <1>12, <2>1, StillInOrder DEF MailInv
<1>14. Earned(st.cursor)'
  BY <1>7, <1>12, Kept DEF MailInv
<1>15. ASSUME NEW m \in Below(n) PROVE Stands(m, ToSet(out))'
  <2>1. CASE notice \notin recorded
    <3>1. notice[1] = "gap"
      BY DEF notice, Gap
    <3>2. notice \notin recorded'
      BY <1>6, <2>1
    <3> QED BY <1>8, <3>1, <3>2 DEF Stands
  <2>2. CASE notice \in recorded
    <3>1. PICK r \in DOMAIN box : r < n /\ m \in ToSet(box[r])
      BY <1>15 DEF Below, MailOf
    <3>2. CASE r < st.cursor
      <4>1. m \in Below(st.cursor)'
        <5>1. r \in DOMAIN box' /\ box'[r] = box[r]
          BY <1>6
        <5> QED BY <3>1, <3>2, <5>1 DEF Below, MailOf
      <4> QED BY <1>14, <4>1 DEF Earned, Stands
    <3>3. CASE ~(r < st.cursor)
      <4>1. r \in rs
        <5>1. r \in Nat
          BY BoxTyped DEF MailInv
        <5> QED BY <1>7, <3>1, <3>3, <5>1
      <4>2. m \in MailOf(rs)
        BY <3>1, <4>1 DEF MailOf
      <4>3. Mail(m) \in ToSet(out) \/ m \in gone \cup told \cup unsaid'
        BY <1>5, <2>2, <4>2
      <4>4. gone' = gone /\ told' = told
        BY <1>6
      <4>5. m \in gone' \cup told' \cup unsaid' => m \in Accounted'
        BY DEF Accounted, MailExcused
      <4> QED BY <4>3, <4>4, <4>5 DEF Stands
    <3> QED BY <3>2, <3>3
  <2> QED BY <2>1, <2>2
<1>16. Leads(ToSet(out), n)'
  <2>1. n \in 1 .. HistoryId' /\ Below(n)' = Below(n)
    BY <1>7, <1>6 DEF HistoryId, Below, MailOf
  <2> QED BY <1>15, <2>1 DEF Leads
<1>17. PICK s : s = [st EXCEPT !.last = last, !.pend = [ids |-> ToSet(out), next |-> n]]
  OBVIOUS
<1>18. s.cursor = st.cursor /\ s.pend = [ids |-> ToSet(out), next |-> n] /\ s = [cursor |-> s.cursor, pend |-> s.pend, last |-> s.last]
  <2>1. ASSUME NEW t, t = [cursor |-> t.cursor, pend |-> t.pend, last |-> t.last], NEW l, NEW p,
               s = [t EXCEPT !.last = l, !.pend = p]
        PROVE  s.cursor = t.cursor /\ s.pend = p /\ s = [cursor |-> s.cursor, pend |-> s.pend, last |-> s.last]
    <3>1. s = [cursor |-> t.cursor, pend |-> p, last |-> l]
      BY <2>1
    <3> QED BY <3>1
  <2> QED BY <1>7, <1>17, <2>1 DEF Shaped
<1>19. s.pend.ids = ToSet(out) /\ s.pend.next = n
  BY <1>18
<1>20. Shaped(s)' /\ Sound(s)'
  <2>1. Shaped(s)'
    BY <1>18 DEF Shaped
  <2>2. Earned(s.cursor)'
    BY <1>14, <1>18
  <2>3. Leads(s.pend.ids, s.pend.next)'
    BY <1>16, <1>19
  <2> QED BY <2>1, <2>2, <2>3 DEF Sound
<1>21. PICK d : d = call'
  OBVIOUS
<1>22. d = [at |-> "save", st |-> s, left |-> AllKeys, out |-> out]
  BY <1>5, <1>17, <1>21 DEF Save, AllKeys
<1>23. d.at = "save" /\ d.st = s /\ d.left = AllKeys /\ d.out = out /\ d = [at |-> d.at, st |-> d.st, left |-> d.left, out |-> d.out]
  BY <1>22
<1>24. Saving(d)'
  <2>1. start' # NoCursor
    BY <1>1, <1>6
  <2>2. Shaped(d.st)' /\ Sound(d.st)' /\ Outgoing(d.out)'
    BY <1>13, <1>20, <1>23
  <2>3. \A id \in ToSet(d.out) : id[1] = "gap" => id[2] = d.st.cursor
    BY <1>8, <1>18, <1>23
  <2>4. d.st.pend.ids = ToSet(d.out)
    BY <1>19, <1>23
  <2> QED BY <1>23, <2>1, <2>2, <2>3, <2>4 DEF Saving, AllKeys
<1>25. Placed(d)'
  BY <1>23, <1>24 DEF Placed
<1>26. Placed(call)'
  BY <1>21, <1>25
<1> QED BY <1>11, <1>13, <1>26 DEF MailInv

----------------------------------------------------------------------------
\* save: key after key; the first put of a first cursor is the start.
LEMMA PutKeeps ==
    ASSUME MaxMail \in Nat, MailInv, Put
    PROVE  MailInv'
<1>1. call.at = "save" /\ Saving(call) /\ call.left # <<>>
  BY DEF Put, MailInv, Placed, Idle
<1>2. PICK st, out, left : st = call.st /\ out = call.out /\ left = call.left
  OBVIOUS
<1>3. UNCHANGED <<box, gone, told, unsaid, recorded>>
  BY DEF Put, mailbox, held
<1>4. /\ mailKV' = [mailKV EXCEPT ![Head(left)] = st[Head(left)]]
      /\ call' = [call EXCEPT !.left = Tail(left)]
      /\ start' = IF start = NoCursor THEN mailKV'.cursor ELSE start
  <2>1. call = [at |-> call.at, st |-> call.st, left |-> call.left, out |-> call.out]
    BY <1>1 DEF Saving
  <2> QED BY <1>2, <2>1 DEF Put
<1>5. PICK kv : kv = mailKV
  OBVIOUS
<1>6. kv = [cursor |-> kv.cursor, pend |-> kv.pend, last |-> kv.last] /\ st = [cursor |-> st.cursor, pend |-> st.pend, last |-> st.last]
  BY <1>1, <1>2, <1>5 DEF MailInv, KeptInKV, Saving, Shaped
<1>7. BoxInOrder'
  BY <1>3 DEF MailInv, BoxInOrder, Arrived, AllMail, MailOf
<1>8. Len(box) \in Nat /\ DOMAIN box = 1 .. Len(box)
  BY BoxTyped DEF MailInv
<1>9. Grows
  <2>1. BeforeStart \subseteq BeforeStart'
    <3>1. CASE start = NoCursor
      <4>1. BeforeStart = {}
        BY <1>8, <3>1, NoneBelow DEF BeforeStart, Below
      <4> QED BY <4>1
    <3>2. CASE start # NoCursor
      BY <1>3, <1>4, <3>2 DEF BeforeStart, MailOf
    <3> QED BY <3>1, <3>2
  <2> QED BY <1>3, <1>8, <2>1 DEF Grows, AllMail
<1>10. CutsAreTold' /\ Outgoing(out)'
  BY <1>1, <1>2, <1>7, <1>9, StillKnown DEF MailInv, Saving
<1>11. PICK d : d = call'
  OBVIOUS
<1>12. d.at = "save" /\ d.st = st /\ d.left = Tail(left) /\ d.out = out /\ d = [at |-> d.at, st |-> d.st, left |-> d.left, out |-> d.out]
  <2>1. call = [at |-> "save", st |-> st, left |-> left, out |-> out]
    BY <1>1, <1>2 DEF Saving
  <2>2. d = [at |-> "save", st |-> st, left |-> Tail(left), out |-> out]
    BY <1>4, <1>11, <2>1
  <2> QED BY <2>2
<1>13. PICK kw : kw = mailKV'
  OBVIOUS
<1>14. /\ left \in {AllKeys, <<"pend", "last">>, <<"last">>}
       /\ left # AllKeys => start # NoCursor /\ kv.cursor = st.cursor
       /\ left = <<"last">> => kv.pend = st.pend
  BY <1>1, <1>2, <1>5 DEF Saving
<1>15. /\ kw = [cursor |-> kw.cursor, pend |-> kw.pend, last |-> kw.last]
       /\ kw.cursor = st.cursor
       /\ kw.pend = IF left = <<"pend", "last">> THEN st.pend ELSE kv.pend
       /\ d.left \in {<<"pend", "last">>, <<"last">>, <<>>}
       /\ d.left # <<"pend", "last">> => kw.pend = st.pend
  <2>1. kw = [kv EXCEPT ![Head(left)] = st[Head(left)]]
    BY <1>4, <1>5, <1>13
  <2>2. CASE left = AllKeys
    <3>1. Head(left) = "cursor" /\ Tail(left) = <<"pend", "last">>
      BY <2>2 DEF AllKeys
    <3>2. kw = [cursor |-> st.cursor, pend |-> kv.pend, last |-> kv.last]
      BY <1>6, <2>1, <3>1
    <3>3. left # <<"pend", "last">>
      BY <2>2 DEF AllKeys
    <3> QED BY <1>12, <3>1, <3>2, <3>3
  <2>3. CASE left = <<"pend", "last">>
    <3>1. Head(left) = "pend" /\ Tail(left) = <<"last">> /\ left # AllKeys
      BY <2>3 DEF AllKeys
    <3>2. kw = [cursor |-> st.cursor, pend |-> st.pend, last |-> kv.last]
      BY <1>6, <1>14, <2>1, <3>1
    <3> QED BY <1>12, <2>3, <3>1, <3>2
  <2>4. CASE left = <<"last">>
    <3>1. Head(left) = "last" /\ Tail(left) = <<>> /\ left # AllKeys /\ left # <<"pend", "last">>
      BY <2>4 DEF AllKeys
    <3>2. kw = [cursor |-> st.cursor, pend |-> st.pend, last |-> st.last]
      BY <1>6, <1>14, <2>1, <2>4, <3>1
    <3> QED BY <1>12, <1>14, <2>4, <3>1, <3>2
  <2> QED BY <1>14, <2>2, <2>3, <2>4
<1>16. CASE start = NoCursor
  <2>1. left = AllKeys /\ out = <<>> /\ st.cursor \in 1 .. HistoryId /\ st.pend = NoBatch /\ kv.pend = NoBatch
    BY <1>1, <1>2, <1>5, <1>16 DEF Saving, MailInv, KeptInKV
  <2>2. start' = st.cursor /\ start' # NoCursor /\ start' \in 1 .. HistoryId'
    <3>1. start' = st.cursor
      BY <1>4, <1>13, <1>15, <1>16
    <3>2. HistoryId' = HistoryId
      BY <1>3 DEF HistoryId
    <3> QED BY <1>8, <2>1, <3>1, <3>2 DEF NoCursor, HistoryId
  <2>3. Earned(st.cursor)'
    BY <2>2 DEF Earned, Below, BeforeStart, Accounted, MailExcused
  <2>4. left # <<"pend", "last">>
    BY <2>1 DEF AllKeys
  <2>5. kw.pend = NoBatch
    BY <1>15, <2>1, <2>4
  <2>6. Sound(st)' /\ Sound(kw)'
    BY <1>6, <1>15, <2>1, <2>3, <2>5 DEF Sound, Shaped, NoBatch
  <2>7. KeptInKV'
    BY <1>13, <1>15, <2>2, <2>6 DEF KeptInKV, Shaped
  <2>8. Saving(d)'
    <3>1. ToSet(out) = {}
      BY <2>1 DEF ToSet
    <3> QED BY <1>6, <1>10, <1>12, <1>13, <1>15, <2>1, <2>2, <2>6, <3>1 DEF Saving, Shaped
  <2>9. Placed(d)'
    BY <1>12, <2>8 DEF Placed
  <2>10. Placed(call)'
    BY <1>11, <2>9
  <2> QED BY <1>7, <1>10, <2>7, <2>10 DEF MailInv
<1>17. CASE start # NoCursor
  <2>1. start' = start /\ start \in 1 .. HistoryId /\ Sound(kv) /\ Sound(st)
    BY <1>1, <1>2, <1>4, <1>5, <1>17 DEF Saving, MailInv, KeptInKV
  <2>2. Sound(kv)' /\ Sound(st)' /\ start' \in 1 .. HistoryId'
    BY <1>9, <2>1, Kept DEF MailInv
  <2>3. Sound(kw)'
    BY <1>15, <2>2 DEF Sound, Shaped
  <2>4. KeptInKV'
    BY <1>13, <1>15, <1>17, <2>1, <2>2, <2>3 DEF KeptInKV, Shaped
  <2>5. (\A id \in ToSet(out) : id[1] = "gap" => id[2] = st.cursor) /\ (out # <<>> => st.pend.ids = ToSet(out))
    BY <1>1, <1>2 DEF Saving
  <2>6. Saving(d)'
    <3>1. Shaped(d.st)' /\ Outgoing(d.out)' /\ Sound(d.st)' /\ start' # NoCursor
      BY <1>6, <1>10, <1>12, <1>17, <2>1, <2>2 DEF Shaped
    <3>2. /\ d.left \in {AllKeys, <<"pend", "last">>, <<"last">>, <<>>} /\ mailKV'.cursor = d.st.cursor
          /\ d.left \in {<<"last">>, <<>>} => mailKV'.pend = d.st.pend
      <4>1. <<"last">> # <<"pend", "last">> /\ <<>> # <<"pend", "last">>
        OBVIOUS
      <4>2. d.left \in {<<"pend", "last">>, <<"last">>, <<>>}
        BY <1>15
      <4>3. mailKV'.cursor = d.st.cursor
        BY <1>12, <1>13, <1>15
      <4>4. d.left \in {<<"last">>, <<>>} => mailKV'.pend = d.st.pend
        BY <1>12, <1>13, <1>15, <4>1
      <4> QED BY <4>2, <4>3, <4>4
    <3>3. (\A id \in ToSet(d.out) : id[1] = "gap" => id[2] = d.st.cursor) /\ (d.out # <<>> => d.st.pend.ids = ToSet(d.out))
      BY <1>12, <2>5
    <3> QED BY <1>12, <3>1, <3>2, <3>3 DEF Saving
  <2>7. Placed(d)'
    BY <1>12, <2>6 DEF Placed
  <2>8. Placed(call)'
    BY <1>11, <2>7
  <2> QED BY <1>7, <1>10, <2>4, <2>8 DEF MailInv
<1> QED BY <1>16, <1>17

\* The host takes an answer, all of it or some: what it records for the first time, it is told.
LEMMA AnswerKeeps ==
    ASSUME Room \in Nat, MaxMail \in Nat, MailInv, Answer
    PROVE  MailInv'
<1>1. call.at = "save" /\ Saving(call) /\ call.left = <<>>
  BY DEF Answer, MailInv, Placed, Idle
<1>2. PICK st, out : st = call.st /\ out = call.out
  OBVIOUS
<1>3. PICK ids \in SUBSET ToSet(out) :
          /\ recorded' = recorded \cup ids
          /\ told' = told \cup UNION {ToldBy(id) : id \in recorded' \ recorded}
  BY <1>2 DEF Answer
<1>4. UNCHANGED <<box, gone, unsaid, start, mailKV>> /\ call' = Idle
  BY DEF Answer, mailbox
<1>5. /\ start # NoCursor /\ start \in 1 .. HistoryId /\ Sound(mailKV) /\ Outgoing(out)
      /\ mailKV.cursor = st.cursor /\ mailKV.pend = st.pend
      /\ \A id \in ToSet(out) : id[1] = "gap" => id[2] = st.cursor
  <2>1. call.left # AllKeys
    BY <1>1 DEF AllKeys
  <2> QED BY <1>1, <1>2, <2>1 DEF Saving, MailInv, KeptInKV
<1>6. ASSUME NEW id \in recorded', id \notin recorded
      PROVE  /\ id \in ToSet(out) /\ ToldBy(id) \subseteq told'
             /\ id[1] = "cut" => id[2] \in DOMAIN box /\ ToldBy(id) = Rest(id[2])
             /\ id[1] = "gap" => ToldBy(id) = MailOf({r \in DOMAIN box : r >= st.cursor /\ r < mailKV.pend.next})
             /\ id[1] # "cut" /\ id[1] # "gap" => ToldBy(id) = {}
  <2>1. id \in ToSet(out)
    BY <1>3, <1>6
  <2>2. ToldBy(id) \subseteq told'
    BY <1>3, <1>6
  <2>3. id[1] = "cut" => id[2] \in DOMAIN box
    BY <1>5, <2>1 DEF Outgoing, Known
  <2>4. id[1] = "cut" => ToldBy(id) = Rest(id[2])
    BY DEF ToldBy, Rest
  <2>5. id[1] = "gap" => ToldBy(id) = MailOf({r \in DOMAIN box : r >= id[2] /\ r < call.st.pend.next})
    BY DEF ToldBy
  <2>6. id[1] = "gap" => id[2] = st.cursor /\ call.st.pend.next = mailKV.pend.next
    BY <1>2, <1>5, <2>1
  <2>7. id[1] # "cut" /\ id[1] # "gap" => ToldBy(id) = {}
    BY DEF ToldBy
  <2> QED BY <2>1, <2>2, <2>3, <2>4, <2>5, <2>6, <2>7
<1>7. Arrived' = Arrived /\ AllMail' = AllMail
  BY <1>4 DEF Arrived, AllMail
<1>8. ASSUME NEW r \in DOMAIN box PROVE Rest(r) \subseteq 1 .. Arrived /\ Rest(r)' = Rest(r)
  <2>1. ASSUME NEW s \in Seq(1 .. Arrived) PROVE ToSet(SubSeq(s, Room + 1, Len(s))) \subseteq 1 .. Arrived
    <3>1. SubSeq(s, Room + 1, Len(s)) \in Seq(1 .. Arrived)
      <4>1. \A i \in Room + 1 .. Len(s) : s[i] \in 1 .. Arrived
        <5>1. ASSUME NEW S, NEW t \in Seq(S), NEW n \in Nat PROVE \A i \in n + 1 .. Len(t) : t[i] \in S
          OBVIOUS
        <5> QED BY <5>1
      <4>2. Room + 1 \in Int /\ Len(s) \in Int
        OBVIOUS
      <4> QED BY <4>1, <4>2, SubSeqProperties
    <3>2. ASSUME NEW S, NEW t \in Seq(S) PROVE ToSet(t) \subseteq S
      BY DEF ToSet
    <3> QED BY <3>1, <3>2
  <2>2. box[r] \in Seq(1 .. Arrived)
    BY <1>8, BoxTyped DEF MailInv
  <2> QED BY <1>4, <2>1, <2>2 DEF Rest
<1>9. told' \subseteq 1 .. Arrived
  <2>1. ASSUME NEW id \in recorded', id \notin recorded PROVE ToldBy(id) \subseteq 1 .. Arrived
    <3>1. \A rs \in SUBSET DOMAIN box : MailOf(rs) \subseteq MailOf(DOMAIN box)
      BY DEF MailOf
    <3>2. MailOf(DOMAIN box) = 1 .. Arrived
      BY DEF MailInv, BoxInOrder
    <3>3. CASE id[1] = "gap"
      BY <1>6, <2>1, <3>1, <3>2, <3>3
    <3>4. CASE id[1] = "cut"
      BY <1>6, <1>8, <2>1, <3>4
    <3>5. CASE id[1] # "cut" /\ id[1] # "gap"
      BY <1>6, <2>1, <3>5
    <3> QED BY <3>3, <3>4, <3>5
  <2> QED BY <1>3, <2>1 DEF MailInv, BoxInOrder
<1>10. BoxInOrder'
  BY <1>4, <1>7, <1>9 DEF MailInv, BoxInOrder, MailOf
<1>11. CutsAreTold'
  <2>1. Known(recorded')
    BY <1>3, <1>5 DEF MailInv, CutsAreTold, Outgoing, Known
  <2>2. Known(recorded)'
    BY <1>4, <1>7, <2>1 DEF Known
  <2>3. ASSUME NEW id \in recorded', id[1] = "cut" PROVE Rest(id[2])' \subseteq told'
    <3>1. id[2] \in DOMAIN box
      BY <2>1, <2>3 DEF Known
    <3>2. CASE id \in recorded
      <4>1. Rest(id[2]) \subseteq told
        BY <2>3, <3>2 DEF MailInv, CutsAreTold
      <4> QED BY <1>3, <1>8, <3>1, <4>1
    <3>3. CASE id \notin recorded
      BY <1>6, <1>8, <2>3, <3>1, <3>3
    <3> QED BY <3>2, <3>3
  <2> QED BY <2>2, <2>3 DEF CutsAreTold
<1>12. Accounted \subseteq Accounted' /\ told' \subseteq Accounted'
  BY <1>3, <1>4, <1>7 DEF Accounted, MailKept, MailExcused, BeforeStart, MailOf
<1>13. HistoryId' = HistoryId /\ \A n : Below(n)' = Below(n)
  BY <1>4 DEF HistoryId, Below, MailOf
<1>14. Earned(st.cursor) /\ Earned(st.cursor)'
  <2>1. Earned(st.cursor)
    BY <1>5 DEF Sound
  <2> QED BY <1>12, <1>13, <2>1 DEF Earned
<1>15. PICK kv : kv = mailKV
  OBVIOUS
<1>16. ASSUME kv.pend.next # NoCursor PROVE Leads(kv.pend.ids, kv.pend.next)'
  <2>1. Leads(kv.pend.ids, kv.pend.next)
    BY <1>5, <1>15, <1>16 DEF Sound
  <2>2. ASSUME NEW m \in Below(kv.pend.next) PROVE Stands(m, kv.pend.ids)'
    <3>1. Stands(m, kv.pend.ids)
      BY <2>1, <2>2 DEF Leads
    <3>2. CASE m \in Accounted
      BY <1>12, <3>2 DEF Stands
    <3>3. CASE Mail(m) \in kv.pend.ids
      BY <3>3 DEF Stands
    <3>4. CASE \E id \in kv.pend.ids : id[1] = "cut" /\ id[2] \in DOMAIN box /\ m \in Rest(id[2])
      BY <1>4, <1>8, <3>4 DEF Stands
    <3>5. CASE \E id \in kv.pend.ids : id[1] = "gap" /\ id \notin recorded
      <4>1. PICK id \in kv.pend.ids : id[1] = "gap" /\ id \notin recorded
        BY <3>5
      <4>2. CASE id \notin recorded'
        BY <4>1, <4>2 DEF Stands
      <4>3. CASE id \in recorded'
        <5>1. PICK r \in DOMAIN box : r < kv.pend.next /\ m \in ToSet(box[r])
          BY <2>2 DEF Below, MailOf
        <5>2. CASE r < st.cursor
          <6>1. m \in Below(st.cursor)
            BY <5>1, <5>2 DEF Below, MailOf
          <6> QED BY <1>12, <1>14, <6>1 DEF Earned, Stands
        <5>3. CASE ~(r < st.cursor)
          <6>1. r \in Nat /\ st.cursor \in Nat
            BY <1>14, BoxTyped DEF MailInv, Earned, HistoryId
          <6>2. m \in MailOf({q \in DOMAIN box : q >= st.cursor /\ q < mailKV.pend.next})
            BY <1>15, <5>1, <5>3, <6>1 DEF MailOf
          <6>3. m \in told'
            BY <1>6, <4>1, <4>3, <6>2
          <6> QED BY <1>12, <6>3 DEF Stands
        <5> QED BY <5>2, <5>3
      <4> QED BY <4>2, <4>3
    <3> QED BY <3>1, <3>2, <3>3, <3>4, <3>5 DEF Stands
  <2> QED BY <1>13, <2>1, <2>2 DEF Leads
<1>17. KeptInKV'
  <2>1. Shaped(kv)' /\ Earned(kv.cursor)'
    BY <1>5, <1>14, <1>15 DEF Sound, Shaped
  <2>2. Sound(kv)'
    BY <1>16, <2>1 DEF Sound
  <2>3. mailKV' = kv /\ start' # NoCursor /\ start' \in 1 .. HistoryId'
    BY <1>4, <1>5, <1>13, <1>15
  <2> QED BY <2>1, <2>2, <2>3 DEF KeptInKV
<1>18. Placed(call')
  BY <1>4 DEF Placed
<1>19. Placed(call)'
  BY <1>4 DEF Placed
<1> QED BY <1>10, <1>11, <1>17, <1>19 DEF MailInv

LEMMA MailStarts ==
    ASSUME MaxMail \in Nat, MailInit
    PROVE  MailInv /\ Arrived = 0 /\ AllMail = {}
<1>1. AllMail = {} /\ DOMAIN box = {}
  BY DEF MailInit, AllMail
<1>2. Arrived = 0
  BY <1>1, FS_EmptySet DEF Arrived
<1>3. BoxInOrder
  <2>1. box \in Seq(Seq(Nat)) /\ MailOf(DOMAIN box) = {} /\ 1 .. 0 = {}
    BY <1>1 DEF MailInit, MailOf
  <2> QED BY <1>2, <2>1 DEF MailInit, BoxInOrder
<1>4. CutsAreTold /\ KeptInKV /\ Placed(call)
  BY DEF MailInit, CutsAreTold, Known, KeptInKV, Shaped, Placed, NoBatch
<1> QED BY <1>1, <1>2, <1>3, <1>4 DEF MailInv

LEMMA MailStepKeeps ==
    ASSUME Room \in Nat, Page \in Nat \ {0}, MaxMail \in Nat, MailInv, [MailNext]_mailVars
    PROVE  MailInv'
<1>1. CASE UNCHANGED mailVars
  <2>1. UNCHANGED <<mailbox, mailKV, held, unsaid, start>> /\ call' = call
    BY <1>1 DEF mailVars
  <2>2. Placed(call')
    BY <2>1 DEF MailInv
  <2> QED BY <2>1, <2>2, CallMoves
<1>2. CASE MailNext
  BY <1>2, StartKeeps, FirstCursorKeeps, ReadHistoryKeeps, TakeRecordKeeps, FetchKeeps, RecordDoneKeeps,
     WalkEndsKeeps, ReadFailsKeeps, KilledKeeps, ReadPlaceKeeps, RebaselineKeeps, PutKeeps, AnswerKeeps,
     ReceivesKeeps, DeletesForgetsKeep
  DEF MailNext, MailStep
<1> QED BY <1>1, <1>2

\* The invariant, for any room, page and amount of mail: KV's cursor is past no message
\* that is not accounted for, whatever is lost, refused or killed.
THEOREM CursorsAreEarned ==
    ASSUME Room \in Nat, Page \in Nat \ {0}, MaxMail \in Nat
    PROVE  MailSpec => []MailInv
<1>1. MailInit => MailInv
  BY MailStarts
<1>2. MailInv /\ [MailNext]_mailVars => MailInv'
  BY MailStepKeeps
<1> QED BY <1>1, <1>2, PTL DEF MailSpec

\* What one step does to what HandOver speaks of.
LEMMA NothingTakenBack ==
    ASSUME MaxMail \in Nat, MailInv, MailInv', [MailNext]_mailVars
    PROVE  /\ AllMail \subseteq AllMail' /\ MailExcused \subseteq MailExcused'
           /\ recorded \subseteq recorded' /\ \A m \in AllMail' : Mail(m) \in recorded' => m \in AllMail
<1>0. AllMail = 1 .. Arrived /\ DOMAIN box = 1 .. Len(box) /\ Len(box) \in Nat
  BY BoxTyped DEF MailInv
<1>1. CASE Receives
  <2>1. PICK new : box' = Append(box, new)
    BY <1>1 DEF Receives
  <2>2. UNCHANGED <<gone, told, unsaid, recorded, start>>
    BY <1>1 DEF Receives, held
  <2>3. \A r \in DOMAIN box : r \in DOMAIN box' /\ box'[r] = box[r]
    BY <1>0, <2>1
  <2>4. AllMail \subseteq AllMail' /\ BeforeStart \subseteq BeforeStart'
    BY <2>2, <2>3 DEF AllMail, BeforeStart, MailOf
  <2>5. ASSUME NEW m, Mail(m) \in recorded PROVE m \in AllMail
    <3>1. Mail(m)[1] = "mail" /\ Mail(m)[2] = m
      BY DEF Mail
    <3> QED BY <1>0, <2>5, <3>1 DEF MailInv, CutsAreTold, Known
  <2> QED BY <2>2, <2>4, <2>5 DEF MailExcused
<1>2. CASE ~Receives
  <2>1. box' = box
    BY <1>2 DEF MailNext, MailStep, Start, Watch, FirstCursor, ReadHistory, TakeRecord, Fetch, RecordDone, WalkEnds,
       ReadFails, Killed, ReadPlace, Rebaseline, Put, Answer, Deletes, Forgets, mailbox, mailVars
  <2>2. gone \subseteq gone' /\ told \subseteq told' /\ unsaid \subseteq unsaid' /\ recorded \subseteq recorded'
    BY <1>2 DEF MailNext, MailStep, Start, Watch, FirstCursor, ReadHistory, TakeRecord, Fetch, RecordDone, WalkEnds,
       ReadFails, Killed, ReadPlace, Rebaseline, Put, Answer, Deletes, Forgets, mailbox, held, mailVars
  <2>3. start' = start \/ start = NoCursor
    BY <1>2 DEF MailNext, MailStep, Start, Watch, FirstCursor, ReadHistory, TakeRecord, Fetch, RecordDone, WalkEnds,
       ReadFails, Killed, ReadPlace, Rebaseline, Put, Answer, Deletes, Forgets, mailVars
  <2>4. AllMail' = AllMail
    BY <2>1 DEF AllMail
  <2>5. BeforeStart \subseteq BeforeStart'
    <3>1. CASE start = NoCursor
      <4>1. BeforeStart = {}
        BY <1>0, <3>1, NoneBelow DEF BeforeStart, Below
      <4> QED BY <4>1
    <3>2. CASE start' = start
      BY <2>1, <3>2 DEF BeforeStart, MailOf
    <3> QED BY <2>3, <3>1, <3>2
  <2> QED BY <2>2, <2>4, <2>5 DEF MailExcused
<1> QED BY <1>1, <1>2

\* gmail.sync, gmail.notify and gmail.renew implement HandOver: whatever is lost, refused
\* or killed, the cursor in KV is past no message that the host does not hold, unless the
\* message is gone, from before the first cursor, or was left out with a notice.
THEOREM MailImplementsHandOver ==
    ASSUME Room \in Nat, Page \in Nat \ {0}, MaxMail \in Nat
    PROVE  MailSpec => MailHandOver!Spec
<1>1. MailInit => MailHandOver!Init
  <2>1. MailInit => AllMail = {} /\ Arrived = 0
    BY MailStarts
  <2>2. MailInit => MailOf({r \in DOMAIN box : r < start}) = {} /\ MailOf({r \in DOMAIN box : r < mailKV.cursor}) = {}
    BY DEF MailInit, MailOf
  <2> QED BY <2>1, <2>2 DEF MailInit, MailHandOver!Init, MailKept, MailExcused, MailPassed, BeforeStart
<1>2. ASSUME MailInv, MailInv', [MailNext]_mailVars
      PROVE  [MailHandOver!Next]_MailHandOver!handVars
  <2>1. /\ AllMail \subseteq AllMail' /\ MailExcused \subseteq MailExcused'
        /\ recorded \subseteq recorded' /\ \A m \in AllMail' : Mail(m) \in recorded' => m \in AllMail
    BY <1>2, NothingTakenBack
  <2>2. Arrived \in Nat /\ AllMail = 1 .. Arrived
    BY <1>2, BoxTyped DEF MailInv
  <2>3. Arrived' \in Nat /\ MailOf(DOMAIN box)' = 1 .. Arrived' /\ AllMail' \subseteq 1 .. Arrived'
    <3>1. Arrived' \in 0 .. MaxMail /\ MailOf(DOMAIN box)' = 1 .. Arrived'
      BY <1>2 DEF MailInv, BoxInOrder
    <3>2. AllMail' \subseteq MailOf(DOMAIN box)'
      BY DEF AllMail, MailOf
    <3> QED BY <3>1, <3>2
  <2>4. MailHandOver!Arrives
    <3>1. 1 .. Arrived \subseteq 1 .. Arrived'
      BY <2>1, <2>2, <2>3
    <3>2. CASE Arrived = 0
      BY <2>2, <2>3, <3>2 DEF MailHandOver!Arrives
    <3>3. CASE Arrived # 0
      <4>1. Arrived \in 1 .. Arrived
        BY <2>2, <3>3
      <4> QED BY <2>2, <2>3, <3>1, <4>1 DEF MailHandOver!Arrives
    <3> QED BY <3>2, <3>3
  <2>5. MailHandOver!Keeps
    <3>1. MailKept \subseteq MailKept'
      BY <2>1 DEF MailKept
    <3>2. MailKept' \subseteq AllMail
      BY <2>1 DEF MailKept
    <3> QED BY <2>2, <3>1, <3>2 DEF MailHandOver!Keeps
  <2>6. MailHandOver!Excuses
    <3>1. BeforeStart' \subseteq MailOf(DOMAIN box)'
      BY DEF BeforeStart, MailOf
    <3>2. MailExcused' \subseteq 1 .. Arrived'
      BY <1>2, <2>3, <3>1 DEF MailInv, BoxInOrder, MailExcused
    <3> QED BY <2>1, <3>2 DEF MailHandOver!Excuses
  <2>7. MailHandOver!Passes
    <3>1. CASE start' = NoCursor
      <4>1. mailKV'.cursor = NoCursor
        BY <1>2, <3>1 DEF MailInv, KeptInKV
      <4>2. box' \in Seq(Seq(Nat))
        BY <1>2 DEF MailInv, BoxInOrder
      <4>3. {r \in DOMAIN box' : r < 0} = {}
        BY <4>2
      <4>4. MailPassed' = {}
        BY <4>1, <4>3 DEF MailPassed, MailOf, NoCursor
      <4> QED BY <4>4 DEF MailHandOver!Passes
    <3>2. CASE start' # NoCursor
      BY <1>2, <3>2 DEF MailInv, KeptInKV, Sound, Earned, Below, MailPassed, Accounted, MailHandOver!Passes
    <3> QED BY <3>1, <3>2
  <2> QED BY <2>4, <2>5, <2>6, <2>7 DEF MailHandOver!Next
<1> QED
  BY <1>1, <1>2, CursorsAreEarned, PTL DEF MailSpec, MailHandOver!Spec
=============================================================================

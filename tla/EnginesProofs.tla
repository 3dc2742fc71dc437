---------------------------- MODULE EnginesProofs ----------------------------
(***************************************************************************)
(* Proofs about the parts of MCEngines that make and ship a plugin: the    *)
(* packing of a runtime, the voice example's engine, the release commands. *)
(* A behaviour is one part, so each result follows from the part's own     *)
(* invariant and from what keeps the part.                                 *)
(***************************************************************************)
EXTENDS MCEngines, WellFoundedInduction, SequenceTheorems, FiniteSetTheorems, TLAPS

----------------------------------------------------------------------------
(* Packing a runtime, by the names of RuntimePack.                         *)

tree == v1
place == v2
rows == v3
half == v4
archive == v5
phase == v6
budget == v7
writes == v8
USE DEF tree, place, rows, half, archive, phase, budget, writes

NameSet == {FileNames[i] : i \in 1..Len(FileNames)}
Values  == Versions \cup {Pack!Gone}
Row == [name : NameSet, size : {v.size : v \in Values},
        bytes : {v.bytes : v \in Values}, exec : {v.exec : v \in Values}]

PackTypeOK ==
  /\ tree \in [NameSet -> Values]
  /\ place \in Nat /\ place >= 1
  /\ rows \in Seq(Row)
  /\ half \in Row \cup {Pack!NoRow}
  /\ archive \in Seq(Row)

\* Nothing is written while the tree is measured; after that the archive holds
\* as many files as were come to, each as its row lists it; and at the end no
\* row is left.
Copied ==
  /\ phase = "walk" => archive = <<>>
  /\ phase \in {"write", "done"} =>
       /\ place = Len(archive) + 1 /\ Len(archive) <= Len(rows)
       /\ \A i \in 1..Len(archive) : /\ archive[i].name = rows[i].name
                                     /\ archive[i].size = rows[i].size
                                     /\ archive[i].bytes = rows[i].bytes
  /\ phase = "done" => Len(archive) = Len(rows)

PackInv == PackTypeOK /\ Copied

\* The walk (runtime.go, writeRuntimeTree up to the inventory) writes nothing.
LEMMA WalkWritesNothing ==
  ASSUME PackInv, Pack!Stat \/ Pack!Hash \/ Pack!Judge \/ Pack!Disturb
  PROVE  PackInv'
<1>1. CASE Pack!Stat
  <2> DEFINE n == FileNames[place]
  <2>1. n \in NameSet BY <1>1 DEF Pack!Stat, PackInv, PackTypeOK, NameSet
  <2>2. tree[n] \in Values BY <2>1 DEF PackInv, PackTypeOK
  <2>3. CASE Pack!Fail
    BY <1>1, <2>3 DEF Pack!Stat, Pack!Fail, PackInv, PackTypeOK, Copied
  <2>4. CASE place' = place + 1 /\ UNCHANGED <<tree, rows, half, archive, phase, budget, writes>>
    BY <1>1, <2>4 DEF Pack!Stat, PackInv, PackTypeOK, Copied
  <2>5. CASE /\ half' = [name |-> n, size |-> tree[n].size, bytes |-> "none", exec |-> tree[n].exec]
             /\ UNCHANGED <<tree, place, rows, archive, phase, budget, writes>>
    <3>1. "none" \in {v.bytes : v \in Values}
      <4>1. Pack!Gone \in Values /\ Pack!Gone.bytes = "none" BY DEF Values, Pack!Gone
      <4> QED BY <4>1
    <3>2. half' \in Row BY <2>1, <2>2, <2>5, <3>1 DEF Row
    <3> QED BY <1>1, <2>5, <3>2 DEF Pack!Stat, PackInv, PackTypeOK, Copied
  <2> QED BY <1>1, <2>3, <2>4, <2>5 DEF Pack!Stat
<1>2. CASE Pack!Hash
  <2>1. CASE Pack!Fail
    BY <1>2, <2>1 DEF Pack!Hash, Pack!Fail, PackInv, PackTypeOK, Copied
  <2>2. CASE ~Pack!Fail
    <3>1. half \in Row BY <1>2 DEF Pack!Hash, PackInv, PackTypeOK
    <3>2. half.name \in NameSet BY <3>1 DEF Row
    <3>3. tree[half.name] \in Values BY <3>2 DEF PackInv, PackTypeOK
    <3>4. [half EXCEPT !.bytes = tree[half.name].bytes] \in Row BY <3>1, <3>3 DEF Row
    <3>5. /\ rows' = Append(rows, [half EXCEPT !.bytes = tree[half.name].bytes])
          /\ half' = Pack!NoRow /\ place' = place + 1
          /\ UNCHANGED <<tree, archive, phase, budget, writes>>
      BY <1>2, <2>2 DEF Pack!Hash
    <3>6. rows' \in Seq(Row) BY <3>4, <3>5 DEF PackInv, PackTypeOK
    <3> QED BY <1>2, <3>5, <3>6 DEF Pack!Hash, PackInv, PackTypeOK, Copied
  <2> QED BY <2>1, <2>2
<1>3. CASE Pack!Judge
  <2>1. CASE Pack!Fail
    BY <1>3, <2>1 DEF Pack!Judge, Pack!Fail, PackInv, PackTypeOK, Copied
  <2>2. CASE phase' = "write" /\ place' = 1 /\ UNCHANGED <<tree, rows, half, archive, budget, writes>>
    <3>1. archive = <<>> /\ Len(archive) = 0 BY <1>3 DEF Pack!Judge, PackInv, Copied
    <3>2. Len(rows) \in Nat BY DEF PackInv, PackTypeOK
    <3> QED BY <2>2, <3>1, <3>2 DEF PackInv, PackTypeOK, Copied
  <2> QED BY <1>3, <2>1, <2>2 DEF Pack!Judge
<1>4. CASE Pack!Disturb
  <2>1. PICK i \in 1..Len(FileNames), v \in Versions \cup {Pack!Gone} : tree' = [tree EXCEPT ![FileNames[i]] = v]
    BY <1>4 DEF Pack!Disturb
  <2>2. tree' \in [NameSet -> Values] BY <2>1 DEF PackInv, PackTypeOK, NameSet, Values
  <2> QED BY <1>4, <2>2 DEF Pack!Disturb, PackInv, PackTypeOK, Copied
<1> QED BY <1>1, <1>2, <1>3, <1>4

\* A file is written only as its row lists it, and the archive ends with the
\* last row (runtime.go:480-545).
LEMMA WritingFollowsRows ==
  ASSUME PackInv, Pack!Copy \/ Pack!Finish
  PROVE  PackInv'
<1>1. CASE Pack!Copy
  <2> DEFINE f == tree[rows[place].name]
             entry == [name |-> rows[place].name, size |-> f.size,
                       bytes |-> f.bytes, exec |-> rows[place].exec]
  <2>1. CASE Pack!Fail
    BY <1>1, <2>1 DEF Pack!Copy, Pack!Fail, PackInv, PackTypeOK, Copied
  <2>2. CASE ~Pack!Fail
    <3>1. /\ Pack!AsListed(f, rows[place]) /\ archive' = Append(archive, entry) /\ place' = place + 1
          /\ UNCHANGED <<tree, rows, half, phase, budget, writes>>
      BY <1>1, <2>2 DEF Pack!Copy
    <3>2. place \in 1..Len(rows) /\ rows[place] \in Row
      BY <1>1 DEF Pack!Copy, PackInv, PackTypeOK
    <3>3. f \in Values BY <3>2 DEF Row, PackInv, PackTypeOK
    <3>4. entry \in Row BY <3>2, <3>3 DEF Row
    <3>5. archive' \in Seq(Row) /\ Len(archive') = Len(archive) + 1
      BY <3>1, <3>4 DEF PackInv, PackTypeOK
    <3>6. phase = "write" /\ place = Len(archive) + 1 /\ Len(archive) <= Len(rows)
      BY <1>1 DEF Pack!Copy, PackInv, Copied
    <3>7. archive'[place] = entry /\ \A i \in 1..Len(archive) : archive'[i] = archive[i]
      BY <3>1, <3>4, <3>6 DEF PackInv, PackTypeOK
    <3>8. entry.name = rows[place].name /\ entry.size = rows[place].size /\ entry.bytes = rows[place].bytes
      BY <3>1 DEF Pack!AsListed
    <3>9. ASSUME NEW i \in 1..Len(archive')
          PROVE  /\ archive'[i].name = rows'[i].name
                 /\ archive'[i].size = rows'[i].size
                 /\ archive'[i].bytes = rows'[i].bytes
      <4>1. CASE i = place BY <3>1, <3>7, <3>8, <4>1
      <4>2. CASE i \in 1..Len(archive) BY <3>1, <3>6, <3>7, <4>2 DEF PackInv, Copied
      <4> QED BY <3>5, <3>6, <4>1, <4>2 DEF PackInv, PackTypeOK
    <3>10. PackTypeOK' BY <3>1, <3>5 DEF PackInv, PackTypeOK
    <3> QED BY <3>1, <3>2, <3>5, <3>6, <3>9, <3>10 DEF PackInv, PackTypeOK, Copied
  <2> QED BY <2>1, <2>2
<1>2. CASE Pack!Finish
  <2>1. Len(archive) \in Nat /\ Len(rows) \in Nat BY DEF PackInv, PackTypeOK
  <2> QED BY <1>2, <2>1 DEF Pack!Finish, PackInv, PackTypeOK, Copied
<1> QED BY <1>1, <1>2

LEMMA PackStarts == Pack!PackInit => PackInv
<1> SUFFICES ASSUME Pack!PackInit PROVE PackInv
  OBVIOUS
<1>1. <<>> \in Seq(Row)
  OBVIOUS
<1> QED
  BY <1>1 DEF Pack!PackInit, PackInv, PackTypeOK, Copied, NameSet, Values

LEMMA PackSteps == PackInv /\ [Pack!PackNext]_(Pack!packVars) => PackInv'
<1> SUFFICES ASSUME PackInv, [Pack!PackNext]_(Pack!packVars) PROVE PackInv'
  OBVIOUS
<1>1. CASE Pack!Stat \/ Pack!Hash \/ Pack!Judge \/ Pack!Disturb
  BY <1>1, WalkWritesNothing
<1>2. CASE Pack!Copy \/ Pack!Finish
  BY <1>2, WritingFollowsRows
<1>3. CASE UNCHANGED Pack!packVars
  BY <1>3 DEF Pack!packVars, PackInv, PackTypeOK, Copied
<1> QED
  BY <1>1, <1>2, <1>3 DEF Pack!PackNext

\* Whatever the tree and whatever is written to it while it is packed, an archive that is
\* reported carries, row for row, the bytes its inventory lists (writeRuntimeTree of
\* pkg/aiiospkg/runtime.go).
THEOREM ArchiveListed == Spec => []ArchiveIsAsListed
<1> DEFINE Here == part = "pack"
<1>1. Init /\ Here => PackInv
  BY PackStarts DEF Init
<1>2. Here /\ [Next]_vars => Here' /\ [Pack!PackNext]_(Pack!packVars)
  BY DEF Next, vars, Pack!packVars
<1>3. ~Here /\ [Next]_vars => ~Here'
  BY DEF Next, vars
<1>4. ~Here => ArchiveIsAsListed
  BY DEF ArchiveIsAsListed
<1>5. PackInv => ArchiveIsAsListed
  BY DEF PackInv, PackTypeOK, Copied, Pack!ArchiveIsAsListed, ArchiveIsAsListed
<1> HIDE DEF Here
<1> QED
  BY <1>1, <1>2, <1>3, <1>4, <1>5, PackSteps, PTL DEF Spec

\* The search for the least files ceiling (runtime.go, leastFilesCeiling)
\* begins no higher than any ceiling that admits the tree, so that counting up
\* from there to the first that does finds the least.
THEOREM SearchBeginsLow ==
  ASSUME NEW files \in Nat, NEW dirs \in Nat, NEW m \in Nat,
         files <= m, files + dirs <= Pack!MemberAllowance(m)
  PROVE  Pack!StartCeiling(files, dirs) <= m
<1>1. 4 * (m \div 4) <= m OBVIOUS
<1>2. (files + dirs) * 4 <= 5 * m BY <1>1 DEF Pack!MemberAllowance
<1>3. ((files + dirs) * 4) \div 5 <= m
  <2> DEFINE t == (files + dirs) * 4
  <2>1. t \in Nat /\ t <= 5 * m BY <1>2
  <2> HIDE DEF t
  <2>2. t \div 5 <= m BY <2>1
  <2> QED BY <2>2 DEF t
<1> QED BY <1>3 DEF Pack!StartCeiling


LEMMA LeastOf == ASSUME NEW S \in SUBSET Nat, S # {} PROVE \E m \in S : \A k \in S : m <= k
<1> DEFINE R == OpToRel(<, Nat)
<1>1. \A m, k \in Nat : k < m => <<k, m>> \in R
  BY DEF OpToRel
<1>2. IsWellFoundedOn(R, Nat)
  BY NatLessThanWellFounded
<1> HIDE DEF R
<1>3. PICK m \in S : \A k \in S : <<k, m>> \notin R
  BY <1>2, WFMin
<1>4. \A k \in S : ~(k < m)
  BY <1>1, <1>3
<1> QED
  BY <1>4

LEMMA GreatestOf ==
    ASSUME NEW S \in SUBSET Nat, S # {}, NEW bound \in Nat, \A k \in S : k <= bound
    PROVE  \E m \in S : \A k \in S : k <= m
<1> DEFINE U == {u \in Nat : \A k \in S : k <= u}
<1>1. PICK u \in U : \A w \in U : u <= w
  <2>1. bound \in U /\ U \in SUBSET Nat
    OBVIOUS
  <2> HIDE DEF U
  <2> QED
    BY <2>1, LeastOf
<1>2. u \in Nat /\ \A k \in S : k <= u
  OBVIOUS
<1>3. CASE u \in S
  BY <1>2, <1>3
<1>4. CASE u \notin S
  <2>1. \A k \in S : k \in Nat /\ k < u
    BY <1>2, <1>4
  <2>2. u # 0
    <3>1. PICK one \in S : TRUE
      OBVIOUS
    <3> QED
      BY <2>1, <3>1
  <2>4. u - 1 \in Nat /\ \A k \in S : k <= u - 1
    BY <1>2, <2>1, <2>2
  <2>3. u <= u - 1
    BY <1>1, <2>4
  <2> QED
    BY <1>2, <2>3
<1> QED
  BY <1>3, <1>4

\* memberAllowance only grows, and past what it is asked for.
LEMMA AllowanceGrows ==
    /\ \A m \in Nat : Pack!MemberAllowance(m) \in Nat /\ m <= Pack!MemberAllowance(m)
    /\ \A m, k \in Nat : m <= k => Pack!MemberAllowance(m) <= Pack!MemberAllowance(k)
<1>1. \A m \in Nat : m \div 4 \in Nat
  OBVIOUS
<1>2. \A m, k \in Nat : m <= k => m \div 4 <= k \div 4
  OBVIOUS
<1> QED
  BY <1>1, <1>2 DEF Pack!MemberAllowance

\* Counting up from the start (leastFilesCeiling) ends at the first ceiling that admits the
\* tree's files and directories.
LEMMA CountingFinds ==
    ASSUME NEW files \in Nat, NEW dirs \in Nat
    PROVE  LET least == Pack!LeastFilesCeiling(files, dirs)
           IN  /\ least \in Nat /\ Pack!StartCeiling(files, dirs) <= least
               /\ files + dirs <= Pack!MemberAllowance(least)
               /\ \A m \in Nat : Pack!StartCeiling(files, dirs) <= m /\ m < least
                                   => Pack!MemberAllowance(m) < files + dirs
<1> DEFINE t == files + dirs
           start == Pack!StartCeiling(files, dirs)
           short(m) == Pack!MemberAllowance(m) < t
           enough(m) == {k \in Nat : m <= k /\ ~short(k)}
           g == [m \in Nat |-> CHOOSE k \in enough(m) : \A j \in enough(m) : k <= j]
           up == CHOOSE f : f = [m \in Nat |-> IF short(m) THEN f[m + 1] ELSE m]
<1>0. t \in Nat /\ start \in Nat
  <2>1. ((files + dirs) * 4) \div 5 \in Nat
    <3> DEFINE q == (files + dirs) * 4
    <3>1. q \in Nat
      OBVIOUS
    <3> HIDE DEF q
    <3>2. q \div 5 \in Nat
      BY <3>1
    <3> QED
      BY <3>2 DEF q
  <2> QED
    BY <2>1 DEF Pack!StartCeiling
<1>1. Pack!LeastFilesCeiling(files, dirs) = up[start]
  BY Zenon DEF Pack!LeastFilesCeiling
<1> HIDE DEF start, t
<1>2. \A m \in Nat : enough(m) \in SUBSET Nat /\ enough(m) # {}
  <2> SUFFICES ASSUME NEW m \in Nat PROVE enough(m) # {}
    OBVIOUS
  <2>1. m + t \in Nat /\ m <= m + t /\ t <= Pack!MemberAllowance(m + t) /\ Pack!MemberAllowance(m + t) \in Nat
    BY <1>0, AllowanceGrows
  <2>2. ~short(m + t)
    BY <1>0, <2>1
  <2> QED
    BY <2>1, <2>2
<1>3. \A m \in Nat : g[m] \in enough(m) /\ \A j \in enough(m) : g[m] <= j
  <2> SUFFICES ASSUME NEW m \in Nat PROVE g[m] \in enough(m) /\ \A j \in enough(m) : g[m] <= j
    OBVIOUS
  <2> HIDE DEF enough
  <2>1. \E k \in enough(m) : \A j \in enough(m) : k <= j
    BY <1>2, LeastOf
  <2> QED
    BY <2>1
<1>4. g = [m \in Nat |-> IF short(m) THEN g[m + 1] ELSE m]
  <2>1. ASSUME NEW m \in Nat, short(m) PROVE g[m] = g[m + 1]
    <3>1. enough(m) = enough(m + 1)
      <4>1. \A k \in Nat : m <= k /\ ~short(k) <=> m + 1 <= k /\ ~short(k)
        <5>1. \A k \in Nat : m <= k /\ k # m <=> m + 1 <= k
          OBVIOUS
        <5> HIDE DEF short
        <5> QED
          BY <2>1, <5>1
      <4> HIDE DEF short
      <4> QED
        BY <4>1
    <3> HIDE DEF enough
    <3> QED
      BY <3>1
  <2>2. ASSUME NEW m \in Nat, ~short(m) PROVE g[m] = m
    <3>1. m \in enough(m) /\ \A j \in enough(m) : m <= j
      BY <2>2
    <3>2. g[m] \in Nat /\ m <= g[m] /\ g[m] <= m
      BY <1>3, <3>1
    <3> HIDE DEF g
    <3> QED
      BY <3>2
  <2>3. g = [m \in Nat |-> g[m]]
    OBVIOUS
  <2>4. \A m \in Nat : g[m] = IF short(m) THEN g[m + 1] ELSE m
    <3> HIDE DEF g, short
    <3> QED
      BY <2>1, <2>2
  <2> HIDE DEF g, short
  <2> QED
    BY <2>3, <2>4
<1>5. up = [m \in Nat |-> IF short(m) THEN up[m + 1] ELSE m]
  <2> HIDE DEF g, short
  <2> QED
    BY <1>4
<1> DEFINE least == g[start]
<1>6. least \in Nat /\ start <= least /\ ~short(least) /\ \A m \in Nat : start <= m /\ m < least => short(m)
  <2>1. least \in Nat /\ start <= least /\ ~short(least)
    BY <1>0, <1>3
  <2>2. \A m \in Nat : start <= m /\ ~short(m) => least <= m
    BY <1>0, <1>3
  <2> HIDE DEF least, short
  <2> QED
    BY <2>1, <2>2
<1> HIDE DEF least, up, g
<1>7. up[start] = least
  <2> DEFINE wrong == {d \in Nat : d <= least - start /\ up[least - d] # least}
  <2>1. CASE wrong = {}
    <3>1. least - start \in Nat /\ least - (least - start) = start
      BY <1>0, <1>6
    <3> QED
      BY <2>1, <3>1
  <2>2. CASE wrong # {}
    <3>1. PICK d \in wrong : \A e \in wrong : d <= e
      <4>1. wrong \in SUBSET Nat
        OBVIOUS
      <4> HIDE DEF wrong
      <4> QED
        BY <2>2, <4>1, LeastOf
    <3>2. d \in Nat /\ d <= least - start /\ up[least - d] # least
      BY <3>1
    <3>3. d # 0
      <4>1. up[least] = least
        BY <1>5, <1>6
      <4> QED
        BY <1>6, <3>2, <4>1
    <3>4. /\ d - 1 \in Nat /\ d - 1 <= least - start /\ least - d \in Nat /\ start <= least - d /\ least - d < least
          /\ least - (d - 1) = (least - d) + 1
      BY <1>0, <1>6, <3>2, <3>3
    <3>5. up[least - (d - 1)] = least
      <4>1. d - 1 \notin wrong
        BY <3>1, <3>2
      <4> QED
        BY <3>4, <4>1
    <3>6. short(least - d)
      BY <1>6, <3>4
    <3>7. up[least - d] = up[(least - d) + 1]
      <4> HIDE DEF short
      <4> QED
        BY <1>5, <3>4, <3>6
    <3> QED
      BY <3>2, <3>4, <3>5, <3>7
  <2> QED
    BY <2>1, <2>2
<1>8. \A m \in Nat : short(m) <=> ~(files + dirs <= Pack!MemberAllowance(m))
  BY <1>0, AllowanceGrows DEF t
<1> QED
  BY <1>1, <1>6, <1>7, <1>8 DEF start, t

\* The walk stops at a file that lies deeper than the budget, and no tree without a file is
\* packed (writeRuntimeTree).
Within ==
    /\ budget \in Hosts
    /\ half # Pack!NoRow => Pack!Depth(half.name) <= budget.depth
    /\ \A i \in 1 .. Len(rows) : Pack!Depth(rows[i].name) <= budget.depth
    /\ phase \in {"write", "done"} => rows # <<>>

LEMMA PackStartsWithin == Pack!PackInit => Within
<1> SUFFICES ASSUME Pack!PackInit PROVE Within
  OBVIOUS
<1>1. rows = <<>> /\ Len(rows) = 0 /\ 1 .. 0 = {}
  BY DEF Pack!PackInit
<1> QED
  BY <1>1 DEF Pack!PackInit, Within

LEMMA PackStaysWithin == PackInv /\ Within /\ [Pack!PackNext]_(Pack!packVars) => Within'
<1> SUFFICES ASSUME PackInv, Within, [Pack!PackNext]_(Pack!packVars) PROVE Within'
  OBVIOUS
<1>1. CASE Pack!Fail \/ Pack!Disturb \/ Pack!Finish \/ UNCHANGED Pack!packVars
  BY <1>1 DEF Pack!Fail, Pack!Disturb, Pack!Finish, Pack!packVars, Within, Pack!Depth
<1>2. CASE Pack!Stat /\ ~Pack!Fail
  <2> DEFINE n == FileNames[place]
  <2>1. UNCHANGED <<rows, phase, budget>>
    BY <1>2 DEF Pack!Stat
  <2>2. half' = half
        \/ /\ half' = [name |-> n, size |-> tree[n].size, bytes |-> "none", exec |-> tree[n].exec]
           /\ ~(Pack!Depth(n) > budget.depth)
    BY <1>2 DEF Pack!Stat
  <2>3. n \in NameSet
    BY <1>2 DEF Pack!Stat, PackInv, PackTypeOK, NameSet
  <2>4. Pack!Depth(n) \in Nat /\ budget.depth \in Nat
    <3>1. IsFiniteSet(Dirs[n])
      BY <2>3, RuntimeAssumption DEF NameSet
    <3>2. Cardinality(Dirs[n]) \in Nat
      BY <3>1, FS_CardinalityType
    <3>3. Pack!Cardinality(Dirs[n]) = Cardinality(Dirs[n])
      BY DEF Pack!Cardinality, Cardinality
    <3> QED
      BY <3>2, <3>3, RuntimeAssumption DEF Within, Pack!Depth
  <2>5. half' # Pack!NoRow => Pack!Depth(half'.name) <= budget.depth
    BY <2>2, <2>4 DEF Within
  <2> QED
    BY <2>1, <2>5 DEF Within, Pack!Depth
<1>3. CASE Pack!Hash /\ ~Pack!Fail
  <2> DEFINE row == [half EXCEPT !.bytes = tree[half.name].bytes]
  <2>1. /\ half # Pack!NoRow /\ rows' = Append(rows, row) /\ half' = Pack!NoRow
        /\ phase = "walk" /\ UNCHANGED <<phase, budget>>
    BY <1>3 DEF Pack!Hash
  <2>2. half \in Row /\ rows \in Seq(Row)
    BY <2>1 DEF PackInv, PackTypeOK
  <2>3. half.name \in NameSet /\ tree[half.name] \in Values
    BY <2>2 DEF Row, PackInv, PackTypeOK
  <2>4. row \in Row /\ row.name = half.name
    BY <2>2, <2>3 DEF Row
  <2>5. /\ Len(rows') = Len(rows) + 1 /\ rows'[Len(rows) + 1] = row
        /\ \A i \in 1 .. Len(rows) : rows'[i] = rows[i]
        /\ 1 .. Len(rows) + 1 = (1 .. Len(rows)) \cup {Len(rows) + 1}
    BY <2>1, <2>2, <2>4
  <2>6. \A i \in 1 .. Len(rows') : Pack!Depth(rows'[i].name) <= budget.depth
    BY <2>1, <2>4, <2>5 DEF Within
  <2> QED
    BY <2>1, <2>6 DEF Within, Pack!Depth
<1>4. CASE Pack!Judge /\ ~Pack!Fail
  <2>1. /\ phase' = "write" /\ UNCHANGED <<rows, half, budget>> /\ rows # <<>>
    BY <1>4 DEF Pack!Judge, Pack!Refused
  <2> QED
    BY <2>1 DEF Within, Pack!Depth
<1>5. CASE Pack!Copy /\ ~Pack!Fail
  <2>1. UNCHANGED <<rows, half, phase, budget>>
    BY <1>5 DEF Pack!Copy
  <2> QED
    BY <2>1 DEF Within, Pack!Depth
<1> QED
  BY <1>1, <1>2, <1>3, <1>4, <1>5 DEF Pack!PackNext

\* What the report's ceilings rest on: the tree has a deepest file, and its directories are
\* finitely many.
LEMMA ReportIsOfATree ==
    ASSUME PackInv, Within, phase = "done"
    PROVE  Pack!Files \in Nat /\ Pack!Directories \in Nat /\ Pack!TreeDepth \in Nat
<1>1. rows \in Seq(Row) /\ rows # <<>> /\ Len(rows) \in Nat /\ Len(rows) # 0
  BY DEF PackInv, PackTypeOK, Within
<1> DEFINE L == {rows[i].name : i \in 1 .. Len(rows)}
<1>2. L = Pack!Listed(rows) /\ L \in SUBSET NameSet /\ L # {}
  <2>1. \A i \in 1 .. Len(rows) : rows[i] \in Row
    BY <1>1
  <2>2. 1 \in 1 .. Len(rows)
    BY <1>1
  <2>3. rows[1].name \in L
    BY <2>2
  <2> QED
    BY <2>1, <2>3 DEF Pack!Listed, Row
<1>3. IsFiniteSet(L)
  <2> DEFINE f == [i \in 1 .. Len(rows) |-> rows[i].name]
  <2>1. IsFiniteSet(1 .. Len(rows))
    BY <1>1, FS_Interval
  <2>2. f \in Surjection(1 .. Len(rows), L)
    BY DEF Surjection
  <2> HIDE DEF f, L
  <2> QED
    BY <2>1, <2>2, FS_Surjection
<1>4. \A n \in L : IsFiniteSet(Dirs[n]) /\ Pack!Depth(n) \in Nat /\ Pack!Depth(n) <= budget.depth
  <2> SUFFICES ASSUME NEW n \in L
               PROVE  IsFiniteSet(Dirs[n]) /\ Pack!Depth(n) \in Nat /\ Pack!Depth(n) <= budget.depth
    OBVIOUS
  <2>1. IsFiniteSet(Dirs[n])
    BY <1>2, RuntimeAssumption DEF NameSet
  <2>2. Cardinality(Dirs[n]) \in Nat
    BY <2>1, FS_CardinalityType
  <2>3. Pack!Cardinality(Dirs[n]) = Cardinality(Dirs[n])
    BY DEF Pack!Cardinality, Cardinality
  <2> QED
    BY <2>1, <2>2, <2>3 DEF Within, Pack!Depth
<1>5. Pack!Directories \in Nat
  <2> DEFINE dirs == {Dirs[n] : n \in L}
  <2>1. IsFiniteSet(dirs)
    <3> DEFINE f == [n \in L |-> Dirs[n]]
    <3> HIDE DEF L
    <3>1. f \in Surjection(L, dirs)
      BY DEF Surjection
    <3> HIDE DEF f, dirs
    <3> QED
      BY <1>3, <3>1, FS_Surjection
  <2>2. \A d \in dirs : IsFiniteSet(d)
    BY <1>4
  <2>3. IsFiniteSet(UNION dirs)
    <3> HIDE DEF dirs
    <3> QED
      BY <2>1, <2>2, FS_UNION
  <2>4. Cardinality(UNION dirs) \in Nat
    BY <2>3, FS_CardinalityType
  <2>5. Pack!Cardinality(UNION dirs) = Cardinality(UNION dirs)
    BY DEF Pack!Cardinality, Cardinality
  <2>6. Pack!DirsOf(rows) = UNION dirs
    BY <1>2 DEF Pack!DirsOf
  <2> HIDE DEF dirs
  <2> QED
    BY <2>4, <2>5, <2>6 DEF Pack!Directories
<1>6. Pack!TreeDepth \in Nat
  <2> DEFINE D == {Pack!Depth(n) : n \in L}
  <2>1. D \in SUBSET Nat /\ D # {} /\ budget.depth \in Nat /\ \A k \in D : k <= budget.depth
    BY <1>2, <1>4, RuntimeAssumption DEF Within
  <2>2. Pack!TreeDepth = CHOOSE x \in D : \A y \in D : x >= y
    BY <1>2 DEF Pack!TreeDepth, Pack!Max
  <2> HIDE DEF D
  <2>3. \E x \in D : \A y \in D : y <= x
    BY <2>1, GreatestOf
  <2>4. \E x \in D : \A y \in D : x >= y
    BY <2>1, <2>3
  <2> QED
    BY <2>1, <2>2, <2>4
<1> QED
  BY <1>1, <1>5, <1>6 DEF Pack!Files

\* Raising exactly what the report names admits the archive, and one file less does not.
LEMMA NamedCeilingsAdmit == PackInv /\ Within => Pack!CeilingsAdmit
<1> SUFFICES ASSUME PackInv, Within, phase = "done", NEW host \in Hosts
             PROVE  /\ Pack!Admits(Pack!Raised(host), Pack!Files, Pack!Directories, Pack!TreeDepth)
                    /\ Pack!Raised(host).files > host.files =>
                         ~Pack!Admits([Pack!Raised(host) EXCEPT !.files = @ - 1],
                                      Pack!Files, Pack!Directories, Pack!TreeDepth)
  BY DEF Pack!CeilingsAdmit
<1> DEFINE files == Pack!Files
           dirs == Pack!Directories
           depth == Pack!TreeDepth
           least == Pack!LeastFilesCeiling(files, dirs)
           deep == IF depth > host.depth THEN depth ELSE host.depth
           most == IF least > host.files THEN least ELSE host.files
<1>1. files \in Nat /\ dirs \in Nat /\ depth \in Nat
  BY ReportIsOfATree
<1>2. Pack!Raised(host) = [files |-> most, depth |-> deep]
  BY DEF Pack!Raised
<1> HIDE DEF files, dirs, depth
<1>3. /\ least \in Nat /\ Pack!StartCeiling(files, dirs) <= least
      /\ files + dirs <= Pack!MemberAllowance(least)
      /\ \A m \in Nat : Pack!StartCeiling(files, dirs) <= m /\ m < least
                          => Pack!MemberAllowance(m) < files + dirs
  BY <1>1, CountingFinds
<1>4. files <= least
  <2>1. ((files + dirs) * 4) \div 5 \in Nat
    <3> DEFINE q == (files + dirs) * 4
    <3>1. q \in Nat
      BY <1>1
    <3> HIDE DEF q
    <3>2. q \div 5 \in Nat
      BY <3>1
    <3> QED
      BY <3>2 DEF q
  <2>2. Pack!StartCeiling(files, dirs) \in Nat /\ files <= Pack!StartCeiling(files, dirs)
    BY <1>1, <2>1 DEF Pack!StartCeiling
  <2> QED
    BY <1>1, <1>3, <2>2
<1> HIDE DEF least
<1>5. host.files \in Nat /\ host.depth \in Nat
  BY RuntimeAssumption
<1>6. most \in Nat /\ least <= most
  BY <1>3, <1>5
<1>7. depth <= deep
  BY <1>1, <1>5
<1>8. files <= most /\ files + dirs <= Pack!MemberAllowance(most)
  <2>1. /\ Pack!MemberAllowance(least) <= Pack!MemberAllowance(most)
        /\ Pack!MemberAllowance(least) \in Nat /\ Pack!MemberAllowance(most) \in Nat
    BY <1>3, <1>6, AllowanceGrows
  <2> HIDE DEF most
  <2> QED
    BY <1>1, <1>3, <1>4, <1>6, <2>1
<1>9. Pack!Admits(Pack!Raised(host), files, dirs, depth)
  <2> HIDE DEF most, deep
  <2> QED
    BY <1>2, <1>7, <1>8 DEF Pack!Admits
<1>10. ASSUME Pack!Raised(host).files > host.files
       PROVE  ~Pack!Admits([Pack!Raised(host) EXCEPT !.files = @ - 1], files, dirs, depth)
  <2>1. most = least /\ least > host.files
    BY <1>2, <1>3, <1>5, <1>10
  <2>2. least - 1 \in Nat /\ least - 1 < least
    BY <1>3, <1>5, <2>1
  <2>3. SUFFICES ASSUME files <= least - 1, files + dirs <= Pack!MemberAllowance(least - 1) PROVE FALSE
    <3>1. [Pack!Raised(host) EXCEPT !.files = @ - 1] = [files |-> least - 1, depth |-> deep]
      BY <1>2, <2>1
    <3> HIDE DEF deep
    <3> QED
      BY <3>1 DEF Pack!Admits
  <2>4. Pack!StartCeiling(files, dirs) <= least - 1
    BY <1>1, <2>2, <2>3, SearchBeginsLow
  <2>5. Pack!MemberAllowance(least - 1) < files + dirs
    BY <1>3, <2>2, <2>4
  <2> QED
    BY <1>1, <2>2, <2>3, <2>5, AllowanceGrows
<1> QED
  BY <1>9, <1>10 DEF files, dirs, depth

----------------------------------------------------------------------------
(* The voice example's engine, by the names of VoiceEngine.                *)

eng == v1
gens == v2
ctl == v3
tails == v4
closers == v5
echo == v6
mixed == v7
USE DEF eng, gens, ctl, tails, closers, echo, mixed

Ends == {"synthesis_end", "synthesis_cancelled"}
Gen ==
    [kind : {"reply", "echo"}, of : Nat,
     at : {"admitted", "loop", "speak", "hush", "end", "finish", "tell", "done", "echo"},
     cancelled : BOOLEAN, stopped : BOOLEAN, ended : BOOLEAN, carried : BOOLEAN, out : Nat,
     reported : Nat, resolved : BOOLEAN, drained : BOOLEAN, owed : BOOLEAN, cut : BOOLEAN,
     told : SUBSET ({"synthesis_start"} \cup Ends)]

\* What became of a generation and what was told of it.
Named(r) ==
    /\ r.kind = "echo" => r.at \in {"echo", "done"}
    /\ r.kind = "reply" => r.at # "echo"
    /\ r.kind = "reply" /\ r.at # "admitted" => "synthesis_start" \in r.told
    /\ r.carried => r.at # "admitted" /\ "synthesis_start" \in r.told
    /\ r.told \cap Ends # {} => r.at = "done"
    /\ ~(Ends \subseteq r.told)
Promised(r) ==
    /\ r.owed => r.cancelled
    /\ r.at \in {"finish", "tell", "done"} => r.ended
    /\ r.at \in {"tell", "done"} => ~r.owed
    /\ r.kind = "echo" /\ r.ended => ~r.owed
Rendered(r) == r.drained => r.resolved /\ r.ended /\ r.reported = r.out
GensFit ==
    /\ gens \in Seq(Gen)
    /\ \A g \in DOMAIN gens : Named(gens[g]) /\ Promised(gens[g]) /\ Rendered(gens[g])

\* What the engine, the control in progress and the echo have at hand.
Engine ==
    [session : 0 .. MaxSessions, life : {"none", "open", "draining", "aborting", "closed"},
     hears : BOOLEAN, fin : BOOLEAN, input : {"accepting", "finishing", "finished", "absent"}, synth : Nat]
EngFits ==
    /\ eng \in Engine
    /\ eng.synth # 0 => /\ eng.synth \in DOMAIN gens /\ gens[eng.synth].kind = "reply"
                        /\ gens[eng.synth].at \notin {"tell", "done"}
CtlFits ==
    \/ ctl = Voice!Idle
    \/ \E g \in DOMAIN gens : /\ ctl = [at |-> "announce", g |-> g]
                              /\ gens[g].kind = "reply" /\ gens[g].at = "admitted"
    \/ \E g \in DOMAIN gens : /\ \/ ctl = [at |-> "resolve", g |-> g, drained |-> FALSE]
                                 \/ /\ ctl = [at |-> "resolve", g |-> g, drained |-> TRUE]
                                    /\ gens[g].ended /\ gens[g].reported = gens[g].out
EchoFits ==
    \/ echo = Voice!Reading
    \/ \E g \in DOMAIN gens :
         /\ gens[g].kind = "echo"
         /\ \/ echo = [at |-> "read", g |-> g] /\ "synthesis_start" \in gens[g].told
            \/ /\ \E kind \in {"pcm", "end"} : echo = [at |-> "announce", g |-> g, kind |-> kind]
               /\ ~gens[g].ended
            \/ /\ \E at \in {"write", "account"} : \E kind \in {"pcm", "end"} :
                     echo = [at |-> at, g |-> g, kind |-> kind]
               /\ ~gens[g].ended /\ "synthesis_start" \in gens[g].told
            \/ /\ \E cancelled \in BOOLEAN : echo = [at |-> "tell", g |-> g, cancelled |-> cancelled]
               /\ gens[g].at = "echo" /\ gens[g].ended /\ "synthesis_start" \in gens[g].told

\* A session is closed once, and its tail tells of it unless another's did.
Closer ==
    [at : {"none"}] \cup [at : {"wait", "close", "tell", "done"}, mode : {"draining", "aborting"}, g : Nat]
ClosersFit ==
    /\ closers \in [Voice!Sessions -> Closer]
    /\ \A s \in Voice!Sessions :
         /\ closers[s].at # "none" => s <= eng.session /\ (s = eng.session => eng.life \in {"draining", "aborting", "closed"})
         /\ closers[s].at \in {"wait", "close"} => s = eng.session /\ eng.life = closers[s].mode
TailsFit ==
    /\ tails \in [Voice!Sessions -> {"none", "due", "done"}]
    /\ \A s \in Voice!Sessions : tails[s] # "none" => s <= eng.session /\ (s = eng.session => eng.hears)
    /\ eng.session > 0 /\ eng.hears /\ eng.input = "finished" => tails[eng.session] = "done" \/ eng.session \in mixed
DrainWhole ==
    \A s \in Voice!Sessions :
        closers[s].at \in {"close", "tell", "done"} /\ closers[s].mode = "draining" =>
            /\ tails[s] = "due" => s \in mixed
            /\ \A g \in DOMAIN gens : gens[g].of = s /\ gens[g].kind = "reply" => gens[g].resolved

VoiceInv == GensFit /\ EngFits /\ CtlFits /\ EchoFits /\ ClosersFit /\ TailsFit /\ DrainWhole

Sound(r) == r \in Gen /\ Named(r) /\ Promised(r) /\ Rendered(r)

\* One generation changes.
LEMMA OneSet ==
    ASSUME GensFit, NEW g \in DOMAIN gens, NEW r, Sound(r), gens' = [gens EXCEPT ![g] = r]
    PROVE  /\ GensFit' /\ DOMAIN gens' = DOMAIN gens /\ gens'[g] = r
           /\ \A h \in DOMAIN gens : h # g => gens'[h] = gens[h]
<1>1. gens \in Seq(Gen) /\ r \in Gen
  BY DEF GensFit, Sound
<1>2. /\ gens' \in Seq(Gen) /\ DOMAIN gens' = DOMAIN gens /\ gens'[g] = r
      /\ \A h \in DOMAIN gens : h # g => gens'[h] = gens[h]
  BY <1>1
<1> QED
  BY <1>2 DEF GensFit, Sound

\* What the tails, the closes and the drains rest on stays while one generation moves on.
LEMMA ClosesStay ==
    ASSUME VoiceInv, NEW g \in DOMAIN gens, NEW r, Sound(r), gens' = [gens EXCEPT ![g] = r],
           r.kind = gens[g].kind, r.of = gens[g].of, gens[g].resolved => r.resolved,
           UNCHANGED <<tails, closers, mixed>>,
           eng'.session = eng.session, eng'.life = eng.life, eng'.hears = eng.hears, eng'.input = eng.input
    PROVE  GensFit' /\ ClosersFit' /\ TailsFit' /\ DrainWhole'
<1> USE DEF VoiceInv
<1>1. /\ GensFit' /\ DOMAIN gens' = DOMAIN gens /\ gens'[g] = r
      /\ \A h \in DOMAIN gens : h # g => gens'[h] = gens[h]
  BY OneSet
<1>2. ClosersFit'
  BY DEF ClosersFit, Voice!Sessions
<1>3. TailsFit'
  BY DEF TailsFit, Voice!Sessions
<1>4. DrainWhole'
  BY <1>1 DEF DrainWhole, Voice!Sessions
<1> QED
  BY <1>1, <1>2, <1>3, <1>4

\* A control in progress rests on the state of its generation.
LEMMA CtlStays ==
    ASSUME VoiceInv, NEW g \in DOMAIN gens, NEW r, Sound(r), gens' = [gens EXCEPT ![g] = r], UNCHANGED ctl,
           r.kind = gens[g].kind, gens[g].at = "admitted" => r.at = "admitted",
           r.reported = gens[g].reported, gens[g].ended => r.ended /\ r.out = gens[g].out
    PROVE  CtlFits'
<1>1. /\ DOMAIN gens' = DOMAIN gens /\ gens'[g] = r
      /\ \A h \in DOMAIN gens : h # g => gens'[h] = gens[h]
  BY OneSet DEF VoiceInv
<1>2. \A h \in DOMAIN gens : gens[h].kind = "reply" /\ gens[h].at = "admitted"
                                => gens'[h].kind = "reply" /\ gens'[h].at = "admitted"
  BY <1>1
<1>3. \A h \in DOMAIN gens : gens[h].ended /\ gens[h].reported = gens[h].out
                                => gens'[h].ended /\ gens'[h].reported = gens'[h].out
  BY <1>1
<1>4. CASE ctl = Voice!Idle
  BY <1>4 DEF CtlFits, Voice!Idle
<1>5. CASE \E h \in DOMAIN gens : /\ ctl = [at |-> "announce", g |-> h]
                                  /\ gens[h].kind = "reply" /\ gens[h].at = "admitted"
  BY <1>1, <1>2, <1>5 DEF CtlFits
<1>6. CASE \E h \in DOMAIN gens : /\ \/ ctl = [at |-> "resolve", g |-> h, drained |-> FALSE]
                                     \/ /\ ctl = [at |-> "resolve", g |-> h, drained |-> TRUE]
                                        /\ gens[h].ended /\ gens[h].reported = gens[h].out
  BY <1>1, <1>3, <1>6 DEF CtlFits
<1> QED
  BY <1>4, <1>5, <1>6 DEF VoiceInv, CtlFits

\* So does the echo.
LEMMA EchoStays ==
    ASSUME VoiceInv, NEW g \in DOMAIN gens, NEW r, Sound(r), gens' = [gens EXCEPT ![g] = r], UNCHANGED echo,
           r.kind = gens[g].kind,
           r.kind = "echo" => r.at = gens[g].at /\ r.ended = gens[g].ended /\ r.told = gens[g].told
    PROVE  EchoFits'
<1>1. /\ DOMAIN gens' = DOMAIN gens /\ gens'[g] = r
      /\ \A h \in DOMAIN gens : h # g => gens'[h] = gens[h]
  BY OneSet DEF VoiceInv
<1>2. \A h \in DOMAIN gens : gens[h].kind = "echo" =>
         /\ gens'[h].kind = "echo" /\ gens'[h].at = gens[h].at
         /\ gens'[h].ended = gens[h].ended /\ gens'[h].told = gens[h].told
  BY <1>1
<1>3. CASE echo = Voice!Reading
  BY <1>3 DEF EchoFits, Voice!Reading
<1>4. ASSUME NEW h \in DOMAIN gens, gens[h].kind = "echo",
             \/ echo = [at |-> "read", g |-> h] /\ "synthesis_start" \in gens[h].told
             \/ /\ \E kind \in {"pcm", "end"} : echo = [at |-> "announce", g |-> h, kind |-> kind]
                /\ ~gens[h].ended
             \/ /\ \E at \in {"write", "account"} : \E kind \in {"pcm", "end"} :
                      echo = [at |-> at, g |-> h, kind |-> kind]
                /\ ~gens[h].ended /\ "synthesis_start" \in gens[h].told
             \/ /\ \E cancelled \in BOOLEAN : echo = [at |-> "tell", g |-> h, cancelled |-> cancelled]
                /\ gens[h].at = "echo" /\ gens[h].ended /\ "synthesis_start" \in gens[h].told
      PROVE  EchoFits'
  <2>1. /\ h \in DOMAIN gens' /\ gens'[h].kind = "echo" /\ gens'[h].at = gens[h].at
        /\ gens'[h].ended = gens[h].ended /\ gens'[h].told = gens[h].told
    BY <1>1, <1>2, <1>4
  <2> QED
    BY <1>4, <2>1 DEF EchoFits
<1> QED
  BY <1>3, <1>4 DEF VoiceInv, EchoFits

\* The generation that is being made is a reply that has not ended.
LEMMA EngStays ==
    ASSUME VoiceInv, NEW g \in DOMAIN gens, NEW r, Sound(r), gens' = [gens EXCEPT ![g] = r],
           eng' \in Engine, eng'.synth \in {0, eng.synth},
           r.kind = gens[g].kind, eng'.synth = g => r.at \notin {"tell", "done"}
    PROVE  EngFits'
<1>1. /\ DOMAIN gens' = DOMAIN gens /\ gens'[g] = r
      /\ \A h \in DOMAIN gens : h # g => gens'[h] = gens[h]
  BY OneSet DEF VoiceInv
<1> QED
  BY <1>1 DEF VoiceInv, EngFits

\* What a generation is known to be.
LEMMA GenIs ==
    ASSUME VoiceInv, NEW g \in DOMAIN gens
    PROVE  gens[g] \in Gen /\ Named(gens[g]) /\ Promised(gens[g]) /\ Rendered(gens[g])
  BY DEF VoiceInv, GensFit

\* run: a reply's goroutine moves nothing but its generation and, at its end, the engine's
\* current reply.
LEMMA ReplyMoves ==
    ASSUME VoiceInv, NEW g \in DOMAIN gens, NEW r, Sound(r), gens' = [gens EXCEPT ![g] = r],
           gens[g].at \notin {"admitted", "echo", "done"},
           r.kind = gens[g].kind, r.of = gens[g].of, r.resolved = gens[g].resolved,
           r.reported = gens[g].reported, gens[g].ended => r.ended /\ r.out = gens[g].out,
           UNCHANGED <<ctl, tails, closers, echo, mixed>>, eng' \in Engine,
           eng'.session = eng.session, eng'.life = eng.life, eng'.hears = eng.hears, eng'.input = eng.input,
           eng'.synth \in {0, eng.synth}, eng'.synth = g => r.at \notin {"tell", "done"}
    PROVE  VoiceInv'
<1>1. GensFit' /\ ClosersFit' /\ TailsFit' /\ DrainWhole'
  BY ClosesStay
<1>2. gens[g].kind = "reply"
  BY GenIs DEF Named, Gen
<1>3. CtlFits'
  BY CtlStays
<1>4. EchoFits'
  BY <1>2, EchoStays
<1>5. EngFits'
  BY EngStays
<1> QED
  BY <1>1, <1>3, <1>4, <1>5 DEF VoiceInv

----------------------------------------------------------------------------
(* run, step by step.                                                      *)

LEMMA LookKeeps == ASSUME VoiceInv, NEW g \in DOMAIN gens, Voice!Look(g) PROVE VoiceInv'
<1> PICK at \in {"end", "hush", "speak"} : gens' = [gens EXCEPT ![g] = [gens[g] EXCEPT !.at = at]]
  BY DEF Voice!Look, Voice!Set
<1> DEFINE r == [gens[g] EXCEPT !.at = at]
<1>1. gens[g] \in Gen /\ Named(gens[g]) /\ Promised(gens[g]) /\ Rendered(gens[g]) /\ gens[g].at = "loop"
  BY GenIs DEF Voice!Look
<1>2. Sound(r)
  BY <1>1 DEF Sound, Gen, Named, Promised, Rendered
<1>3. /\ r.at = at /\ r.kind = gens[g].kind /\ r.of = gens[g].of /\ r.resolved = gens[g].resolved
      /\ r.reported = gens[g].reported /\ r.ended = gens[g].ended /\ r.out = gens[g].out
  BY <1>1 DEF Gen
<1>4. eng \in Engine /\ UNCHANGED <<eng, ctl, tails, closers, echo, mixed>>
  BY DEF VoiceInv, EngFits, Voice!Look
<1> HIDE DEF r
<1> QED
  BY <1>1, <1>2, <1>3, <1>4, ReplyMoves DEF r

LEMMA SpeakKeeps == ASSUME VoiceInv, NEW g \in DOMAIN gens, Voice!Speak(g) PROVE VoiceInv'
<1> DEFINE r == IF gens[g].ended \/ gens[g].out = MaxOut
                THEN [gens[g] EXCEPT !.at = "end"]
                ELSE [gens[g] EXCEPT !.at = "loop", !.out = @ + 1, !.carried = TRUE]
<1>1. gens[g] \in Gen /\ Named(gens[g]) /\ Promised(gens[g]) /\ Rendered(gens[g]) /\ gens[g].at = "speak"
  BY GenIs DEF Voice!Speak
<1>2. Sound(r)
  <2>1. CASE gens[g].ended \/ gens[g].out = MaxOut
    BY <1>1, <2>1 DEF Sound, Gen, Named, Promised, Rendered
  <2>2. CASE ~(gens[g].ended \/ gens[g].out = MaxOut)
    <3> DEFINE q == [gens[g] EXCEPT !.at = "loop", !.out = @ + 1, !.carried = TRUE]
    <3>1. q \in Gen
      <4>1. PICK n \in Nat : n = gens[g].out + 1
        BY <1>1 DEF Gen
      <4>2. [gens[g] EXCEPT !.at = "loop", !.out = n, !.carried = TRUE] \in Gen
        BY <1>1 DEF Gen
      <4> QED
        BY <4>1, <4>2
    <3>2. q.at = "loop" /\ q.kind = gens[g].kind /\ q.told = gens[g].told
      BY <1>1 DEF Gen
    <3>3. q.owed = gens[g].owed /\ q.cancelled = gens[g].cancelled /\ q.ended = gens[g].ended
      BY <1>1 DEF Gen
    <3>4. q.drained = gens[g].drained
      BY <1>1 DEF Gen
    <3>5. ~gens[g].ended /\ ~gens[g].drained
      BY <1>1, <2>2 DEF Rendered
    <3>6. Named(q)
      BY <1>1, <3>2 DEF Named, Gen
    <3>7. Promised(q)
      BY <1>1, <3>2, <3>3 DEF Promised
    <3>8. Rendered(q)
      BY <3>4, <3>5 DEF Rendered
    <3>9. r = q
      BY <2>2
    <3> QED
      BY <3>1, <3>6, <3>7, <3>8, <3>9 DEF Sound
  <2> QED
    BY <2>1, <2>2
<1>3. /\ r.at \in {"end", "loop"} /\ r.kind = gens[g].kind /\ r.of = gens[g].of
      /\ r.resolved = gens[g].resolved /\ r.reported = gens[g].reported
      /\ gens[g].ended => r.ended /\ r.out = gens[g].out
  BY <1>1 DEF Gen
<1>4. /\ eng \in Engine /\ UNCHANGED <<eng, ctl, tails, closers, echo, mixed>>
      /\ gens' = [gens EXCEPT ![g] = r]
  BY DEF VoiceInv, EngFits, Voice!Speak, Voice!Set
<1> HIDE DEF r
<1> QED
  BY <1>1, <1>2, <1>3, <1>4, ReplyMoves

LEMMA EndStreamKeeps == ASSUME VoiceInv, NEW g \in DOMAIN gens, Voice!EndStream(g) PROVE VoiceInv'
<1> DEFINE r == [gens[g] EXCEPT !.ended = TRUE, !.carried = TRUE,
                                !.at = IF @ = "hush" THEN "end" ELSE "finish"]
<1>1. /\ gens[g] \in Gen /\ Named(gens[g]) /\ Promised(gens[g]) /\ Rendered(gens[g])
      /\ gens[g].at \in {"hush", "end"}
  BY GenIs DEF Voice!EndStream
<1>2. Sound(r)
  BY <1>1 DEF Sound, Gen, Named, Promised, Rendered
<1>3. /\ r.at \in {"end", "finish"} /\ r.kind = gens[g].kind /\ r.of = gens[g].of
      /\ r.resolved = gens[g].resolved /\ r.reported = gens[g].reported
      /\ r.ended /\ r.out = gens[g].out
  BY <1>1 DEF Gen
<1>4. /\ eng \in Engine /\ UNCHANGED <<eng, ctl, tails, closers, echo, mixed>>
      /\ gens' = [gens EXCEPT ![g] = r]
  BY DEF VoiceInv, EngFits, Voice!EndStream, Voice!Set
<1> HIDE DEF r
<1> QED
  BY <1>1, <1>2, <1>3, <1>4, ReplyMoves

LEMMA ReplyFinishKeeps == ASSUME VoiceInv, NEW g \in DOMAIN gens, Voice!Finish(g) PROVE VoiceInv'
<1> DEFINE r == [gens[g] EXCEPT !.at = "tell", !.cut = gens[g].cancelled, !.owed = @ /\ ~gens[g].cancelled]
<1>1. /\ gens[g] \in Gen /\ Named(gens[g]) /\ Promised(gens[g]) /\ Rendered(gens[g])
      /\ gens[g].at = "finish"
  BY GenIs DEF Voice!Finish
<1>2. Sound(r)
  <2>1. ~(gens[g].owed /\ ~gens[g].cancelled)
    BY <1>1 DEF Promised
  <2>2. r = [gens[g] EXCEPT !.at = "tell", !.cut = gens[g].cancelled, !.owed = FALSE]
    BY <2>1
  <2> HIDE DEF r
  <2> QED
    BY <1>1, <2>2 DEF Sound, Gen, Named, Promised, Rendered
<1>3. /\ r.at = "tell" /\ r.kind = gens[g].kind /\ r.of = gens[g].of
      /\ r.resolved = gens[g].resolved /\ r.reported = gens[g].reported
      /\ r.ended = gens[g].ended /\ r.out = gens[g].out
  BY <1>1 DEF Gen
<1>4. /\ eng' = [eng EXCEPT !.synth = IF @ = g THEN 0 ELSE @]
      /\ UNCHANGED <<ctl, tails, closers, echo, mixed>> /\ gens' = [gens EXCEPT ![g] = r]
  BY DEF Voice!Finish, Voice!Set, Voice!NoGen
<1>5. /\ eng' \in Engine /\ eng'.session = eng.session /\ eng'.life = eng.life /\ eng'.hears = eng.hears
      /\ eng'.input = eng.input /\ eng'.synth = IF eng.synth = g THEN 0 ELSE eng.synth
  BY <1>4 DEF VoiceInv, EngFits, Engine
<1>6. g # 0
  BY DEF VoiceInv, GensFit
<1>7. eng'.synth # g /\ eng'.synth \in {0, eng.synth}
  BY <1>5, <1>6
<1> HIDE DEF r
<1>8. UNCHANGED <<ctl, tails, closers, echo, mixed>> /\ gens' = [gens EXCEPT ![g] = r]
  BY <1>4
<1> QED
  BY <1>1, <1>2, <1>3, <1>5, <1>7, <1>8, ReplyMoves

LEMMA TellKeeps == ASSUME VoiceInv, NEW g \in DOMAIN gens, Voice!Tell(g) PROVE VoiceInv'
<1> PICK type \in Ends : gens' = [gens EXCEPT ![g] = [gens[g] EXCEPT !.told = @ \cup {type}, !.at = "done"]]
  BY DEF Voice!Tell, Voice!Set, Voice!Told, Ends
<1> DEFINE r == [gens[g] EXCEPT !.told = @ \cup {type}, !.at = "done"]
<1>1. /\ gens[g] \in Gen /\ Named(gens[g]) /\ Promised(gens[g]) /\ Rendered(gens[g])
      /\ gens[g].at = "tell"
  BY GenIs DEF Voice!Tell
<1>2. Sound(r)
  BY <1>1 DEF Sound, Gen, Named, Promised, Rendered, Ends
<1>3. /\ r.at = "done" /\ r.kind = gens[g].kind /\ r.of = gens[g].of
      /\ r.resolved = gens[g].resolved /\ r.reported = gens[g].reported
      /\ r.ended = gens[g].ended /\ r.out = gens[g].out
  BY <1>1 DEF Gen
<1>4. eng \in Engine /\ UNCHANGED <<eng, ctl, tails, closers, echo, mixed>>
  BY DEF VoiceInv, EngFits, Voice!Tell
<1>5. eng.synth # g
  BY <1>1 DEF VoiceInv, EngFits, GensFit
<1> HIDE DEF r
<1> QED
  BY <1>1, <1>2, <1>3, <1>4, <1>5, ReplyMoves DEF r

----------------------------------------------------------------------------
(* The controls, step by step.                                             *)

LEMMA OpenKeeps == ASSUME VoiceInv, MaxSessions \in Nat, Voice!Open PROVE VoiceInv'
<1> USE DEF VoiceInv
<1> PICK hears \in BOOLEAN :
       eng' = [session |-> eng.session + 1, life |-> "open", hears |-> hears, fin |-> FALSE,
               input |-> IF hears THEN "accepting" ELSE "absent", synth |-> 0]
  BY DEF Voice!Open, Voice!NoGen
<1>1. /\ eng.life \in {"none", "closed"} /\ eng.session < MaxSessions
      /\ UNCHANGED <<gens, ctl, tails, closers, echo, mixed>>
  BY DEF Voice!Open
<1>2. /\ eng'.session = eng.session + 1 /\ eng'.life = "open" /\ eng'.input # "finished"
      /\ eng'.synth = 0 /\ eng.session \in Nat /\ eng' \in Engine
  BY <1>1 DEF EngFits, Engine
<1>3. GensFit' /\ CtlFits' /\ EchoFits' /\ DrainWhole'
  BY <1>1 DEF GensFit, CtlFits, EchoFits, DrainWhole
<1>4. EngFits'
  BY <1>2 DEF EngFits
<1>5. ClosersFit'
  <2>1. ASSUME NEW s \in Voice!Sessions
        PROVE  closers[s].at # "none" => s <= eng.session /\ s \in Nat
    BY DEF ClosersFit, Voice!Sessions
  <2>2. ASSUME NEW s \in Voice!Sessions
        PROVE  closers[s].at \notin {"wait", "close"}
    BY <1>1 DEF ClosersFit, Closer
  <2> QED
    BY <1>1, <1>2, <2>1, <2>2 DEF ClosersFit
<1>6. TailsFit'
  <2>1. ASSUME NEW s \in Voice!Sessions
        PROVE  tails[s] # "none" => s <= eng.session /\ s \in Nat
    BY DEF TailsFit, Voice!Sessions
  <2> QED
    BY <1>1, <1>2, <2>1 DEF TailsFit
<1> QED
  BY <1>3, <1>4, <1>5, <1>6

\* A new generation is sound, and leaves the others as they are.
LEMMA OneMore ==
    ASSUME VoiceInv, NEW r, Sound(r), gens' = Append(gens, r)
    PROVE  /\ GensFit' /\ Len(gens) + 1 \in DOMAIN gens' /\ gens'[Len(gens) + 1] = r
           /\ DOMAIN gens' = DOMAIN gens \cup {Len(gens) + 1}
           /\ \A g \in DOMAIN gens : g \in DOMAIN gens' /\ gens'[g] = gens[g]
<1>1. gens \in Seq(Gen) /\ r \in Gen
  BY DEF VoiceInv, GensFit, Sound
<1>2. /\ gens' \in Seq(Gen) /\ DOMAIN gens' = DOMAIN gens \cup {Len(gens) + 1}
      /\ gens'[Len(gens) + 1] = r /\ \A g \in DOMAIN gens : gens'[g] = gens[g]
  BY <1>1
<1> QED
  BY <1>2 DEF VoiceInv, GensFit, Sound

\* A generation the engine admits, of the session of that moment.
LEMMA NewIsSound ==
    ASSUME VoiceInv, NEW r, \/ r = Voice!NewGen("reply", "admitted")
                            \/ r = Voice!NewGen("echo", "echo")
    PROVE  Sound(r) /\ r.of = eng.session /\ ~r.ended
<1> PICK n \in Nat : n = eng.session
  BY DEF VoiceInv, EngFits, Engine
<1> PICK k \in {"reply", "echo"}, a \in {"admitted", "echo"} :
       /\ (k = "reply" /\ a = "admitted") \/ (k = "echo" /\ a = "echo")
       /\ r = [kind |-> k, of |-> n, at |-> a, cancelled |-> FALSE, stopped |-> FALSE,
               ended |-> FALSE, carried |-> FALSE, out |-> 0, reported |-> 0, resolved |-> FALSE,
               drained |-> FALSE, owed |-> FALSE, cut |-> FALSE, told |-> {}]
  BY DEF Voice!NewGen
<1>1. r \in Gen
  BY DEF Gen
<1>2. Named(r) /\ Promised(r) /\ Rendered(r)
  BY DEF Named, Promised, Rendered, Ends
<1> QED
  BY <1>1, <1>2 DEF Sound

LEMMA SynthesizeKeeps == ASSUME VoiceInv, Voice!Synthesize PROVE VoiceInv'
<1> PICK g \in Nat : g = Len(gens) + 1
  BY DEF VoiceInv, GensFit
<1> PICK r : r = Voice!NewGen("reply", "admitted")
  OBVIOUS
<1>1. /\ eng.life = "open" /\ gens' = Append(gens, r) /\ eng' = [eng EXCEPT !.synth = g]
      /\ ctl' = [at |-> "announce", g |-> g] /\ UNCHANGED <<tails, closers, echo, mixed>>
  BY DEF Voice!Synthesize
<1>2. Sound(r) /\ r.of = eng.session /\ r.kind = "reply" /\ r.at = "admitted"
  BY NewIsSound DEF Voice!NewGen
<1>3. /\ GensFit' /\ g \in DOMAIN gens' /\ gens'[g] = r /\ DOMAIN gens' = DOMAIN gens \cup {g}
      /\ \A h \in DOMAIN gens : h \in DOMAIN gens' /\ gens'[h] = gens[h]
  BY <1>1, <1>2, OneMore
<1>4. /\ eng' \in Engine /\ eng'.session = eng.session /\ eng'.life = eng.life /\ eng'.hears = eng.hears
      /\ eng'.input = eng.input /\ eng'.synth = g
  BY <1>1 DEF VoiceInv, EngFits, Engine
<1>5. EngFits'
  BY <1>2, <1>3, <1>4 DEF EngFits
<1>6. CtlFits'
  BY <1>1, <1>2, <1>3 DEF CtlFits
<1>7. EchoFits'
  <2>1. echo' = echo
    BY <1>1
  <2> QED
    BY <1>3, <2>1 DEF VoiceInv, EchoFits
<1>8. ClosersFit' /\ TailsFit'
  BY <1>1, <1>4 DEF VoiceInv, ClosersFit, TailsFit, Voice!Sessions
<1>9. DrainWhole'
  <2>1. ASSUME NEW s \in Voice!Sessions, closers[s].at \in {"close", "tell", "done"} PROVE s # eng.session
    BY <1>1, <2>1 DEF VoiceInv, ClosersFit
  <2> QED
    BY <1>1, <1>2, <1>3, <2>1 DEF VoiceInv, DrainWhole
<1> QED
  BY <1>3, <1>5, <1>6, <1>7, <1>8, <1>9 DEF VoiceInv

LEMMA AnnounceKeeps == ASSUME VoiceInv, Voice!Announce PROVE VoiceInv'
<1> PICK g \in DOMAIN gens : /\ ctl = [at |-> "announce", g |-> g]
                             /\ gens[g].kind = "reply" /\ gens[g].at = "admitted"
  BY DEF VoiceInv, CtlFits, Voice!Announce, Voice!Idle
<1> DEFINE r == [gens[g] EXCEPT !.told = @ \cup {"synthesis_start"}, !.at = "loop"]
<1>1. gens[g] \in Gen /\ Named(gens[g]) /\ Promised(gens[g]) /\ Rendered(gens[g])
  BY GenIs
<1>2. Sound(r)
  BY <1>1 DEF Sound, Gen, Named, Promised, Rendered, Ends
<1>3. /\ r.at = "loop" /\ r.kind = "reply" /\ r.of = gens[g].of /\ r.resolved = gens[g].resolved
  BY <1>1 DEF Gen
<1>4. gens' = [gens EXCEPT ![g] = r] /\ ctl' = Voice!Idle /\ UNCHANGED <<eng, tails, closers, echo, mixed>>
  BY DEF Voice!Announce, Voice!Set, Voice!Told
<1> HIDE DEF r
<1>5. GensFit' /\ ClosersFit' /\ TailsFit' /\ DrainWhole'
  BY <1>2, <1>3, <1>4, ClosesStay
<1>6. CtlFits'
  BY <1>4 DEF CtlFits
<1>7. EchoFits'
  BY <1>2, <1>3, <1>4, EchoStays
<1>8. EngFits'
  BY <1>2, <1>3, <1>4, EngStays DEF VoiceInv, EngFits
<1> QED
  BY <1>5, <1>6, <1>7, <1>8 DEF VoiceInv

LEMMA CancelKeeps == ASSUME VoiceInv, Voice!Cancel PROVE VoiceInv'
<1> PICK g \in DOMAIN gens : /\ Voice!Cancellable(g)
                             /\ gens' = [gens EXCEPT ![g] = [gens[g] EXCEPT !.cancelled = TRUE, !.owed = TRUE]]
  BY DEF Voice!Cancel, Voice!Set
<1> DEFINE r == [gens[g] EXCEPT !.cancelled = TRUE, !.owed = TRUE]
<1>1. gens[g] \in Gen /\ Named(gens[g]) /\ Promised(gens[g]) /\ Rendered(gens[g])
  BY GenIs
<1>2. \/ ~gens[g].ended
      \/ gens[g].kind = "reply" /\ gens[g].at \notin {"tell", "done"}
  <2>1. g # 0
    BY DEF VoiceInv, GensFit
  <2> QED
    BY <2>1 DEF Voice!Cancellable, VoiceInv, EngFits
<1>3. gens[g].at \notin {"tell", "done"} /\ (gens[g].kind = "echo" => ~gens[g].ended)
  BY <1>1, <1>2 DEF Promised
<1>4. Sound(r)
  BY <1>1, <1>3 DEF Sound, Gen, Named, Promised, Rendered
<1>5. /\ r.at = gens[g].at /\ r.kind = gens[g].kind /\ r.of = gens[g].of /\ r.resolved = gens[g].resolved
      /\ r.reported = gens[g].reported /\ r.ended = gens[g].ended /\ r.out = gens[g].out
      /\ r.told = gens[g].told
  BY <1>1 DEF Gen
<1>6. UNCHANGED <<eng, ctl, tails, closers, echo, mixed>> /\ eng \in Engine
  BY DEF Voice!Cancel, VoiceInv, EngFits
<1>7. gens' = [gens EXCEPT ![g] = r]
  OBVIOUS
<1> HIDE DEF r
<1>8. GensFit' /\ ClosersFit' /\ TailsFit' /\ DrainWhole'
  BY <1>4, <1>5, <1>6, <1>7, ClosesStay
<1>9. CtlFits' /\ EchoFits'
  BY <1>4, <1>5, <1>6, <1>7, CtlStays, EchoStays
<1>10. EngFits'
  BY <1>3, <1>4, <1>5, <1>6, <1>7, EngStays
<1> QED
  BY <1>8, <1>9, <1>10 DEF VoiceInv

LEMMA StopKeeps == ASSUME VoiceInv, Voice!Stop PROVE VoiceInv'
<1> PICK g \in DOMAIN gens : gens' = [gens EXCEPT ![g] = [gens[g] EXCEPT !.stopped = TRUE]]
  BY DEF Voice!Stop, Voice!Set
<1> DEFINE r == [gens[g] EXCEPT !.stopped = TRUE]
<1>1. gens[g] \in Gen /\ Named(gens[g]) /\ Promised(gens[g]) /\ Rendered(gens[g])
  BY GenIs
<1>2. Sound(r)
  BY <1>1 DEF Sound, Gen, Named, Promised, Rendered
<1>3. /\ r.at = gens[g].at /\ r.kind = gens[g].kind /\ r.of = gens[g].of /\ r.resolved = gens[g].resolved
      /\ r.reported = gens[g].reported /\ r.ended = gens[g].ended /\ r.out = gens[g].out
      /\ r.told = gens[g].told
  BY <1>1 DEF Gen
<1>4. UNCHANGED <<eng, ctl, tails, closers, echo, mixed>> /\ eng \in Engine
  BY DEF Voice!Stop, VoiceInv, EngFits
<1>5. gens' = [gens EXCEPT ![g] = r]
  OBVIOUS
<1>6. eng.synth = g => gens[g].at \notin {"tell", "done"}
  BY DEF VoiceInv, EngFits, GensFit
<1> HIDE DEF r
<1>7. GensFit' /\ ClosersFit' /\ TailsFit' /\ DrainWhole'
  BY <1>2, <1>3, <1>4, <1>5, ClosesStay
<1>8. CtlFits' /\ EchoFits'
  BY <1>2, <1>3, <1>4, <1>5, CtlStays, EchoStays
<1>9. EngFits'
  BY <1>2, <1>3, <1>4, <1>5, <1>6, EngStays
<1> QED
  BY <1>7, <1>8, <1>9 DEF VoiceInv

LEMMA FinishInputKeeps == ASSUME VoiceInv, Voice!FinishInput PROVE VoiceInv'
<1>1. /\ eng.life = "open" /\ eng.hears /\ tails' = [tails EXCEPT ![eng.session] = "due"]
      /\ eng' = [eng EXCEPT !.fin = TRUE, !.input = "finishing"]
      /\ UNCHANGED <<gens, ctl, closers, echo, mixed>>
  BY DEF Voice!FinishInput
<1>2. /\ eng' \in Engine /\ eng'.session = eng.session /\ eng'.life = eng.life /\ eng'.hears
      /\ eng'.input = "finishing" /\ eng'.synth = eng.synth
  BY <1>1 DEF VoiceInv, EngFits, Engine
<1>3. GensFit' /\ CtlFits' /\ EchoFits'
  BY <1>1 DEF VoiceInv, GensFit, CtlFits, EchoFits
<1>4. EngFits'
  BY <1>1, <1>2 DEF VoiceInv, EngFits
<1>5. ClosersFit'
  BY <1>1, <1>2 DEF VoiceInv, ClosersFit
<1>6. TailsFit'
  <2>1. tails' \in [Voice!Sessions -> {"none", "due", "done"}]
    BY <1>1 DEF VoiceInv, TailsFit
  <2>2. ASSUME NEW s \in Voice!Sessions, tails'[s] # "none"
        PROVE  s <= eng'.session /\ (s = eng'.session => eng'.hears)
    BY <1>1, <1>2, <2>2 DEF VoiceInv, TailsFit, Voice!Sessions
  <2> QED
    BY <1>2, <2>1, <2>2 DEF TailsFit
<1>7. DrainWhole'
  <2>1. ASSUME NEW s \in Voice!Sessions, closers[s].at \in {"close", "tell", "done"}
        PROVE  tails'[s] = tails[s]
    BY <1>1, <2>1 DEF VoiceInv, ClosersFit, TailsFit
  <2> QED
    BY <1>1, <2>1 DEF VoiceInv, DrainWhole
<1> QED
  BY <1>3, <1>4, <1>5, <1>6, <1>7 DEF VoiceInv

LEMMA ReportKeeps == ASSUME VoiceInv, Voice!Report PROVE VoiceInv'
<1> PICK g \in DOMAIN gens :
       \E n \in gens[g].reported .. gens[g].out, terminal \in BOOLEAN :
          /\ ~gens[g].resolved
          /\ IF terminal THEN Voice!TerminalFits(g, n) ELSE n > gens[g].reported
          /\ gens' = [gens EXCEPT ![g] = [gens[g] EXCEPT !.reported = n]]
          /\ ctl' = IF terminal THEN [at |-> "resolve", g |-> g,
                                      drained |-> ~gens[g].stopped /\ ~gens[g].cancelled]
                    ELSE Voice!Idle
  BY DEF Voice!Report, Voice!Set
<1> PICK n \in gens[g].reported .. gens[g].out, terminal \in BOOLEAN :
       /\ ~gens[g].resolved
       /\ IF terminal THEN Voice!TerminalFits(g, n) ELSE n > gens[g].reported
       /\ gens' = [gens EXCEPT ![g] = [gens[g] EXCEPT !.reported = n]]
       /\ ctl' = IF terminal THEN [at |-> "resolve", g |-> g,
                                   drained |-> ~gens[g].stopped /\ ~gens[g].cancelled]
                 ELSE Voice!Idle
  OBVIOUS
<1> DEFINE r == [gens[g] EXCEPT !.reported = n]
<1>1. gens[g] \in Gen /\ Named(gens[g]) /\ Promised(gens[g]) /\ Rendered(gens[g])
  BY GenIs
<1>2. n \in Nat
  BY <1>1 DEF Gen
<1>3. ~gens[g].drained
  BY <1>1 DEF Rendered
<1>4. r \in Gen
  BY <1>1, <1>2 DEF Gen
<1>5. /\ r.at = gens[g].at /\ r.kind = gens[g].kind /\ r.of = gens[g].of /\ r.resolved = gens[g].resolved
      /\ r.reported = n /\ r.ended = gens[g].ended /\ r.out = gens[g].out
      /\ r.told = gens[g].told
  BY <1>1 DEF Gen
<1>6. /\ r.carried = gens[g].carried /\ r.owed = gens[g].owed /\ r.cancelled = gens[g].cancelled
      /\ r.drained = gens[g].drained
  BY <1>1 DEF Gen
<1>7. gens' = [gens EXCEPT ![g] = r]
  OBVIOUS
<1> HIDE DEF r
<1>8. Sound(r)
  <2>1. Named(r)
    BY <1>1, <1>5, <1>6 DEF Named
  <2>2. Promised(r)
    BY <1>1, <1>5, <1>6 DEF Promised
  <2>3. Rendered(r)
    BY <1>3, <1>6 DEF Rendered
  <2> QED
    BY <1>4, <2>1, <2>2, <2>3 DEF Sound
<1>9. UNCHANGED <<eng, tails, closers, echo, mixed>> /\ eng \in Engine
  BY DEF Voice!Report, VoiceInv, EngFits
<1>10. eng.synth = g => gens[g].at \notin {"tell", "done"}
  BY DEF VoiceInv, EngFits, GensFit
<1>11. GensFit' /\ ClosersFit' /\ TailsFit' /\ DrainWhole'
  BY <1>5, <1>7, <1>8, <1>9, ClosesStay
<1>12. EchoFits'
  BY <1>5, <1>7, <1>8, <1>9, EchoStays
<1>13. EngFits'
  BY <1>5, <1>7, <1>8, <1>9, <1>10, EngStays
<1>14. CtlFits'
  <2>1. DOMAIN gens' = DOMAIN gens /\ gens'[g] = r
    BY <1>7, <1>8, OneSet DEF VoiceInv
  <2>2. CASE ~terminal
    BY <2>2 DEF CtlFits
  <2>3. CASE terminal /\ ~(~gens[g].stopped /\ ~gens[g].cancelled)
    <3>1. ctl' = [at |-> "resolve", g |-> g, drained |-> FALSE]
      BY <2>3
    <3> QED
      BY <2>1, <3>1 DEF CtlFits
  <2>4. CASE terminal /\ ~gens[g].stopped /\ ~gens[g].cancelled
    <3>1. ctl' = [at |-> "resolve", g |-> g, drained |-> TRUE]
      BY <2>4
    <3>2. gens[g].ended /\ n = gens[g].out
      BY <2>4 DEF Voice!TerminalFits
    <3>3. g \in DOMAIN gens' /\ gens'[g].ended /\ gens'[g].reported = gens'[g].out
      BY <1>5, <2>1, <3>2, ZenonT(60)
    <3> QED
      BY <3>1, <3>3 DEF CtlFits
  <2> QED
    BY <2>2, <2>3, <2>4
<1> QED
  BY <1>11, <1>12, <1>13, <1>14 DEF VoiceInv

LEMMA ResolveKeeps == ASSUME VoiceInv, Voice!Resolve PROVE VoiceInv'
<1> PICK g \in DOMAIN gens :
       \/ ctl = [at |-> "resolve", g |-> g, drained |-> FALSE]
       \/ /\ ctl = [at |-> "resolve", g |-> g, drained |-> TRUE]
          /\ gens[g].ended /\ gens[g].reported = gens[g].out
  BY DEF VoiceInv, CtlFits, Voice!Resolve, Voice!Idle
<1> PICK d \in BOOLEAN :
       /\ ctl = [at |-> "resolve", g |-> g, drained |-> d]
       /\ d => gens[g].ended /\ gens[g].reported = gens[g].out
  OBVIOUS
<1> DEFINE r == [gens[g] EXCEPT !.resolved = TRUE, !.drained = d]
<1>1. gens[g] \in Gen /\ Named(gens[g]) /\ Promised(gens[g]) /\ Rendered(gens[g])
  BY GenIs
<1>2. r \in Gen
  BY <1>1 DEF Gen
<1>3. /\ r.at = gens[g].at /\ r.kind = gens[g].kind /\ r.of = gens[g].of /\ r.resolved
      /\ r.reported = gens[g].reported /\ r.ended = gens[g].ended /\ r.out = gens[g].out
      /\ r.told = gens[g].told
  BY <1>1 DEF Gen
<1>4. /\ r.carried = gens[g].carried /\ r.owed = gens[g].owed /\ r.cancelled = gens[g].cancelled
      /\ r.drained = d
  BY <1>1 DEF Gen
<1>5. /\ gens' = [gens EXCEPT ![g] = r] /\ ctl' = Voice!Idle /\ eng \in Engine
      /\ UNCHANGED <<eng, tails, closers, echo, mixed>>
  BY DEF Voice!Resolve, Voice!Set, VoiceInv, EngFits
<1> HIDE DEF r
<1>6. Sound(r)
  <2>1. Named(r)
    BY <1>1, <1>3, <1>4 DEF Named
  <2>2. Promised(r)
    BY <1>1, <1>3, <1>4 DEF Promised
  <2>3. Rendered(r)
    BY <1>3, <1>4 DEF Rendered
  <2> QED
    BY <1>2, <2>1, <2>2, <2>3 DEF Sound
<1>7. eng.synth = g => gens[g].at \notin {"tell", "done"}
  BY DEF VoiceInv, EngFits, GensFit
<1>8. GensFit' /\ ClosersFit' /\ TailsFit' /\ DrainWhole'
  BY <1>3, <1>5, <1>6, ClosesStay
<1>9. EchoFits'
  BY <1>3, <1>5, <1>6, EchoStays
<1>10. EngFits'
  BY <1>3, <1>5, <1>6, <1>7, EngStays
<1>11. CtlFits'
  BY <1>5 DEF CtlFits
<1> QED
  BY <1>8, <1>9, <1>10, <1>11 DEF VoiceInv

LEMMA CloseKeeps == ASSUME VoiceInv, Voice!Close PROVE VoiceInv'
<1>1. /\ eng.life = "open" /\ UNCHANGED <<ctl, tails, echo, mixed>>
      /\ closers' = [closers EXCEPT ![eng.session] = [at |-> "wait", mode |-> eng'.life, g |-> eng.synth]]
  BY DEF Voice!Close
<1>2. PICK life \in {"draining", "aborting"} : eng' = [eng EXCEPT !.life = life]
  BY DEF Voice!Close
<1>3. /\ eng \in Engine /\ eng' \in Engine /\ eng'.session = eng.session /\ eng'.life = life
      /\ eng'.hears = eng.hears /\ eng'.input = eng.input /\ eng'.synth = eng.synth
  BY <1>2 DEF VoiceInv, EngFits, Engine
<1>4. /\ gens' \in Seq(Gen) /\ DOMAIN gens' = DOMAIN gens
      /\ \A g \in DOMAIN gens :
           /\ Named(gens'[g]) /\ Promised(gens'[g]) /\ Rendered(gens'[g])
           /\ gens'[g].kind = gens[g].kind /\ gens'[g].at = gens[g].at /\ gens'[g].told = gens[g].told
           /\ gens'[g].ended = gens[g].ended /\ gens'[g].reported = gens[g].reported
           /\ gens'[g].out = gens[g].out
           /\ gens'[g].of = gens[g].of /\ gens'[g].resolved = gens[g].resolved
  <2>1. CASE gens' = gens
    BY <2>1, GenIs DEF VoiceInv, GensFit
  <2>2. CASE gens' = [g \in DOMAIN gens |->
                        Voice!Fenced(IF g = eng.synth
                                     THEN [gens[g] EXCEPT !.cancelled = TRUE, !.stopped = TRUE]
                                     ELSE gens[g])]
    <3>1. ASSUME NEW g \in DOMAIN gens
          PROVE  /\ gens'[g] \in Gen
                 /\ Named(gens'[g]) /\ Promised(gens'[g]) /\ Rendered(gens'[g])
                 /\ gens'[g].kind = gens[g].kind /\ gens'[g].at = gens[g].at /\ gens'[g].told = gens[g].told
                 /\ gens'[g].ended = gens[g].ended /\ gens'[g].reported = gens[g].reported
                 /\ gens'[g].out = gens[g].out
                 /\ gens'[g].of = gens[g].of /\ gens'[g].resolved = gens[g].resolved
      <4> DEFINE r == [gens[g] EXCEPT !.cancelled = TRUE, !.stopped = TRUE]
      <4>1. gens[g] \in Gen /\ Named(gens[g]) /\ Promised(gens[g]) /\ Rendered(gens[g])
        BY GenIs
      <4>2. r \in Gen /\ Named(r) /\ Promised(r) /\ Rendered(r)
        BY <4>1 DEF Gen, Named, Promised, Rendered
      <4>3. /\ r.kind = gens[g].kind /\ r.at = gens[g].at /\ r.told = gens[g].told
            /\ r.ended = gens[g].ended /\ r.reported = gens[g].reported /\ r.out = gens[g].out
            /\ r.of = gens[g].of /\ r.resolved = gens[g].resolved
        BY <4>1 DEF Gen
      <4>4. [r EXCEPT !.cancelled = TRUE, !.stopped = TRUE] = r
        BY <4>1 DEF Gen
      <4>5. gens'[g] \in {gens[g], r}
        BY <2>2, <4>4 DEF Voice!Fenced
      <4> HIDE DEF r
      <4> QED
        BY <4>1, <4>2, <4>3, <4>5
    <3>2. PICK n \in Nat : DOMAIN gens = 1 .. n
      BY DEF VoiceInv, GensFit
    <3>3. DOMAIN gens' = 1 .. n /\ gens' \in [1 .. n -> Gen]
      BY <2>2, <3>1, <3>2
    <3> QED
      BY <3>1, <3>2, <3>3
  <2> QED
    BY <2>1, <2>2 DEF Voice!Close
<1>5. GensFit'
  BY <1>4 DEF GensFit
<1>6. EngFits'
  BY <1>3, <1>4 DEF VoiceInv, EngFits
<1>7. CtlFits'
  BY <1>1, <1>4 DEF VoiceInv, CtlFits
<1>8. EchoFits'
  <2>1. echo' = echo /\ EchoFits
    BY <1>1 DEF VoiceInv
  <2> QED
    BY <1>4, <2>1 DEF EchoFits
<1>9. ClosersFit'
  <2>1. [at |-> "wait", mode |-> life, g |-> eng.synth] \in Closer
    BY <1>3 DEF Engine, Closer
  <2>2. /\ closers \in [Voice!Sessions -> Closer]
        /\ closers' = [closers EXCEPT ![eng.session] = [at |-> "wait", mode |-> life, g |-> eng.synth]]
    BY <1>1, <1>3 DEF VoiceInv, ClosersFit
  <2>3. ASSUME NEW s \in Voice!Sessions, s # eng.session
        PROVE  closers'[s] = closers[s] /\ closers[s].at \notin {"wait", "close"}
               /\ (closers[s].at # "none" => s <= eng.session)
    BY <2>2, <2>3 DEF VoiceInv, ClosersFit
  <2>4. ASSUME NEW s \in Voice!Sessions, s = eng.session
        PROVE  closers'[s].at = "wait" /\ closers'[s].mode = life /\ s <= eng.session
    BY <2>2, <2>4 DEF Voice!Sessions
  <2>5. closers' \in [Voice!Sessions -> Closer]
    BY <2>1, <2>2
  <2> QED
    BY <1>3, <2>3, <2>4, <2>5 DEF ClosersFit
<1>10. TailsFit'
  BY <1>1, <1>3 DEF VoiceInv, TailsFit
<1>11. DrainWhole'
  <2>1. ASSUME NEW s \in Voice!Sessions, closers'[s].at \in {"close", "tell", "done"}
        PROVE  closers'[s] = closers[s]
    BY <1>1, <2>1 DEF VoiceInv, ClosersFit
  <2> QED
    BY <1>1, <1>4, <2>1 DEF VoiceInv, DrainWhole
<1> QED
  BY <1>5, <1>6, <1>7, <1>8, <1>9, <1>10, <1>11 DEF VoiceInv

----------------------------------------------------------------------------
(* The goroutines beside the controls: a tail, a close, the echo.          *)

LEMMA FinishTailKeeps ==
    ASSUME VoiceInv, NEW s \in Voice!Sessions, Voice!FinishTail(s)
    PROVE  VoiceInv'
<1>1. /\ tails[s] = "due" /\ tails' = [tails EXCEPT ![s] = "done"]
      /\ eng' = [eng EXCEPT !.input = "finished"]
      /\ mixed' = IF s = eng.session THEN mixed ELSE mixed \cup {eng.session}
      /\ UNCHANGED <<gens, ctl, closers, echo>>
  BY DEF Voice!FinishTail
<1>2. /\ eng' \in Engine /\ eng'.session = eng.session /\ eng'.life = eng.life /\ eng'.hears = eng.hears
      /\ eng'.synth = eng.synth
  BY <1>1 DEF VoiceInv, EngFits, Engine
<1>3. GensFit' /\ CtlFits' /\ EchoFits'
  BY <1>1 DEF VoiceInv, GensFit, CtlFits, EchoFits
<1>4. EngFits'
  BY <1>1, <1>2 DEF VoiceInv, EngFits
<1>5. ClosersFit'
  BY <1>1, <1>2 DEF VoiceInv, ClosersFit
<1>6. tails' \in [Voice!Sessions -> {"none", "due", "done"}]
  BY <1>1 DEF VoiceInv, TailsFit
<1>7. tails'[s] = "done" /\ \A t \in Voice!Sessions : t # s => tails'[t] = tails[t]
  BY <1>1 DEF VoiceInv, TailsFit
<1>8. TailsFit'
  <2>1. ASSUME NEW t \in Voice!Sessions, tails'[t] # "none"
        PROVE  t <= eng.session /\ (t = eng.session => eng.hears)
    BY <1>1, <1>7, <2>1 DEF VoiceInv, TailsFit
  <2>2. tails'[eng.session] = "done" \/ eng.session \in mixed'
    BY <1>1, <1>7
  <2> QED
    BY <1>2, <1>6, <2>1, <2>2 DEF TailsFit
<1>9. DrainWhole'
  BY <1>1, <1>7 DEF VoiceInv, DrainWhole
<1> QED
  BY <1>3, <1>4, <1>5, <1>8, <1>9 DEF VoiceInv

\* A close moves on: nothing but its own entry and the engine's life changes.
LEMMA CloserMoves ==
    ASSUME VoiceInv, NEW s \in Voice!Sessions, NEW at \in {"close", "tell", "done"},
           closers[s].at # "none", closers' = [closers EXCEPT ![s].at = at]
    PROVE  /\ closers' \in [Voice!Sessions -> Closer]
           /\ closers'[s].at = at /\ closers'[s].mode = closers[s].mode
           /\ \A t \in Voice!Sessions : t # s => closers'[t] = closers[t]
<1>1. /\ closers \in [Voice!Sessions -> Closer]
      /\ closers[s] \in [at : {"wait", "close", "tell", "done"}, mode : {"draining", "aborting"}, g : Nat]
  BY DEF VoiceInv, ClosersFit, Closer
<1>2. [closers[s] EXCEPT !.at = at] \in Closer
  BY <1>1 DEF Closer
<1>3. [closers[s] EXCEPT !.at = at].at = at /\ [closers[s] EXCEPT !.at = at].mode = closers[s].mode
  BY <1>1
<1>4. closers' = [closers EXCEPT ![s] = [closers[s] EXCEPT !.at = at]]
  OBVIOUS
<1> QED
  BY <1>1, <1>2, <1>3, <1>4

LEMMA CloseWaitsKeeps ==
    ASSUME VoiceInv, NEW s \in Voice!Sessions, Voice!CloseWaits(s)
    PROVE  VoiceInv'
<1>1. /\ closers[s].at = "wait" /\ closers' = [closers EXCEPT ![s].at = "close"]
      /\ closers[s].mode = "draining" => (eng.hears => eng.input = "finished") /\ Voice!Pending = {}
      /\ UNCHANGED <<eng, gens, ctl, tails, echo, mixed>>
  BY DEF Voice!CloseWaits
<1>2. /\ closers' \in [Voice!Sessions -> Closer]
      /\ closers'[s].at = "close" /\ closers'[s].mode = closers[s].mode
      /\ \A t \in Voice!Sessions : t # s => closers'[t] = closers[t]
  BY <1>1, CloserMoves
<1>3. s = eng.session /\ eng.life = closers[s].mode
  BY <1>1 DEF VoiceInv, ClosersFit
<1>4. GensFit' /\ EngFits' /\ CtlFits' /\ EchoFits' /\ TailsFit'
  BY <1>1 DEF VoiceInv, GensFit, EngFits, CtlFits, EchoFits, TailsFit
<1>5. ClosersFit'
  BY <1>1, <1>2, <1>3 DEF VoiceInv, ClosersFit
<1>6. DrainWhole'
  <2>1. ASSUME closers[s].mode = "draining"
        PROVE  /\ tails[s] = "due" => s \in mixed
               /\ \A g \in DOMAIN gens : gens[g].of = s /\ gens[g].kind = "reply" => gens[g].resolved
    <3>1. tails[s] = "due" => s \in mixed
      <4>1. tails[s] = "due" => eng.hears /\ eng.session > 0
        BY <1>3 DEF VoiceInv, TailsFit, Voice!Sessions
      <4> QED
        BY <1>1, <1>3, <2>1, <4>1 DEF VoiceInv, TailsFit
    <3>2. \A g \in DOMAIN gens : gens[g].of = s => gens[g].resolved
      BY <1>1, <1>3, <2>1 DEF Voice!Pending, Voice!Ours
    <3> QED
      BY <3>1, <3>2
  <2> QED
    BY <1>1, <1>2, <2>1 DEF VoiceInv, DrainWhole
<1> QED
  BY <1>4, <1>5, <1>6 DEF VoiceInv

LEMMA CloseEndsKeeps ==
    ASSUME VoiceInv, NEW s \in Voice!Sessions, Voice!CloseEnds(s)
    PROVE  VoiceInv'
<1>1. /\ closers[s].at = "close" /\ closers' = [closers EXCEPT ![s].at = "tell"]
      /\ eng' = [eng EXCEPT !.life = "closed"]
      /\ UNCHANGED <<gens, ctl, tails, echo, mixed>>
  BY DEF Voice!CloseEnds
<1>2. /\ closers' \in [Voice!Sessions -> Closer]
      /\ closers'[s].at = "tell" /\ closers'[s].mode = closers[s].mode
      /\ \A t \in Voice!Sessions : t # s => closers'[t] = closers[t]
  BY <1>1, CloserMoves
<1>3. s = eng.session
  BY <1>1 DEF VoiceInv, ClosersFit
<1>4. /\ eng' \in Engine /\ eng'.session = eng.session /\ eng'.life = "closed" /\ eng'.hears = eng.hears
      /\ eng'.input = eng.input /\ eng'.synth = eng.synth
  BY <1>1 DEF VoiceInv, EngFits, Engine
<1>5. GensFit' /\ CtlFits' /\ EchoFits'
  BY <1>1 DEF VoiceInv, GensFit, CtlFits, EchoFits
<1>6. EngFits' /\ TailsFit'
  BY <1>1, <1>4 DEF VoiceInv, EngFits, TailsFit
<1>7. ClosersFit'
  BY <1>1, <1>2, <1>3, <1>4 DEF VoiceInv, ClosersFit
<1>8. DrainWhole'
  BY <1>1, <1>2 DEF VoiceInv, DrainWhole
<1> QED
  BY <1>5, <1>6, <1>7, <1>8 DEF VoiceInv

LEMMA CloseTellsKeeps ==
    ASSUME VoiceInv, NEW s \in Voice!Sessions, Voice!CloseTells(s)
    PROVE  VoiceInv'
<1>1. /\ closers[s].at = "tell" /\ closers' = [closers EXCEPT ![s].at = "done"]
      /\ UNCHANGED <<eng, gens, ctl, tails, echo, mixed>>
  BY DEF Voice!CloseTells
<1>2. /\ closers' \in [Voice!Sessions -> Closer]
      /\ closers'[s].at = "done" /\ closers'[s].mode = closers[s].mode
      /\ \A t \in Voice!Sessions : t # s => closers'[t] = closers[t]
  BY <1>1, CloserMoves
<1>3. GensFit' /\ EngFits' /\ CtlFits' /\ EchoFits' /\ TailsFit'
  BY <1>1 DEF VoiceInv, GensFit, EngFits, CtlFits, EchoFits, TailsFit
<1>4. ClosersFit'
  BY <1>1, <1>2 DEF VoiceInv, ClosersFit
<1>5. DrainWhole'
  BY <1>1, <1>2 DEF VoiceInv, DrainWhole
<1> QED
  BY <1>3, <1>4, <1>5 DEF VoiceInv

\* echoAudio moves its own generation, which no control waits for the audio of.
LEMMA EchoMoves ==
    ASSUME VoiceInv, NEW g \in DOMAIN gens, NEW r, Sound(r), gens' = [gens EXCEPT ![g] = r],
           gens[g].kind = "echo", r.kind = "echo", r.of = gens[g].of, r.resolved = gens[g].resolved,
           r.reported = gens[g].reported, gens[g].ended => r.ended /\ r.out = gens[g].out,
           UNCHANGED <<eng, ctl, tails, closers, mixed>>
    PROVE  GensFit' /\ EngFits' /\ CtlFits' /\ ClosersFit' /\ TailsFit' /\ DrainWhole'
<1>1. gens[g].at # "admitted"
  BY GenIs DEF Named
<1>2. eng.synth # g /\ eng \in Engine
  BY DEF VoiceInv, EngFits, GensFit
<1>3. GensFit' /\ ClosersFit' /\ TailsFit' /\ DrainWhole'
  BY ClosesStay
<1>4. CtlFits'
  BY <1>1, CtlStays
<1>5. EngFits'
  BY <1>2, EngStays
<1> QED
  BY <1>3, <1>4, <1>5

LEMMA EchoReadKeeps == ASSUME VoiceInv, Voice!EchoRead PROVE VoiceInv'
<1>1. UNCHANGED <<eng, ctl, tails, closers, mixed>> /\ echo.at = "read"
  BY DEF Voice!EchoRead
<1>2. ASSUME NEW kind \in {"pcm", "end"}, gens' = Append(gens, Voice!NewGen("echo", "echo")),
             echo' = [at |-> "announce", g |-> Len(gens) + 1, kind |-> kind]
      PROVE  VoiceInv'
  <2> PICK g \in Nat : g = Len(gens) + 1
    BY DEF VoiceInv, GensFit
  <2> PICK r : r = Voice!NewGen("echo", "echo")
    OBVIOUS
  <2>1. Sound(r) /\ r.of = eng.session /\ r.kind = "echo" /\ ~r.ended
    BY NewIsSound DEF Voice!NewGen
  <2>2. /\ GensFit' /\ g \in DOMAIN gens' /\ gens'[g] = r /\ DOMAIN gens' = DOMAIN gens \cup {g}
        /\ \A h \in DOMAIN gens : h \in DOMAIN gens' /\ gens'[h] = gens[h]
    BY <1>2, <2>1, OneMore
  <2>3. EngFits'
    BY <1>1, <2>2 DEF VoiceInv, EngFits
  <2>4. CtlFits'
    <3>1. ctl' = ctl
      BY <1>1
    <3> QED
      BY <2>2, <3>1 DEF VoiceInv, CtlFits
  <2>5. EchoFits'
    BY <1>2, <2>1, <2>2 DEF EchoFits
  <2>6. ClosersFit' /\ TailsFit'
    BY <1>1 DEF VoiceInv, ClosersFit, TailsFit
  <2>7. DrainWhole'
    BY <1>1, <2>1, <2>2 DEF VoiceInv, DrainWhole
  <2> QED
    BY <2>2, <2>3, <2>4, <2>5, <2>6, <2>7 DEF VoiceInv
<1>3. ASSUME echo.g # 0, ~gens[echo.g].ended, UNCHANGED gens,
             \E kind \in {"pcm", "end"} : echo' = [at |-> "write", g |-> echo.g, kind |-> kind]
      PROVE  VoiceInv'
  <2>1. PICK g \in DOMAIN gens : /\ gens[g].kind = "echo" /\ echo = [at |-> "read", g |-> g]
                                 /\ "synthesis_start" \in gens[g].told
    BY <1>1, <1>3 DEF VoiceInv, EchoFits, Voice!Reading, Voice!NoGen
  <2>2. EchoFits'
    BY <1>3, <2>1 DEF EchoFits
  <2>3. GensFit' /\ EngFits' /\ CtlFits' /\ ClosersFit' /\ TailsFit' /\ DrainWhole'
    BY <1>1, <1>3 DEF VoiceInv, GensFit, EngFits, CtlFits, ClosersFit, TailsFit, DrainWhole
  <2> QED
    BY <2>2, <2>3 DEF VoiceInv
<1>4. PICK kind \in {"pcm", "end"} :
         \/ /\ gens' = Append(gens, Voice!NewGen("echo", "echo"))
            /\ echo' = [at |-> "announce", g |-> Len(gens) + 1, kind |-> kind]
         \/ /\ echo.g # 0 /\ ~gens[echo.g].ended /\ UNCHANGED gens
            /\ echo' = [at |-> "write", g |-> echo.g,
                        kind |-> IF gens[echo.g].cancelled \/ gens[echo.g].stopped THEN "end" ELSE kind]
  BY DEF Voice!EchoRead, Voice!NoGen
<1> QED
  BY <1>2, <1>3, <1>4

LEMMA EchoAnnounceKeeps == ASSUME VoiceInv, Voice!EchoAnnounce PROVE VoiceInv'
<1> PICK g \in DOMAIN gens, kind \in {"pcm", "end"} :
       /\ gens[g].kind = "echo" /\ echo = [at |-> "announce", g |-> g, kind |-> kind] /\ ~gens[g].ended
  BY DEF VoiceInv, EchoFits, Voice!EchoAnnounce, Voice!Reading
<1> DEFINE r == [gens[g] EXCEPT !.told = @ \cup {"synthesis_start"}, !.at = "echo"]
<1>1. gens[g] \in Gen /\ Named(gens[g]) /\ Promised(gens[g]) /\ Rendered(gens[g])
  BY GenIs
<1>2. gens[g].at = "echo"
  BY <1>1 DEF Named, Promised
<1>3. Sound(r)
  BY <1>1, <1>2 DEF Sound, Gen, Named, Promised, Rendered, Ends
<1>4. /\ r.kind = "echo" /\ r.of = gens[g].of /\ r.resolved = gens[g].resolved
      /\ r.reported = gens[g].reported /\ r.ended = gens[g].ended /\ r.out = gens[g].out
      /\ "synthesis_start" \in r.told
  BY <1>1 DEF Gen
<1>5. /\ gens' = [gens EXCEPT ![g] = r] /\ UNCHANGED <<eng, ctl, tails, closers, mixed>>
      /\ echo' = [at |-> "write", g |-> g, kind |-> kind]
  BY DEF Voice!EchoAnnounce, Voice!Set, Voice!Told
<1> HIDE DEF r
<1>6. GensFit' /\ EngFits' /\ CtlFits' /\ ClosersFit' /\ TailsFit' /\ DrainWhole'
  BY <1>3, <1>4, <1>5, EchoMoves
<1>7. g \in DOMAIN gens' /\ gens'[g] = r
  BY <1>3, <1>5, OneSet DEF VoiceInv
<1>8. EchoFits'
  BY <1>4, <1>5, <1>7 DEF EchoFits
<1> QED
  BY <1>6, <1>8 DEF VoiceInv

LEMMA EchoWriteKeeps == ASSUME VoiceInv, Voice!EchoWrite PROVE VoiceInv'
<1> PICK g \in DOMAIN gens, kind \in {"pcm", "end"} :
       /\ gens[g].kind = "echo" /\ echo = [at |-> "write", g |-> g, kind |-> kind]
       /\ ~gens[g].ended /\ "synthesis_start" \in gens[g].told
  BY DEF VoiceInv, EchoFits, Voice!EchoWrite, Voice!Reading
<1> DEFINE r == [gens[g] EXCEPT !.carried = TRUE]
<1>1. gens[g] \in Gen /\ Named(gens[g]) /\ Promised(gens[g]) /\ Rendered(gens[g])
  BY GenIs
<1>2. Sound(r)
  BY <1>1 DEF Sound, Gen, Named, Promised, Rendered
<1>3. /\ r.kind = "echo" /\ r.of = gens[g].of /\ r.resolved = gens[g].resolved
      /\ r.reported = gens[g].reported /\ r.ended = gens[g].ended /\ r.out = gens[g].out
      /\ "synthesis_start" \in r.told
  BY <1>1 DEF Gen
<1>4. /\ gens' = [gens EXCEPT ![g] = r] /\ UNCHANGED <<eng, ctl, tails, closers, mixed>>
      /\ echo' = [at |-> "account", g |-> g, kind |-> kind]
  BY DEF Voice!EchoWrite, Voice!Set
<1> HIDE DEF r
<1>5. GensFit' /\ EngFits' /\ CtlFits' /\ ClosersFit' /\ TailsFit' /\ DrainWhole'
  BY <1>2, <1>3, <1>4, EchoMoves
<1>6. g \in DOMAIN gens' /\ gens'[g] = r
  BY <1>2, <1>4, OneSet DEF VoiceInv
<1>7. EchoFits'
  BY <1>3, <1>4, <1>6 DEF EchoFits
<1> QED
  BY <1>5, <1>7 DEF VoiceInv

LEMMA EchoAccountKeeps == ASSUME VoiceInv, Voice!EchoAccount PROVE VoiceInv'
<1> PICK g \in DOMAIN gens, kind \in {"pcm", "end"} :
       /\ gens[g].kind = "echo" /\ echo = [at |-> "account", g |-> g, kind |-> kind]
       /\ ~gens[g].ended /\ "synthesis_start" \in gens[g].told
  BY DEF VoiceInv, EchoFits, Voice!EchoAccount, Voice!Reading
<1>1. /\ gens[g] \in Gen /\ Named(gens[g]) /\ Promised(gens[g]) /\ Rendered(gens[g])
      /\ gens[g].at = "echo" /\ ~gens[g].drained
  BY GenIs DEF Named, Promised, Rendered
<1>2. UNCHANGED <<eng, ctl, tails, closers, mixed>>
  BY DEF Voice!EchoAccount
<1>3. CASE kind = "end"
  <2> DEFINE r == [gens[g] EXCEPT !.ended = TRUE, !.owed = FALSE]
  <2>1. ~(gens[g].owed /\ ~gens[g].cancelled)
    BY <1>1 DEF Promised
  <2>2. /\ gens' = [gens EXCEPT ![g] = r]
        /\ echo' = [at |-> "tell", g |-> g, cancelled |-> gens[g].cancelled]
    BY <1>1, <1>3, <2>1 DEF Voice!EchoAccount, Voice!Set, Gen
  <2>3. Sound(r)
    BY <1>1 DEF Sound, Gen, Named, Promised, Rendered
  <2>4. /\ r.kind = "echo" /\ r.of = gens[g].of /\ r.resolved = gens[g].resolved
        /\ r.reported = gens[g].reported /\ r.ended /\ r.at = "echo"
        /\ "synthesis_start" \in r.told
    BY <1>1 DEF Gen
  <2> HIDE DEF r
  <2>5. GensFit' /\ EngFits' /\ CtlFits' /\ ClosersFit' /\ TailsFit' /\ DrainWhole'
    BY <1>2, <2>2, <2>3, <2>4, EchoMoves
  <2>6. g \in DOMAIN gens' /\ gens'[g] = r
    BY <2>2, <2>3, OneSet DEF VoiceInv
  <2>7. gens[g].cancelled \in BOOLEAN
    BY <1>1 DEF Gen
  <2>8. EchoFits'
    BY <2>2, <2>4, <2>6, <2>7 DEF EchoFits
  <2> QED
    BY <2>5, <2>8 DEF VoiceInv
<1>4. CASE kind # "end"
  <2> PICK n \in Nat : n = gens[g].out + 1
    BY <1>1 DEF Gen
  <2> DEFINE r == [gens[g] EXCEPT !.ended = FALSE, !.out = n, !.owed = gens[g].owed]
  <2>1. gens' = [gens EXCEPT ![g] = r] /\ echo' = [at |-> "read", g |-> g]
    <3>1. /\ gens' = [gens EXCEPT ![g] =
                  [gens[g] EXCEPT !.ended = FALSE, !.out = n,
                                  !.owed = @ /\ ~(FALSE /\ gens[g].cancelled)]]
          /\ echo' = [at |-> "read", g |-> g]
      BY <1>4 DEF Voice!EchoAccount, Voice!Set
    <3>2. (gens[g].owed /\ ~(FALSE /\ gens[g].cancelled)) = gens[g].owed
      BY <1>1 DEF Gen
    <3> QED
      BY <3>1, <3>2
  <2>2. Sound(r)
    <3>1. r \in Gen
      BY <1>1 DEF Gen
    <3>2. Named(r)
      BY <1>1 DEF Named, Gen
    <3>3. Promised(r) /\ Rendered(r)
      BY <1>1 DEF Promised, Rendered, Gen
    <3> QED
      BY <3>1, <3>2, <3>3 DEF Sound
  <2>3. /\ r.kind = "echo" /\ r.of = gens[g].of /\ r.resolved = gens[g].resolved
        /\ r.reported = gens[g].reported /\ "synthesis_start" \in r.told
    BY <1>1 DEF Gen
  <2> HIDE DEF r
  <2>4. GensFit' /\ EngFits' /\ CtlFits' /\ ClosersFit' /\ TailsFit' /\ DrainWhole'
    BY <1>2, <2>1, <2>2, <2>3, EchoMoves
  <2>5. g \in DOMAIN gens' /\ gens'[g] = r
    BY <2>1, <2>2, OneSet DEF VoiceInv
  <2>6. EchoFits'
    BY <2>1, <2>3, <2>5 DEF EchoFits
  <2> QED
    BY <2>4, <2>6 DEF VoiceInv
<1> QED
  BY <1>3, <1>4

LEMMA EchoTellKeeps == ASSUME VoiceInv, Voice!EchoTell PROVE VoiceInv'
<1> PICK g \in DOMAIN gens, cancelled \in BOOLEAN :
       /\ gens[g].kind = "echo" /\ echo = [at |-> "tell", g |-> g, cancelled |-> cancelled]
       /\ gens[g].at = "echo" /\ gens[g].ended /\ "synthesis_start" \in gens[g].told
  BY DEF VoiceInv, EchoFits, Voice!EchoTell, Voice!Reading
<1> PICK type \in Ends :
       /\ gens' = [gens EXCEPT ![g] = [gens[g] EXCEPT !.told = @ \cup {type}, !.at = "done"]]
       /\ echo' = [at |-> "read", g |-> g] /\ UNCHANGED <<eng, ctl, tails, closers, mixed>>
  BY DEF Voice!EchoTell, Voice!Set, Voice!Told, Ends
<1> DEFINE r == [gens[g] EXCEPT !.told = @ \cup {type}, !.at = "done"]
<1>1. gens[g] \in Gen /\ Named(gens[g]) /\ Promised(gens[g]) /\ Rendered(gens[g])
  BY GenIs
<1>2. Sound(r)
  BY <1>1 DEF Sound, Gen, Named, Promised, Rendered, Ends
<1>3. /\ r.kind = "echo" /\ r.of = gens[g].of /\ r.resolved = gens[g].resolved
      /\ r.reported = gens[g].reported /\ r.ended /\ r.out = gens[g].out
      /\ "synthesis_start" \in r.told
  BY <1>1 DEF Gen
<1>4. gens' = [gens EXCEPT ![g] = r]
  OBVIOUS
<1> HIDE DEF r
<1>5. GensFit' /\ EngFits' /\ CtlFits' /\ ClosersFit' /\ TailsFit' /\ DrainWhole'
  BY <1>2, <1>3, <1>4, EchoMoves
<1>6. g \in DOMAIN gens' /\ gens'[g] = r
  BY <1>2, <1>4, OneSet DEF VoiceInv
<1>7. EchoFits'
  BY <1>3, <1>6 DEF EchoFits
<1> QED
  BY <1>5, <1>7 DEF VoiceInv

----------------------------------------------------------------------------
LEMMA VoiceStarts == ASSUME MaxSessions \in Nat, Voice!VoiceInit PROVE VoiceInv
<1> USE DEF Voice!VoiceInit
<1>1. gens = <<>> /\ GensFit
  BY DEF GensFit
<1>2. EngFits
  BY DEF EngFits, Engine, Voice!NoGen
<1>3. CtlFits /\ EchoFits
  BY DEF CtlFits, EchoFits
<1>4. ClosersFit /\ TailsFit /\ DrainWhole
  BY DEF ClosersFit, Closer, TailsFit, DrainWhole
<1> QED
  BY <1>1, <1>2, <1>3, <1>4 DEF VoiceInv

LEMMA VoiceSteps ==
    ASSUME MaxSessions \in Nat, VoiceInv, [Voice!VoiceNext]_(Voice!voiceVars)
    PROVE  VoiceInv'
<1>1. CASE UNCHANGED Voice!voiceVars
  <2>1. UNCHANGED <<eng, gens, ctl, tails, closers, echo, mixed>>
    BY <1>1 DEF Voice!voiceVars
  <2> QED
    BY <2>1 DEF VoiceInv, GensFit, EngFits, CtlFits, EchoFits, ClosersFit, TailsFit, DrainWhole
<1>2. CASE \/ Voice!Open \/ Voice!Synthesize \/ Voice!Announce \/ Voice!Cancel \/ Voice!Stop
           \/ Voice!FinishInput \/ Voice!Close \/ Voice!Report \/ Voice!Resolve
  BY <1>2, OpenKeeps, SynthesizeKeeps, AnnounceKeeps, CancelKeeps, StopKeeps, FinishInputKeeps,
     CloseKeeps, ReportKeeps, ResolveKeeps
<1>3. ASSUME NEW g \in DOMAIN gens,
             \/ Voice!Look(g) \/ Voice!Speak(g) \/ Voice!EndStream(g) \/ Voice!Finish(g) \/ Voice!Tell(g)
      PROVE  VoiceInv'
  BY <1>3, LookKeeps, SpeakKeeps, EndStreamKeeps, ReplyFinishKeeps, TellKeeps
<1>4. ASSUME NEW s \in Voice!Sessions,
             \/ Voice!FinishTail(s) \/ Voice!CloseWaits(s) \/ Voice!CloseEnds(s) \/ Voice!CloseTells(s)
      PROVE  VoiceInv'
  BY <1>4, FinishTailKeeps, CloseWaitsKeeps, CloseEndsKeeps, CloseTellsKeeps
<1>5. CASE \/ Voice!EchoRead \/ Voice!EchoAnnounce \/ Voice!EchoWrite \/ Voice!EchoAccount
           \/ Voice!EchoTell
  BY <1>5, EchoReadKeeps, EchoAnnounceKeeps, EchoWriteKeeps, EchoAccountKeeps, EchoTellKeeps
<1> QED
  BY <1>1, <1>2, <1>3, <1>4, <1>5 DEF Voice!VoiceNext

\* What is told is true, and a drain that ended was whole.
LEMMA SpokenTrue == VoiceInv => Voice!RepliesAreTold /\ Voice!DrainIsWhole
<1> SUFFICES ASSUME VoiceInv PROVE Voice!RepliesAreTold /\ Voice!DrainIsWhole
  OBVIOUS
<1>1. Voice!RepliesAreTold
  <2>1. ASSUME NEW g \in DOMAIN gens
        PROVE  /\ gens[g].carried => "synthesis_start" \in gens[g].told
               /\ ~("synthesis_end" \in gens[g].told /\ "synthesis_cancelled" \in gens[g].told)
               /\ "synthesis_end" \in gens[g].told => ~gens[g].owed
    BY GenIs DEF Named, Promised, Ends
  <2> QED
    BY <2>1 DEF Voice!RepliesAreTold
<1>2. Voice!DrainIsWhole
  BY DEF Voice!DrainIsWhole, VoiceInv, GensFit, DrainWhole, Rendered
<1> QED
  BY <1>1, <1>2

\* The voice example: each stream is named before it carries audio, its one terminal event
\* says what became of it, also after a cancel that was answered "not yet resolved", and a
\* drain that ends with session_end left no reply of its session unresolved (run, cancel,
\* closeSession, finishTail).
THEOREM EngineTellsTruth == Spec => []EngineSpeaksTrue
<1> DEFINE Here == part = "voice"
<1>1. Init /\ Here => VoiceInv
  BY VoiceStarts, EnginesAssumption DEF Init
<1>2. Here /\ [Next]_vars => Here' /\ [Voice!VoiceNext]_(Voice!voiceVars)
  BY DEF Next, vars, Voice!voiceVars
<1>3. ~Here /\ [Next]_vars => ~Here'
  BY DEF Next, vars
<1>4. ~Here => EngineSpeaksTrue
  BY DEF EngineSpeaksTrue
<1>5. VoiceInv => EngineSpeaksTrue
  BY SpokenTrue DEF EngineSpeaksTrue
<1>6. VoiceInv /\ [Voice!VoiceNext]_(Voice!voiceVars) => VoiceInv'
  BY VoiceSteps, EnginesAssumption
<1> HIDE DEF Here
<1> QED
  BY <1>1, <1>2, <1>3, <1>4, <1>5, <1>6, PTL DEF Spec

----------------------------------------------------------------------------
(* The release commands, by the names of ReleaseTools.                     *)

source == v1
disk == v2
chains == v3
begun == v4
run == v5
alone == v6
told == v7
seen == v8
listed == v9
USE DEF source, disk, chains, begun, run, alone, told, seen, listed

\* What a command has left to write is a queue.
IsQueue(q) == Len(q) \in Nat /\ q = [i \in 1 .. Len(q) |-> q[i]]

\* A bundle that is signed carries what was measured.
GoodBundle(b) ==
    /\ b.holds = "bundle"
    /\ b.sig # Release!None =>
         /\ b.sig.install = b.install.of /\ b.sig.manifest = b.manifest.of
         /\ b.manifest.of = b.install.of /\ b.cert # Release!None
IsSnapshot(s, n) ==
    /\ s = Release!Snapshot(s.by, s.epoch, s.revoked)
    /\ s.by \in 1 .. n /\ s.epoch \in Nat

\* The files the promises are about hold what they should, or nothing whole.
DiskFits ==
    /\ DOMAIN disk = Release!Files
    /\ disk["bundle"] \in {Release!None, Release!Torn} \/ GoodBundle(disk["bundle"])
    /\ disk["certifierKey"] \in {Release!None, Release!Torn} \cup {Release!Key(k) : k \in 1 .. chains}
    /\ disk["status"] \in {Release!None, Release!Torn} \cup seen
    /\ chains \in Nat
    /\ \A s \in seen : IsSnapshot(s, chains)
    /\ \A r \in told : r.by \in 1 .. chains

\* A write of a snapshot comes last, by a command on the keys.
WriteFits(w, r, i, n) ==
    \/ w.files \cap {"bundle", "certifierKey", "status"} = {}
    \/ w.files = {"bundle"} /\ GoodBundle(w.as)
    \/ w.files = {"certifierKey"} /\ \E k \in 1 .. n : w.as = Release!Key(k)
    \/ /\ w.files = {"status"} /\ IsSnapshot(w.as, n)
       /\ r.cmd \in Release!OnKeys /\ i = Len(r.todo)
IsRun(r, n) ==
    /\ r = [cmd |-> r.cmd, todo |-> r.todo, open |-> r.open, tells |-> r.tells]
    /\ IsQueue(r.todo) /\ (r.open => r.todo # <<>>)
    /\ \A i \in 1 .. Len(r.todo) : WriteFits(r.todo[i], r, i, n)
    /\ \A x \in r.tells : x.by \in 1 .. n
    /\ r.tells # {} => r.cmd = "revoke"
RunFits ==
    /\ DOMAIN run = Terminals
    /\ \A t \in Terminals : IsRun(run[t], chains)

\* What a snapshot holds is past all that was whole or reported before it.
Past(s) ==
    /\ \A u \in seen : u.by = s.by => u.epoch < s.epoch /\ u.revoked \subseteq s.revoked
    /\ \A r \in told : r.by = s.by => r.what \in s.revoked
\* What was reported is in the snapshot that stands.
Stands(r) ==
    Release!Intact("status") /\ disk["status"].by = r.by => r.what \in disk["status"].revoked

\* What a command will write, and report once it has.
Ready(c) ==
    /\ \A i \in 1 .. Len(c.todo) : c.todo[i].files = {"status"} =>
         /\ Past(c.todo[i].as)
         /\ \A r \in c.tells : r.by = c.todo[i].as.by /\ r.what \in c.todo[i].as.revoked
    /\ c.tells # {} =>
         \/ c.todo = <<>> /\ disk["status"] # Release!None /\ \A r \in c.tells : Stands(r)
         \/ \E i \in 1 .. Len(c.todo) : c.todo[i].files = {"status"}

\* Commands that keep off one another's keys.
Apart ==
    /\ \A t, u \in Terminals : run[t].cmd \in Release!OnKeys /\ run[u].cmd \in Release!OnKeys => t = u
    /\ \A s, u \in seen : s.by = u.by /\ s # u =>
         s.epoch # u.epoch /\ (s.epoch < u.epoch => s.revoked \subseteq u.revoked)
    /\ Release!Intact("status") =>
         \A s \in seen : s.by = disk["status"].by =>
            s.epoch <= disk["status"].epoch /\ s.revoked \subseteq disk["status"].revoked
    /\ disk["status"] = Release!None => seen = {} /\ told = {}
    /\ \A r \in told : Stands(r)
    /\ \A t \in Terminals : Ready(run[t])

ReleaseInv == DiskFits /\ RunFits /\ alone \in BOOLEAN /\ (alone => Apart) /\ Release!CatalogIsTrue

----------------------------------------------------------------------------
LEMMA Longer ==
    ASSUME NEW n \in Nat, NEW m \in Nat, n <= m
    PROVE  /\ \A k \in 1 .. n : k \in 1 .. m
           /\ \A s : IsSnapshot(s, n) => IsSnapshot(s, m)
           /\ \A w, r, i : WriteFits(w, r, i, n) => WriteFits(w, r, i, m)
           /\ \A r : IsRun(r, n) => IsRun(r, m)
<1>1. \A k \in 1 .. n : k \in 1 .. m
  OBVIOUS
<1>2. \A s : IsSnapshot(s, n) => IsSnapshot(s, m)
  BY <1>1 DEF IsSnapshot
<1>3. \A w, r, i : WriteFits(w, r, i, n) => WriteFits(w, r, i, m)
  BY <1>1, <1>2 DEF WriteFits
<1>4. \A r : IsRun(r, n) => IsRun(r, m)
  BY <1>1, <1>3, Zenon DEF IsRun
<1> QED
  BY <1>1, <1>2, <1>3, <1>4

\* A command begins: what it will write fits, and on the keys it is alone or not.
LEMMA StartKeeps ==
    ASSUME ReleaseInv, NEW t \in Terminals, NEW cmd, NEW todo, NEW tells,
           Release!Start(t, cmd, todo, tells), chains' \in Nat, chains <= chains',
           IsRun([cmd |-> cmd, todo |-> todo, open |-> FALSE, tells |-> tells], chains'),
           Apart => Ready([cmd |-> cmd, todo |-> todo, open |-> FALSE, tells |-> tells])
    PROVE  ReleaseInv'
<1> PICK c : c = [cmd |-> cmd, todo |-> todo, open |-> FALSE, tells |-> tells]
  OBVIOUS
<1>1. /\ run' = [run EXCEPT ![t] = c] /\ UNCHANGED <<source, disk, told, seen, listed>>
      /\ alone' = (alone /\ (cmd \in Release!OnKeys =>
                               \A u \in Terminals : run[u].cmd \notin Release!OnKeys))
      /\ c.cmd = cmd
  BY DEF Release!Start
<1>2. chains \in Nat
  BY DEF ReleaseInv, DiskFits
<1>3. DiskFits'
  BY <1>1, <1>2, Longer DEF ReleaseInv, DiskFits
<1>4. /\ DOMAIN run' = Terminals /\ run'[t] = c
      /\ \A u \in Terminals : u # t => run'[u] = run[u]
  BY <1>1 DEF ReleaseInv, RunFits
<1>5. RunFits'
  BY <1>2, <1>4, Longer DEF ReleaseInv, RunFits
<1>6. alone' \in BOOLEAN /\ Release!CatalogIsTrue'
  BY <1>1 DEF ReleaseInv, Release!CatalogIsTrue
<1>7. ASSUME alone' PROVE Apart'
  <2>1. Apart
    BY <1>1, <1>7 DEF ReleaseInv
  <2>2. \A u \in Terminals : Ready(run'[u])
    BY <1>4, <2>1 DEF Apart
  <2>3. ASSUME NEW u \in Terminals PROVE Ready(run[u])'
    <3>1. disk' = disk /\ told' = told /\ seen' = seen /\ Ready(run'[u])
      BY <1>1, <2>2
    <3> QED
      BY <3>1 DEF Ready, Past, Stands, Release!Intact
  <2>4. \A u, v \in Terminals : run'[u].cmd \in Release!OnKeys /\ run'[v].cmd \in Release!OnKeys => u = v
    <3>1. cmd \in Release!OnKeys => \A u \in Terminals : run[u].cmd \notin Release!OnKeys
      BY <1>1, <1>7
    <3>2. \A u, v \in Terminals : run[u].cmd \in Release!OnKeys /\ run[v].cmd \in Release!OnKeys => u = v
      BY <2>1 DEF Apart
    <3> QED
      BY <1>1, <1>4, <3>1, <3>2
  <2> QED
    BY <1>1, <2>1, <2>3, <2>4 DEF Apart, Stands, Release!Intact
<1> QED
  BY <1>3, <1>5, <1>6, <1>7 DEF ReleaseInv

\* The lists of writes a command begins with.
LEMMA Lists ==
    ASSUME NEW a, NEW b, NEW c, NEW d, NEW e
    PROVE  /\ IsQueue(<<>>) /\ Len(<<>>) = 0
           /\ IsQueue(<<a>>) /\ Len(<<a>>) = 1 /\ <<a>>[1] = a /\ <<a>> # <<>>
           /\ IsQueue(<<a, b, c>>) /\ Len(<<a, b, c>>) = 3
           /\ <<a, b, c>>[1] = a /\ <<a, b, c>>[2] = b /\ <<a, b, c>>[3] = c
           /\ IsQueue(<<a, b, c, d>>) /\ Len(<<a, b, c, d>>) = 4
           /\ <<a, b, c, d>>[1] = a /\ <<a, b, c, d>>[2] = b /\ <<a, b, c, d>>[3] = c
           /\ <<a, b, c, d>>[4] = d
           /\ IsQueue(<<a, b, c, d, e>>) /\ Len(<<a, b, c, d, e>>) = 5
           /\ <<a, b, c, d, e>>[1] = a /\ <<a, b, c, d, e>>[2] = b /\ <<a, b, c, d, e>>[3] = c
           /\ <<a, b, c, d, e>>[4] = d /\ <<a, b, c, d, e>>[5] = e
<1>1. IsQueue(<<>>) /\ Len(<<>>) = 0
  BY DEF IsQueue
<1>2. IsQueue(<<a>>) /\ Len(<<a>>) = 1 /\ <<a>>[1] = a /\ <<a>> # <<>>
  BY DEF IsQueue
<1>3. IsQueue(<<a, b, c>>) /\ Len(<<a, b, c>>) = 3
      /\ <<a, b, c>>[1] = a /\ <<a, b, c>>[2] = b /\ <<a, b, c>>[3] = c
  BY DEF IsQueue
<1>4. /\ IsQueue(<<a, b, c, d>>) /\ Len(<<a, b, c, d>>) = 4
      /\ <<a, b, c, d>>[1] = a /\ <<a, b, c, d>>[2] = b /\ <<a, b, c, d>>[3] = c
      /\ <<a, b, c, d>>[4] = d
  BY DEF IsQueue
<1>5. /\ IsQueue(<<a, b, c, d, e>>) /\ Len(<<a, b, c, d, e>>) = 5
      /\ <<a, b, c, d, e>>[1] = a /\ <<a, b, c, d, e>>[2] = b /\ <<a, b, c, d, e>>[3] = c
      /\ <<a, b, c, d, e>>[4] = d /\ <<a, b, c, d, e>>[5] = e
  BY DEF IsQueue
<1> QED
  BY <1>1, <1>2, <1>3, <1>4, <1>5

\* A command that writes neither a key nor a snapshot.
LEMMA PlainRun ==
    ASSUME NEW cmd, NEW todo, IsQueue(todo), NEW n, NEW c,
           c = [cmd |-> cmd, todo |-> todo, open |-> FALSE, tells |-> {}],
           \A i \in 1 .. Len(todo) : \/ todo[i].files \cap {"bundle", "certifierKey", "status"} = {}
                                     \/ todo[i].files = {"bundle"} /\ GoodBundle(todo[i].as)
    PROVE  IsRun(c, n) /\ Ready(c)
<1>1. c.cmd = cmd /\ c.todo = todo /\ c.open = FALSE /\ c.tells = {}
  OBVIOUS
<1>2. \A i \in 1 .. Len(todo) : WriteFits(todo[i], c, i, n) /\ todo[i].files # {"status"}
  BY DEF WriteFits
<1> QED
  BY <1>1, <1>2 DEF IsRun, Ready

LEMMA PackageKeeps == ASSUME ReleaseInv, NEW t \in Terminals, Release!Package(t) PROVE ReleaseInv'
<1> PICK order \in {<<"install", "manifest">>, <<"manifest", "install">>} :
       /\ Release!Start(t, "package",
               <<[files |-> Release!Stage, as |-> Release!None],
                 Release!Write(order[1], [install |-> Release!Install(source), manifest |-> Release!Manifest(source)][order[1]]),
                 Release!Write(order[2], [install |-> Release!Install(source), manifest |-> Release!Manifest(source)][order[2]]),
                 Release!Write("bundle", Release!Bundle(Release!Install(source), Release!Manifest(source), Release!None, Release!None))>>, {})
       /\ UNCHANGED chains
  BY DEF Release!Package
<1> PICK w1, w2, w3, w4 :
       /\ w1 = [files |-> Release!Stage, as |-> Release!None]
       /\ w2 = Release!Write(order[1], [install |-> Release!Install(source), manifest |-> Release!Manifest(source)][order[1]])
       /\ w3 = Release!Write(order[2], [install |-> Release!Install(source), manifest |-> Release!Manifest(source)][order[2]])
       /\ w4 = Release!Write("bundle", Release!Bundle(Release!Install(source), Release!Manifest(source), Release!None, Release!None))
  OBVIOUS
<1> PICK todo : todo = <<w1, w2, w3, w4>>
  OBVIOUS
<1>1. Release!Start(t, "package", todo, {}) /\ chains' = chains
  OBVIOUS
<1>2. /\ IsQueue(todo) /\ Len(todo) = 4
      /\ todo[1] = w1 /\ todo[2] = w2 /\ todo[3] = w3 /\ todo[4] = w4
  BY Lists
<1>3. /\ w1.files \cap {"bundle", "certifierKey", "status"} = {}
      /\ w2.files \cap {"bundle", "certifierKey", "status"} = {}
      /\ w3.files \cap {"bundle", "certifierKey", "status"} = {}
  BY DEF Release!Stage, Release!Write
<1>4. w4.files = {"bundle"} /\ GoodBundle(w4.as)
  BY DEF Release!Write, Release!Bundle, GoodBundle
<1>5. \A i \in 1 .. Len(todo) : \/ todo[i].files \cap {"bundle", "certifierKey", "status"} = {}
                                \/ todo[i].files = {"bundle"} /\ GoodBundle(todo[i].as)
  <2>1. \A i \in 1 .. 4 : i = 1 \/ i = 2 \/ i = 3 \/ i = 4
    OBVIOUS
  <2> QED
    BY <1>2, <1>3, <1>4, <2>1
<1>6. chains \in Nat
  BY DEF ReleaseInv, DiskFits
<1> PICK c : c = [cmd |-> "package", todo |-> todo, open |-> FALSE, tells |-> {}]
  OBVIOUS
<1>7. IsRun(c, chains) /\ Ready(c)
  BY <1>2, <1>5, PlainRun, ZenonT(60)
<1>8. chains' \in Nat /\ chains <= chains' /\ IsRun(c, chains')
  BY <1>1, <1>6, <1>7
<1> QED
  BY <1>1, <1>7, <1>8, StartKeeps

LEMMA SignKeeps == ASSUME ReleaseInv, NEW t \in Terminals, Release!Sign(t) PROVE ReleaseInv'
<1> PICK sig : sig = Release!Sig(disk["publisherKey"].of, disk["install"].of, disk["manifest"].of)
  OBVIOUS
<1> PICK w1, w2, w3 :
       /\ w1 = Release!Write("stagedCert", disk["publisherCert"])
       /\ w2 = Release!Write("stagedSig", sig)
       /\ w3 = Release!Write("bundle", Release!StagedBundle(disk["publisherCert"], sig))
  OBVIOUS
<1> PICK todo : todo = <<w1, w2, w3>>
  OBVIOUS
<1>1. Release!Start(t, "sign", todo, {}) /\ chains' = chains
  BY DEF Release!Sign
<1>2. IsQueue(todo) /\ Len(todo) = 3 /\ todo[1] = w1 /\ todo[2] = w2 /\ todo[3] = w3
  BY Lists
<1>3. /\ w1.files \cap {"bundle", "certifierKey", "status"} = {}
      /\ w2.files \cap {"bundle", "certifierKey", "status"} = {}
  BY DEF Release!Write
<1>4. w3.files = {"bundle"} /\ GoodBundle(w3.as)
  <2>1. Release!Measured /\ disk["publisherCert"] # Release!None
    BY DEF Release!Sign, Release!Intact
  <2> QED
    BY <2>1 DEF Release!Write, Release!StagedBundle, Release!Bundle, Release!Sig, Release!Measured, GoodBundle
<1>5. \A i \in 1 .. Len(todo) : \/ todo[i].files \cap {"bundle", "certifierKey", "status"} = {}
                                \/ todo[i].files = {"bundle"} /\ GoodBundle(todo[i].as)
  <2>1. \A i \in 1 .. 3 : i = 1 \/ i = 2 \/ i = 3
    OBVIOUS
  <2> QED
    BY <1>2, <1>3, <1>4, <2>1
<1>6. chains \in Nat
  BY DEF ReleaseInv, DiskFits
<1> PICK c : c = [cmd |-> "sign", todo |-> todo, open |-> FALSE, tells |-> {}]
  OBVIOUS
<1>7. IsQueue(todo)
  BY <1>2
<1>8. IsRun(c, chains) /\ Ready(c)
  BY <1>5, <1>7, PlainRun, ZenonT(60)
<1>9. chains' \in Nat /\ chains <= chains' /\ IsRun(c, chains')
  BY <1>1, <1>6, <1>8
<1> QED
  BY <1>1, <1>8, <1>9, StartKeeps

LEMMA DevcertKeeps ==
    ASSUME ReleaseInv, NEW t \in Terminals, NEW force, Release!Devcert(t, force)
    PROVE  ReleaseInv'
<1>1. chains \in Nat /\ chains' = chains + 1
  BY DEF Release!Devcert, ReleaseInv, DiskFits
<1> PICK k \in Nat : k = chains + 1 /\ k = chains'
  BY <1>1
<1> PICK w1, w2, w3, w4, w5 :
       /\ w1 = Release!Write("certifierKey", Release!Key(k)) /\ w2 = Release!Write("publisherKey", Release!Key(k))
       /\ w3 = Release!Write("rootPub", Release!Key(k)) /\ w4 = Release!Write("publisherCert", Release!Cert(k))
       /\ w5 = Release!Write("status", Release!Snapshot(k, 1, {}))
  OBVIOUS
<1> PICK todo : todo = <<w1, w2, w3, w4, w5>>
  OBVIOUS
<1> PICK c : c = [cmd |-> "devcert", todo |-> todo, open |-> FALSE, tells |-> {}]
  OBVIOUS
<1>2. Release!Start(t, "devcert", todo, {})
  BY DEF Release!Devcert
<1>3. /\ IsQueue(todo) /\ Len(todo) = 5
      /\ todo[1] = w1 /\ todo[2] = w2 /\ todo[3] = w3 /\ todo[4] = w4 /\ todo[5] = w5
  BY Lists
<1>4. c.cmd = "devcert" /\ c.todo = todo /\ c.open = FALSE /\ c.tells = {}
  OBVIOUS
<1>5. /\ w1.files = {"certifierKey"} /\ w1.as = Release!Key(k) /\ k \in 1 .. k
      /\ w2.files \cap {"bundle", "certifierKey", "status"} = {}
      /\ w3.files \cap {"bundle", "certifierKey", "status"} = {}
      /\ w4.files \cap {"bundle", "certifierKey", "status"} = {}
      /\ w5.files = {"status"} /\ w5.as = Release!Snapshot(k, 1, {})
  BY <1>1 DEF Release!Write
<1>6. IsSnapshot(w5.as, k) /\ w5.as.by = k
  BY <1>5 DEF IsSnapshot, Release!Snapshot
<1>7. \A i \in 1 .. 5 : WriteFits(todo[i], c, i, k)
  <2>1. \A i \in 1 .. 5 : i = 1 \/ i = 2 \/ i = 3 \/ i = 4 \/ i = 5
    OBVIOUS
  <2> QED
    BY <1>3, <1>4, <1>5, <1>6, <2>1 DEF WriteFits, Release!OnKeys
<1>8. IsRun(c, k)
  BY <1>3, <1>4, <1>7 DEF IsRun
<1>9. Ready(c)
  <2>1. \A i \in 1 .. 5 : todo[i].files = {"status"} => i = 5
    <3>1. \A i \in 1 .. 5 : i = 1 \/ i = 2 \/ i = 3 \/ i = 4 \/ i = 5
      OBVIOUS
    <3> QED
      BY <1>3, <1>5, <3>1
  <2>2. Past(w5.as)
    <3>1. \A s \in seen : s.by # k
      BY <1>1 DEF ReleaseInv, DiskFits, IsSnapshot
    <3>2. \A r \in told : r.by # k
      BY <1>1 DEF ReleaseInv, DiskFits
    <3> QED
      BY <1>6, <3>1, <3>2 DEF Past
  <2> QED
    BY <1>3, <1>4, <2>1, <2>2 DEF Ready
<1> QED
  BY <1>1, <1>2, <1>8, <1>9, StartKeeps

\* What revoke has left to do: a snapshot to write, or only to report.
LEMMA RevokeRun ==
    ASSUME NEW n \in Nat, NEW k \in 1 .. n, NEW x, NEW w, NEW tells, tells = {[by |-> k, what |-> x]},
           w.files = {"status"}, IsSnapshot(w.as, n), w.as.by = k, x \in w.as.revoked,
           NEW c, c = [cmd |-> "revoke", todo |-> <<w>>, open |-> FALSE, tells |-> tells]
    PROVE  IsRun(c, n) /\ (Past(w.as) => Ready(c))
<1>1. c.cmd = "revoke" /\ c.todo = <<w>> /\ c.open = FALSE /\ c.tells = tells
  OBVIOUS
<1>2. IsQueue(<<w>>) /\ Len(<<w>>) = 1 /\ <<w>>[1] = w /\ <<w>> # <<>>
  BY Lists
<1> \A i \in 1 .. 1 : i = 1
  OBVIOUS
<1>3. \A r \in tells : r.by = k /\ r.what = x
  OBVIOUS
<1>4. WriteFits(w, c, 1, n)
  BY <1>1, <1>2 DEF WriteFits, Release!OnKeys
<1>5. IsRun(c, n)
  BY <1>1, <1>2, <1>3, <1>4 DEF IsRun
<1>6. ASSUME Past(w.as) PROVE Ready(c)
  BY <1>1, <1>2, <1>3, <1>6 DEF Ready
<1> QED
  BY <1>5, <1>6

LEMMA ReportRun ==
    ASSUME NEW n \in Nat, NEW k \in 1 .. n, NEW x, NEW tells, tells = {[by |-> k, what |-> x]},
           disk["status"] # Release!None, Stands([by |-> k, what |-> x]),
           NEW c, c = [cmd |-> "revoke", todo |-> <<>>, open |-> FALSE, tells |-> tells]
    PROVE  IsRun(c, n) /\ Ready(c)
<1>1. c.cmd = "revoke" /\ c.todo = <<>> /\ c.open = FALSE /\ c.tells = tells
  OBVIOUS
<1>2. IsQueue(<<>>) /\ Len(<<>>) = 0
  BY Lists
<1> 1 .. 0 = {}
  OBVIOUS
<1>3. \A r \in tells : r.by = k /\ Stands(r)
  OBVIOUS
<1>4. IsRun(c, n)
  BY <1>1, <1>2, <1>3 DEF IsRun
<1>5. Ready(c)
  BY <1>1, <1>2, <1>3 DEF Ready
<1> QED
  BY <1>4, <1>5

LEMMA RevokeKeeps ==
    ASSUME ReleaseInv, NEW t \in Terminals, NEW x, Release!Revoke(t, x)
    PROVE  ReleaseInv'
<1>1. /\ Release!Intact("certifierKey") /\ disk["status"] # Release!Torn /\ chains' = chains
      /\ disk["status"] # Release!None => disk["status"].by = disk["certifierKey"].of
  BY DEF Release!Revoke, Release!OwnSnapshot
<1>2. chains \in Nat
  BY DEF ReleaseInv, DiskFits
<1> PICK k \in 1 .. chains : disk["certifierKey"] = Release!Key(k)
  BY <1>1 DEF Release!Intact, ReleaseInv, DiskFits
<1>3. k = disk["certifierKey"].of
  BY DEF Release!Key
<1> PICK snap : snap = Release!Snapshot(k, Release!NextEpoch, Release!Entries \cup {x})
  OBVIOUS
<1> PICK w : w = Release!Write("status", snap)
  OBVIOUS
<1> PICK tells : tells = {[by |-> k, what |-> x]}
  OBVIOUS
<1>4. Release!Start(t, "revoke", IF x \in Release!Entries THEN <<>> ELSE <<w>>, tells)
  BY <1>3 DEF Release!Revoke
<1>5. \A r \in tells : r.by = k /\ r.what = x
  OBVIOUS
<1>6. /\ snap.by = k /\ snap.epoch = Release!NextEpoch /\ snap.revoked = Release!Entries \cup {x}
      /\ w.files = {"status"} /\ w.as = snap
  BY DEF Release!Snapshot, Release!Write
<1>7. CASE disk["status"] = Release!None
  <2>1. Release!Entries = {} /\ Release!NextEpoch = 1
    BY <1>7 DEF Release!Entries, Release!NextEpoch, Release!Epoch
  <2>2. Apart => Past(snap)
    BY <1>7 DEF Apart, Past
  <2>3. Release!Start(t, "revoke", <<w>>, tells)
    BY <1>4, <2>1
  <2> PICK c : c = [cmd |-> "revoke", todo |-> <<w>>, open |-> FALSE, tells |-> tells]
    OBVIOUS
  <2>4. IsSnapshot(snap, chains)
    BY <1>6, <2>1 DEF IsSnapshot, Release!Snapshot
  <2>5. IsRun(c, chains) /\ (Past(snap) => Ready(c))
    <3>1. w.as.by = k /\ x \in w.as.revoked /\ w.files = {"status"} /\ w.as = snap
      BY <1>6
    <3>2. IsSnapshot(w.as, chains)
      BY <2>4, <3>1
    <3>3. IsRun(c, chains) /\ (Past(w.as) => Ready(c))
      BY <1>2, <3>1, <3>2, RevokeRun
    <3> QED
      BY <3>1, <3>3
  <2>6. chains' \in Nat /\ chains <= chains' /\ IsRun(c, chains') /\ (Apart => Ready(c))
    BY <1>1, <1>2, <2>2, <2>5
  <2> QED
    BY <2>3, <2>6, StartKeeps
<1>8. CASE disk["status"] # Release!None
  <2>1. /\ disk["status"] \in seen /\ disk["status"].by = k /\ Release!Intact("status")
        /\ disk["status"].epoch \in Nat
    BY <1>1, <1>3, <1>8 DEF ReleaseInv, DiskFits, Release!Intact, IsSnapshot
  <2>2. Release!Entries = disk["status"].revoked /\ Release!NextEpoch = disk["status"].epoch + 1
    BY <1>8 DEF Release!Entries, Release!NextEpoch, Release!Epoch
  <2>3. CASE x \in Release!Entries
    <3>1. Release!Start(t, "revoke", <<>>, tells)
      BY <1>4, <2>3
    <3> PICK c : c = [cmd |-> "revoke", todo |-> <<>>, open |-> FALSE, tells |-> tells]
      OBVIOUS
    <3>2. Stands([by |-> k, what |-> x])
      BY <2>2, <2>3 DEF Stands
    <3>3. IsRun(c, chains) /\ Ready(c)
      BY <1>2, <1>8, <3>2, ReportRun
    <3>4. chains' \in Nat /\ chains <= chains' /\ IsRun(c, chains')
      BY <1>1, <1>2, <3>3
    <3> QED
      BY <3>1, <3>3, <3>4, StartKeeps
  <2>4. CASE x \notin Release!Entries
    <3>1. Release!Start(t, "revoke", <<w>>, tells)
      BY <1>4, <2>4
    <3> PICK c : c = [cmd |-> "revoke", todo |-> <<w>>, open |-> FALSE, tells |-> tells]
      OBVIOUS
    <3>2. IsSnapshot(snap, chains)
      BY <1>6, <2>1, <2>2 DEF IsSnapshot, Release!Snapshot
    <3>3. IsRun(c, chains) /\ (Past(snap) => Ready(c))
      <4>1. w.as.by = k /\ x \in w.as.revoked /\ w.files = {"status"} /\ w.as = snap
        BY <1>6
      <4>2. IsSnapshot(w.as, chains)
        BY <3>2, <4>1
      <4>3. IsRun(c, chains) /\ (Past(w.as) => Ready(c))
        BY <1>2, <4>1, <4>2, RevokeRun
      <4> QED
        BY <4>1, <4>3
    <3>4. ASSUME Apart PROVE Past(snap)
      <4>1. ASSUME NEW u \in seen, u.by = k
            PROVE  u.epoch < snap.epoch /\ u.revoked \subseteq snap.revoked
        <5>1. u.epoch \in Nat
          BY DEF ReleaseInv, DiskFits, IsSnapshot
        <5>2. u.epoch <= disk["status"].epoch /\ u.revoked \subseteq disk["status"].revoked
          BY <2>1, <3>4, <4>1 DEF Apart
        <5> QED
          <6>1. snap.epoch = disk["status"].epoch + 1 /\ disk["status"].revoked \subseteq snap.revoked
            BY <1>6, <2>2
          <6>2. u.revoked \subseteq snap.revoked
            BY <5>2, <6>1
          <6>3. ASSUME NEW a \in Nat, NEW b \in Nat, a <= b PROVE a < b + 1
            BY <6>3
          <6>4. u.epoch < snap.epoch
            BY <2>1, <5>1, <5>2, <6>1, <6>3
          <6> QED
            BY <6>2, <6>4
      <4>2. ASSUME NEW r \in told, r.by = k PROVE r.what \in snap.revoked
        BY <1>6, <2>1, <2>2, <3>4, <4>2 DEF Apart, Stands
      <4> QED
        BY <1>6, <4>1, <4>2 DEF Past
    <3>5. chains' \in Nat /\ chains <= chains' /\ IsRun(c, chains') /\ (Apart => Ready(c))
      BY <1>1, <1>2, <3>3, <3>4
    <3> QED
      BY <3>1, <3>5, StartKeeps
  <2> QED
    BY <2>3, <2>4
<1> QED
  BY <1>7, <1>8

----------------------------------------------------------------------------
(* The writes of a command.                                                *)

\* What is left of a queue.
LEMMA TailQueue ==
    ASSUME NEW q, IsQueue(q), q # <<>>
    PROVE  /\ Len(q) \in Nat \ {0} /\ Head(q) = q[1] /\ IsQueue(Tail(q))
           /\ Len(Tail(q)) = Len(q) - 1 /\ \A i \in 1 .. Len(Tail(q)) : Tail(q)[i] = q[i + 1]
<1> PICK n \in Nat : n = Len(q)
  BY DEF IsQueue
<1> DEFINE S == {q[i] : i \in 1 .. n}
<1>1. q \in [1 .. n -> S]
  BY DEF IsQueue
<1>2. q \in Seq(S)
  BY <1>1
<1> HIDE DEF S
<1>3. n # 0
  BY <1>2
<1>4. /\ Head(q) = q[1] /\ Tail(q) \in Seq(S) /\ Len(Tail(q)) = n - 1
      /\ \A i \in 1 .. n - 1 : Tail(q)[i] = q[i + 1]
  BY <1>2, <1>3
<1>5. IsQueue(Tail(q))
  <2> PICK r \in Seq(S) : r = Tail(q)
    BY <1>4
  <2>1. Len(r) \in Nat /\ r \in [1 .. Len(r) -> S]
    BY LenProperties
  <2>2. r = [i \in 1 .. Len(r) |-> r[i]]
    BY <2>1
  <2> QED
    BY <2>1, <2>2 DEF IsQueue
<1> QED
  BY <1>3, <1>4, <1>5

\* A terminal whose command moves on keeps the others' commands.
LEMMA OneRun ==
    ASSUME ReleaseInv, NEW t \in Terminals, NEW c, run' = [run EXCEPT ![t] = c]
    PROVE  /\ DOMAIN run' = Terminals /\ run'[t] = c
           /\ \A u \in Terminals : u # t => run'[u] = run[u]
  BY DEF ReleaseInv, RunFits

\* The file a write is at.
LEMMA OpenWrite ==
    ASSUME ReleaseInv, NEW t \in Terminals, run[t].todo # <<>>
    PROVE  /\ 1 \in 1 .. Len(run[t].todo) /\ Head(run[t].todo) = run[t].todo[1]
           /\ WriteFits(Head(run[t].todo), run[t], 1, chains)
           /\ IsRun(run[t], chains) /\ Len(run[t].todo) \in Nat
<1>1. IsRun(run[t], chains)
  BY DEF ReleaseInv, RunFits
<1>2. IsQueue(run[t].todo)
  BY <1>1 DEF IsRun
<1>3. Len(run[t].todo) \in Nat \ {0} /\ Head(run[t].todo) = run[t].todo[1]
  BY <1>2, TailQueue
<1>4. 1 \in 1 .. Len(run[t].todo)
  BY <1>3
<1> QED
  BY <1>1, <1>3, <1>4 DEF IsRun

LEMMA WriteOpensKeeps ==
    ASSUME ReleaseInv, NEW t \in Terminals, Release!WriteOpens(t)
    PROVE  ReleaseInv'
<1> PICK w : w = Head(run[t].todo)
  OBVIOUS
<1> PICK c : c = [run[t] EXCEPT !.open = TRUE]
  OBVIOUS
<1>1. /\ run[t].todo # <<>> /\ run' = [run EXCEPT ![t] = c]
      /\ UNCHANGED <<source, chains, begun, alone, told, seen, listed>>
  BY DEF Release!WriteOpens
<1>2. WriteFits(w, run[t], 1, chains) /\ IsRun(run[t], chains)
  BY <1>1, OpenWrite
<1>3. /\ c = [cmd |-> run[t].cmd, todo |-> run[t].todo, open |-> TRUE, tells |-> run[t].tells]
      /\ c.cmd = run[t].cmd /\ c.todo = run[t].todo /\ c.open = TRUE /\ c.tells = run[t].tells
  BY <1>2 DEF IsRun
<1>4. /\ DOMAIN run' = Terminals /\ run'[t] = c
      /\ \A u \in Terminals : u # t => run'[u] = run[u]
  BY <1>1, OneRun
<1>5. IsRun(c, chains)
  <2>1. \A i \in 1 .. Len(c.todo) : WriteFits(c.todo[i], c, i, chains)
    <3>1. \A v, i : WriteFits(v, run[t], i, chains) => WriteFits(v, c, i, chains)
      BY <1>3 DEF WriteFits
    <3> QED
      BY <1>2, <1>3, <3>1 DEF IsRun
  <2>2. IsQueue(c.todo) /\ c.todo # <<>>
    BY <1>1, <1>2, <1>3 DEF IsRun
  <2>3. (\A x \in c.tells : x.by \in 1 .. chains) /\ (c.tells # {} => c.cmd = "revoke")
    BY <1>2, <1>3 DEF IsRun
  <2>4. c = [cmd |-> c.cmd, todo |-> c.todo, open |-> c.open, tells |-> c.tells]
    BY <1>3
  <2> QED
    BY <2>1, <2>2, <2>3, <2>4, Zenon DEF IsRun
<1>6. RunFits'
  BY <1>1, <1>4, <1>5 DEF ReleaseInv, RunFits
<1>7. /\ DOMAIN disk' = Release!Files
      /\ disk'["bundle"] \in {disk["bundle"], Release!Torn}
      /\ disk'["certifierKey"] \in {disk["certifierKey"], Release!Torn}
      /\ disk'["status"] \in {disk["status"], Release!Torn}
  <2>1. CASE w.as = Release!None
    <3>1. w.files \cap {"bundle", "certifierKey", "status"} = {}
      <4>1. ~GoodBundle(w.as)
        BY <2>1 DEF GoodBundle, Release!None
      <4>2. \A n : ~IsSnapshot(w.as, n)
        BY <2>1 DEF IsSnapshot, Release!None, Release!Snapshot
      <4>3. \A k : w.as # Release!Key(k)
        BY <2>1 DEF Release!None, Release!Key
      <4> QED
        BY <1>2, <4>1, <4>2, <4>3 DEF WriteFits
    <3>2. \E gone \in {{}, w.files \ {"manifest"}, w.files \ {"install"}} :
             disk' = [f \in Release!Files |-> IF f \in gone THEN Release!None ELSE disk[f]]
      BY <2>1 DEF Release!WriteOpens
    <3> QED
      BY <3>1, <3>2 DEF Release!Files, Release!Chain, Release!Stage
  <2>2. CASE w.as # Release!None
    <3>1. disk' = [f \in Release!Files |-> IF f \in w.files THEN Release!Torn ELSE disk[f]]
      BY <2>2 DEF Release!WriteOpens
    <3> QED
      BY <3>1 DEF Release!Files, Release!Chain, Release!Stage
  <2> QED
    BY <2>1, <2>2
<1>8. DiskFits'
  BY <1>1, <1>7 DEF ReleaseInv, DiskFits
<1>9. alone' \in BOOLEAN /\ Release!CatalogIsTrue'
  BY <1>1 DEF ReleaseInv, Release!CatalogIsTrue
<1>10. ASSUME alone' PROVE Apart'
  <2>1. Apart
    BY <1>1, <1>10 DEF ReleaseInv
  <2>2. disk'["status"] = disk["status"] \/ (disk'["status"] = Release!Torn /\ disk'["status"] # Release!None)
    BY <1>7 DEF Release!Torn, Release!None
  <2>3. \A r : Stands(r) => Stands(r)'
    BY <2>2 DEF Stands, Release!Intact
  <2>4. ASSUME NEW u \in Terminals PROVE Ready(run[u])'
    <3>1. Ready(run[u])
      BY <2>1 DEF Apart
    <3>2. run'[u].todo = run[u].todo /\ run'[u].tells = run[u].tells
      BY <1>3, <1>4
    <3>3. seen' = seen /\ told' = told
      BY <1>1
    <3>4. disk["status"] # Release!None => disk'["status"] # Release!None
      BY <2>2
    <3> QED
      BY <2>3, <3>1, <3>2, <3>3, <3>4 DEF Ready, Past
  <2>5. \A u, v \in Terminals : run'[u].cmd \in Release!OnKeys /\ run'[v].cmd \in Release!OnKeys => u = v
    <3>1. \A u \in Terminals : run'[u].cmd = run[u].cmd
      BY <1>3, <1>4
    <3> QED
      BY <2>1, <3>1 DEF Apart
  <2>6. (Release!Intact("status") =>
           \A s \in seen : s.by = disk["status"].by =>
              s.epoch <= disk["status"].epoch /\ s.revoked \subseteq disk["status"].revoked)'
    BY <1>1, <2>1, <2>2 DEF Apart, Release!Intact
  <2>7. (disk["status"] = Release!None => seen = {} /\ told = {})'
    BY <1>1, <2>1, <2>2 DEF Apart
  <2>8. (\A r \in told : Stands(r))'
    BY <1>1, <2>1, <2>3 DEF Apart
  <2> QED
    BY <1>1, <2>1, <2>4, <2>5, <2>6, <2>7, <2>8 DEF Apart
<1> QED
  BY <1>6, <1>8, <1>9, <1>10 DEF ReleaseInv

\* A command that is not on the keys has no snapshot to write, and nothing to report.
LEMMA OffKeys ==
    ASSUME NEW c, NEW n, IsRun(c, n), c.cmd \notin Release!OnKeys
    PROVE  c.tells = {} /\ \A i \in 1 .. Len(c.todo) : c.todo[i].files # {"status"}
  BY DEF IsRun, WriteFits, Release!OnKeys

LEMMA WriteEndsKeeps ==
    ASSUME ReleaseInv, NEW t \in Terminals, Release!WriteEnds(t)
    PROVE  ReleaseInv'
<1> PICK q : q = run[t].todo
  OBVIOUS
<1> PICK w : w = Head(q)
  OBVIOUS
<1> PICK c : c = [run[t] EXCEPT !.open = FALSE, !.todo = Tail(q)]
  OBVIOUS
<1>1. /\ run[t].open /\ run' = [run EXCEPT ![t] = c]
      /\ disk' = [f \in Release!Files |-> IF f \in w.files THEN w.as ELSE disk[f]]
      /\ seen' = IF w.files = {"status"} THEN seen \cup {w.as} ELSE seen
      /\ UNCHANGED <<source, chains, begun, alone, told, listed>>
  BY DEF Release!WriteEnds
<1>2. q # <<>> /\ IsRun(run[t], chains)
  BY <1>1 DEF ReleaseInv, RunFits, IsRun
<1>3. /\ w = q[1] /\ 1 \in 1 .. Len(q) /\ WriteFits(w, run[t], 1, chains) /\ IsQueue(q)
  BY <1>2, OpenWrite DEF IsRun
<1>4. /\ Len(q) \in Nat \ {0} /\ IsQueue(Tail(q)) /\ Len(Tail(q)) = Len(q) - 1
      /\ \A i \in 1 .. Len(Tail(q)) : Tail(q)[i] = q[i + 1]
  BY <1>2, <1>3, TailQueue
<1> PICK rest : rest = Tail(q)
  OBVIOUS
<1>5. /\ c = [cmd |-> run[t].cmd, todo |-> rest, open |-> FALSE, tells |-> run[t].tells]
      /\ c.cmd = run[t].cmd /\ c.todo = rest /\ c.open = FALSE /\ c.tells = run[t].tells
  BY <1>2 DEF IsRun
<1>6. \A i \in 1 .. Len(rest) : i + 1 \in 1 .. Len(q) /\ rest[i] = q[i + 1] /\ (i + 1 = Len(q) => i = Len(rest))
  BY <1>4
<1>7. \A j \in 1 .. Len(q) : j # 1 => j - 1 \in 1 .. Len(rest) /\ rest[j - 1] = q[j]
  BY <1>4
<1>8. /\ DOMAIN run' = Terminals /\ run'[t] = c
      /\ \A u \in Terminals : u # t => run'[u] = run[u]
  BY <1>1, OneRun
<1>9. IsRun(c, chains)
  <2>1. ASSUME NEW i \in 1 .. Len(rest) PROVE WriteFits(rest[i], c, i, chains)
    <3>1. WriteFits(q[i + 1], run[t], i + 1, chains)
      BY <1>2, <1>6 DEF IsRun
    <3>2. WriteFits(rest[i], run[t], i + 1, chains) /\ (i + 1 = Len(run[t].todo) => i = Len(c.todo))
      BY <1>5, <1>6, <3>1
    <3> QED
      BY <1>5, <3>2 DEF WriteFits
  <2>2. (\A x \in c.tells : x.by \in 1 .. chains) /\ (c.tells # {} => c.cmd = "revoke")
    BY <1>2, <1>5 DEF IsRun
  <2>3. c = [cmd |-> c.cmd, todo |-> c.todo, open |-> c.open, tells |-> c.tells]
    BY <1>5
  <2>4. \A i \in 1 .. Len(c.todo) : WriteFits(c.todo[i], c, i, chains)
    BY <1>5, <2>1
  <2>5. IsQueue(c.todo)
    BY <1>4, <1>5
  <2> QED
    BY <1>5, <2>2, <2>3, <2>4, <2>5, ZenonT(60) DEF IsRun
<1>10. RunFits'
  BY <1>1, <1>8, <1>9 DEF ReleaseInv, RunFits
<1>11. alone' \in BOOLEAN /\ Release!CatalogIsTrue'
  BY <1>1 DEF ReleaseInv, Release!CatalogIsTrue
<1>12. DOMAIN disk' = Release!Files /\ {"bundle", "certifierKey", "status"} \subseteq Release!Files
  BY <1>1 DEF Release!Files, Release!Chain, Release!Stage
<1>13. CASE w.files # {"status"}
  <2>1. /\ "status" \notin w.files /\ ("bundle" \in w.files => GoodBundle(w.as))
        /\ "certifierKey" \in w.files => \E k \in 1 .. chains : w.as = Release!Key(k)
    BY <1>3, <1>13 DEF WriteFits
  <2>2. disk'["status"] = disk["status"] /\ seen' = seen /\ told' = told
    BY <1>1, <1>12, <1>13, <2>1
  <2>3. DiskFits'
    <3>1. disk'["bundle"] = disk["bundle"] \/ GoodBundle(disk'["bundle"])
      BY <1>1, <1>12, <2>1
    <3>2. disk'["certifierKey"] = disk["certifierKey"] \/ \E k \in 1 .. chains : disk'["certifierKey"] = Release!Key(k)
      BY <1>1, <1>12, <2>1
    <3>3. chains' = chains
      BY <1>1
    <3> QED
      BY <1>12, <2>2, <3>1, <3>2, <3>3 DEF ReleaseInv, DiskFits
  <2>4. ASSUME alone' PROVE Apart'
    <3>1. Apart
      BY <1>1, <2>4 DEF ReleaseInv
    <3>2. \A r : Stands(r)' <=> Stands(r)
      BY <2>2 DEF Stands, Release!Intact
    <3>3. Ready(c)
      <4>1. Ready(run[t])
        BY <3>1 DEF Apart
      <4>2. ASSUME NEW i \in 1 .. Len(c.todo), c.todo[i].files = {"status"}
            PROVE  /\ Past(c.todo[i].as)
                   /\ \A r \in c.tells : r.by = c.todo[i].as.by /\ r.what \in c.todo[i].as.revoked
        <5>1. i + 1 \in 1 .. Len(run[t].todo) /\ c.todo[i] = run[t].todo[i + 1]
          BY <1>5, <1>6
        <5> QED
          BY <1>5, <4>1, <4>2, <5>1 DEF Ready
      <4>3. ASSUME c.tells # {} PROVE \E i \in 1 .. Len(c.todo) : c.todo[i].files = {"status"}
        <5>1. PICK j \in 1 .. Len(q) : q[j].files = {"status"}
          BY <1>2, <1>5, <4>1, <4>3 DEF Ready
        <5>2. j # 1
          BY <1>3, <1>13, <5>1
        <5>3. PICK i \in 1 .. Len(rest) : rest[i] = q[j]
          BY <1>7, <5>2
        <5>4. rest[i].files = {"status"} /\ c.todo = rest
          BY <1>5, <5>1, <5>3
        <5> QED
          BY <5>4
      <4> QED
        BY <4>2, <4>3 DEF Ready
    <3>4. ASSUME NEW u \in Terminals PROVE Ready(run[u])'
      <4>1. Ready(run'[u])
        BY <1>8, <3>1, <3>3 DEF Apart
      <4> QED
        BY <2>2, <3>2, <4>1 DEF Ready, Past
    <3>5. \A u, v \in Terminals : run'[u].cmd \in Release!OnKeys /\ run'[v].cmd \in Release!OnKeys => u = v
      <4>1. \A u \in Terminals : run'[u].cmd = run[u].cmd
        BY <1>5, <1>8
      <4> QED
        BY <3>1, <4>1 DEF Apart
    <3> QED
      BY <2>2, <3>1, <3>2, <3>4, <3>5 DEF Apart, Release!Intact
  <2> QED
    BY <1>10, <1>11, <2>3, <2>4 DEF ReleaseInv
<1>14. CASE w.files = {"status"}
  <2>1. IsSnapshot(w.as, chains) /\ run[t].cmd \in Release!OnKeys /\ Len(q) = 1
    BY <1>3, <1>14 DEF WriteFits
  <2>2. /\ disk'["status"] = w.as /\ disk'["bundle"] = disk["bundle"]
        /\ disk'["certifierKey"] = disk["certifierKey"]
        /\ seen' = seen \cup {w.as} /\ told' = told /\ chains' = chains
    BY <1>1, <1>12, <1>14
  <2>3. DiskFits'
    BY <1>12, <2>1, <2>2 DEF ReleaseInv, DiskFits
  <2>4. w.as # Release!None /\ w.as # Release!Torn /\ w.as.epoch \in Nat
    BY <2>1 DEF IsSnapshot, Release!Snapshot, Release!None, Release!Torn
  <2>5. Len(rest) = 0
    BY <1>4, <2>1
  <2>6. ASSUME alone' PROVE Apart'
    <3>1. Apart
      BY <1>1, <2>6 DEF ReleaseInv
    <3>2. Ready(run[t])
      BY <3>1 DEF Apart
    <3>3. /\ Past(w.as)
          /\ \A r \in run[t].tells : r.by = w.as.by /\ r.what \in w.as.revoked
      BY <1>3, <1>14, <3>2 DEF Ready
    <3>4. \A s \in seen : s.epoch \in Nat
      BY DEF ReleaseInv, DiskFits, IsSnapshot
    <3>5. (\A s, u \in seen : s.by = u.by /\ s # u =>
             s.epoch # u.epoch /\ (s.epoch < u.epoch => s.revoked \subseteq u.revoked))'
      <4>1. \A s, u \in seen : s.by = u.by /\ s # u =>
               s.epoch # u.epoch /\ (s.epoch < u.epoch => s.revoked \subseteq u.revoked)
        BY <3>1 DEF Apart
      <4>2. ASSUME NEW s \in seen, s.by = w.as.by
            PROVE  s.epoch # w.as.epoch /\ s.revoked \subseteq w.as.revoked /\ ~(w.as.epoch < s.epoch)
        <5>1. s.epoch < w.as.epoch /\ s.revoked \subseteq w.as.revoked
          BY <3>3, <4>2 DEF Past
        <5> QED
          BY <2>4, <3>4, <5>1
      <4> QED
        BY <2>2, <4>1, <4>2
    <3>6. \A s \in seen' : s.by = w.as.by => s.epoch <= w.as.epoch /\ s.revoked \subseteq w.as.revoked
      BY <2>2, <2>4, <3>3, <3>4 DEF Past
    <3>7. ASSUME NEW r, r.by = w.as.by => r.what \in w.as.revoked PROVE Stands(r)'
      BY <2>2, <3>7 DEF Stands
    <3>8. (\A r \in told : Stands(r))'
      BY <2>2, <3>3, <3>7 DEF Past
    <3>9. \A u, v \in Terminals : run'[u].cmd \in Release!OnKeys /\ run'[v].cmd \in Release!OnKeys => u = v
      <4>1. \A u \in Terminals : run'[u].cmd = run[u].cmd
        BY <1>5, <1>8
      <4> QED
        BY <3>1, <4>1 DEF Apart
    <3>10. ASSUME NEW u \in Terminals PROVE Ready(run[u])'
      <4>1. CASE u = t
        <5>1. \A r \in c.tells : Stands(r)'
          BY <1>5, <3>3, <3>7
        <5>2. c.todo = <<>> /\ Len(c.todo) = 0 /\ run'[u] = c /\ 1 .. 0 = {}
          BY <1>4, <1>5, <1>8, <2>5, <4>1 DEF IsQueue
        <5> QED
          BY <2>2, <2>4, <5>1, <5>2 DEF Ready
      <4>2. CASE u # t
        <5>1. run'[u] = run[u] /\ run[u].cmd \notin Release!OnKeys /\ IsRun(run[u], chains)
          BY <1>8, <2>1, <3>1, <4>2 DEF Apart, ReleaseInv, RunFits
        <5> QED
          BY <5>1, OffKeys DEF Ready
      <4> QED
        BY <4>1, <4>2
    <3> QED
      BY <2>2, <2>4, <3>5, <3>6, <3>8, <3>9, <3>10 DEF Apart
  <2> QED
    BY <1>10, <1>11, <2>3, <2>6 DEF ReleaseInv
<1> QED
  BY <1>13, <1>14

\* A command is over, having reported or not.
LEMMA OverKeeps ==
    ASSUME ReleaseInv, NEW t \in Terminals, NEW said, run' = [run EXCEPT ![t] = Release!Idle],
           \/ said = {}
           \/ run[t].todo = <<>> /\ said = run[t].tells,
           told' = told \cup said, UNCHANGED <<source, disk, chains, alone, seen, listed>>
    PROVE  ReleaseInv'
<1>1. IsRun(run[t], chains) /\ Len(run[t].todo) \in Nat
  BY DEF ReleaseInv, RunFits, IsRun, IsQueue
<1>2. IsRun(Release!Idle, chains) /\ Ready(Release!Idle) /\ Release!Idle.cmd \notin Release!OnKeys
      /\ Release!Idle.todo = <<>> /\ Release!Idle.tells = {} /\ Len(Release!Idle.todo) = 0
  BY DEF IsRun, IsQueue, Ready, Release!Idle, Release!OnKeys
<1>3. /\ DOMAIN run' = Terminals /\ run'[t] = Release!Idle
      /\ \A u \in Terminals : u # t => run'[u] = run[u]
  BY OneRun
<1>4. RunFits'
  BY <1>2, <1>3 DEF ReleaseInv, RunFits
<1>5. \A r \in said : r.by \in 1 .. chains
  BY <1>1 DEF IsRun
<1>6. DiskFits'
  BY <1>5 DEF ReleaseInv, DiskFits
<1>7. alone' \in BOOLEAN /\ Release!CatalogIsTrue'
  BY DEF ReleaseInv, Release!CatalogIsTrue
<1>8. ASSUME alone' PROVE Apart'
  <2>1. Apart
    BY <1>8 DEF ReleaseInv
  <2>2. ASSUME said # {}
        PROVE  /\ run[t].cmd \in Release!OnKeys /\ disk["status"] # Release!None
               /\ \A r \in said : Stands(r)
    <3>1. run[t].todo = <<>> /\ said = run[t].tells
      BY <2>2
    <3>2. Len(run[t].todo) = 0 /\ 1 .. 0 = {}
      BY <3>1
    <3>3. Ready(run[t])
      BY <2>1 DEF Apart
    <3>4. disk["status"] # Release!None /\ \A r \in said : Stands(r)
      BY <2>2, <3>1, <3>2, <3>3 DEF Ready
    <3>5. run[t].cmd = "revoke"
      BY <1>1, <2>2, <3>1 DEF IsRun
    <3> QED
      BY <3>4, <3>5 DEF Release!OnKeys
  <2>3. ASSUME NEW u \in Terminals PROVE Ready(run[u])'
    <3>1. CASE u = t
      <4>1. run'[u].tells = {} /\ Len(run'[u].todo) = 0 /\ 1 .. 0 = {}
        BY <1>2, <1>3, <3>1
      <4> QED
        BY <4>1 DEF Ready
    <3>2. CASE u # t
      <4>1. run'[u] = run[u] /\ Ready(run[u]) /\ IsRun(run[u], chains)
        BY <1>3, <2>1, <3>2 DEF Apart, ReleaseInv, RunFits
      <4>2. CASE said = {}
        <5>1. told' = told /\ disk' = disk /\ seen' = seen
          BY <4>2
        <5> QED
          BY <4>1, <5>1 DEF Ready, Past, Stands, Release!Intact
      <4>3. CASE said # {}
        <5>1. run[u].cmd \notin Release!OnKeys
          BY <2>1, <2>2, <3>2, <4>3 DEF Apart
        <5> QED
          BY <4>1, <5>1, OffKeys DEF Ready
      <4> QED
        BY <4>2, <4>3
    <3> QED
      BY <3>1, <3>2
  <2>4. \A u, v \in Terminals : run'[u].cmd \in Release!OnKeys /\ run'[v].cmd \in Release!OnKeys => u = v
    BY <1>2, <1>3, <2>1 DEF Apart
  <2>5. (\A r \in told : Stands(r))'
    BY <2>1, <2>2 DEF Apart, Stands, Release!Intact
  <2>6. (disk["status"] = Release!None => seen = {} /\ told = {})'
    BY <2>1, <2>2 DEF Apart
  <2> QED
    BY <2>1, <2>3, <2>4, <2>5, <2>6 DEF Apart, Release!Intact
<1> QED
  BY <1>4, <1>6, <1>7, <1>8 DEF ReleaseInv

LEMMA EndsKeeps == ASSUME ReleaseInv, NEW t \in Terminals, Release!Ends(t) PROVE ReleaseInv'
  BY OverKeeps DEF Release!Ends

LEMMA StopsKeeps == ASSUME ReleaseInv, NEW t \in Terminals, Release!Stops(t) PROVE ReleaseInv'
<1>1. told' = told \cup {} /\ run' = [run EXCEPT ![t] = Release!Idle]
      /\ UNCHANGED <<source, disk, chains, alone, seen, listed>>
  BY DEF Release!Stops
<1> QED
  BY <1>1, OverKeeps

\* What changes neither the files the promises are about nor a command.
LEMMA AsideKeeps ==
    ASSUME ReleaseInv, UNCHANGED <<chains, run, alone, told, seen>>, DOMAIN disk' = DOMAIN disk,
           disk'["bundle"] = disk["bundle"], disk'["certifierKey"] = disk["certifierKey"],
           disk'["status"] = disk["status"], Release!CatalogIsTrue'
    PROVE  ReleaseInv'
<1>1. DiskFits' /\ RunFits' /\ alone' \in BOOLEAN
  BY DEF ReleaseInv, DiskFits, RunFits
<1>2. ASSUME alone' PROVE Apart'
  <2>1. Apart
    BY <1>2 DEF ReleaseInv
  <2>2. ASSUME NEW u \in Terminals PROVE Ready(run[u])'
    <3>1. Ready(run'[u])
      BY <2>1 DEF Apart
    <3> QED
      BY <3>1 DEF Ready, Past, Stands, Release!Intact
  <2> QED
    BY <2>1, <2>2 DEF Apart, Stands, Release!Intact
<1> QED
  BY <1>1, <1>2 DEF ReleaseInv

LEMMA EditKeeps == ASSUME ReleaseInv, Release!EditSource PROVE ReleaseInv'
<1>1. UNCHANGED <<chains, run, alone, told, seen, listed>>
  BY DEF Release!EditSource
<1>2. DOMAIN disk' = DOMAIN disk /\ disk'["bundle"] = disk["bundle"]
      /\ disk'["certifierKey"] = disk["certifierKey"] /\ disk'["status"] = disk["status"]
  <2>1. DOMAIN disk = Release!Files
    BY DEF ReleaseInv, DiskFits
  <2> QED
    BY <2>1 DEF Release!EditSource, Release!Edit, Release!Files, Release!Chain, Release!Stage
<1>3. Release!CatalogIsTrue'
  BY <1>1 DEF ReleaseInv, Release!CatalogIsTrue
<1> QED
  BY <1>1, <1>2, <1>3, AsideKeeps

\* The module's cardinality is the library's.
LEMMA SameCardinality == \A S : Release!Cardinality(S) = Cardinality(S)
  BY DEF Release!Cardinality, Cardinality

\* As many variants, each declared, none twice: the package has what plugin.json declares.
LEMMA SameVariants ==
    ASSUME NEW cfg, NEW m, Len(m) \in Nat, Release!MatchesAuthor(cfg, m)
    PROVE  Release!Occurs(m) = Release!Occurs(cfg)
<1> PICK n \in Nat : n = Len(m) /\ n = Len(cfg)
  BY DEF Release!MatchesAuthor
<1> DEFINE A == {cfg[i] : i \in 1 .. n}
           B == {m[i] : i \in 1 .. n}
<1>1. /\ Cardinality(A) = n
      /\ \A i \in 1 .. n : m[i] \in A \ {m[j] : j \in 1 .. i - 1}
  BY SameCardinality DEF Release!MatchesAuthor, Release!Occurs
<1>2. IsFiniteSet(1 .. n) /\ Cardinality(1 .. n) = n
  <2>1. 1 \in Int /\ n \in Int
    OBVIOUS
  <2>2. IsFiniteSet(1 .. n) /\ Cardinality(1 .. n) = IF 1 > n THEN 0 ELSE n - 1 + 1
    BY <2>1, FS_Interval
  <2> QED
    BY <2>2
<1>3. IsFiniteSet(A)
  <2> DEFINE f == [i \in 1 .. n |-> cfg[i]]
  <2>1. f \in Surjection(1 .. n, A)
    BY DEF Surjection
  <2> QED
    BY <1>2, <2>1, FS_Surjection
<1>4. B \subseteq A
  BY <1>1
<1>5. IsFiniteSet(B)
  BY <1>3, <1>4, FS_Subset
<1>6. Cardinality(B) = n
  <2> DEFINE f == [i \in 1 .. n |-> m[i]]
  <2>1. ASSUME NEW i \in 1 .. n, NEW j \in 1 .. n, j < i PROVE m[i] # m[j]
    <3>1. j \in 1 .. i - 1
      BY <2>1
    <3> QED
      BY <1>1, <3>1
  <2>2. \A i, j \in 1 .. n : m[i] = m[j] => i = j
    BY <2>1
  <2>3. f \in Bijection(1 .. n, B)
    BY <2>2 DEF Bijection, Injection, Surjection, IsInjective
  <2> HIDE DEF f, B
  <2>4. Cardinality(B) = Cardinality(1 .. n)
    <3>1. ExistsBijection(1 .. n, B)
      BY <2>3 DEF ExistsBijection
    <3> QED
      BY <1>2, <3>1, FS_Bijection
  <2> QED
    BY <1>2, <2>4
<1>7. A = B
  BY <1>1, <1>3, <1>4, <1>6, FS_Subset
<1> QED
  BY <1>7 DEF Release!Occurs

LEMMA PublishKeeps ==
    ASSUME ReleaseInv, NEW m, Len(m) \in Nat, NEW tier \in {"T1", "T3"}, Release!Publish(m, tier)
    PROVE  ReleaseInv'
<1>1. /\ Release!MatchesAuthor(Builds[source], m)
      /\ (Release!Occurs(m) \subseteq Portable) <=> (tier # "T3")
      /\ listed' = [variants |-> Release!Occurs(m), rows |-> Release!Rows(m), tier |-> tier,
                    author |-> Release!Occurs(Builds[source])]
      /\ UNCHANGED <<source, disk, chains, begun, run, alone, told, seen>>
  BY DEF Release!Publish
<1>2. Release!Occurs(m) = Release!Occurs(Builds[source])
  BY <1>1, SameVariants
<1>3. /\ listed'.variants = Release!Occurs(m) /\ listed'.author = Release!Occurs(m)
      /\ listed'.rows = Release!Rows(m) /\ listed'.tier = tier
  BY <1>1, <1>2
<1>4. \A v \in Release!Occurs(m) : "*" \in Release!Rows(m) \/ Target[v] \in Release!Rows(m)
  BY DEF Release!Rows
<1>5. tier = "T3" <=> \E v \in Release!Occurs(m) : v \notin Portable
  BY <1>1
<1>6. Release!CatalogIsTrue'
  BY <1>3, <1>4, <1>5 DEF Release!CatalogIsTrue
<1> QED
  BY <1>1, <1>6, AsideKeeps

----------------------------------------------------------------------------
\* The packages one may publish are lists.
LEMMA ListsOfVariants ==
    \A m \in Release!Occurs(Builds) \cup Strangers : Len(m) \in Nat
<1>1. \A m \in Strangers : Len(m) \in Nat
  BY DEF Strangers
<1>2. \A m \in Release!Occurs(Builds) : Len(m) \in Nat
  <2>1. Len(Builds) = 2 /\ Len(Builds[1]) = 1 /\ Len(Builds[2]) = 2
    BY DEF Builds
  <2>2. \A i \in 1 .. 2 : i = 1 \/ i = 2
    OBVIOUS
  <2> QED
    BY <2>1, <2>2 DEF Release!Occurs
<1> QED
  BY <1>1, <1>2

LEMMA ReleaseStarts == Release!ReleaseInit => ReleaseInv
<1> SUFFICES ASSUME Release!ReleaseInit PROVE ReleaseInv
  OBVIOUS
<1> USE DEF Release!ReleaseInit
<1>1. /\ DOMAIN disk = Release!Files /\ disk["bundle"] = Release!None
      /\ disk["certifierKey"] = IF chains = 0 THEN Release!None ELSE Release!Key(1)
      /\ disk["status"] = IF chains = 0 THEN Release!None ELSE Release!Snapshot(1, 1, {})
  <2>1. disk = [f \in Release!Files |->
                  IF chains = 0 \/ f \notin Release!Chain THEN Release!None
                  ELSE CASE f = "publisherCert" -> Release!Cert(1)
                         [] f = "status" -> Release!Snapshot(1, 1, {})
                         [] OTHER -> Release!Key(1)]
    OBVIOUS
  <2>2. /\ {"bundle", "certifierKey", "status"} \subseteq Release!Files
        /\ "bundle" \notin Release!Chain
        /\ "certifierKey" \in Release!Chain /\ "status" \in Release!Chain
    BY DEF Release!Files, Release!Chain, Release!Stage
  <2>3. disk["bundle"] = Release!None
    BY <2>1, <2>2
  <2>4. disk["certifierKey"] = IF chains = 0 THEN Release!None ELSE Release!Key(1)
    BY <2>1, <2>2
  <2>5. disk["status"] = IF chains = 0 THEN Release!None ELSE Release!Snapshot(1, 1, {})
    <3>1. CASE chains = 0
      BY <2>1, <2>2, <3>1
    <3>2. CASE chains # 0
      <4>1. ~(chains = 0 \/ "status" \notin Release!Chain) /\ "status" # "publisherCert"
        BY <2>2, <3>2
      <4> QED
        BY <2>1, <2>2, <3>2, <4>1
    <3> QED
      BY <3>1, <3>2
  <2> QED
    BY <2>1, <2>3, <2>4, <2>5
<1>2. chains \in {0, 1} /\ told = {} /\ seen = IF chains = 0 THEN {} ELSE {Release!Snapshot(1, 1, {})}
  OBVIOUS
<1>3. ASSUME chains = 1 PROVE IsSnapshot(Release!Snapshot(1, 1, {}), chains)
  BY <1>3 DEF IsSnapshot, Release!Snapshot
<1>4. DiskFits
  BY <1>1, <1>2, <1>3 DEF DiskFits
<1>5. /\ DOMAIN run = Terminals /\ \A t \in Terminals : run[t] = Release!Idle
      /\ alone \in BOOLEAN
  OBVIOUS
<1>6. IsRun(Release!Idle, chains) /\ Ready(Release!Idle) /\ Release!Idle.cmd \notin Release!OnKeys
  <2>1. Release!Idle.todo = <<>> /\ Release!Idle.tells = {} /\ Len(<<>>) = 0 /\ 1 .. 0 = {}
    BY DEF Release!Idle
  <2> QED
    BY <2>1 DEF IsRun, IsQueue, Ready, Release!Idle, Release!OnKeys
<1>7. RunFits
  BY <1>5, <1>6 DEF RunFits
<1>8. Apart
  <2>1. \A t \in Terminals : Ready(run[t]) /\ run[t].cmd \notin Release!OnKeys
    BY <1>5, <1>6
  <2>2. Release!Intact("status") =>
           \A s \in seen : s.epoch <= disk["status"].epoch /\ s.revoked \subseteq disk["status"].revoked
    BY <1>1, <1>2 DEF Release!Intact, Release!Snapshot
  <2>3. disk["status"] = Release!None => seen = {}
    BY <1>1, <1>2 DEF Release!None, Release!Snapshot
  <2> QED
    BY <1>2, <2>1, <2>2, <2>3 DEF Apart
<1>9. Release!CatalogIsTrue
  BY DEF Release!CatalogIsTrue
<1> QED
  BY <1>4, <1>5, <1>7, <1>8, <1>9 DEF ReleaseInv

LEMMA ReleaseSteps == ReleaseInv /\ [Release!ReleaseNext]_(Release!releaseVars) => ReleaseInv'
<1> SUFFICES ASSUME ReleaseInv, [Release!ReleaseNext]_(Release!releaseVars) PROVE ReleaseInv'
  OBVIOUS
<1>1. CASE UNCHANGED Release!releaseVars
  BY <1>1, AsideKeeps DEF Release!releaseVars, ReleaseInv, Release!CatalogIsTrue
<1>2. ASSUME NEW t \in Terminals,
             \/ Release!Package(t) \/ Release!Sign(t) \/ Release!WriteOpens(t) \/ Release!WriteEnds(t)
             \/ Release!Ends(t) \/ Release!Stops(t)
      PROVE  ReleaseInv'
  BY <1>2, PackageKeeps, SignKeeps, WriteOpensKeeps, WriteEndsKeeps, EndsKeeps, StopsKeeps
<1>3. ASSUME NEW t \in Terminals, NEW force \in BOOLEAN, Release!Devcert(t, force) PROVE ReleaseInv'
  BY <1>3, DevcertKeeps
<1>4. ASSUME NEW t \in Terminals, NEW x \in Release!Revocable, Release!Revoke(t, x) PROVE ReleaseInv'
  BY <1>4, RevokeKeeps
<1>5. ASSUME NEW m \in Release!Occurs(Builds) \cup Strangers, NEW tier \in {"T1", "T3"},
             Release!Publish(m, tier)
      PROVE  ReleaseInv'
  BY <1>5, ListsOfVariants, PublishKeeps
<1>6. CASE Release!EditSource
  BY <1>6, EditKeeps
<1> QED
  BY <1>1, <1>2, <1>3, <1>4, <1>5, <1>6 DEF Release!ReleaseNext

\* What is promised of a release follows.
LEMMA ReleasedTrue ==
    ReleaseInv => Release!SignedIsMeasured /\ Release!SnapshotForgetsNothing /\ Release!CatalogIsTrue
<1> SUFFICES ASSUME ReleaseInv
    PROVE Release!SignedIsMeasured /\ Release!SnapshotForgetsNothing /\ Release!CatalogIsTrue
  OBVIOUS
<1>1. Release!SignedIsMeasured
  BY DEF ReleaseInv, DiskFits, GoodBundle, Release!SignedIsMeasured, Release!Intact
<1>2. Release!SnapshotForgetsNothing
  <2>1. ASSUME alone
        PROVE  /\ \A r \in told : (Release!Intact("status") /\ disk["status"].by = r.by) => r.what \in disk["status"].revoked
               /\ \A s, u \in seen : (s.by = u.by /\ s # u) =>
                    /\ s.epoch # u.epoch
                    /\ s.epoch < u.epoch => s.revoked \subseteq u.revoked
    BY <2>1 DEF ReleaseInv, Apart, Stands
  <2> QED
    BY <2>1 DEF Release!SnapshotForgetsNothing
<1> QED
  BY <1>1, <1>2 DEF ReleaseInv

\* The release commands, in whatever order an author runs, stops and overlaps them and
\* edits files between: what is signed was measured; unless two commands wrote the keys at
\* once, a trust snapshot holds every revocation reported and epochs never go back; and a
\* catalog row is of the variants plugin.json declares (sign, revoke, devcert, publish).
THEOREM ReleasesStayTrue == Spec => []ReleasesAreTrue
<1> DEFINE Here == part = "release"
<1>1. Init /\ Here => ReleaseInv
  BY ReleaseStarts DEF Init
<1>2. Here /\ [Next]_vars => Here' /\ [Release!ReleaseNext]_(Release!releaseVars)
  BY DEF Next, vars, Release!releaseVars
<1>3. ~Here /\ [Next]_vars => ~Here'
  BY DEF Next, vars
<1>4. ~Here => ReleasesAreTrue
  BY DEF ReleasesAreTrue
<1>5. ReleaseInv => ReleasesAreTrue
  BY ReleasedTrue DEF ReleasesAreTrue
<1> HIDE DEF Here
<1> QED
  BY <1>1, <1>2, <1>3, <1>4, <1>5, ReleaseSteps, PTL DEF Spec
----------------------------------------------------------------------------
(* The checks' file, by the names of CheckFile.                            *)

folder == v1
install == v2
list == v3
pass == v4
cache == v5
audio == v6
results == v7
edits == v8
verdict == v9
family == v10
USE DEF folder, install, list, pass, cache, audio, results, edits, verdict, family

\* The recordings the first n checks of the list sent, as the package reads their inputs.
Sent(n) ==
    {list[i].audio : i \in {j \in 1 .. n : Check!Take(list[j].input, install) = {"held"}}} \ {"none"}

\* What members come to together.
Total(f, S) == Check!FoldSet(LAMBDA m, n : f[m].size + n, 0, S)

\* The list is as it was; the checks read so far have names of their own; the second
\* reading found nothing but what the package holds; and what is packed was read to the
\* end, within its share, with nothing left open.
ListFits ==
    /\ \E n \in Nat : list \in [1 .. n -> Checks]
    /\ \E f : install = [m \in Members |-> f[m]]
    /\ pass \in {0, 1, 2} /\ verdict \in {"none", "refused", "packed"}
    /\ verdict = "packed" => pass = 0
ReadSoFar ==
    /\ results \in Seq({"held", "unresolved"}) /\ Len(results) <= Len(list)
    /\ \A i, j \in 1 .. Len(results) : i # j => list[i].name # list[j].name
AsPacked ==
    pass = 2 \/ verdict = "packed" =>
        /\ \A m \in DOMAIN cache : cache[m] = install[m]
        /\ \A i \in 1 .. Len(results) : results[i] \in Check!Outcomes(list[i], install)
        /\ audio = Sent(Len(results)) /\ audio \subseteq DOMAIN cache
        /\ \A i \in 1 .. Len(results) : list[i].expect.refs \subseteq DOMAIN cache
PackedWhole ==
    verdict = "packed" =>
        /\ Len(results) = Len(list) /\ ~(Total(cache, audio) > MaxAudio) /\ Check!NoneUnresolved
        /\ \A i \in 1 .. Len(list) : Check!Allowed(list[i], install)

ListInv == ListFits /\ ReadSoFar /\ AsPacked /\ PackedWhole

\* A package's members, taken together, come to the same size however they were read: the
\* sum looks at nothing but the members it adds.
LEMMA SameTotal ==
    ASSUME NEW f, NEW g, NEW S, \A m \in S : f[m] = g[m]
    PROVE  Total(f, S) = Total(g, S)
<1> DEFINE op1(m, n) == f[m].size + n
           op2(m, n) == g[m].size + n
           any(s) == CHOOSE x \in s : TRUE
           e1(h, s) == IF s = {} THEN 0 ELSE op1(any(s), h[s \ {any(s)}])
           e2(h, s) == IF s = {} THEN 0 ELSE op2(any(s), h[s \ {any(s)}])
           f1 == CHOOSE h : h = [s \in SUBSET S |-> e1(h, s)]
           f2 == CHOOSE h : h = [s \in SUBSET S |-> e2(h, s)]
<1>1. Total(f, S) = f1[S]
  BY Zenon DEF Total, Check!FoldSet, Check!MapThenFoldSet
<1>2. Total(g, S) = f2[S]
  BY Zenon DEF Total, Check!FoldSet, Check!MapThenFoldSet
<1>3. \A s \in SUBSET S : s # {} => any(s) \in S
  OBVIOUS
<1>4. \A h : \A s \in SUBSET S : e1(h, s) = e2(h, s)
  BY <1>3
<1> HIDE DEF e1, e2
<1>5. ASSUME NEW h PROVE h = [s \in SUBSET S |-> e1(h, s)] <=> h = [s \in SUBSET S |-> e2(h, s)]
  BY <1>4
<1>6. f1 = f2
  BY <1>5, Zenon
<1> QED
  BY <1>1, <1>2, <1>6

LEMMA TooMuch == Check!TooMuchAudio <=> Total(cache, audio) > MaxAudio
  BY Zenon DEF Check!TooMuchAudio, Total, Check!FoldSet, Check!MapThenFoldSet

\* check: an outcome that holds was the only one, and its input was taken.
LEMMA HeldOnly ==
    ASSUME NEW c, NEW read, "held" \in Check!Outcomes(c, read), c.lane \in Check!KnownLanes
    PROVE  Check!Outcomes(c, read) = {"held"} /\ Check!Take(c.input, read) = {"held"}
<1>1. PICK in \in Check!Take(c.input, read), ex \in Check!Take(c.expect, read) :
        Check!Outcome(c, in, ex, read) = "held"
  BY DEF Check!Outcomes
<1>2. \A v : Check!Take(v, read) \subseteq {"refused", "unresolved", "held"}
             /\ ("held" \in Check!Take(v, read) => Check!Take(v, read) = {"held"})
  BY DEF Check!Take
<1>3. in = "held" /\ ex = "held"
  BY <1>1, <1>2 DEF Check!Outcome
<1>4. Check!Take(c.input, read) = {"held"} /\ Check!Take(c.expect, read) = {"held"}
  BY <1>1, <1>2, <1>3
<1> QED
  BY <1>1, <1>3, <1>4 DEF Check!Outcomes

\* One more check: what was sent so far and it.
LEMMA OneSent ==
    ASSUME NEW n \in Nat
    PROVE  Sent(n + 1) = Sent(n) \cup
             (IF Check!Take(list[n + 1].input, install) = {"held"} THEN {list[n + 1].audio} \ {"none"} ELSE {})
<1>1. 1 .. n + 1 = (1 .. n) \cup {n + 1}
  OBVIOUS
<1> QED
  BY <1>1 DEF Sent

\* What judges a check at the end looks only at the member its reference comes from.
LEMMA SameJudged ==
    ASSUME NEW c, NEW f, NEW g, \A m \in c.expect.refs : f[m] = g[m]
    PROVE  Check!Allowed(c, f) = Check!Allowed(c, g)
<1>1. c.expect.refs # {} => (CHOOSE m \in c.expect.refs : TRUE) \in c.expect.refs
  OBVIOUS
<1>2. Check!Reference(c, f) = Check!Reference(c, g)
  BY <1>1 DEF Check!Reference
<1>3. Check!OnEmbeddings(c, f) = Check!OnEmbeddings(c, g)
  BY <1>2 DEF Check!OnEmbeddings
<1> QED
  BY <1>3 DEF Check!Allowed

LEMMA JudgedStays ==
    ASSUME UNCHANGED <<install, list, family>>
    PROVE  \A i : Check!Allowed(list[i], install)' = Check!Allowed(list[i], install)
<1>1. \A i : Check!OnEmbeddings(list[i], install)' = Check!OnEmbeddings(list[i], install)
  BY DEF Check!OnEmbeddings, Check!Reference
<1>2. \A i : Check!OnSession(list[i])' = Check!OnSession(list[i])
  BY DEF Check!OnSession
<1>3. \A i : Check!OnOperation(list[i])' = Check!OnOperation(list[i])
  BY DEF Check!OnOperation
<1> QED
  BY <1>1, <1>2, <1>3 DEF Check!Allowed

\* One more check is read (resolver.check under ParseValidation).
LEMMA ReadCheckKeeps == ASSUME ListInv, Check!ReadCheck PROVE ListInv'
<1> DEFINE k == Len(results) + 1
           c == list[k]
           read == [m \in Members |-> Check!ReadOnce(m)]
<1>0. PICK o \in Check!Outcomes(c, read) :
        /\ cache' = [m \in DOMAIN cache \cup Check!Touched(c) |-> read[m]]
        /\ audio' = audio \cup (IF Check!Take(c.input, read) = {"held"} THEN {c.audio} \ {Check!NoAudio} ELSE {})
        /\ IF o = "refused" \/ c.name \in {list[i].name : i \in 1 .. Len(results)}
           THEN verdict' = "refused" /\ pass' = 0 /\ UNCHANGED results
           ELSE results' = Append(results, o) /\ UNCHANGED <<verdict, pass>>
  BY DEF Check!ReadCheck
<1>1. /\ pass # 0 /\ verdict # "packed" /\ Len(results) < Len(list) /\ UNCHANGED <<install, list>>
      /\ results \in Seq({"held", "unresolved"}) /\ Len(results) \in Nat /\ k \in Nat
  BY DEF Check!ReadCheck, ListInv, ListFits, ReadSoFar
<1> HIDE DEF read
<1>2. CASE o = "refused" \/ c.name \in {list[i].name : i \in 1 .. Len(results)}
  <2>1. verdict' = "refused" /\ pass' = 0 /\ results' = results
    BY <1>0, <1>2
  <2>2. ListFits'
    BY <1>1, <2>1 DEF ListInv, ListFits
  <2>3. ReadSoFar'
    BY <1>1, <2>1 DEF ListInv, ReadSoFar
  <2>4. AsPacked' /\ PackedWhole'
    BY <2>1 DEF AsPacked, PackedWhole
  <2> QED
    BY <2>2, <2>3, <2>4 DEF ListInv
<1>3. CASE ~(o = "refused" \/ c.name \in {list[i].name : i \in 1 .. Len(results)})
  <2>1. results' = Append(results, o) /\ verdict' = verdict /\ pass' = pass
    BY <1>0, <1>3
  <2>2. o \in {"held", "unresolved"}
    <3>1. \A v : Check!Take(v, read) \subseteq {"refused", "unresolved", "held"}
      BY DEF Check!Take
    <3> QED
      BY <1>3, <3>1 DEF Check!Outcomes, Check!Outcome
  <2>3. /\ results' \in Seq({"held", "unresolved"}) /\ Len(results') = k /\ results'[k] = o
        /\ \A i \in 1 .. Len(results) : results'[i] = results[i]
        /\ 1 .. k = (1 .. Len(results)) \cup {k}
    BY <1>1, <2>1, <2>2
  <2>4. ReadSoFar'
    BY <1>1, <1>3, <2>3 DEF ReadSoFar, ListInv, ListFits
  <2>5. AsPacked'
    <3> SUFFICES ASSUME pass = 2 PROVE AsPacked'
      BY <1>1, <2>1 DEF AsPacked
    <3>0. (\A m \in DOMAIN cache : cache[m] = install[m]) /\ \E f : install = [m \in Members |-> f[m]]
      BY DEF ListInv, ListFits, AsPacked
    <3>1. read = install
      BY <3>0 DEF read, Check!ReadOnce, Check!Reader, Check!FromPackage
    <3>2. \A m \in DOMAIN cache' : cache'[m] = install[m]
      BY <1>0, <3>1
    <3>3. \A i \in 1 .. Len(results') : results'[i] \in Check!Outcomes(list[i], install)
      BY <2>3, <3>1 DEF ListInv, AsPacked
    <3>4. audio' = Sent(Len(results'))
      BY <1>0, <1>1, <2>3, <3>1, OneSent DEF ListInv, AsPacked, Check!NoAudio
    <3>5. audio' \subseteq DOMAIN cache'
      BY <1>0 DEF Check!Touched, Check!NoAudio, ListInv, AsPacked
    <3>8. \A i \in 1 .. Len(results') : list[i].expect.refs \subseteq DOMAIN cache'
      BY <1>0, <2>3 DEF Check!Touched, ListInv, AsPacked
    <3>6. Sent(Len(results))' = Sent(Len(results'))
      BY <1>1 DEF Sent, Check!Take, Check!Lost
    <3>7. \A i : Check!Outcomes(list[i], install)' = Check!Outcomes(list[i], install)
      BY <1>1 DEF Check!Outcomes, Check!Outcome, Check!Take, Check!Lost, Check!Sendable, Check!IsRecording
    <3> QED
      BY <1>1, <3>2, <3>3, <3>4, <3>5, <3>6, <3>7, <3>8 DEF AsPacked
  <2> QED
    BY <1>1, <2>1, <2>4, <2>5 DEF ListInv, ListFits, PackedWhole
<1> QED
  BY <1>2, <1>3

\* The first reading is over (carrySessionRecordings), or the second (packValidation).
LEMMA ReadingEndsKeeps == ASSUME ListInv, Check!CarryRecordings \/ Check!Pack PROVE ListInv'
<1>0. UNCHANGED list /\ pass # 0 /\ verdict # "packed" /\ Len(results) = Len(list)
  BY DEF Check!CarryRecordings, Check!Pack, ListInv, ListFits
<1>1. CASE Check!Refuse
  BY <1>0, <1>1 DEF Check!Refuse, ListInv, ListFits, ReadSoFar, AsPacked, PackedWhole
<1>2. CASE Check!CarryRecordings /\ ~Check!Refuse
  <2>1. /\ install' = [m \in Members |->
                        IF m \in Check!Recordings /\ install[m] = Check!Absent THEN cache[m] ELSE install[m]]
        /\ pass' = 2 /\ verdict' = verdict /\ cache' = <<>> /\ audio' = {} /\ results' = <<>>
    BY <1>2 DEF Check!CarryRecordings
  <2>2. Len(results') = 0 /\ 1 .. 0 = {} /\ DOMAIN cache' = {} /\ results' \in Seq({"held", "unresolved"})
    BY <2>1
  <2>3. ListFits'
    <3>1. install' = [m \in Members |-> install'[m]]
      BY <2>1
    <3> QED
      BY <1>0, <2>1, <3>1 DEF ListInv, ListFits
  <2>4. ReadSoFar'
    BY <1>0, <2>1, <2>2 DEF ListInv, ListFits, ReadSoFar
  <2>5. Sent(0)' = {}
    BY <2>2 DEF Sent
  <2>6. AsPacked'
    BY <2>1, <2>2, <2>5 DEF AsPacked
  <2> QED
    BY <1>0, <2>1, <2>3, <2>4, <2>6 DEF ListInv, PackedWhole
<1>3. CASE Check!Pack /\ ~Check!Refuse
  <2>1. /\ pass = 2 /\ verdict' = "packed" /\ pass' = 0 /\ UNCHANGED <<install, cache, audio, results, family>>
        /\ ~(Total(cache, audio) > MaxAudio) /\ Check!NoneUnresolved
        /\ \A i \in 1 .. Len(list) : Check!Allowed(list[i], cache)
    BY <1>3, TooMuch DEF Check!Pack
  <2>8. \A i \in 1 .. Len(list) : Check!Allowed(list[i], install)
    <3>1. ASSUME NEW i \in 1 .. Len(list) PROVE Check!Allowed(list[i], install)
      <4>1. \A m \in list[i].expect.refs : cache[m] = install[m]
        BY <1>0, <2>1 DEF ListInv, AsPacked
      <4>2. Check!Allowed(list[i], cache) = Check!Allowed(list[i], install)
        BY <4>1, SameJudged
      <4> QED
        BY <2>1, <4>2
    <3> QED
      BY <3>1
  <2>2. Total(cache, audio)' = Total(cache, audio) /\ Check!NoneUnresolved' = Check!NoneUnresolved
        /\ \A i : Check!Allowed(list[i], install)' = Check!Allowed(list[i], install)
    BY <1>0, <2>1, JudgedStays DEF Check!NoneUnresolved
  <2>3. Sent(Len(results))' = Sent(Len(results))
    BY <1>0, <2>1 DEF Sent, Check!Take, Check!Lost
  <2>4. \A i : Check!Outcomes(list[i], install)' = Check!Outcomes(list[i], install)
    BY <1>0, <2>1 DEF Check!Outcomes, Check!Outcome, Check!Take, Check!Lost, Check!Sendable, Check!IsRecording
  <2>5. ListFits' /\ ReadSoFar'
    BY <1>0, <2>1 DEF ListInv, ListFits, ReadSoFar
  <2>6. AsPacked'
    BY <1>0, <2>1, <2>3, <2>4 DEF ListInv, AsPacked
  <2>7. PackedWhole'
    BY <1>0, <2>1, <2>2, <2>8 DEF PackedWhole
  <2> QED
    BY <2>5, <2>6, <2>7 DEF ListInv
<1> QED
  BY <1>1, <1>2, <1>3

\* A save is to the author's folder, which the second reading does not look at.
LEMMA SaveKeeps ==
    ASSUME ListInv, Check!Save \/ UNCHANGED Check!checkFileVars PROVE ListInv'
<1>1. UNCHANGED <<install, list, pass, cache, audio, results, verdict, family>>
  BY DEF Check!Save, Check!checkFileVars
<1>2. Total(cache, audio)' = Total(cache, audio) /\ Check!NoneUnresolved' = Check!NoneUnresolved
      /\ \A i : Check!Allowed(list[i], install)' = Check!Allowed(list[i], install)
  BY <1>1, JudgedStays DEF Check!NoneUnresolved
<1>3. Sent(Len(results))' = Sent(Len(results))
  BY <1>1 DEF Sent, Check!Take, Check!Lost
<1>4. \A i : Check!Outcomes(list[i], install)' = Check!Outcomes(list[i], install)
  BY <1>1 DEF Check!Outcomes, Check!Outcome, Check!Take, Check!Lost, Check!Sendable, Check!IsRecording
<1>5. ListFits' /\ ReadSoFar'
  BY <1>1 DEF ListInv, ListFits, ReadSoFar
<1>6. AsPacked'
  BY <1>1, <1>3, <1>4 DEF ListInv, AsPacked
<1>7. PackedWhole'
  BY <1>1, <1>2 DEF ListInv, PackedWhole
<1> QED
  BY <1>5, <1>6, <1>7 DEF ListInv

LEMMA CheckFileStarts == Check!CheckFileInit => ListInv
<1> SUFFICES ASSUME Check!CheckFileInit PROVE ListInv
  OBVIOUS
<1>1. PICK n \in 1 .. MaxList : list \in [1 .. n -> Checks]
  BY DEF Check!CheckFileInit
<1>2. Len(list) = n /\ n \in Nat
  BY <1>1
<1>3. results = <<>> /\ Len(results) = 0 /\ results \in Seq({"held", "unresolved"}) /\ 1 .. 0 = {}
  BY DEF Check!CheckFileInit
<1>4. install = [m \in Members |-> install[m]]
  BY DEF Check!CheckFileInit
<1>5. ListFits
  BY <1>1, <1>2, <1>4 DEF Check!CheckFileInit, ListFits
<1>6. ReadSoFar
  BY <1>2, <1>3 DEF ReadSoFar
<1> QED
  BY <1>5, <1>6 DEF Check!CheckFileInit, ListInv, AsPacked, PackedWhole

\* A host that reads what was packed holds every check.
LEMMA PackedPass == ListInv => Check!PackedChecksCanPass
<1> SUFFICES ASSUME ListInv, verdict = "packed" PROVE Check!PackedChecksCanPass
  BY DEF Check!PackedChecksCanPass
<1>0. PICK n \in Nat : list \in [1 .. n -> Checks]
  BY DEF ListInv, ListFits
<1>1. Len(list) = n /\ Len(results) = n /\ Len(results) \in Nat
  BY <1>0 DEF ListInv, PackedWhole
<1>2. ASSUME NEW i \in 1 .. n
      PROVE  /\ list[i] \in Checks /\ Check!Allowed(list[i], install)
             /\ Check!Outcomes(list[i], install) = {"held"} /\ Check!Take(list[i].input, install) = {"held"}
  <2>1. Check!Allowed(list[i], install) /\ list[i] \in Checks
    BY <1>0, <1>1 DEF ListInv, PackedWhole
  <2>2. results[i] = "held"
    BY <1>1 DEF ListInv, PackedWhole, Check!NoneUnresolved, ReadSoFar
  <2>3. "held" \in Check!Outcomes(list[i], install)
    BY <1>1, <2>2 DEF ListInv, AsPacked
  <2>4. list[i].lane \in Check!KnownLanes
    BY <2>1 DEF Check!Allowed
  <2> QED
    BY <2>1, <2>3, <2>4, HeldOnly
<1>3. audio = Check!Recordings
  <2>1. audio = {list[i].audio : i \in 1 .. n} \ {"none"}
    BY <1>1, <1>2 DEF ListInv, AsPacked, Sent
  <2>2. \A i \in 1 .. n : list[i].audio # "none" => list[i].lane = "session"
    BY <1>2, ChecksAssumption
  <2> QED
    BY <1>1, <2>1, <2>2 DEF Check!Recordings, Check!NoAudio
<1>4. \A m \in audio : cache[m] = install[m]
  BY DEF ListInv, AsPacked
<1>5. ~(Total(cache, audio) > MaxAudio) /\ Total(cache, audio) = Total(install, audio)
  BY <1>4, SameTotal DEF ListInv, PackedWhole
<1>6. ~(Total(install, Check!Recordings) > MaxAudio)
  BY <1>3, <1>5
<1>7. \A i, j \in 1 .. Len(list) : i # j => list[i].name # list[j].name
  BY <1>1 DEF ListInv, ReadSoFar
<1>8. ~(Check!FoldSet(LAMBDA m, n_1 : install[m].size + n_1, 0, Check!Recordings) > MaxAudio)
  BY <1>6, Zenon DEF Total, Check!FoldSet, Check!MapThenFoldSet
<1> QED
  BY <1>1, <1>2, <1>7, <1>8 DEF Check!PackedChecksCanPass

LEMMA CheckFileSteps == ListInv /\ [Check!CheckFileNext]_(Check!checkFileVars) => ListInv'
  BY ReadCheckKeeps, ReadingEndsKeeps, SaveKeeps DEF Check!CheckFileNext

\* Packaging: whatever is saved while `aiisdk package` reads validation.json, what it packs
\* a host can hold every check of (ParseValidation, carrySessionRecordings); and whatever
\* is written to a runtime's tree, the ceilings the report names admit it on every host,
\* and one file less would not (RequiredCeilings).
THEOREM PackagesStayTrue == Spec => []PackagesAreTrue
<1> DEFINE Here == part = "check"
           There == part = "pack"
<1>1. Init => (Here => ListInv) /\ (There => PackInv /\ Within)
  BY CheckFileStarts, PackStarts, PackStartsWithin DEF Init
<1>2. [Next]_vars => (Here <=> Here') /\ (There <=> There')
  BY DEF Next, vars
<1>3. Here /\ [Next]_vars => [Check!CheckFileNext]_(Check!checkFileVars)
  BY DEF Next, vars, Check!checkFileVars
<1>4. There /\ [Next]_vars => [Pack!PackNext]_(Pack!packVars)
  BY DEF Next, vars, Pack!packVars
<1>5. (Here => ListInv) /\ (There => PackInv /\ Within) => PackagesAreTrue
  BY PackedPass, NamedCeilingsAdmit DEF PackagesAreTrue
<1> HIDE DEF Here, There
<1>6. (Here => ListInv) /\ (There => PackInv /\ Within) /\ [Next]_vars
         => ((Here => ListInv) /\ (There => PackInv /\ Within))'
  BY <1>2, <1>3, <1>4, CheckFileSteps, PackSteps, PackStaysWithin
<1> QED
  BY <1>1, <1>5, <1>6, PTL DEF Spec
=============================================================================

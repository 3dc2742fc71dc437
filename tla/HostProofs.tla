----------------------------- MODULE HostProofs -----------------------------
(***************************************************************************)
(* Proofs about the parts of MCEngines that are the stand-in host and what *)
(* asks it: a run of `aiisdk test`, the host's files, memories and         *)
(* streams, the document example.  A behaviour is one part, so each result *)
(* follows from the part's own invariant and from what keeps the part.     *)
(***************************************************************************)
EXTENDS MCEngines, WellFoundedInduction, SequenceTheorems, FiniteSetTheorems, TLAPS

----------------------------------------------------------------------------
(* A run of `aiisdk test`, by the names of TestRun.                        *)

opts == v1
steps == v2
pos == v3
asked == v4
rep == v5
outcomes == v6
values == v7
checking == v8
kv == v9
published == v10
call == v11
last == v12
code == v13
USE DEF opts, steps, pos, asked, rep, outcomes, values, checking, kv, published, call, last, code

\* The steps a run may have.
AStep ==
    {Test!Must(n) : n \in {"build", "package", "artifact", "verify", "admission", "readiness"}}
    \cup {Test!Other(n) : n \in {"account", "admission", "banner", "confirmation", "exit"}}
    \cup {Test!CaseOf(l) : l \in Lines}
    \cup {[kind |-> "reading", name |-> "checks"], [kind |-> "check", name |-> "check"],
          [kind |-> "hostile", name |-> "hostile"]}

\* Checks are asked one after the other once they are read again, and end before the run does.
StepsFit ==
    /\ steps \in Seq(AStep) /\ Len(steps) > 0
    /\ steps[1].kind # "check" /\ steps[Len(steps)].kind \notin {"check", "reading"}
    /\ \A i \in 2 .. Len(steps) : steps[i].kind = "check" => steps[i - 1].kind \in {"check", "reading"}

\* What is asked, what is running and what the plugin was told go with the step the run is at.
AtStep ==
    /\ opts.own \in Lines
    /\ pos \in 0 .. Len(steps) + 1
    /\ asked \in BOOLEAN
    /\ checking <=> pos \in DOMAIN steps /\ steps[pos].kind = "check"
    /\ asked => pos \in DOMAIN steps /\ steps[pos].kind \in {"case", "check", "hostile"}
    /\ pos \in DOMAIN steps => Test!Fits(opts.own, FALSE)
    /\ ~(asked /\ steps[pos].kind = "case") => values = <<>>
    /\ asked /\ steps[pos].kind = "case" =>
         values = [k \in {d \in DOMAIN steps[pos].says : steps[pos].says[d] # Test!Null} |-> steps[pos].says[k]]

\* Only a session engine's call outlives what it was asked.
CallIsOwn ==
    call # Test!NoCall =>
        /\ opts.lane # "session" => asked /\ call.of = pos
        /\ call.during => call.of \in DOMAIN steps /\ steps[call.of].kind = "check"

\* The report, and the outcomes of the checks that are running.
ReportShape == [passed : SUBSET Nat, fails : Nat, unrun : Nat, prereq : BOOLEAN]
Outcome == [at : Nat, was : {"passed", "not passed", "not here"}]
OutcomesFit ==
    /\ outcomes \in Seq(Outcome)
    /\ outcomes # <<>> => pos \in DOMAIN steps /\ steps[pos].kind = "check"
    /\ \A j \in 1 .. Len(outcomes) : outcomes[j].at \in DOMAIN steps /\ steps[outcomes[j].at].kind = "check"

\* A step that was passed by is in the report, or among the outcomes still to be reported.
Clean == rep.fails = 0 /\ rep.unrun = 0 /\ ~rep.prereq
Settled(i) == steps[i].kind # "reading" => i \in rep.passed \/ \E j \in 1 .. Len(outcomes) : outcomes[j].at = i
Accounted == Clean => \A i \in 1 .. pos - 1 : Settled(i)

\* The exit says what the report says, at the end.
ExitFits == code \notin {"none", "fail"} => pos = Len(steps) + 1 /\ code = Test!Result(rep)

Telling == rep \in ReportShape /\ OutcomesFit /\ Accounted /\ ExitFits

TestInv == StepsFit /\ AtStep /\ CallIsOwn /\ Telling /\ Test!HostKeepsApart

\* Four lists in a row, by their elements.
LEMMA InARow ==
    ASSUME NEW S, NEW a \in Seq(S), NEW b \in Seq(S), NEW c \in Seq(S), NEW d \in Seq(S)
    PROVE  LET s == a \o b \o c \o d
               at(i) == IF i <= Len(a) THEN a[i]
                        ELSE IF i <= Len(a) + Len(b) THEN b[i - Len(a)]
                        ELSE IF i <= Len(a) + Len(b) + Len(c) THEN c[i - Len(a) - Len(b)]
                        ELSE d[i - Len(a) - Len(b) - Len(c)]
           IN  /\ s \in Seq(S) /\ Len(s) = Len(a) + Len(b) + Len(c) + Len(d)
               /\ \A i \in 1 .. Len(s) : s[i] = at(i)
<1> DEFINE ab == a \o b
           abc == ab \o c
           s == abc \o d
<1>1. /\ ab \in Seq(S) /\ Len(ab) = Len(a) + Len(b)
      /\ \A i \in 1 .. Len(ab) : ab[i] = IF i <= Len(a) THEN a[i] ELSE b[i - Len(a)]
  BY ConcatProperties
<1> HIDE DEF ab
<1>2. /\ abc \in Seq(S) /\ Len(abc) = Len(ab) + Len(c)
      /\ \A i \in 1 .. Len(abc) : abc[i] = IF i <= Len(ab) THEN ab[i] ELSE c[i - Len(ab)]
  <2>1. ab \in Seq(S)
    BY <1>1
  <2> QED
    BY <2>1, ConcatProperties
<1> HIDE DEF abc
<1>3. /\ s \in Seq(S) /\ Len(s) = Len(abc) + Len(d)
      /\ \A i \in 1 .. Len(s) : s[i] = IF i <= Len(abc) THEN abc[i] ELSE d[i - Len(abc)]
  <2>1. abc \in Seq(S)
    BY <1>2
  <2> QED
    BY <2>1, ConcatProperties
<1> HIDE DEF s
<1>4. Len(a) \in Nat /\ Len(b) \in Nat /\ Len(c) \in Nat /\ Len(d) \in Nat
  OBVIOUS
<1>5. \A i \in 1 .. Len(s) : s[i] = IF i <= Len(a) THEN a[i]
                        ELSE IF i <= Len(a) + Len(b) THEN b[i - Len(a)]
                        ELSE IF i <= Len(a) + Len(b) + Len(c) THEN c[i - Len(a) - Len(b)]
                        ELSE d[i - Len(a) - Len(b) - Len(c)]
  BY <1>1, <1>2, <1>3, <1>4
<1>6. s = a \o b \o c \o d
  BY DEF s, abc, ab
<1> QED
  BY <1>1, <1>2, <1>3, <1>5, <1>6

\* Checks that come one after the other behind their reading, in the midst of other steps.
LEMMA ChecksAmongSteps ==
    ASSUME NEW a \in Seq(AStep), NEW b \in Seq(AStep), NEW c \in Seq(AStep), NEW d \in Seq(AStep),
           Len(a) > 0, Len(d) > 0,
           \A i \in 1 .. Len(a) : a[i].kind # "check",
           \A i \in 1 .. Len(b) : b[i].kind # "check",
           \A i \in 1 .. Len(d) : d[i].kind \notin {"check", "reading"},
           \A i \in 1 .. Len(c) : c[i].kind = "check" => i > 1 /\ c[i - 1].kind \in {"check", "reading"},
           steps = a \o b \o c \o d
    PROVE  StepsFit
<1>1. /\ steps \in Seq(AStep) /\ Len(steps) = Len(a) + Len(b) + Len(c) + Len(d)
      /\ \A i \in 1 .. Len(steps) : steps[i] = IF i <= Len(a) THEN a[i]
                        ELSE IF i <= Len(a) + Len(b) THEN b[i - Len(a)]
                        ELSE IF i <= Len(a) + Len(b) + Len(c) THEN c[i - Len(a) - Len(b)]
                        ELSE d[i - Len(a) - Len(b) - Len(c)]
  BY InARow
<1>2. Len(a) \in Nat /\ Len(b) \in Nat /\ Len(c) \in Nat /\ Len(d) \in Nat
  OBVIOUS
<1>3. steps[1] = a[1] /\ steps[Len(steps)] = d[Len(d)]
  BY <1>1, <1>2
<1>4. ASSUME NEW i \in 2 .. Len(steps), steps[i].kind = "check"
      PROVE  steps[i - 1].kind \in {"check", "reading"}
  <2>1. i > Len(a) + Len(b) /\ i <= Len(a) + Len(b) + Len(c)
    <3>1. i \in 1 .. Len(steps)
      BY <1>1, <1>2
    <3>2. CASE i <= Len(a)
      BY <1>1, <1>2, <1>4, <3>1, <3>2
    <3>3. CASE i > Len(a) /\ i <= Len(a) + Len(b)
      <4>1. steps[i] = b[i - Len(a)] /\ i - Len(a) \in 1 .. Len(b)
        BY <1>1, <1>2, <3>1, <3>3
      <4> QED
        BY <1>4, <4>1
    <3>4. CASE i > Len(a) + Len(b) + Len(c)
      <4>1. /\ steps[i] = d[i - Len(a) - Len(b) - Len(c)]
            /\ i - Len(a) - Len(b) - Len(c) \in 1 .. Len(d)
        BY <1>1, <1>2, <3>1, <3>4
      <4> QED
        BY <1>4, <4>1
    <3> QED
      BY <1>2, <3>1, <3>2, <3>3, <3>4
  <2>2. PICK j \in 1 .. Len(c) : i = Len(a) + Len(b) + j
    BY <1>2, <2>1
  <2>3. steps[i] = c[j]
    BY <1>1, <1>2, <2>1, <2>2
  <2>4. j > 1 /\ c[j - 1].kind \in {"check", "reading"}
    BY <1>4, <2>3
  <2>5. steps[i - 1] = c[j - 1]
    BY <1>1, <1>2, <2>1, <2>2, <2>4
  <2> QED
    BY <2>4, <2>5
<1>5. steps[Len(steps)].kind \notin {"check", "reading"} /\ steps[1].kind # "check" /\ Len(steps) > 0
  <2>1. Len(d) \in 1 .. Len(d) /\ 1 \in 1 .. Len(a)
    BY <1>2
  <2> QED
    BY <1>1, <1>2, <1>3, <2>1
<1> QED
  BY <1>1, <1>4, <1>5 DEF StepsFit

LEMMA StepsStart == Test!TestRunInit => StepsFit
<1> SUFFICES ASSUME Test!TestRunInit PROVE StepsFit
  OBVIOUS
<1> USE DEF Test!Must, Test!Other, Test!CaseOf
<1>1. PICK nk \in 0 .. MaxChecks, cases \in UNION {[1 .. n -> {Test!CaseOf(l) : l \in Lines}] : n \in 0 .. MaxCases} :
        \E checks \in {<<>>, <<[kind |-> "reading", name |-> "checks"]>>
                              \o [i \in 1 .. nk |-> [kind |-> "check", name |-> "check"]]} :
          IF opts.lane = "wasm" THEN steps = Test!Wasm(cases, checks)
          ELSE cases = <<>> /\ steps = Test!Native(checks)
  BY DEF Test!TestRunInit
<1>2. PICK checks \in {<<>>, <<[kind |-> "reading", name |-> "checks"]>>
                              \o [i \in 1 .. nk |-> [kind |-> "check", name |-> "check"]]} :
        IF opts.lane = "wasm" THEN steps = Test!Wasm(cases, checks)
        ELSE cases = <<>> /\ steps = Test!Native(checks)
  BY <1>1
<1> DEFINE reading == [kind |-> "reading", name |-> "checks"]
           check == [kind |-> "check", name |-> "check"]
<1>3. /\ cases \in Seq(AStep)
      /\ \A i \in 1 .. Len(cases) : cases[i].kind # "check"
  <2>1. PICK n \in 0 .. MaxCases : cases \in [1 .. n -> {Test!CaseOf(l) : l \in Lines}]
    OBVIOUS
  <2>2. n \in Nat
    BY EnginesAssumption
  <2>3. {Test!CaseOf(l) : l \in Lines} \subseteq AStep
    BY DEF AStep
  <2>4. cases \in Seq(AStep) /\ Len(cases) = n
    BY <2>1, <2>2, <2>3
  <2> QED
    BY <2>1, <2>2, <2>4
<1>4. /\ checks \in Seq(AStep)
      /\ \A i \in 1 .. Len(checks) : checks[i].kind = "check" => i > 1 /\ checks[i - 1].kind \in {"check", "reading"}
  <2>0. nk \in Nat
    BY EnginesAssumption
  <2>1. reading \in AStep /\ check \in AStep
    BY DEF AStep
  <2>2. CASE checks = <<>>
    BY <2>2
  <2>3. CASE checks = <<reading>> \o [i \in 1 .. nk |-> check]
    <3> DEFINE rest == [i \in 1 .. nk |-> check]
    <3>1. rest \in Seq(AStep) /\ Len(rest) = nk /\ \A i \in 1 .. nk : rest[i] = check
      BY <2>0, <2>1
    <3>2. <<reading>> \in Seq(AStep) /\ Len(<<reading>>) = 1 /\ <<reading>>[1] = reading
      BY <2>1
    <3> HIDE DEF rest
    <3>3. /\ checks \in Seq(AStep) /\ Len(checks) = 1 + nk
          /\ \A i \in 1 .. Len(checks) : checks[i] = IF i <= 1 THEN <<reading>>[i] ELSE rest[i - 1]
      <4>1. checks = <<reading>> \o rest
        BY <2>3 DEF rest
      <4> QED
        BY <3>1, <3>2, <4>1, ConcatProperties
    <3>4. \A i \in 1 .. Len(checks) : checks[i] = IF i = 1 THEN reading ELSE check
      BY <2>0, <3>1, <3>2, <3>3
    <3> QED
      BY <2>0, <3>3, <3>4
  <2> QED
    BY <2>2, <2>3
<1>5. CASE opts.lane = "wasm"
  <2> DEFINE a == <<Test!Must("build"), Test!Must("package"), Test!Must("artifact"), Test!Must("verify"),
                    Test!Other("account"), Test!Must("admission"), Test!Other("banner")>>
             d == <<Test!Other("confirmation"), [kind |-> "hostile", name |-> "hostile"], Test!Other("exit")>>
  <2>1. a \in Seq(AStep) /\ Len(a) = 7 /\ \A i \in 1 .. Len(a) : a[i].kind # "check"
    BY DEF AStep
  <2>2. d \in Seq(AStep) /\ Len(d) = 3 /\ \A i \in 1 .. Len(d) : d[i].kind \notin {"check", "reading"}
    BY DEF AStep
  <2>3. steps = a \o cases \o checks \o d
    BY <1>2, <1>5 DEF Test!Wasm
  <2> HIDE DEF a, d
  <2> QED
    <3>1. Len(a) > 0 /\ Len(d) > 0
      BY <2>1, <2>2
    <3>2. a \in Seq(AStep) /\ cases \in Seq(AStep) /\ checks \in Seq(AStep) /\ d \in Seq(AStep)
      BY <1>3, <1>4, <2>1, <2>2
    <3>3. /\ \A i \in 1 .. Len(a) : a[i].kind # "check"
          /\ \A i \in 1 .. Len(cases) : cases[i].kind # "check"
          /\ \A i \in 1 .. Len(d) : d[i].kind \notin {"check", "reading"}
      BY <1>3, <2>1, <2>2
    <3> HIDE DEF reading, check
    <3> QED
      BY <1>4, <2>3, <3>1, <3>2, <3>3, ChecksAmongSteps
<1>6. CASE opts.lane # "wasm"
  <2> DEFINE a == <<Test!Must("artifact"), Test!Must("package"), Test!Must("readiness"), Test!Other("banner")>>
             d == <<Test!Other("exit")>>
  <2>1. a \in Seq(AStep) /\ Len(a) = 4 /\ \A i \in 1 .. Len(a) : a[i].kind # "check"
    BY DEF AStep
  <2>2. d \in Seq(AStep) /\ Len(d) = 1 /\ \A i \in 1 .. Len(d) : d[i].kind \notin {"check", "reading"}
    BY DEF AStep
  <2>3. steps = a \o checks \o d
    BY <1>2, <1>6 DEF Test!Native
  <2> HIDE DEF a, d
  <2>4. a \o <<>> = a
    BY <2>1
  <2>5. steps = a \o <<>> \o checks \o d
    BY <2>3, <2>4
  <2>6. <<>> \in Seq(AStep) /\ \A i \in 1 .. Len(<<>>) : <<>>[i].kind # "check"
    OBVIOUS
  <2> QED
    <3>1. Len(a) > 0 /\ Len(d) > 0
      BY <2>1, <2>2
    <3>2. a \in Seq(AStep) /\ <<>> \in Seq(AStep) /\ checks \in Seq(AStep) /\ d \in Seq(AStep)
      BY <1>4, <2>1, <2>2
    <3>3. /\ \A i \in 1 .. Len(a) : a[i].kind # "check"
          /\ \A i \in 1 .. Len(<<>>) : <<>>[i].kind # "check"
          /\ \A i \in 1 .. Len(d) : d[i].kind \notin {"check", "reading"}
      BY <2>1, <2>2, <2>6
    <3> QED
      BY <1>4, <2>5, <3>1, <3>2, <3>3, ChecksAmongSteps
<1> QED
  BY <1>5, <1>6

LEMMA StepNames ==
    /\ \A s \in AStep : s.name = "account" => s.kind = "step"
    /\ \A s \in AStep : s.kind = "check" => s.name = "check"
<1> USE DEF AStep, Test!Must, Test!Other, Test!CaseOf
<1>1. ASSUME NEW s \in AStep PROVE /\ s.name = "account" => s.kind = "step"
                                   /\ s.kind = "check" => s.name = "check"
  <2>1. ASSUME NEW n, s = Test!Must(n) PROVE s.kind = "step"
    BY <2>1
  <2>2. ASSUME NEW n, s = Test!Other(n) PROVE s.kind = "step"
    BY <2>2
  <2>3. ASSUME NEW l, s = Test!CaseOf(l) PROVE s.name = "case" /\ s.kind = "case"
    BY <2>3
  <2> QED
    BY <2>1, <2>2, <2>3
<1> QED
  BY <1>1

\* A setting's value is never null (Declared's `fits`).
LEMMA NullFitsNothing == \A k \in DOMAIN Declared : ~Test!Allowed(k, Test!Null)
  BY DEF Declared, Test!Allowed, Test!Null

\* reportChecks counts every check that was not passed.
LEMMA ReportedCounts ==
    ASSUME NEW all \in Seq(Outcome), rep \in ReportShape
    PROVE  LET r == Test!Reported(all)
           IN  /\ r \in ReportShape /\ r.prereq = rep.prereq /\ rep.passed \subseteq r.passed
               /\ r.fails = 0 /\ r.unrun = 0 =>
                    rep.fails = 0 /\ rep.unrun = 0 /\ \A j \in 1 .. Len(all) : all[j].at \in r.passed
<1> DEFINE at(o) == {j \in 1 .. Len(all) : all[j].was = o}
           those(o) == {all[i].at : i \in at(o)}
           r == Test!Reported(all)
<1>1. ASSUME NEW S PROVE Test!Cardinality(S) = Cardinality(S)
  BY DEF Test!Cardinality, Cardinality
<1>2. Len(all) \in Nat /\ \A j \in 1 .. Len(all) : all[j] \in Outcome
  OBVIOUS
<1>3. ASSUME NEW o
      PROVE  Cardinality(those(o)) \in Nat /\ (Cardinality(those(o)) = 0 => those(o) = {})
  <2>1. IsFiniteSet(1 .. Len(all))
    BY <1>2, FS_Interval
  <2>2. IsFiniteSet(at(o))
    BY <2>1, FS_Subset
  <2>3. IsFiniteSet(those(o))
    <3> DEFINE f == [i \in at(o) |-> all[i].at]
    <3> HIDE DEF at
    <3>1. f \in Surjection(at(o), those(o))
      BY DEF Surjection
    <3> HIDE DEF f, those
    <3> QED
      BY <2>2, <3>1, FS_Surjection
  <2> HIDE DEF those
  <2> QED
    BY <2>3, FS_CardinalityType, FS_EmptySet
<1>4. those("passed") \subseteq Nat
  BY <1>2 DEF Outcome
<1>5. r = [rep EXCEPT !.passed = @ \cup those("passed"),
                      !.fails = @ + Cardinality(those("not passed")),
                      !.unrun = @ + Cardinality(those("not here"))]
  BY <1>1 DEF Test!Reported
<1>6. \A j \in 1 .. Len(all) : \E o \in {"passed", "not passed", "not here"} : all[j].at \in those(o)
  <2> TAKE j \in 1 .. Len(all)
  <2>1. all[j].was \in {"passed", "not passed", "not here"}
    BY <1>2 DEF Outcome
  <2>2. all[j].at \in those(all[j].was)
    OBVIOUS
  <2> HIDE DEF those
  <2> QED
    BY <2>1, <2>2
<1> HIDE DEF those, r
<1>p. PICK p \in SUBSET Nat : p = those("passed")
  BY <1>4
<1>n. PICK n \in Nat : n = Cardinality(those("not passed"))
  BY <1>3
<1>h. PICK h \in Nat : h = Cardinality(those("not here"))
  BY <1>3
<1>7. /\ r \in ReportShape /\ r.prereq = rep.prereq /\ r.passed = rep.passed \cup p
      /\ r.fails = rep.fails + n /\ r.unrun = rep.unrun + h
      /\ rep.fails \in Nat /\ rep.unrun \in Nat
  <2>1. r = [rep EXCEPT !.passed = @ \cup p, !.fails = @ + n, !.unrun = @ + h]
    BY <1>5, <1>p, <1>n, <1>h
  <2>2. PICK w \in SUBSET Nat, x \in Nat, y \in Nat, z \in BOOLEAN :
            rep = [passed |-> w, fails |-> x, unrun |-> y, prereq |-> z]
    <3>1. /\ rep.passed \in SUBSET Nat /\ rep.fails \in Nat /\ rep.unrun \in Nat /\ rep.prereq \in BOOLEAN
          /\ rep = [passed |-> rep.passed, fails |-> rep.fails, unrun |-> rep.unrun, prereq |-> rep.prereq]
      BY DEF ReportShape
    <3> QED
      BY <3>1
  <2>3. r = [passed |-> w \cup p, fails |-> x + n, unrun |-> y + h, prereq |-> z]
    BY <2>1, <2>2
  <2>4. w \cup p \in SUBSET Nat /\ x + n \in Nat /\ y + h \in Nat
    OBVIOUS
  <2> QED
    BY <2>2, <2>3, <2>4 DEF ReportShape
<1>8. ASSUME r.fails = 0, r.unrun = 0
      PROVE  rep.fails = 0 /\ rep.unrun = 0 /\ those("not passed") = {} /\ those("not here") = {}
  <2>1. rep.fails = 0 /\ rep.unrun = 0 /\ n = 0 /\ h = 0
    <3>1. rep.fails + n = 0 /\ rep.unrun + h = 0
      BY <1>7, <1>8
    <3>2. ASSUME NEW x \in Nat, NEW y \in Nat, x + y = 0 PROVE x = 0 /\ y = 0
      BY <3>2
    <3> HIDE DEF rep
    <3> QED
      BY <1>7, <3>1, <3>2
  <2> QED
    BY <1>3, <1>n, <1>h, <2>1
<1> QED
  BY <1>6, <1>7, <1>8, <1>p DEF r

\* Where a run may be: what holds of the place after it holds of the step it goes to.
LEMMA StepPlaces ==
    ASSUME StepsFit
    PROVE  /\ Len(steps) \in Nat /\ Len(steps) > 0 /\ DOMAIN steps = 1 .. Len(steps)
           /\ \A i \in DOMAIN steps : steps[i] \in AStep
           /\ \A i \in DOMAIN steps : steps[i].kind = "check" => i + 1 \in DOMAIN steps
           /\ \A i \in DOMAIN steps : steps[i].kind \notin {"check", "reading"} =>
                ~(i + 1 \in DOMAIN steps /\ steps[i + 1].kind = "check")
<1>1. Len(steps) \in Nat /\ Len(steps) > 0 /\ DOMAIN steps = 1 .. Len(steps)
  BY DEF StepsFit
<1>2. \A i \in DOMAIN steps : steps[i] \in AStep
  BY <1>1 DEF StepsFit
<1>3. ASSUME NEW i \in DOMAIN steps, steps[i].kind = "check" PROVE i + 1 \in DOMAIN steps
  BY <1>1, <1>3 DEF StepsFit
<1>4. ASSUME NEW i \in DOMAIN steps, i + 1 \in DOMAIN steps, steps[i + 1].kind = "check"
      PROVE  steps[i].kind \in {"check", "reading"}
  <2>1. i + 1 \in 2 .. Len(steps) /\ (i + 1) - 1 = i
    BY <1>1, <1>4
  <2> QED
    BY <1>4, <2>1 DEF StepsFit
<1> QED
  BY <1>1, <1>2, <1>3, <1>4

LEMMA LeastOf == ASSUME NEW S \in SUBSET Nat, S # {} PROVE \E m \in S : \A k \in S : m <= k
<1> DEFINE R == OpToRel(<, Nat)
<1>1. \A m, k \in Nat : k < m => <<k, m>> \in R
  BY DEF OpToRel
<1>2. IsWellFoundedOn(R, Nat)
  BY NatLessThanWellFounded
<1> HIDE DEF R
<1>3. PICK m \in S : \A k \in S : <<k, m>> \notin R
  BY <1>2, WFMin
<1>4. \A k \in S : ~(k < m)
  BY <1>1, <1>3
<1> QED
  BY <1>4

\* What the run does next leaves the host alone.
LEMMA RunLeavesHost == Test!RunStep => UNCHANGED <<opts, steps, call>>
  BY DEF Test!RunStep, Test!Begin, Test!DoStep, Test!Case, Test!CaseEnds, Test!ReadChecks,
     Test!AskCheck, Test!CheckEnds, Test!Hostile, Test!Finish, Test!hostVars

\* Before the first step nothing is asked, running or to be reported; nor after the last.
LEMMA Nowhere ==
    ASSUME StepsFit, AtStep, OutcomesFit, pos \notin DOMAIN steps
    PROVE  ~asked /\ ~checking /\ values = <<>> /\ outcomes = <<>>
  BY DEF AtStep, OutcomesFit

LEMMA BeginKeeps ==
    ASSUME StepsFit, AtStep, CallIsOwn, Telling, Test!Begin
    PROVE  AtStep' /\ CallIsOwn' /\ Telling'
<1>1. PICK n \in Nat : n = Len(steps) /\ n > 0 /\ DOMAIN steps = 1 .. n
  BY StepPlaces
<1>2. pos = 0 /\ code = "none" /\ pos \notin DOMAIN steps /\ rep \in ReportShape
  BY <1>1 DEF Test!Begin, Telling
<1>3. ~asked /\ ~checking /\ values = <<>> /\ outcomes = <<>>
  BY <1>2, Nowhere DEF Telling
<1>4. UNCHANGED <<opts, steps, asked, outcomes, values, checking, call>>
  BY DEF Test!Begin, Test!hostVars
<1>5. /\ rep' \in ReportShape /\ code' \in {"none", "fail"}
      /\ pos' \in {0, 1, n + 1} /\ (pos' = n + 1 => ~Clean')
      /\ (pos' = 1 => Test!Fits(opts.own, FALSE))
  <2>1. CASE rep' = [rep EXCEPT !.prereq = TRUE, !.unrun = 1] /\ pos' = Test!Over /\ code' = code
    <3>1. rep' \in ReportShape /\ rep'.unrun = 1
      BY <1>2, <2>1 DEF ReportShape
    <3>2. ~Clean'
      BY <3>1 DEF Clean
    <3>3. pos' = n + 1 /\ n + 1 # 1
      BY <1>1, <2>1 DEF Test!Over
    <3> QED
      BY <1>2, <2>1, <3>1, <3>2, <3>3
  <2>2. CASE Test!Fits(opts.own, FALSE) /\ pos' = 1 /\ code' = code /\ rep' = rep
    <3>1. pos' # n + 1
      BY <1>1, <2>2
    <3> QED
      BY <1>2, <2>2, <3>1
  <2>3. CASE pos' = 0 /\ code' = "fail" /\ rep' = rep
    <3>1. pos' # n + 1 /\ pos' # 1
      BY <1>1, <2>3
    <3> QED
      BY <1>2, <2>3, <3>1
  <2> QED
    BY <2>1, <2>2, <2>3, Zenon DEF Test!Begin
<1>6. AtStep'
  <2>1. pos' \in DOMAIN steps => pos' = 1
    BY <1>1, <1>5
  <2>2. Test!Fits(opts.own, FALSE)' <=> Test!Fits(opts.own, FALSE)
    BY <1>4 DEF Test!Fits, Test!Allowed
  <2>3. steps[1].kind # "check"
    BY DEF StepsFit
  <2>4. pos' \in 0 .. Len(steps) + 1
    BY <1>1, <1>5
  <2> QED
    BY <1>3, <1>4, <1>5, <2>1, <2>2, <2>3, <2>4 DEF AtStep
<1>7. CallIsOwn'
  BY <1>3, <1>4 DEF CallIsOwn
<1>8. Accounted'
  <2>1. Clean' => pos' = 0 \/ pos' = 1
    BY <1>5, Zenon
  <2>2. 1 .. 0 - 1 = {} /\ 1 .. 1 - 1 = {}
    OBVIOUS
  <2> QED
    BY <2>1, <2>2 DEF Accounted
<1>9. OutcomesFit' /\ ExitFits'
  <2>1. outcomes' = <<>> /\ Len(outcomes') = 0 /\ outcomes' \in Seq(Outcome)
    BY <1>3, <1>4
  <2> QED
    BY <1>5, <2>1 DEF OutcomesFit, ExitFits
<1> QED
  BY <1>5, <1>6, <1>7, <1>8, <1>9 DEF Telling

\* A step is reported as passed or as failed.
LEMMA Reports ==
    ASSUME rep \in ReportShape, pos \in Nat
    PROVE  /\ Test!Passed \in ReportShape /\ Test!Failed \in ReportShape
           /\ Test!Passed.passed = rep.passed \cup {pos}
           /\ Test!Passed.fails = rep.fails /\ Test!Passed.unrun = rep.unrun
           /\ Test!Passed.prereq = rep.prereq
           /\ Test!Failed.fails = rep.fails + 1 /\ Test!Failed.fails # 0
<1>1. PICK w \in SUBSET Nat, x \in Nat, y \in Nat, z \in BOOLEAN :
          rep = [passed |-> w, fails |-> x, unrun |-> y, prereq |-> z]
  <2>1. /\ rep.passed \in SUBSET Nat /\ rep.fails \in Nat /\ rep.unrun \in Nat /\ rep.prereq \in BOOLEAN
        /\ rep = [passed |-> rep.passed, fails |-> rep.fails, unrun |-> rep.unrun, prereq |-> rep.prereq]
    BY DEF ReportShape
  <2> QED
    BY <2>1
<1>2. Test!Passed = [passed |-> w \cup {pos}, fails |-> x, unrun |-> y, prereq |-> z]
  BY <1>1 DEF Test!Passed
<1>3. Test!Failed = [passed |-> w, fails |-> x + 1, unrun |-> y, prereq |-> z]
  BY <1>1 DEF Test!Failed
<1>4. w \cup {pos} \in SUBSET Nat /\ x + 1 \in Nat /\ x + 1 # 0
  OBVIOUS
<1>5. Test!Passed \in ReportShape /\ Test!Failed \in ReportShape
  BY <1>2, <1>3, <1>4 DEF ReportShape
<1> QED
  BY <1>1, <1>2, <1>3, <1>4, <1>5

LEMMA PassIsCounted ==
    ASSUME StepsFit, rep \in ReportShape, Accounted, pos \in DOMAIN steps,
           UNCHANGED <<steps, outcomes>>,
           ~Clean' \/ (rep' = Test!Passed /\ pos' = pos + 1)
    PROVE  Accounted'
<1>1. SUFFICES ASSUME Clean' PROVE \A i \in 1 .. pos' - 1 : Settled(i)'
  BY DEF Accounted
<1>2. rep' = Test!Passed /\ pos' = pos + 1
  BY <1>1, Zenon
<1>3. pos \in Nat /\ pos > 0
  BY StepPlaces
<1>4. rep'.passed = rep.passed \cup {pos} /\ Clean
  BY <1>1, <1>2, <1>3, Reports DEF Clean
<1>5. ASSUME NEW i \in 1 .. pos' - 1 PROVE Settled(i)'
  <2>1. i = pos \/ i \in 1 .. pos - 1
    BY <1>2, <1>3
  <2>2. CASE i = pos
    BY <1>4, <2>2 DEF Settled
  <2>3. CASE i \in 1 .. pos - 1
    <3>1. Settled(i)
      BY <1>4, <2>3 DEF Accounted
    <3> QED
      BY <1>4, <3>1 DEF Settled
  <2> QED
    BY <2>1, <2>2, <2>3
<1> QED
  BY <1>5

\* Behind a step that is neither a check nor their reading no check comes.
LEMMA GoesOn ==
    ASSUME StepsFit, AtStep, pos \in DOMAIN steps, steps[pos].kind \notin {"check", "reading"},
           UNCHANGED <<opts, steps, checking>>, asked' = FALSE, values' = <<>>,
           pos' = pos + 1 \/ pos' = Len(steps) + 1
    PROVE  AtStep'
<1>1. PICK n \in Nat : n = Len(steps) /\ n > 0 /\ DOMAIN steps = 1 .. n
  BY StepPlaces
<1>2. pos' \in 0 .. Len(steps) + 1 /\ (pos' \in DOMAIN steps => pos' = pos + 1)
  BY <1>1
<1>3. ~(pos' \in DOMAIN steps /\ steps[pos'].kind = "check")
  BY <1>2, StepPlaces
<1>4. ~checking
  BY DEF AtStep
<1>5. Test!Fits(opts.own, FALSE)
  BY DEF AtStep
<1>6. Test!Fits(opts.own, FALSE)' <=> Test!Fits(opts.own, FALSE)
  BY DEF Test!Fits, Test!Allowed
<1> QED
  BY <1>2, <1>3, <1>4, <1>5, <1>6 DEF AtStep

LEMMA DoStepKeeps ==
    ASSUME StepsFit, AtStep, CallIsOwn, Telling, Test!DoStep
    PROVE  AtStep' /\ CallIsOwn' /\ Telling'
<1>1. PICK n \in Nat : n = Len(steps) /\ n > 0 /\ DOMAIN steps = 1 .. n
  BY StepPlaces
<1>2. code = "none" /\ pos \in DOMAIN steps /\ steps[pos].kind = "step" /\ pos \in Nat
  BY <1>1 DEF Test!DoStep, Test!At, Test!Now
<1>3. ~asked /\ values = <<>> /\ outcomes = <<>>
  BY <1>2 DEF AtStep, Telling, OutcomesFit
<1>4. UNCHANGED <<opts, steps, asked, outcomes, values, checking, call, code>>
  BY DEF Test!DoStep, Test!hostVars
<1>5. rep \in ReportShape /\ Accounted
  BY DEF Telling
<1>6. Test!Unread => ~Clean
  <2>1. ASSUME Test!Unread, Clean PROVE FALSE
    <3>1. PICK i \in 1 .. pos : steps[i].name = "account" /\ i \notin rep.passed
      BY <2>1 DEF Test!Unread
    <3>2. steps[pos].name = "confirmation"
      BY <2>1 DEF Test!Unread, Test!Now
    <3>3. i # pos
      BY <3>1, <3>2
    <3>4. i \in 1 .. pos - 1 /\ i \in DOMAIN steps
      BY <1>1, <1>2, <3>3
    <3>5. steps[i].kind # "reading"
      BY <3>1, <3>4, StepPlaces, StepNames
    <3>6. Settled(i)
      BY <1>5, <2>1, <3>4 DEF Accounted
    <3> QED
      BY <1>3, <3>1, <3>5, <3>6 DEF Settled
  <2> QED
    BY <2>1
<1>7. /\ rep' \in ReportShape
      /\ ~Clean' \/ (rep' = Test!Passed /\ pos' = pos + 1)
      /\ pos' = pos + 1 \/ pos' = Len(steps) + 1
  <2>1. CASE Test!Unread /\ rep' = rep /\ pos' = pos + 1
    <3>1. ~Clean'
      BY <1>6, <2>1 DEF Clean
    <3> QED
      BY <1>5, <2>1, <3>1
  <2>2. CASE rep' = Test!Passed /\ pos' = pos + 1
    BY <1>2, <1>5, <2>2, Reports
  <2>3. CASE rep' = Test!Failed /\ pos' = IF Test!Now.must THEN Test!Over ELSE pos + 1
    <3>1. rep' \in ReportShape /\ rep'.fails # 0
      BY <1>2, <1>5, <2>3, Reports
    <3>2. ~Clean'
      BY <3>1 DEF Clean
    <3>3. pos' = pos + 1 \/ pos' = Len(steps) + 1
      BY <2>3, Zenon DEF Test!Over
    <3> QED
      BY <3>1, <3>2, <3>3
  <2> QED
    BY <2>1, <2>2, <2>3, Zenon DEF Test!DoStep
<1>8. AtStep'
  BY <1>2, <1>3, <1>4, <1>7, GoesOn DEF AtStep
<1>9. CallIsOwn'
  BY <1>3, <1>4 DEF CallIsOwn
<1>10. Accounted'
  BY <1>2, <1>4, <1>5, <1>7, PassIsCounted
<1>11. OutcomesFit' /\ ExitFits'
  BY <1>2, <1>3, <1>4 DEF OutcomesFit, ExitFits, Telling
<1> QED
  BY <1>7, <1>8, <1>9, <1>10, <1>11 DEF Telling

\* runCase.
LEMMA CaseKeeps ==
    ASSUME StepsFit, AtStep, CallIsOwn, Telling, Test!Case \/ Test!CaseEnds \/ Test!Hostile
    PROVE  AtStep' /\ CallIsOwn' /\ Telling'
<1>1. PICK n \in Nat : n = Len(steps) /\ n > 0 /\ DOMAIN steps = 1 .. n
  BY StepPlaces
<1>2. code = "none" /\ pos \in DOMAIN steps /\ steps[pos].kind \in {"case", "hostile"} /\ pos \in Nat
  <2>1. Test!At("case") \/ Test!At("hostile")
    BY DEF Test!Case, Test!CaseEnds, Test!Hostile
  <2> QED
    BY <1>1, <2>1 DEF Test!At, Test!Now
<1>3. outcomes = <<>>
  BY <1>2 DEF Telling, OutcomesFit
<1>4. UNCHANGED <<opts, steps, outcomes, checking, call, code>>
  BY DEF Test!Case, Test!CaseEnds, Test!Hostile, Test!hostVars
<1>5. rep \in ReportShape /\ Accounted
  BY DEF Telling
<1>6. OutcomesFit' /\ ExitFits'
  BY <1>2, <1>3, <1>4 DEF OutcomesFit, ExitFits, Telling
<1>7. ASSUME pos' = pos + 1, asked' = FALSE, values' = <<>>, rep' \in {Test!Passed, Test!Failed},
             call = Test!NoCall \/ ~asked
      PROVE  AtStep' /\ CallIsOwn' /\ Telling'
  <2>1. rep' \in ReportShape /\ (~Clean' \/ rep' = Test!Passed)
    BY <1>2, <1>5, <1>7, Reports DEF Clean
  <2>2. AtStep'
    BY <1>2, <1>4, <1>7, GoesOn
  <2>3. CallIsOwn'
    BY <1>4, <1>7 DEF CallIsOwn
  <2>4. Accounted'
    BY <1>2, <1>4, <1>5, <1>7, <2>1, PassIsCounted
  <2> QED
    BY <1>6, <2>1, <2>2, <2>3, <2>4 DEF Telling
<1>8. ASSUME pos' = pos, rep' = rep, asked' = TRUE, ~asked,
             values' = IF steps[pos].kind = "case"
                       THEN [k \in {d \in DOMAIN steps[pos].says : steps[pos].says[d] # Test!Null} |-> steps[pos].says[k]]
                       ELSE <<>>
      PROVE  AtStep' /\ CallIsOwn' /\ Telling'
  <2>1. AtStep'
    <3>1. Test!Fits(opts.own, FALSE)' <=> Test!Fits(opts.own, FALSE)
      BY <1>4 DEF Test!Fits, Test!Allowed
    <3> QED
      BY <1>2, <1>4, <1>8, <3>1 DEF AtStep
  <2>2. CallIsOwn'
    BY <1>4, <1>8 DEF CallIsOwn
  <2>3. Accounted'
    BY <1>4, <1>5, <1>8 DEF Accounted, Clean, Settled
  <2> QED
    BY <1>5, <1>6, <1>8, <2>1, <2>2, <2>3 DEF Telling
<1>9. CASE Test!Case
  <2>1. steps[pos].kind = "case" /\ ~asked
    BY <1>9 DEF Test!Case, Test!At, Test!Now
  <2>2. values = <<>>
    BY <2>1 DEF AtStep
  <2> DEFINE said == {k \in DOMAIN Test!Now.says : Test!Now.says[k] # Test!Null}
  <2>3. CASE values' = [k \in said |-> Test!Now.says[k]] /\ asked' = TRUE /\ UNCHANGED <<pos, rep>>
    <3>1. values' = [k \in {d \in DOMAIN steps[pos].says : steps[pos].says[d] # Test!Null} |-> steps[pos].says[k]]
      BY <2>3 DEF Test!Now
    <3> QED
      BY <1>8, <2>1, <2>3, <3>1
  <2>4. CASE rep' = Test!Failed /\ pos' = pos + 1 /\ UNCHANGED <<values, asked>>
    <3>1. asked' = FALSE /\ values' = <<>>
      BY <2>1, <2>2, <2>4 DEF AtStep
    <3> QED
      BY <1>7, <2>1, <2>4, <3>1
  <2> QED
    BY <1>9, <2>3, <2>4, Zenon DEF Test!Case
<1>10. CASE Test!CaseEnds
  BY <1>7, <1>10 DEF Test!CaseEnds, Test!LeftAfter
<1>11. CASE Test!Hostile
  <2>1. steps[pos].kind = "hostile" /\ values = <<>> /\ values' = values
    BY <1>2, <1>11 DEF Test!Hostile, Test!At, Test!Now, AtStep
  <2>2. CASE ~asked /\ asked' = TRUE /\ UNCHANGED <<rep, pos>>
    BY <1>8, <2>1, <2>2
  <2>3. CASE call = Test!NoCall /\ asked' = FALSE /\ rep' \in {Test!Passed, Test!Failed} /\ pos' = pos + 1
    BY <1>7, <2>1, <2>3
  <2> QED
    BY <1>11, <2>2, <2>3, Zenon DEF Test!Hostile
<1> QED
  BY <1>9, <1>10, <1>11

\* runPackageChecks, as far as it asks.
LEMMA AskingKeeps ==
    ASSUME StepsFit, AtStep, CallIsOwn, Telling, Test!ReadChecks \/ Test!AskCheck
    PROVE  AtStep' /\ CallIsOwn' /\ Telling'
<1>1. PICK n \in Nat : n = Len(steps) /\ n > 0 /\ DOMAIN steps = 1 .. n
  BY StepPlaces
<1>2. code = "none" /\ pos \in DOMAIN steps /\ steps[pos].kind \in {"reading", "check"} /\ pos \in Nat
  BY <1>1 DEF Test!ReadChecks, Test!AskCheck, Test!At, Test!Now
<1>3. UNCHANGED <<opts, steps, outcomes, values, call, code>>
  BY DEF Test!ReadChecks, Test!AskCheck, Test!hostVars
<1>4. rep \in ReportShape /\ Accounted /\ OutcomesFit
  BY DEF Telling
<1>5. Test!Fits(opts.own, FALSE) /\ (Test!Fits(opts.own, FALSE)' <=> Test!Fits(opts.own, FALSE))
  BY <1>2, <1>3 DEF Test!Fits, Test!Allowed, AtStep
<1>6. ExitFits'
  BY <1>2, <1>3 DEF ExitFits
<1>7. CASE Test!AskCheck
  <2>1. /\ UNCHANGED <<pos, rep, checking>> /\ ~asked /\ asked' = TRUE /\ steps[pos].kind = "check"
        /\ values = <<>>
    BY <1>2, <1>7 DEF Test!AskCheck, Test!At, Test!Now, AtStep
  <2>2. AtStep'
    BY <1>2, <1>3, <1>5, <2>1 DEF AtStep
  <2>3. CallIsOwn'
    BY <1>3, <2>1 DEF CallIsOwn
  <2>4. Accounted' /\ OutcomesFit'
    BY <1>3, <1>4, <2>1 DEF Accounted, Clean, Settled, OutcomesFit
  <2> QED
    BY <1>4, <1>6, <2>1, <2>2, <2>3, <2>4 DEF Telling
<1>8. CASE Test!ReadChecks
  <2>1. /\ steps[pos].kind = "reading" /\ UNCHANGED asked
    BY <1>8 DEF Test!ReadChecks, Test!At, Test!Now
  <2>2. ~asked /\ values = <<>> /\ outcomes = <<>> /\ ~checking
    BY <1>2, <1>4, <2>1 DEF AtStep, OutcomesFit
  <2>3. CallIsOwn' /\ OutcomesFit'
    BY <1>3, <1>4, <2>1, <2>2 DEF CallIsOwn, OutcomesFit
  <2>4. pos + 1 \in DOMAIN steps /\ steps[n].kind # "check" /\ n \in pos + 1 .. n
    <3>1. steps[n].kind # "check"
      BY <1>1 DEF StepsFit
    <3>2. pos # n
      <4>1. steps[n].kind # "reading"
        BY <1>1 DEF StepsFit
      <4> QED
        BY <2>1, <4>1
    <3> QED
      BY <1>1, <1>2, <3>1, <3>2
  <2>5. CASE rep' = rep /\ pos' = pos + 1 /\ checking' = Test!NextCheck(pos + 1)
    <3>1. checking' <=> steps[pos + 1].kind = "check"
      BY <2>5 DEF Test!NextCheck
    <3>2. pos' \in 0 .. Len(steps) + 1
      BY <1>1, <2>4, <2>5
    <3>3. AtStep'
      BY <1>3, <1>5, <2>1, <2>2, <2>4, <2>5, <3>1, <3>2 DEF AtStep
    <3>4. Accounted'
      <4>1. SUFFICES ASSUME Clean', NEW i \in 1 .. pos' - 1 PROVE Settled(i)'
        BY DEF Accounted
      <4>2. Clean
        BY <2>5, <4>1 DEF Clean
      <4>3. i = pos \/ i \in 1 .. pos - 1
        BY <1>2, <2>5
      <4>4. i = pos => Settled(i)'
        BY <1>3, <2>1 DEF Settled
      <4>5. i \in 1 .. pos - 1 => Settled(i)
        BY <1>4, <4>2 DEF Accounted
      <4>6. Settled(i) => Settled(i)'
        BY <1>3, <2>5 DEF Settled
      <4> QED
        BY <4>3, <4>4, <4>5, <4>6
    <3> QED
      BY <1>4, <1>6, <2>3, <2>5, <3>3, <3>4 DEF Telling
  <2>6. CASE /\ rep' = Test!Failed /\ checking' = checking
             /\ pos' = CHOOSE i \in pos + 1 .. Len(steps) :
                         ~Test!NextCheck(i) /\ \A j \in pos + 1 .. i - 1 : Test!NextCheck(j)
    <3>1. rep' \in ReportShape /\ ~Clean'
      BY <1>2, <1>4, <2>6, Reports DEF Clean
    <3>2. \E i \in pos + 1 .. Len(steps) : ~Test!NextCheck(i) /\ \A j \in pos + 1 .. i - 1 : Test!NextCheck(j)
      <4> DEFINE Past == {i \in pos + 1 .. n : ~Test!NextCheck(i)}
      <4>1. n \in Past
        BY <1>1, <2>4 DEF Test!NextCheck
      <4>2. PICK i \in Past : \A j \in Past : i <= j
        <5>1. Past \subseteq Nat /\ Past # {}
          BY <1>1, <1>2, <4>1
        <5> HIDE DEF Past
        <5> QED
          BY <5>1, LeastOf
      <4>3. \A j \in pos + 1 .. i - 1 : Test!NextCheck(j)
        BY <1>1, <1>2, <4>2
      <4> QED
        BY <1>1, <4>2, <4>3
    <3>3. pos' \in pos + 1 .. Len(steps) /\ ~Test!NextCheck(pos')
      BY <2>6, <3>2
    <3>4. pos' \in 0 .. Len(steps) + 1 /\ pos' \in DOMAIN steps /\ steps[pos'].kind # "check"
      BY <1>1, <1>2, <3>3 DEF Test!NextCheck
    <3>5. AtStep'
      BY <1>3, <1>5, <2>1, <2>2, <2>6, <3>4 DEF AtStep
    <3>6. Accounted'
      BY <3>1 DEF Accounted
    <3> QED
      BY <1>6, <2>3, <3>1, <3>5, <3>6 DEF Telling
  <2> QED
    BY <1>8, <2>5, <2>6, Zenon DEF Test!ReadChecks
<1> QED
  BY <1>7, <1>8

\* runPackageChecks, as a check ends; the last one reports them all.
LEMMA CheckEndsKeeps ==
    ASSUME StepsFit, AtStep, CallIsOwn, Telling, Test!CheckEnds
    PROVE  AtStep' /\ CallIsOwn' /\ Telling'
<1>1. PICK n \in Nat : n = Len(steps) /\ n > 0 /\ DOMAIN steps = 1 .. n
  BY StepPlaces
<1>2. code = "none" /\ pos \in DOMAIN steps /\ steps[pos].kind = "check" /\ pos \in 1 .. n
  <2>1. Test!At("check")
    BY DEF Test!CheckEnds
  <2> QED
    BY <1>1, <2>1 DEF Test!At, Test!Now
<1>a. asked /\ (call = Test!NoCall \/ opts.lane = "session")
  BY DEF Test!CheckEnds
<1>3. UNCHANGED <<opts, steps, values, call, code>> /\ asked' = FALSE /\ pos' = pos + 1
  BY DEF Test!CheckEnds, Test!hostVars
<1>4. rep \in ReportShape /\ Accounted /\ OutcomesFit /\ outcomes \in Seq(Outcome)
  BY DEF Telling, OutcomesFit
<1>5. Test!Fits(opts.own, FALSE) /\ (Test!Fits(opts.own, FALSE)' <=> Test!Fits(opts.own, FALSE))
  BY <1>2, <1>3 DEF Test!Fits, Test!Allowed, AtStep
<1>6. checking /\ values = <<>>
  BY <1>2 DEF AtStep
<1>7. pos + 1 \in DOMAIN steps
  BY <1>2, StepPlaces
<1>8. PICK one \in Outcome :
        /\ one.at = pos
        /\ LET all == Append(outcomes, one)
           IN  IF Test!NextCheck(pos + 1) THEN outcomes' = all /\ UNCHANGED <<rep, checking>>
               ELSE outcomes' = <<>> /\ checking' = FALSE /\ rep' = Test!Reported(all)
  <2>1. \E o \in {"passed", "not passed", "not here"} :
          LET all == Append(outcomes, [at |-> pos, was |-> o])
          IN  IF Test!NextCheck(pos + 1) THEN outcomes' = all /\ UNCHANGED <<rep, checking>>
              ELSE outcomes' = <<>> /\ checking' = FALSE /\ rep' = Test!Reported(all)
    BY DEF Test!CheckEnds
  <2>2. \A o \in {"passed", "not passed", "not here"} :
          [at |-> pos, was |-> o] \in Outcome /\ [at |-> pos, was |-> o].at = pos
    <3>1. pos \in Nat
      BY <1>2
    <3> QED
      BY <3>1 DEF Outcome
  <2> QED
    BY <2>1, <2>2
<1>9. PICK all \in Seq(Outcome) :
        /\ all = Append(outcomes, one)
        /\ Len(all) = Len(outcomes) + 1
        /\ \A j \in 1 .. Len(outcomes) : all[j] = outcomes[j]
        /\ all[Len(outcomes) + 1] = one
  <2>1. ASSUME NEW s \in Seq(Outcome)
        PROVE  /\ Append(s, one) \in Seq(Outcome) /\ Len(Append(s, one)) = Len(s) + 1
               /\ \A j \in 1 .. Len(s) : Append(s, one)[j] = s[j]
               /\ Append(s, one)[Len(s) + 1] = one
    BY AppendProperties
  <2> QED
    BY <1>4, <2>1
<1>k. PICK l \in Nat : l = Len(outcomes) /\ Len(all) = l + 1 /\ all[l + 1].at = pos
  BY <1>4, <1>8, <1>9
<1>10. \A j \in 1 .. Len(all) : all[j].at \in DOMAIN steps /\ steps[all[j].at].kind = "check"
  <2> TAKE j \in 1 .. Len(all)
  <2>1. j \in 1 .. Len(outcomes) \/ j = l + 1
    BY <1>k
  <2>2. ASSUME j \in 1 .. Len(outcomes) PROVE all[j].at \in DOMAIN steps /\ steps[all[j].at].kind = "check"
    BY <1>4, <1>9, <2>2 DEF OutcomesFit
  <2>3. ASSUME j = l + 1 PROVE all[j].at = pos
    BY <1>k, <2>3
  <2> QED
    BY <1>2, <2>1, <2>2, <2>3
<1>11. \E j \in 1 .. Len(all) : all[j].at = pos
  <2>1. l + 1 \in 1 .. Len(all) /\ all[l + 1].at = pos
    BY <1>k
  <2> QED
    BY <2>1
<1>12. \A k \in 1 .. Len(outcomes) : \E j \in 1 .. Len(all) : all[j].at = outcomes[k].at
  <2> TAKE k \in 1 .. Len(outcomes)
  <2>1. k \in 1 .. Len(all)
    BY <1>k
  <2>2. all[k].at = outcomes[k].at
    BY <1>9
  <2> QED
    BY <2>1, <2>2
<1>13. ASSUME Clean, NEW i \in 1 .. pos, steps[i].kind # "reading"
       PROVE  i \in rep.passed \/ \E j \in 1 .. Len(all) : all[j].at = i
  <2>1. CASE i = pos
    BY <1>11, <2>1
  <2>2. CASE i \in 1 .. pos - 1
    <3>1. i \in rep.passed \/ \E k \in 1 .. Len(outcomes) : outcomes[k].at = i
      BY <1>4, <1>13, <2>2 DEF Accounted, Settled
    <3> QED
      BY <1>12, <3>1
  <2>3. i = pos \/ i \in 1 .. pos - 1
    BY <1>2
  <2> QED
    BY <2>1, <2>2, <2>3
<1>14. CallIsOwn'
  BY <1>a, <1>3 DEF CallIsOwn
<1>15. ExitFits'
  BY <1>2, <1>3 DEF ExitFits
<1>16. pos' \in 0 .. Len(steps) + 1 /\ pos' \in DOMAIN steps
  BY <1>1, <1>2, <1>3, <1>7
<1>17. (checking' <=> steps[pos + 1].kind = "check") => AtStep'
  BY <1>3, <1>5, <1>6, <1>16 DEF AtStep
<1>18. \A i \in 1 .. pos' - 1 : i \in 1 .. pos
  BY <1>2, <1>3
<1>19. CASE steps[pos + 1].kind = "check" /\ outcomes' = all /\ UNCHANGED <<rep, checking>>
  <2>1. AtStep'
    BY <1>6, <1>17, <1>19
  <2>2. OutcomesFit'
    BY <1>3, <1>7, <1>9, <1>10, <1>19 DEF OutcomesFit
  <2>3. Accounted'
    <3>1. SUFFICES ASSUME Clean', NEW i \in 1 .. pos' - 1, steps'[i].kind # "reading"
                   PROVE  i \in rep'.passed \/ \E j \in 1 .. Len(outcomes') : outcomes'[j].at = i
      BY DEF Accounted, Settled
    <3>2. Clean
      BY <1>19, <3>1 DEF Clean
    <3>3. i \in 1 .. pos /\ steps[i].kind # "reading"
      BY <1>3, <1>18, <3>1
    <3>4. i \in rep.passed \/ \E j \in 1 .. Len(all) : all[j].at = i
      BY <1>13, <3>2, <3>3
    <3> QED
      BY <1>19, <3>4
  <2> QED
    BY <1>4, <1>14, <1>15, <1>19, <2>1, <2>2, <2>3 DEF Telling
<1>20. CASE steps[pos + 1].kind # "check" /\ outcomes' = <<>> /\ checking' = FALSE /\ rep' = Test!Reported(all)
  <2>1. AtStep'
    BY <1>17, <1>20
  <2>2. OutcomesFit'
    <3>1. outcomes' = <<>>
      BY <1>20
    <3>2. <<>> \in Seq(Outcome) /\ Len(<<>>) = 0
      OBVIOUS
    <3> QED
      BY <3>1, <3>2 DEF OutcomesFit
  <2>3. /\ rep' \in ReportShape /\ rep'.prereq = rep.prereq /\ rep.passed \subseteq rep'.passed
        /\ rep'.fails = 0 /\ rep'.unrun = 0 =>
             rep.fails = 0 /\ rep.unrun = 0 /\ \A j \in 1 .. Len(all) : all[j].at \in rep'.passed
    BY <1>4, <1>9, <1>20, ReportedCounts
  <2>4. Accounted'
    <3>1. SUFFICES ASSUME Clean', NEW i \in 1 .. pos' - 1, steps'[i].kind # "reading"
                   PROVE  i \in rep'.passed
      BY DEF Accounted, Settled
    <3>2. Clean /\ \A j \in 1 .. Len(all) : all[j].at \in rep'.passed
      BY <2>3, <3>1 DEF Clean
    <3>3. i \in 1 .. pos /\ steps[i].kind # "reading"
      BY <1>3, <1>18, <3>1
    <3>4. i \in rep.passed \/ \E j \in 1 .. Len(all) : all[j].at = i
      BY <1>13, <3>2, <3>3
    <3> QED
      BY <2>3, <3>2, <3>4
  <2> QED
    BY <1>14, <1>15, <2>1, <2>2, <2>3, <2>4 DEF Telling
<1> QED
  BY <1>8, <1>19, <1>20, <1>9, Zenon DEF Test!NextCheck

\* finish.
LEMMA FinishKeeps ==
    ASSUME StepsFit, AtStep, CallIsOwn, Telling, Test!Finish
    PROVE  AtStep' /\ CallIsOwn' /\ Telling'
<1>1. UNCHANGED <<opts, steps, pos, asked, rep, outcomes, values, checking, call>>
  BY DEF Test!Finish, Test!hostVars
<1>2. AtStep'
  BY <1>1 DEF AtStep, Test!Fits, Test!Allowed
<1>3. CallIsOwn'
  BY <1>1 DEF CallIsOwn
<1>4. OutcomesFit' /\ Accounted'
  BY <1>1 DEF OutcomesFit, Accounted, Clean, Settled, Telling
<1>5. ExitFits'
  <2>1. pos = Len(steps) + 1 /\ (code' = Test!Result(rep) \/ code' = "fail")
    BY DEF Test!Finish, Test!Over
  <2>2. Test!Result(rep)' = Test!Result(rep)
    BY <1>1 DEF Test!Result
  <2> QED
    BY <1>1, <2>1, <2>2 DEF ExitFits
<1> QED
  BY <1>1, <1>2, <1>3, <1>4, <1>5 DEF Telling

\* The plugin calls.
LEMMA TakeKeeps ==
    ASSUME StepsFit, AtStep, CallIsOwn, Telling, Test!Take
    PROVE  AtStep' /\ CallIsOwn' /\ Telling' /\ StepsFit'
<1>1. UNCHANGED <<opts, steps, pos, asked, rep, outcomes, values, checking, code>>
  BY DEF Test!Take, Test!runVars
<1>2. AtStep'
  BY <1>1 DEF AtStep, Test!Fits, Test!Allowed
<1>3. Telling' /\ StepsFit'
  BY <1>1 DEF OutcomesFit, Accounted, Clean, Settled, ExitFits, Test!Result, Telling, StepsFit
<1>4. CallIsOwn'
  <2>1. opts.lane # "session" => asked
    BY DEF Test!Take, Test!MayCall
  <2>2. call'.of = pos /\ (call'.during => checking)
    BY DEF Test!Take
  <2>3. checking => pos \in DOMAIN steps /\ steps[pos].kind = "check"
    BY DEF AtStep
  <2> QED
    BY <1>1, <2>1, <2>2, <2>3 DEF CallIsOwn
<1> QED
  BY <1>2, <1>3, <1>4

\* The host answers, and the run is where it was.
LEMMA AnswersKeep ==
    ASSUME StepsFit, AtStep, CallIsOwn, Telling, NEW gave, NEW did, Test!Answered(gave, did)
    PROVE  AtStep' /\ CallIsOwn' /\ Telling' /\ StepsFit'
<1>1. UNCHANGED <<opts, steps, pos, asked, rep, outcomes, values, checking, code>> /\ call' = Test!NoCall
  BY DEF Test!Answered, Test!runVars
<1>2. AtStep'
  BY <1>1 DEF AtStep, Test!Fits, Test!Allowed
<1>3. Telling' /\ StepsFit'
  BY <1>1 DEF OutcomesFit, Accounted, Clean, Settled, ExitFits, Test!Result, Telling, StepsFit
<1>4. CallIsOwn'
  BY <1>1 DEF CallIsOwn, Test!NoCall
<1> QED
  BY <1>2, <1>3, <1>4

LEMMA AnswerSays ==
    ASSUME NEW gave, NEW did, Test!Answered(gave, did)
    PROVE  /\ last'.of = call.of /\ last'.kind = call.kind /\ last'.what = call.what
           /\ last'.gave = gave /\ last'.did = did
           /\ last'.during => call.during /\ checking
           /\ UNCHANGED <<opts, steps, checking>>
  BY DEF Test!Answered, Test!runVars

\* answerKV, answerTools and Fetch: nothing is done within the checks, or that was not granted.
LEMMA DeedsApart ==
    ASSUME Test!KV \/ Test!PublishTool \/ Test!Fetch
    PROVE  Test!HostKeepsApart'
<1> SUFFICES /\ last'.kind # "settings"
             /\ last'.did => ~last'.during
             /\ last'.did /\ last'.kind \in {"put", "delete"} => opts'.kv
             /\ last'.did /\ last'.kind \in {"publish", "withdraw"} => opts'.tools
             /\ last'.did /\ last'.kind \notin {"put", "delete", "publish", "withdraw"} =>
                  \E s \in opts'.scopes : last'.what.host \in s.hosts
  BY Zenon DEF Test!HostKeepsApart
<1>1. CASE Test!KV
  <2>1. /\ call.kind \in {"put", "delete"}
        /\ kv' # kv => opts.kv /\ ~call.during
        /\ Test!Answered(<<>>, kv' # kv)
    BY <1>1 DEF Test!KV, Test!DeniedInCheck
  <2> QED
    BY <2>1, AnswerSays
<1>2. CASE Test!PublishTool
  <2>1. /\ call.kind \in {"publish", "withdraw"}
        /\ published' # published => opts.tools /\ ~call.during
        /\ Test!Answered(<<>>, published' # published)
    BY <1>2 DEF Test!PublishTool, Test!DeniedInCheck
  <2> QED
    BY <2>1, AnswerSays
<1>3. CASE Test!Fetch
  <2> DEFINE may == ~Test!DeniedInCheck("fetch") /\ \E s \in opts.scopes : Test!Covers(s, call.what)
  <2>1. call.kind = "fetch" /\ Test!Answered(<<>>, may)
    BY <1>3 DEF Test!Fetch
  <2>2. may => ~call.during /\ \E s \in opts.scopes : call.what.host \in s.hosts
    BY DEF Test!DeniedInCheck, Test!Covers, Test!HostCovers, Test!LocalCovers
  <2> HIDE DEF may
  <2> QED
    BY <2>1, <2>2, AnswerSays
<1> QED
  BY <1>1, <1>2, <1>3

\* EffectiveSettings.
LEMMA EffectiveIs ==
    ASSUME NEW own, NEW over, NEW k \in DOMAIN Declared
    PROVE  LET e == Test!Effective(Test!Override(own, over))
           IN  /\ k \in DOMAIN e <=> Declared[k].default # Test!Null \/ k \in DOMAIN own \/ k \in DOMAIN over
               /\ k \in DOMAIN e => e[k] = IF k \in DOMAIN over THEN over[k]
                                           ELSE IF k \in DOMAIN own THEN own[k] ELSE Declared[k].default
  BY DEF Test!Effective, Test!Override

\* getSettings: whoever asks is told what it declared, what the operator said and what its
\* own case says.
LEMMA SettingsApart ==
    ASSUME StepsFit, AtStep, CallIsOwn, Test!GetSettings
    PROVE  Test!HostKeepsApart'
<1> DEFINE gave == IF checking THEN Test!Effective(<<>>) ELSE Test!Effective(Test!Override(opts.own, values))
           asker == steps[call.of]
           ofCase == IF asker.kind = "case" THEN asker.says ELSE <<>>
           own == IF asker.kind = "check" THEN <<>> ELSE opts.own
           due(k) == IF Test!Said(ofCase, k) THEN ofCase[k]
                     ELSE IF Test!Said(own, k) THEN own[k] ELSE Declared[k].default
<1>1. call.kind = "settings" /\ Test!Answered(gave, FALSE)
  BY DEF Test!GetSettings
<1>2. /\ last'.of = call.of /\ last'.kind = "settings" /\ last'.gave = gave /\ ~last'.did
      /\ last'.during => call.during /\ checking
      /\ UNCHANGED <<opts, steps, checking>>
  <2> HIDE DEF gave
  <2> QED
    BY <1>1, AnswerSays
<1>3. call # Test!NoCall
  <2>1. call.kind = "settings"
    BY <1>1
  <2>2. Test!NoCall.kind # "settings"
    BY DEF Test!NoCall
  <2> HIDE DEF gave
  <2> QED
    BY <2>1, <2>2
<1>4. ASSUME opts.lane # "session" \/ last'.during, NEW k \in DOMAIN Declared
      PROVE  IF due(k) = Test!Null THEN k \notin DOMAIN gave ELSE gave[k] = due(k)
  <2>1. CASE checking
    <3>1. asker.kind = "check"
      BY <1>2, <1>3, <1>4, <2>1 DEF CallIsOwn, AtStep
    <3>2. due(k) = Declared[k].default
      BY <3>1 DEF Test!Said
    <3>3. gave = Test!Effective(<<>>)
      BY <2>1
    <3>4. /\ k \in DOMAIN Test!Effective(<<>>) <=> Declared[k].default # Test!Null
          /\ k \in DOMAIN Test!Effective(<<>>) => Test!Effective(<<>>)[k] = Declared[k].default
      BY DEF Test!Effective
    <3> HIDE DEF gave, due
    <3> QED
      BY <3>2, <3>3, <3>4
  <2>2. CASE ~checking
    <3>1. opts.lane # "session"
      BY <1>2, <1>4, <2>2
    <3>2. asked /\ call.of = pos /\ pos \in DOMAIN steps /\ asker.kind # "check"
      BY <1>3, <2>2, <3>1 DEF CallIsOwn, AtStep
    <3>3. Test!Fits(opts.own, FALSE)
      BY <3>2 DEF AtStep
    <3>4. k \in DOMAIN opts.own => opts.own[k] # Test!Null
      BY <3>3, NullFitsNothing DEF Test!Fits
    <3>5. (Test!Said(ofCase, k) <=> k \in DOMAIN values) /\ (k \in DOMAIN values => values[k] = ofCase[k])
      <4>1. CASE asker.kind = "case"
        <5>1. values = [j \in {d \in DOMAIN ofCase : ofCase[d] # Test!Null} |-> ofCase[j]]
          BY <3>2, <4>1 DEF AtStep
        <5> HIDE DEF ofCase
        <5> QED
          BY <5>1 DEF Test!Said
      <4>2. CASE asker.kind # "case"
        <5>1. values = <<>> /\ ofCase = <<>>
          BY <3>2, <4>2 DEF AtStep
        <5> HIDE DEF ofCase
        <5> QED
          BY <5>1 DEF Test!Said
      <4> QED
        BY <4>1, <4>2
    <3>6. due(k) = IF k \in DOMAIN values THEN values[k]
                   ELSE IF k \in DOMAIN opts.own THEN opts.own[k] ELSE Declared[k].default
      BY <3>2, <3>4, <3>5 DEF Test!Said
    <3>7. k \in DOMAIN values => values[k] # Test!Null
      BY <3>5 DEF Test!Said
    <3>8. gave = Test!Effective(Test!Override(opts.own, values))
      BY <2>2
    <3> HIDE DEF gave, due
    <3> QED
      BY <3>4, <3>6, <3>7, <3>8, EffectiveIs
  <2> QED
    BY <2>1, <2>2
<1> HIDE DEF gave
<1> QED
  BY <1>2, <1>4 DEF Test!HostKeepsApart

LEMMA TestStarts ==
    ASSUME Test!TestRunInit
    PROVE  TestInv
<1>1. StepsFit
  BY StepsStart
<1>2. /\ pos = 0 /\ asked = FALSE /\ outcomes = <<>> /\ values = <<>> /\ checking = FALSE
      /\ rep = [passed |-> {}, fails |-> 0, unrun |-> 0, prereq |-> FALSE]
      /\ call = Test!NoCall /\ last = Test!NoAnswer /\ code = "none" /\ opts.own \in Lines
  BY DEF Test!TestRunInit
<1>3. Len(steps) \in Nat /\ DOMAIN steps = 1 .. Len(steps)
  BY <1>1, StepPlaces
<1>4. pos \notin DOMAIN steps /\ pos \in 0 .. Len(steps) + 1
  BY <1>2, <1>3
<1>5. AtStep
  BY <1>2, <1>4 DEF AtStep
<1>6. CallIsOwn /\ Test!HostKeepsApart
  BY <1>2 DEF CallIsOwn, Test!HostKeepsApart
<1>7. Telling
  <2>1. rep \in ReportShape
    BY <1>2 DEF ReportShape
  <2>2. OutcomesFit
    <3>1. <<>> \in Seq(Outcome) /\ Len(<<>>) = 0
      OBVIOUS
    <3> QED
      BY <1>2, <3>1 DEF OutcomesFit
  <2>3. Accounted /\ ExitFits
    <3>1. 1 .. 0 - 1 = {}
      OBVIOUS
    <3> QED
      BY <1>2, <3>1 DEF Accounted, ExitFits
  <2> QED
    BY <2>1, <2>2, <2>3 DEF Telling
<1> QED
  BY <1>1, <1>5, <1>6, <1>7 DEF TestInv

LEMMA TestSteps == TestInv /\ [Test!TestRunNext]_(Test!testRunVars) => TestInv'
<1> SUFFICES ASSUME TestInv, [Test!TestRunNext]_(Test!testRunVars) PROVE TestInv'
  OBVIOUS
<1> USE DEF TestInv
<1>1. CASE Test!RunStep /\ last' = Test!NoAnswer
  <2>1. AtStep' /\ CallIsOwn' /\ Telling'
    BY <1>1, BeginKeeps, DoStepKeeps, CaseKeeps, AskingKeeps, CheckEndsKeeps, FinishKeeps DEF Test!RunStep
  <2>2. StepsFit'
    BY <1>1, RunLeavesHost DEF StepsFit
  <2>3. Test!HostKeepsApart'
    BY <1>1 DEF Test!HostKeepsApart
  <2> QED
    BY <2>1, <2>2, <2>3
<1>2. CASE Test!Take /\ last' = Test!NoAnswer
  <2>1. Test!HostKeepsApart'
    BY <1>2 DEF Test!HostKeepsApart
  <2> QED
    BY <1>2, <2>1, TakeKeeps
<1>3. CASE Test!GetSettings \/ Test!KV \/ Test!PublishTool \/ Test!Fetch
  <2>1. \E gave, did : Test!Answered(gave, did)
    BY <1>3 DEF Test!GetSettings, Test!KV, Test!PublishTool, Test!Fetch
  <2> QED
    BY <1>3, <2>1, AnswersKeep, SettingsApart, DeedsApart
<1>4. CASE UNCHANGED Test!testRunVars
  <2>1. UNCHANGED <<opts, steps, pos, asked, rep, outcomes, values, checking, code, call, last>>
    BY <1>4 DEF Test!testRunVars, Test!runVars, Test!hostVars
  <2>2. StepsFit' /\ AtStep' /\ CallIsOwn'
    BY <2>1 DEF StepsFit, AtStep, CallIsOwn, Test!Fits, Test!Allowed
  <2>3. Telling'
    BY <2>1 DEF OutcomesFit, Accounted, Clean, Settled, ExitFits, Test!Result, Telling
  <2>4. Test!HostKeepsApart'
    BY <2>1 DEF Test!HostKeepsApart, Test!Said
  <2> QED
    BY <2>2, <2>3, <2>4
<1> QED
  BY <1>1, <1>2, <1>3, <1>4 DEF Test!TestRunNext

\* A pass was earned.
LEMMA PassProven == TestInv => Test!PassIsProven
<1> SUFFICES ASSUME TestInv PROVE Test!PassIsProven
  OBVIOUS
<1> USE DEF TestInv, Telling
<1>1. CASE code = "pass"
  <2>1. pos = Len(steps) + 1 /\ Test!Result(rep) = "pass"
    BY <1>1 DEF ExitFits
  <2>2. Clean
    BY <2>1 DEF Test!Result, Clean, ReportShape
  <2>3. Len(steps) \in Nat /\ DOMAIN steps = 1 .. Len(steps)
    BY StepPlaces
  <2>4. pos \notin DOMAIN steps
    BY <2>1, <2>3
  <2>5. outcomes = <<>> /\ Len(outcomes) = 0
    BY <2>4 DEF OutcomesFit
  <2>6. \A i \in DOMAIN steps : i \in 1 .. pos - 1
    BY <2>1, <2>3
  <2>7. \A i \in DOMAIN steps : steps[i].kind # "reading" => i \in rep.passed
    BY <2>2, <2>5, <2>6 DEF Accounted, Settled
  <2> QED
    BY <1>1, <2>1, <2>7 DEF Test!PassIsProven, Test!Over
<1>2. CASE code = "incomplete"
  <2>1. Test!Result(rep) = "incomplete"
    BY <1>2 DEF ExitFits
  <2>2. rep.prereq \/ rep.fails = 0
    BY <2>1 DEF Test!Result, ReportShape
  <2> QED
    BY <1>2, <2>2 DEF Test!PassIsProven
<1> QED
  BY <1>1, <1>2 DEF Test!PassIsProven

\* A run of `aiisdk test` that passes was proven step by step, and the host that answers
\* meanwhile tells nobody the settings of a case but the case, does nothing within the
\* package's checks and nothing that was not granted (report.result, finish, answer).
THEOREM HonestTests == Spec => []TestsAreHonest
<1> DEFINE Here == part = "test"
<1>1. Init /\ Here => TestInv
  BY TestStarts DEF Init
<1>2. Here /\ [Next]_vars => Here' /\ [Test!TestRunNext]_(Test!testRunVars)
  BY DEF Next, vars, Test!testRunVars, Test!runVars, Test!hostVars
<1>3. ~Here /\ [Next]_vars => ~Here'
  BY DEF Next, vars
<1>4. ~Here => TestsAreHonest
  BY DEF TestsAreHonest
<1>5. TestInv => TestsAreHonest
  BY PassProven DEF TestInv, TestsAreHonest
<1> HIDE DEF Here
<1> QED
  BY <1>1, <1>2, <1>3, <1>4, <1>5, TestSteps, PTL DEF Spec

----------------------------------------------------------------------------
(* The host's files, by the names of HostFiles: the paths.                 *)

\* filepath.Clean name by name, and the fold it is.
AddName(c, n) ==
    IF n = ".." /\ c # <<>> /\ c[Len(c)] # ".." THEN SubSeq(c, 1, Len(c) - 1) ELSE Append(c, n)
Top(s) == CHOOSE i \in s : \A k \in s : i >= k
Folding(p, it) ==
    it = [s \in SUBSET DOMAIN p |-> IF s = {} THEN <<>> ELSE AddName(it[s \ {Top(s)}], p[Top(s)])]

LEMMA CleanedIsFold == ASSUME NEW p PROVE Files!Cleaned(p) = (CHOOSE it : Folding(p, it))[DOMAIN p]
  BY DEF Files!Cleaned, Files!FoldLeft, Files!MapThenFoldSet, Folding, AddName, Top,
     Files!Max, Files!Last, Files!Front

LEMMA TopIs ==
    ASSUME NEW n \in Nat, NEW s \in SUBSET (1 .. n), s # {}
    PROVE  Top(s) \in s /\ \A k \in s : k <= Top(s)
<1> DEFINE B == {b \in Nat : \A k \in s : k <= b}
<1>1. n \in B
  OBVIOUS
<1>2. PICK b \in B : \A k \in B : b <= k
  BY <1>1, LeastOf
<1>3. b \in s
  <2>1. SUFFICES ASSUME b \notin s PROVE FALSE
    OBVIOUS
  <2>2. \A k \in s : k <= b - 1 /\ k >= 1
    BY <1>2, <2>1
  <2>3. b - 1 \in B
    <3>1. PICK k \in s : TRUE
      OBVIOUS
    <3>2. b - 1 \in Nat
      BY <1>2, <2>2, <3>1
    <3> QED
      BY <2>2, <3>2
  <2> QED
    BY <1>2, <2>3
<1> QED
  BY <1>2, <1>3 DEF Top

\* The fold exists: each set of places is folded from the one without its last place.
LEMMA FoldingExists ==
    ASSUME NEW p, NEW n \in Nat, DOMAIN p = 1 .. n
    PROVE  \E it : Folding(p, it)
<1> DEFINE Upto(it, m) ==
             it = [s \in SUBSET (1 .. m) |-> IF s = {} THEN <<>> ELSE AddName(it[s \ {Top(s)}], p[Top(s)])]
<1> DEFINE Bad == {m \in Nat : ~\E it : Upto(it, m)}
<1>1. Bad = {}
  <2>1. SUFFICES ASSUME Bad # {} PROVE FALSE
    OBVIOUS
  <2>2. PICK m \in Bad : \A k \in Bad : m <= k
    BY <2>1, LeastOf
  <2>3. m # 0
    <3> DEFINE it == [s \in SUBSET (1 .. 0) |-> <<>>]
    <3>1. \A s \in SUBSET (1 .. 0) : s = {}
      OBVIOUS
    <3>2. it = [s \in SUBSET (1 .. 0) |-> IF s = {} THEN <<>> ELSE AddName(it[s \ {Top(s)}], p[Top(s)])]
      BY <3>1
    <3> HIDE DEF it
    <3>3. \E f : Upto(f, 0)
      BY <3>2
    <3> QED
      BY <2>2, <3>3
  <2>4. PICK it : Upto(it, m - 1)
    <3>1. m - 1 \in Nat /\ ~(m <= m - 1)
      BY <2>2, <2>3
    <3>2. m - 1 \notin Bad
      BY <2>2, <3>1
    <3> QED
      BY <3>1, <3>2
  <2> DEFINE jt == [s \in SUBSET (1 .. m) |-> IF s = {} THEN <<>> ELSE AddName(it[s \ {Top(s)}], p[Top(s)])]
  <2>5. \A s \in SUBSET (1 .. m - 1) : s \in SUBSET (1 .. m) /\ jt[s] = it[s]
    <3>1. ASSUME NEW s \in SUBSET (1 .. m - 1) PROVE s \in SUBSET (1 .. m) /\ jt[s] = it[s]
      <4>1. s \in SUBSET (1 .. m)
        BY <2>2
      <4>2. jt[s] = IF s = {} THEN <<>> ELSE AddName(it[s \ {Top(s)}], p[Top(s)])
        BY <4>1
      <4>3. it[s] = IF s = {} THEN <<>> ELSE AddName(it[s \ {Top(s)}], p[Top(s)])
        BY <2>4
      <4> QED
        BY <4>1, <4>2, <4>3
    <3> QED
      BY <3>1
  <2>6. \A s \in SUBSET (1 .. m) : s # {} => s \ {Top(s)} \in SUBSET (1 .. m - 1)
    <3>1. ASSUME NEW s \in SUBSET (1 .. m), s # {} PROVE s \ {Top(s)} \in SUBSET (1 .. m - 1)
      <4>1. Top(s) \in s /\ \A k \in s : k <= Top(s)
        BY <2>2, <3>1, TopIs
      <4>2. \A k \in s : k \in 1 .. m
        OBVIOUS
      <4> PICK t : t = Top(s)
        OBVIOUS
      <4>3. \A k \in s \ {t} : k \in 1 .. m - 1
        <5>1. t \in 1 .. m /\ \A k \in s : k <= t /\ k \in 1 .. m
          BY <4>1, <4>2
        <5>2. ASSUME NEW k \in s \ {t} PROVE k \in 1 .. m - 1
          <6>1. k \in 1 .. m /\ k <= t /\ k # t
            BY <5>1
          <6> QED
            BY <2>2, <5>1, <6>1
        <5> QED
          BY <5>2
      <4> QED
        BY <4>3
    <3> QED
      BY <3>1
  <2>7. \A s \in SUBSET (1 .. m) : s # {} => jt[s \ {Top(s)}] = it[s \ {Top(s)}]
    BY <2>5, <2>6
  <2>8. jt = [s \in SUBSET (1 .. m) |-> IF s = {} THEN <<>> ELSE AddName(jt[s \ {Top(s)}], p[Top(s)])]
    <3> DEFINE kt == [s \in SUBSET (1 .. m) |-> IF s = {} THEN <<>> ELSE AddName(jt[s \ {Top(s)}], p[Top(s)])]
    <3>1. \A s \in SUBSET (1 .. m) : jt[s] = kt[s]
      <4> SUFFICES ASSUME NEW s \in SUBSET (1 .. m) PROVE jt[s] = kt[s]
        OBVIOUS
      <4>1. CASE s = {}
        BY <4>1
      <4>2. CASE s # {}
        <5>1. jt[s \ {Top(s)}] = it[s \ {Top(s)}]
          BY <2>7, <4>2
        <5>2. jt[s] = AddName(it[s \ {Top(s)}], p[Top(s)]) /\ kt[s] = AddName(jt[s \ {Top(s)}], p[Top(s)])
          BY <4>2
        <5> HIDE DEF jt, kt
        <5> QED
          BY <5>1, <5>2
      <4> QED
        BY <4>1, <4>2
    <3>2. DOMAIN jt = SUBSET (1 .. m) /\ DOMAIN kt = SUBSET (1 .. m)
          /\ jt = [s \in DOMAIN jt |-> jt[s]] /\ kt = [s \in DOMAIN kt |-> kt[s]]
      OBVIOUS
    <3>3. jt = kt
      <4> HIDE DEF jt, kt
      <4> QED
        BY <3>1, <3>2
    <3> QED
      BY <3>3
  <2>9. \E f : Upto(f, m)
    <3> HIDE DEF jt
    <3> QED
      BY <2>8
  <2> QED
    BY <2>2, <2>9
<1>2. PICK it : Upto(it, n)
  BY <1>1
<1> QED
  BY <1>2 DEF Folding

\* A clean path goes up, if it does, before it goes anywhere else.
UpFirst(c) ==
    c \in Seq(Files!Names) /\ \A i \in 1 .. Len(c) : c[i] = ".." => \A j \in 1 .. i : c[j] = ".."

LEMMA AddKeepsUpFirst ==
    ASSUME NEW c, UpFirst(c), NEW n \in Files!Names
    PROVE  UpFirst(AddName(c, n))
<1> DEFINE l == Len(c)
<1>1. c \in Seq(Files!Names) /\ l \in Nat /\ DOMAIN c = 1 .. l
  BY DEF UpFirst
<1>2. CASE n = ".." /\ c # <<>> /\ c[l] # ".."
  <2>1. l >= 1
    BY <1>1, <1>2
  <2> DEFINE f == SubSeq(c, 1, l - 1)
  <2>2. f \in Seq(Files!Names) /\ Len(f) = l - 1 /\ \A i \in 1 .. l - 1 : f[i] = c[i]
    BY <1>1, <2>1
  <2> HIDE DEF f
  <2>3. UpFirst(f)
    BY <1>1, <2>1, <2>2 DEF UpFirst
  <2> QED
    BY <1>2, <2>3 DEF AddName, f
<1>3. CASE ~(n = ".." /\ c # <<>> /\ c[l] # "..")
  <2> DEFINE f == Append(c, n)
  <2>1. /\ f \in Seq(Files!Names) /\ Len(f) = l + 1
        /\ (\A i \in 1 .. l : f[i] = c[i]) /\ f[l + 1] = n
    BY <1>1
  <2> HIDE DEF f
  <2>2. ASSUME NEW i \in 1 .. l + 1, f[i] = "..", NEW j \in 1 .. i PROVE f[j] = ".."
    <3>1. CASE i <= l
      <4>1. i \in 1 .. l /\ j \in 1 .. l /\ c[i] = ".."
        BY <1>1, <2>1, <2>2, <3>1
      <4> QED
        BY <2>1, <4>1 DEF UpFirst
    <3>2. CASE i = l + 1 /\ j <= l
      <4>1. n = ".." /\ l \in 1 .. l /\ j \in 1 .. l
        BY <1>1, <2>1, <2>2, <3>2
      <4>2. c[l] = ".."
        BY <1>1, <1>3, <4>1
      <4>3. c[j] = ".."
        BY <4>1, <4>2 DEF UpFirst
      <4> QED
        BY <2>1, <4>1, <4>3
    <3>3. CASE i = l + 1 /\ j = l + 1
      BY <2>2, <3>3
    <3> QED
      BY <1>1, <3>1, <3>2, <3>3
  <2>3. UpFirst(f)
    BY <2>1, <2>2 DEF UpFirst
  <2> QED
    BY <1>3, <2>3 DEF AddName, f
<1> QED
  BY <1>2, <1>3

LEMMA CleanedGoesUpFirst ==
    ASSUME NEW n \in Nat, NEW p \in [1 .. n -> Files!Names]
    PROVE  UpFirst(Files!Cleaned(p))
<1> DEFINE it == CHOOSE f : Folding(p, f)
<1>1. Folding(p, it)
  BY FoldingExists
<1> HIDE DEF it
<1>2. \A s \in SUBSET (1 .. n) : it[s] = IF s = {} THEN <<>> ELSE AddName(it[s \ {Top(s)}], p[Top(s)])
  BY <1>1 DEF Folding
<1> DEFINE Bad == {m \in Nat : m <= n /\ ~UpFirst(it[1 .. m])}
<1>3. Bad = {}
  <2>1. SUFFICES ASSUME Bad # {} PROVE FALSE
    OBVIOUS
  <2>2. PICK m \in Bad : \A k \in Bad : m <= k
    BY <2>1, LeastOf
  <2>3. 1 .. m \in SUBSET (1 .. n)
    BY <2>2
  <2>4. m # 0
    <3>1. 1 .. 0 = {} /\ 1 .. 0 \in SUBSET (1 .. n)
      OBVIOUS
    <3>2. it[1 .. 0] = <<>>
      BY <1>2, <3>1
    <3>3. UpFirst(<<>>)
      BY DEF UpFirst
    <3>4. UpFirst(it[1 .. 0])
      BY <3>2, <3>3
    <3> QED
      BY <2>2, <3>4
  <2>5. 1 .. m # {} /\ m \in 1 .. m
    BY <2>2, <2>4
  <2>6. Top(1 .. m) = m
    <3>1. Top(1 .. m) \in 1 .. m /\ \A k \in 1 .. m : k <= Top(1 .. m)
      BY <2>2, <2>5, TopIs
    <3> PICK t : t = Top(1 .. m)
      OBVIOUS
    <3>2. t \in 1 .. m /\ m <= t
      BY <2>5, <3>1
    <3> QED
      BY <2>2, <3>2
  <2>7. (1 .. m) \ {m} = 1 .. m - 1
    BY <2>2, <2>4
  <2>8. it[1 .. m] = AddName(it[1 .. m - 1], p[m])
    BY <1>2, <2>3, <2>5, <2>6, <2>7
  <2>9. UpFirst(it[1 .. m - 1])
    <3>1. m - 1 \in Nat /\ m - 1 <= n /\ ~(m <= m - 1)
      BY <2>2, <2>4
    <3>2. m - 1 \notin Bad
      BY <2>2, <3>1
    <3> QED
      BY <3>1, <3>2
  <2>10. p[m] \in Files!Names
    BY <2>2, <2>5
  <2>11. UpFirst(it[1 .. m])
    BY <2>8, <2>9, <2>10, AddKeepsUpFirst
  <2> QED
    BY <2>2, <2>11
<1>4. UpFirst(it[1 .. n])
  BY <1>3
<1>5. Files!Cleaned(p) = it[DOMAIN p] /\ DOMAIN p = 1 .. n
  BY CleanedIsFold DEF it
<1> QED
  BY <1>4, <1>5

\* Where a call acts it is below its folder, by the name as the system resolves it; and no
\* name goes up.
LEMMA InsideOf ==
    ASSUME NEW n \in Nat, NEW p \in [1 .. n -> Files!Names]
    PROVE  /\ \A r \in {Files!InSandbox(p), Files!InPrivate(p)} :
                 r # <<"refused">> => ".." \notin Files!ToSet(r) /\ (r = <<>> \/ r[1] # "l")
           /\ \A r \in {Files!SandboxRel(p), Files!CleanRel(p)} :
                 r # <<"refused">> => ".." \notin Files!ToSet(r)
           /\ Files!SandboxRel(p) # <<>> /\ Files!SandboxRel(p)[1] = "l" => v8 = "nowhere"
<1> PICK c : c = Files!Cleaned(p)
  OBVIOUS
<1> PICK r : r = Files!Resolved(c)
  OBVIOUS
<1>1. UpFirst(c)
  BY CleanedGoesUpFirst
<1>2. Len(c) \in Nat /\ DOMAIN c = 1 .. Len(c) /\ c \in Seq(Files!Names)
  BY <1>1 DEF UpFirst
<1>3. ASSUME r = <<>> \/ r[1] # ".."
      PROVE  ".." \notin Files!ToSet(r) /\ (r # <<>> /\ r[1] = "l" => v8 = "nowhere")
  <2>1. CASE c # <<>> /\ c[1] = "l" /\ v8 # "nowhere"
    <3>1. Len(c) >= 1 /\ \A i \in 1 .. Len(c) : c[i] # ".."
      BY <1>1, <1>2, <2>1 DEF UpFirst
    <3> DEFINE t == Tail(c)
    <3>2. Len(t) = Len(c) - 1 /\ t \in Seq(Files!Names) /\ \A i \in 1 .. Len(c) - 1 : t[i] = c[i + 1]
      BY <1>2, <3>1
    <3> HIDE DEF t
    <3>3. \A i \in 1 .. Len(t) : t[i] # ".."
      BY <1>2, <3>1, <3>2
    <3>4. PICK h \in {Files!Outside, <<"d">>} : r = h \o t
      BY <2>1 DEF Files!Resolved, t
    <3>5. h \in Seq(Files!Names) /\ Len(h) = 1 /\ h[1] # "l"
      <4>1. ".." \in Files!Names /\ "d" \in Files!Names
        BY DEF Files!Names
      <4>2. \A x \in Files!Names : <<x>> \in Seq(Files!Names) /\ Len(<<x>>) = 1
        OBVIOUS
      <4>3. <<"..">>[1] # "l" /\ <<"d">>[1] # "l"
        OBVIOUS
      <4> QED
        BY <4>1, <4>2, <4>3 DEF Files!Outside
    <3>6. /\ DOMAIN r = 1 .. Len(t) + 1 /\ r[1] = h[1]
          /\ \A i \in 2 .. Len(t) + 1 : r[i] = t[i - 1]
      <4>1. t \in Seq(Files!Names) /\ Len(t) \in Nat
        BY <3>2
      <4>2. /\ Len(h \o t) = 1 + Len(t) /\ h \o t \in Seq(Files!Names)
            /\ \A i \in 1 .. 1 + Len(t) : (h \o t)[i] = IF i <= 1 THEN h[i] ELSE t[i - 1]
        <5>1. /\ h \o t \in Seq(Files!Names)
              /\ Len(h \o t) = Len(h) + Len(t)
              /\ \A i \in 1 .. Len(h) + Len(t) : (h \o t)[i] = IF i <= Len(h) THEN h[i] ELSE t[i - Len(h)]
          <6> PICK N : N = Files!Names
            OBVIOUS
          <6>1. h \in Seq(N) /\ t \in Seq(N)
            BY <3>5, <4>1
          <6>2. /\ h \o t \in Seq(N)
                /\ Len(h \o t) = Len(h) + Len(t)
                /\ \A i \in 1 .. Len(h) + Len(t) : (h \o t)[i] = IF i <= Len(h) THEN h[i] ELSE t[i - Len(h)]
            BY <6>1, ConcatProperties, Zenon
          <6> QED
            BY <6>2
        <5> QED
          BY <3>5, <5>1
      <4>3. 1 \in 1 .. 1 + Len(t) /\ \A i \in 2 .. Len(t) + 1 : i \in 1 .. 1 + Len(t) /\ ~(i <= 1)
        BY <4>1
      <4>4. DOMAIN r = 1 .. Len(t) + 1
        BY <3>4, <4>1, <4>2
      <4> QED
        BY <3>4, <4>2, <4>3, <4>4
    <3>7. h[1] # ".."
      BY <1>3, <3>6
    <3>8. \A i \in 1 .. Len(t) + 1 : r[i] # ".."
      BY <3>2, <3>3, <3>6, <3>7
    <3> QED
      BY <3>5, <3>6, <3>8 DEF Files!ToSet
  <2>2. CASE ~(c # <<>> /\ c[1] = "l" /\ v8 # "nowhere")
    <3>1. r = c
      BY <2>2 DEF Files!Resolved
    <3>2. \A i \in 1 .. Len(c) : c[i] # ".."
      BY <1>1, <1>2, <1>3, <3>1 DEF UpFirst
    <3> QED
      BY <1>2, <2>2, <3>1, <3>2 DEF Files!ToSet
  <2> QED
    BY <2>1, <2>2
<1>4. Files!SandboxRel(p) = IF r # <<>> /\ r[1] = ".." THEN <<"refused">> ELSE r
  BY DEF Files!SandboxRel
<1>5. Files!SandboxRel(p) # <<"refused">> => ".." \notin Files!ToSet(Files!SandboxRel(p))
  BY <1>3, <1>4
<1>6. Files!CleanRel(p) # <<"refused">> => ".." \notin Files!ToSet(Files!CleanRel(p))
  BY DEF Files!CleanRel
<1>7. Files!SandboxRel(p) # <<>> /\ Files!SandboxRel(p)[1] = "l" => v8 = "nowhere"
  <2>1. <<"refused">>[1] # "l"
    OBVIOUS
  <2> QED
    BY <1>3, <1>4, <2>1
<1>8. \A q : Files!RealPath(q) => q = <<>> \/ q[1] # "l"
  BY DEF Files!RealPath
<1> QED
  BY <1>5, <1>6, <1>7, <1>8 DEF Files!InSandbox, Files!InPrivate

----------------------------------------------------------------------------
(* The host's files: what a publish replaces.                              *)

store == v1
temp == v2
piece == v3
ops == v4
pub == v5
made == v6
replaced == v7
root == v10
link == v11
beyond == v12
USE DEF store, temp, piece, ops, pub, made, replaced, root, link, beyond

\* An update has its place, the digest it saw, what it read and the generation it makes.
OpShape(o) == o = [at |-> o.at, digest |-> o.digest, read |-> o.read, gen |-> o.gen]
Whoever == \A u \in Updaters : OpShape(ops[u]) /\ ops[u].gen \in 0 .. made

\* What is in place was made; an update under way has a generation of its own, if any,
\* that was never in place; and so has the publish being answered.
InPlace ==
    /\ made \in Nat /\ DOMAIN ops = Updaters /\ Whoever
    /\ store # Files!Absent => \E g \in 0 .. made : store = Files!Gen(g)
    /\ \A u \in Updaters : ops[u].at # "done" /\ ops[u].gen # 0 =>
         /\ store # Files!Gen(ops[u].gen)
         /\ \A w \in Updaters \ {u} : ops[w].at # "done" => ops[w].gen # ops[u].gen

\* The publish being answered brings a generation of its own.
Bringing ==
    \/ pub = Files!NoCall
    \/ /\ pub.at \in {"compare", "spill", "measure", "rename"}
       /\ pub.by \in Updaters /\ ops[pub.by].at \in {"write", "publish"}
       /\ pub.crossed \in BOOLEAN /\ pub.staged \in BOOLEAN
       /\ pub = [at |-> pub.at, by |-> pub.by, staged |-> pub.staged, data |-> pub.data, crossed |-> pub.crossed]
       /\ \E g \in 1 .. made : 
            /\ pub.data = Files!Gen(g) /\ store # pub.data
            /\ \A u \in Updaters \ {pub.by} : ops[u].at # "done" => ops[u].gen # g
            /\ ops[pub.by].gen \in {0, g}
       /\ pub.at = "spill" => ~pub.staged
       /\ pub.at = "measure" => pub.staged
       /\ pub.at = "rename" => IF pub.staged THEN link.at = "piece" \/ piece = pub.data
                                             ELSE link.at = "temp" \/ temp = pub.data
       /\ pub.at \in {"spill", "measure", "rename"} /\ ~pub.crossed =>
            store = ops[pub.by].digest

\* A generation that was in place once and is not any more will not be again.
Bygone(g) ==
    /\ store # Files!Gen(g)
    /\ \A u \in Updaters : ops[u].at # "done" /\ ops[u].gen # 0 => ops[u].gen # g
    /\ pub # Files!NoCall => pub.data # Files!Gen(g)

\* As far as an update has read, it read generation g.
Copying(o, g) ==
    /\ Len(o.read) \in 0 .. Whole /\ o.read = [i \in 1 .. Len(o.read) |-> g]
    /\ IF o.at = "read" THEN Len(o.read) < Whole ELSE Len(o.read) = Whole

\* An update that saw a digest has read those contents, or they will not be there again.
Seen(o, g) == o.digest = Files!Gen(g) /\ (Bygone(g) \/ (store = Files!Gen(g) /\ Copying(o, g)))
Sees(o) ==
    o.at \in {"read", "write", "publish"} /\ o.digest # Files!Absent => \E g \in 0 .. made : Seen(o, g)
ReadAsSeen == \A u \in Updaters : Sees(ops[u])

Replacing ==
    \A r \in replaced : ~r.crossed => r.what = r.expected /\ (r.what # Files!Absent => r.base = r.what)

FilesInv == InPlace /\ Bringing /\ ReadAsSeen /\ Replacing

\* The link that was laid: a name that is a link is no file, and what it leads to is what it
\* led to unless it has the .publish-tmp name.
LinkInv ==
    /\ link = [at |-> link.at, how |-> link.how, was |-> link.was]
    /\ link.at = "piece" => piece = Files!Absent
    /\ link.at = "temp" => temp = Files!Absent /\ link.how = "temp"
    /\ link.how # "temp" => beyond = link.was
    /\ link.at = "piece" /\ link.how = "piece" /\ pub.at = "rename" /\ pub.staged => root = "private"
    /\ link.at = "target" /\ link.how = "piece" => root = "private"

LEMMA Generations ==
    /\ \A g, h \in Nat : Files!Gen(g) = Files!Gen(h) => g = h
    /\ \A g \in Nat : /\ Files!Gen(g) # Files!Absent /\ Len(Files!Gen(g)) = Whole
                      /\ \A i \in 1 .. Whole : Files!Gen(g)[i] = g
<1>1. 1 \in 1 .. Whole
  BY EnginesAssumption
<1>2. ASSUME NEW g \in Nat
      PROVE  /\ Files!Gen(g)[1] = g /\ Len(Files!Gen(g)) = Whole
             /\ \A i \in 1 .. Whole : Files!Gen(g)[i] = g
  BY <1>1, EnginesAssumption DEF Files!Gen
<1>3. Files!Absent[1] = -1
  BY DEF Files!Absent
<1>4. \A g, h \in Nat : Files!Gen(g) = Files!Gen(h) => g = h
  BY <1>2
<1>5. \A g \in Nat : Files!Gen(g) # Files!Absent
  BY <1>2, <1>3
<1> QED
  BY <1>2, <1>4, <1>5

\* One update moves.
LEMMA OneMoves ==
    ASSUME InPlace, NEW u \in Updaters, NEW r, Files!Step(u, r)
    PROVE  DOMAIN ops' = Updaters /\ ops'[u] = r /\ \A w \in Updaters : w # u => ops'[w] = ops[w]
  BY DEF InPlace, Files!Step

LEMMA FilesStart == Files!FilesInit => FilesInv
<1> SUFFICES ASSUME Files!FilesInit PROVE FilesInv
  OBVIOUS
<1>1. /\ store \in {Files!Absent, Files!Gen(0)} /\ made = 0 /\ pub = Files!NoCall /\ replaced = {}
      /\ ops = [u \in Updaters |-> [at |-> "digest", digest |-> Files!Absent, read |-> <<>>, gen |-> 0]]
  BY DEF Files!FilesInit
<1>2. InPlace
  BY <1>1 DEF InPlace, Whoever, OpShape
<1> QED
  BY <1>1, <1>2 DEF FilesInv, Bringing, ReadAsSeen, Sees, Replacing

\* An update moves between calls: it keeps its generation, or takes the next one.
LEMMA MoveKeeps ==
    ASSUME FilesInv, NEW u \in Updaters, NEW r, Files!Step(u, r),
           pub = Files!NoCall, UNCHANGED <<store, pub, replaced>>,
           OpShape(r), Sees(r),
           \/ made' = made /\ r.gen = ops[u].gen
           \/ made' = made + 1 /\ r.gen = made + 1,
           r.at # "done" => ops[u].at # "done"
    PROVE  FilesInv'
<1>1. DOMAIN ops' = Updaters /\ ops'[u] = r /\ \A w \in Updaters : w # u => ops'[w] = ops[w]
  BY OneMoves DEF FilesInv
<1>2. /\ made \in Nat /\ made' \in Nat /\ made <= made' /\ r.gen \in 0 .. made'
      /\ \A w \in Updaters : OpShape(ops[w]) /\ ops[w].gen \in 0 .. made
  BY DEF FilesInv, InPlace, Whoever
<1>3. store # Files!Absent => \E g \in 0 .. made : store = Files!Gen(g)
  BY DEF FilesInv, InPlace
<1>4. store # Files!Gen(made + 1)
  <2>1. CASE store = Files!Absent
    BY <1>2, <2>1, Generations
  <2>2. CASE store # Files!Absent
    <3>1. PICK g \in 0 .. made : store = Files!Gen(g)
      BY <1>3, <2>2
    <3>2. g \in Nat /\ made + 1 \in Nat /\ g # made + 1
      BY <1>2
    <3> QED
      BY <3>1, <3>2, Generations
  <2> QED
    BY <2>1, <2>2
<1>5. InPlace'
  <2>1. Whoever'
    <3>1. ASSUME NEW w \in Updaters PROVE OpShape(ops'[w]) /\ ops'[w].gen \in 0 .. made'
      <4>1. CASE w = u
        BY <1>1, <1>2, <4>1
      <4>2. CASE w # u
        <5>1. ops'[w] = ops[w] /\ OpShape(ops[w]) /\ ops[w].gen \in 0 .. made
          BY <1>1, <1>2, <4>2
        <5>2. ops[w].gen \in 0 .. made'
          BY <1>2, <5>1
        <5> QED
          BY <5>1, <5>2
      <4> QED
        BY <4>1, <4>2
    <3> QED
      BY <3>1 DEF Whoever
  <2>2. store' # Files!Absent => \E g \in 0 .. made' : store' = Files!Gen(g)
    BY <1>2, <1>3
  <2>3. ASSUME NEW w \in Updaters, ops'[w].at # "done", ops'[w].gen # 0
        PROVE  /\ store' # Files!Gen(ops'[w].gen)
               /\ \A x \in Updaters \ {w} : ops'[x].at # "done" => ops'[x].gen # ops'[w].gen
    <3>1. ops[w].at # "done"
      BY <1>1, <2>3
    <3>2. \/ ops'[w].gen = ops[w].gen
          \/ w = u /\ ops'[w].gen = made + 1
      BY <1>1
    <3>3. CASE ops'[w].gen = ops[w].gen
      <4>1. /\ store # Files!Gen(ops[w].gen)
            /\ \A x \in Updaters \ {w} : ops[x].at # "done" => ops[x].gen # ops[w].gen
        BY <2>3, <3>1, <3>3 DEF FilesInv, InPlace
      <4>2. ops[w].gen # made + 1
        BY <1>2
      <4>3. \A x \in Updaters \ {w} : ops'[x].at # "done" => ops'[x].gen # ops[w].gen
        BY <1>1, <4>1, <4>2
      <4> QED
        BY <3>3, <4>1, <4>3
    <3>4. CASE w = u /\ ops'[w].gen = made + 1
      <4>1. \A x \in Updaters \ {w} : ops'[x] = ops[x] /\ ops[x].gen # made + 1
        BY <1>1, <1>2, <3>4
      <4> QED
        BY <1>4, <3>4, <4>1
    <3> QED
      BY <3>2, <3>3, <3>4
  <2> QED
    BY <1>1, <1>2, <2>1, <2>2, <2>3 DEF InPlace
<1>6. ASSUME NEW g \in 0 .. made, Bygone(g) PROVE Bygone(g)'
  <2>1. g # made + 1
    BY <1>2
  <2>2. ASSUME NEW w \in Updaters, ops'[w].at # "done", ops'[w].gen # 0 PROVE ops'[w].gen # g
    BY <1>1, <1>6, <2>1, <2>2 DEF Bygone
  <2> QED
    BY <1>6, <2>2 DEF Bygone
<1>7. ASSUME NEW o, Sees(o) PROVE Sees(o)'
  <2> SUFFICES ASSUME o.at \in {"read", "write", "publish"}, o.digest # Files!Absent
               PROVE  \E g \in 0 .. made' : Seen(o, g)'
    BY DEF Sees
  <2>1. PICK g \in 0 .. made : Seen(o, g)
    BY <1>7 DEF Sees
  <2>2. Seen(o, g)'
    BY <1>6, <2>1 DEF Seen, Copying
  <2> QED
    BY <1>2, <2>2
<1>8. ReadAsSeen'
  <2>1. ASSUME NEW w \in Updaters PROVE Sees(ops[w])'
    <3>1. PICK o : o = ops'[w]
      OBVIOUS
    <3>2. Sees(o)
      BY <1>1, <3>1 DEF FilesInv, ReadAsSeen
    <3>3. Sees(o)'
      BY <1>7, <3>2
    <3> QED
      BY <3>1, <3>3 DEF Sees, Seen, Copying
  <2> QED
    BY <2>1 DEF ReadAsSeen
<1> QED
  BY <1>5, <1>8 DEF FilesInv, Bringing, Replacing

LEMMA RefuseKeeps == ASSUME FilesInv, NEW u \in Updaters, Files!Refuse(u) PROVE FilesInv'
<1> PICK r : r = [ops[u] EXCEPT !.at = "done"]
  OBVIOUS
<1>1. Files!Step(u, r) /\ UNCHANGED <<store, pub, made, replaced>> /\ pub = Files!NoCall
  BY DEF Files!Refuse
<1>2. OpShape(ops[u])
  BY DEF FilesInv, InPlace, Whoever
<1>3. OpShape(r) /\ r.gen = ops[u].gen /\ r.at = "done"
  BY <1>2 DEF OpShape
<1> QED
  BY <1>1, <1>3, MoveKeeps DEF Sees

LEMMA DigestKeeps == ASSUME FilesInv, NEW u \in Updaters, Files!Digest(u) PROVE FilesInv'
<1> PICK r : r = [ops[u] EXCEPT !.digest = store, !.read = <<>>,
                                !.at = IF store = Files!Absent THEN "write" ELSE "read"]
  OBVIOUS
<1>1. Files!Step(u, r) /\ UNCHANGED <<store, pub, made, replaced>> /\ pub = Files!NoCall
      /\ ops[u].at = "digest"
  BY DEF Files!Digest
<1>2. OpShape(ops[u])
  BY DEF FilesInv, InPlace, Whoever
<1>3. /\ OpShape(r) /\ r.gen = ops[u].gen /\ r.digest = store /\ r.read = <<>>
      /\ r.at = IF store = Files!Absent THEN "write" ELSE "read"
  BY <1>2 DEF OpShape
<1>4. ASSUME store # Files!Absent PROVE \E g \in 0 .. made : Seen(r, g)
  <2>1. PICK g \in 0 .. made : store = Files!Gen(g)
    BY <1>4 DEF FilesInv, InPlace
  <2>2. Len(<<>>) = 0 /\ <<>> = [i \in 1 .. 0 |-> g]
    OBVIOUS
  <2>3. 0 \in 0 .. Whole /\ 0 < Whole
    BY EnginesAssumption
  <2>4. Copying(r, g)
    BY <1>3, <1>4, <2>2, <2>3 DEF Copying
  <2> QED
    BY <1>3, <2>1, <2>4 DEF Seen
<1>5. Sees(r)
  BY <1>3, <1>4 DEF Sees
<1> QED
  BY <1>1, <1>3, <1>5, MoveKeeps

LEMMA ReadKeeps == ASSUME FilesInv, NEW u \in Updaters, Files!Read(u) PROVE FilesInv'
<1> DEFINE n == Len(ops[u].read) + 1
<1> PICK r : r = IF store = Files!Absent THEN [ops[u] EXCEPT !.at = "done"]
                 ELSE [ops[u] EXCEPT !.read = IF n <= Len(store) THEN Append(@, store[n]) ELSE @,
                                     !.at = IF n >= Len(store) THEN "write" ELSE "read"]
  OBVIOUS
<1>1. Files!Step(u, r) /\ UNCHANGED <<store, pub, made, replaced>> /\ pub = Files!NoCall
      /\ ops[u].at = "read"
  BY DEF Files!Read
<1>2. OpShape(ops[u]) /\ Sees(ops[u])
  BY DEF FilesInv, InPlace, Whoever, ReadAsSeen
<1>3. OpShape(r) /\ r.gen = ops[u].gen /\ r.digest = ops[u].digest
  BY <1>2 DEF OpShape
<1>4. CASE store = Files!Absent
  <2>1. r.at = "done"
    BY <1>2, <1>4 DEF OpShape
  <2> QED
    BY <1>1, <1>3, <2>1, MoveKeeps DEF Sees
<1>5. CASE store # Files!Absent
  <2>1. /\ r.read = IF n <= Len(store) THEN Append(ops[u].read, store[n]) ELSE ops[u].read
        /\ r.at = IF n >= Len(store) THEN "write" ELSE "read"
    BY <1>2, <1>5 DEF OpShape
  <2>2. ASSUME r.digest # Files!Absent PROVE \E g \in 0 .. made : Seen(r, g)
    <3>1. PICK g \in 0 .. made : Seen(ops[u], g)
      BY <1>1, <1>2, <1>3, <2>2 DEF Sees
    <3>2. CASE Bygone(g)
      BY <1>3, <3>1, <3>2 DEF Seen
    <3>3. CASE store = Files!Gen(g) /\ Copying(ops[u], g)
      <4> PICK q : q = ops[u].read
        OBVIOUS
      <4>1. g \in Nat
        BY DEF FilesInv, InPlace
      <4>2. Len(store) = Whole /\ Whole \in Nat /\ \A i \in 1 .. Whole : store[i] = g
        BY <3>3, <4>1, Generations, EnginesAssumption
      <4>3. Len(q) \in 0 .. Whole /\ q = [i \in 1 .. Len(q) |-> g] /\ Len(q) < Whole
        BY <1>1, <3>3 DEF Copying
      <4>4. q \in Seq(Nat)
        BY <4>1, <4>3
      <4>5. n = Len(q) + 1 /\ n <= Whole /\ store[n] = g /\ r.read = Append(q, g)
        BY <2>1, <4>2, <4>3
      <4> PICK a : a = Append(q, g)
        OBVIOUS
      <4>6. /\ Len(a) = Len(q) + 1 /\ a \in Seq(Nat)
            /\ \A i \in 1 .. Len(a) : a[i] = g
        BY <4>1, <4>3, <4>4
      <4>7. a = [i \in 1 .. Len(a) |-> g]
        BY <4>6
      <4>8. Len(a) \in 0 .. Whole /\ (IF r.at = "read" THEN Len(a) < Whole ELSE Len(a) = Whole)
        BY <2>1, <4>2, <4>3, <4>5, <4>6
      <4>9. Copying(r, g)
        BY <4>5, <4>7, <4>8 DEF Copying
      <4> QED
        BY <1>3, <3>1, <3>3, <4>9 DEF Seen
    <3> QED
      BY <3>1, <3>2, <3>3 DEF Seen
  <2>3. Sees(r)
    BY <2>2 DEF Sees
  <2> QED
    BY <1>1, <1>3, <2>3, MoveKeeps
<1> QED
  BY <1>4, <1>5

LEMMA WriteKeeps == ASSUME FilesInv, NEW u \in Updaters, Files!Write(u) PROVE FilesInv'
<1> DEFINE g == IF ops[u].gen = 0 THEN made + 1 ELSE ops[u].gen
<1> PICK r : r = [ops[u] EXCEPT !.gen = g, !.at = IF Len(piece') = Whole THEN "publish" ELSE "write"]
  OBVIOUS
<1>1. /\ Files!Step(u, r) /\ UNCHANGED <<store, pub, replaced>> /\ pub = Files!NoCall
      /\ ops[u].at = "write" /\ made' = IF ops[u].gen = 0 THEN made + 1 ELSE made
  BY DEF Files!Write
<1>2. OpShape(ops[u]) /\ Sees(ops[u]) /\ made \in Nat
  BY DEF FilesInv, InPlace, Whoever, ReadAsSeen
<1>3. /\ OpShape(r) /\ r.gen = g /\ r.digest = ops[u].digest /\ r.read = ops[u].read
      /\ r.at \in {"publish", "write"}
  BY <1>2 DEF OpShape
<1>4. Sees(r)
  BY <1>1, <1>2, <1>3 DEF Sees, Seen, Copying
<1> QED
  BY <1>1, <1>3, <1>4, MoveKeeps

LEMMA DeleteKeeps == ASSUME FilesInv, NEW u \in Updaters, Files!Delete(u) PROVE FilesInv'
<1> PICK r : r = [ops[u] EXCEPT !.at = "done"]
  OBVIOUS
<1>1. Files!Step(u, r) /\ UNCHANGED <<store, pub, made, replaced>> /\ pub = Files!NoCall
  BY DEF Files!Delete
<1>2. OpShape(ops[u])
  BY DEF FilesInv, InPlace, Whoever
<1>3. OpShape(r) /\ r.gen = ops[u].gen /\ r.at = "done"
  BY <1>2 DEF OpShape
<1> QED
  BY <1>1, <1>3, MoveKeeps DEF Sees

\* The next generation is nobody's yet.
LEMMA NextIsNew ==
    ASSUME FilesInv
    PROVE  /\ made \in Nat /\ store # Files!Gen(made + 1)
           /\ \A u \in Updaters : ops[u].gen # made + 1
           /\ pub # Files!NoCall => pub.data # Files!Gen(made + 1)
<1>1. made \in Nat /\ made + 1 \in Nat /\ \A g \in 0 .. made : g \in Nat /\ g # made + 1
  BY DEF FilesInv, InPlace
<1>2. \A g \in 0 .. made : Files!Gen(g) # Files!Gen(made + 1)
  BY <1>1, Generations
<1>3. Files!Absent # Files!Gen(made + 1)
  BY <1>1, Generations
<1>4. store # Files!Gen(made + 1)
  BY <1>2, <1>3 DEF FilesInv, InPlace
<1>5. \A u \in Updaters : ops[u].gen # made + 1
  BY <1>1 DEF FilesInv, InPlace, Whoever
<1>6. pub # Files!NoCall => pub.data # Files!Gen(made + 1)
  <2>1. \A g \in 1 .. made : g \in 0 .. made
    BY <1>1
  <2> QED
    BY <1>2, <2>1 DEF FilesInv, Bringing
<1> QED
  BY <1>1, <1>4, <1>5, <1>6

LEMMA FilePublishKeeps == ASSUME FilesInv, NEW u \in Updaters, Files!Publish(u) PROVE FilesInv'
<1> DEFINE g == IF ops[u].gen = 0 THEN made + 1 ELSE ops[u].gen
<1> PICK staged \in BOOLEAN :
         pub' = [at |-> "compare", by |-> u, staged |-> staged, data |-> Files!Gen(g), crossed |-> FALSE]
  BY DEF Files!Publish
<1>1. /\ UNCHANGED <<store, temp, piece, ops, replaced>> /\ pub = Files!NoCall
      /\ ops[u].at \in {"write", "publish"} /\ made' = IF ops[u].gen = 0 THEN made + 1 ELSE made
  BY DEF Files!Publish
<1>2. made \in Nat /\ made' \in Nat /\ made <= made' /\ \A w \in Updaters : ops[w].gen \in 0 .. made
  BY <1>1 DEF FilesInv, InPlace, Whoever
<1>3. /\ g \in 1 .. made' /\ store # Files!Gen(g) /\ ops[u].gen \in {0, g}
      /\ \A w \in Updaters \ {u} : ops[w].at # "done" => ops[w].gen # g
  <2>1. CASE ops[u].gen = 0
    BY <1>1, <1>2, <2>1, NextIsNew
  <2>2. CASE ops[u].gen # 0
    BY <1>1, <1>2, <2>2 DEF FilesInv, InPlace
  <2> QED
    BY <2>1, <2>2
<1>4. InPlace'
  BY <1>1, <1>2 DEF FilesInv, InPlace, Whoever
<1>5. Bringing'
  <2>1. pub'.data = Files!Gen(g) /\ pub'.by = u /\ pub'.at = "compare"
    OBVIOUS
  <2> HIDE DEF g
  <2> QED
    BY <1>1, <1>3, <2>1 DEF Bringing
<1>6. ASSUME NEW h \in 0 .. made, Bygone(h) PROVE Bygone(h)'
  <2>1. Files!Gen(g) # Files!Gen(h)
    <3>1. g # h
      <4>1. CASE ops[u].gen = 0
        BY <1>2, <4>1
      <4>2. CASE ops[u].gen # 0
        BY <1>1, <1>6, <4>2 DEF Bygone
      <4> QED
        BY <4>1, <4>2
    <3>2. g \in Nat /\ h \in Nat
      BY <1>2, <1>3
    <3> QED
      BY <3>1, <3>2, Generations
  <2>2. pub'.data = Files!Gen(g)
    OBVIOUS
  <2> HIDE DEF g
  <2> QED
    BY <1>1, <1>6, <2>1, <2>2 DEF Bygone
<1>7. ReadAsSeen'
  <2> SUFFICES ASSUME NEW w \in Updaters, ops[w].at \in {"read", "write", "publish"}, ops[w].digest # Files!Absent
               PROVE  \E h \in 0 .. made' : Seen(ops[w], h)'
    BY <1>1 DEF ReadAsSeen, Sees, Seen, Copying
  <2>1. PICK h \in 0 .. made : Seen(ops[w], h)
    BY DEF FilesInv, ReadAsSeen, Sees
  <2>2. Seen(ops[w], h)'
    BY <1>1, <1>6, <2>1 DEF Seen, Copying
  <2> QED
    BY <1>2, <2>2
<1> QED
  BY <1>1, <1>4, <1>5, <1>7 DEF FilesInv, Replacing

LEMMA CallIs ==
    ASSUME FilesInv, pub # Files!NoCall
    PROVE  /\ pub.at \in {"compare", "spill", "measure", "rename"}
           /\ pub.by \in Updaters /\ ops[pub.by].at \in {"write", "publish"}
           /\ pub.crossed \in BOOLEAN /\ pub.staged \in BOOLEAN
           /\ pub = [at |-> pub.at, by |-> pub.by, staged |-> pub.staged, data |-> pub.data, crossed |-> pub.crossed]
           /\ \E g \in 1 .. made :
                /\ pub.data = Files!Gen(g) /\ store # pub.data
                /\ \A u \in Updaters \ {pub.by} : ops[u].at # "done" => ops[u].gen # g
                /\ ops[pub.by].gen \in {0, g}
           /\ pub.at = "spill" => ~pub.staged
           /\ pub.at = "measure" => pub.staged
           /\ pub.at = "rename" => IF pub.staged THEN link.at = "piece" \/ piece = pub.data
                                                 ELSE link.at = "temp" \/ temp = pub.data
           /\ pub.at \in {"spill", "measure", "rename"} /\ ~pub.crossed => store = ops[pub.by].digest
  BY DEF FilesInv, Bringing

\* A publish that goes on, or is answered with an error, changes nothing in place.
LEMMA GoesOnKeeps ==
    ASSUME FilesInv, pub # Files!NoCall, UNCHANGED <<store, ops, made, replaced>>,
           Bringing', pub' # Files!NoCall, pub'.data = pub.data
    PROVE  FilesInv'
<1>1. InPlace'
  BY DEF FilesInv, InPlace, Whoever
<1>2. ReadAsSeen'
  BY DEF FilesInv, ReadAsSeen, Sees, Seen, Copying, Bygone
<1> QED
  BY <1>1, <1>2 DEF FilesInv, Replacing

LEMMA AnswerKeeps ==
    ASSUME FilesInv, pub # Files!NoCall, Files!Answered, made' = made,
           store' \in {store, pub.data, Files!Absent},
           Replacing'
    PROVE  FilesInv'
<1> PICK u \in Updaters : u = pub.by
  BY CallIs
<1> PICK r : r = [ops[u] EXCEPT !.at = "done"]
  OBVIOUS
<1>1. Files!Step(u, r) /\ pub' = Files!NoCall
  BY DEF Files!Answered
<1>2. DOMAIN ops' = Updaters /\ ops'[u] = r /\ \A w \in Updaters : w # u => ops'[w] = ops[w]
  BY <1>1, OneMoves DEF FilesInv
<1>3. made \in Nat /\ \A w \in Updaters : OpShape(ops[w]) /\ ops[w].gen \in 0 .. made
  BY DEF FilesInv, InPlace, Whoever
<1>4. OpShape(r) /\ r.gen = ops[u].gen /\ r.at = "done"
  <2>1. OpShape(ops[u])
    BY <1>3
  <2> QED
    BY <2>1 DEF OpShape
<1>5. PICK g \in 1 .. made :
        /\ pub.data = Files!Gen(g) /\ store # pub.data
        /\ \A w \in Updaters \ {u} : ops[w].at # "done" => ops[w].gen # g
  BY CallIs
<1>6. Whoever'
  <2>1. ASSUME NEW w \in Updaters PROVE OpShape(ops'[w]) /\ ops'[w].gen \in 0 .. made'
    BY <1>2, <1>3, <1>4
  <2> QED
    BY <2>1 DEF Whoever
<1>7. \A w \in Updaters : ops'[w].at # "done" => w # u /\ ops'[w] = ops[w]
  BY <1>2, <1>4
<1>8. \A h \in 0 .. made : (Files!Gen(h) = Files!Gen(g) => h = g) /\ Files!Gen(h) # Files!Absent
  BY <1>3, Generations
<1>9. InPlace'
  <2>1. store' # Files!Absent => \E h \in 0 .. made' : store' = Files!Gen(h)
    BY <1>3, <1>5 DEF FilesInv, InPlace
  <2>2. ASSUME NEW w \in Updaters, ops'[w].at # "done", ops'[w].gen # 0
        PROVE  /\ store' # Files!Gen(ops'[w].gen)
               /\ \A x \in Updaters \ {w} : ops'[x].at # "done" => ops'[x].gen # ops'[w].gen
    <3>1. w # u /\ ops'[w] = ops[w] /\ ops[w].gen \in 0 .. made
      BY <1>3, <1>7, <2>2
    <3>2. /\ store # Files!Gen(ops[w].gen)
          /\ \A x \in Updaters \ {w} : ops[x].at # "done" => ops[x].gen # ops[w].gen
      BY <2>2, <3>1 DEF FilesInv, InPlace
    <3>3. pub.data # Files!Gen(ops[w].gen) /\ Files!Absent # Files!Gen(ops[w].gen)
      BY <1>5, <1>8, <2>2, <3>1
    <3> QED
      BY <1>7, <3>1, <3>2, <3>3
  <2> QED
    BY <1>2, <1>3, <1>6, <2>1, <2>2 DEF InPlace
<1>10. ReadAsSeen'
  <2> SUFFICES ASSUME NEW w \in Updaters, ops'[w].at \in {"read", "write", "publish"},
                      ops'[w].digest # Files!Absent
               PROVE  \E h \in 0 .. made' : Seen(ops[w], h)' /\ ops'[w] = ops[w]
    BY DEF ReadAsSeen, Sees, Seen, Copying
  <2>1. w # u /\ ops'[w] = ops[w]
    BY <1>7
  <2>2. PICK h \in 0 .. made : Seen(ops[w], h)
    BY <2>1 DEF FilesInv, ReadAsSeen, Sees
  <2>3. CASE Bygone(h)
    <3>1. store' # Files!Gen(h) /\ \A x \in Updaters : ops'[x].at # "done" /\ ops'[x].gen # 0 => ops'[x].gen # h
      BY <1>7, <1>8, <2>3 DEF Bygone
    <3>2. Bygone(h)'
      BY <1>1, <3>1 DEF Bygone
    <3> QED
      BY <2>1, <2>2, <3>2 DEF Seen
  <2>4. CASE store = Files!Gen(h) /\ Copying(ops[w], h)
    <3>1. CASE store' = store
      BY <2>1, <2>2, <2>4, <3>1 DEF Seen, Copying
    <3>2. CASE store' \in {pub.data, Files!Absent}
      <4>1. store' # Files!Gen(h)
        BY <1>5, <1>8, <2>4, <3>2
      <4>2. \A x \in Updaters : ops'[x].at # "done" /\ ops'[x].gen # 0 => ops'[x].gen # h
        BY <1>7, <2>4 DEF FilesInv, InPlace
      <4>3. Bygone(h)'
        BY <1>1, <4>1, <4>2 DEF Bygone
      <4> QED
        BY <2>1, <2>2, <4>3 DEF Seen
    <3> QED
      BY <3>1, <3>2
  <2> QED
    BY <2>2, <2>3, <2>4 DEF Seen
<1> QED
  BY <1>1, <1>9, <1>10 DEF FilesInv, Bringing

LEMMA CompareKeeps == ASSUME FilesInv, Files!Compare PROVE FilesInv'
<1>1. UNCHANGED <<store, temp, piece, made, replaced, link>> /\ pub.at = "compare" /\ pub # Files!NoCall
  BY DEF Files!Compare, Files!NoCall
<1>2. CASE Files!Answered
  BY <1>1, <1>2, AnswerKeeps DEF FilesInv, Replacing
<1>3. CASE /\ store = ops[pub.by].digest /\ UNCHANGED ops
           /\ pub' = [pub EXCEPT !.at = IF pub.staged THEN "measure" ELSE "spill"]
  <2>1. /\ pub'.by = pub.by /\ pub'.staged = pub.staged /\ pub'.data = pub.data /\ pub'.crossed = pub.crossed
        /\ pub'.at \in {"spill", "measure"}
        /\ pub' = [at |-> pub'.at, by |-> pub'.by, staged |-> pub'.staged, data |-> pub'.data, crossed |-> pub'.crossed]
    BY <1>1, <1>3, CallIs
  <2>2. Bringing'
    BY <1>1, <1>3, <2>1, CallIs DEF Bringing
  <2>3. pub' # Files!NoCall
    BY <2>1 DEF Files!NoCall
  <2> QED
    BY <1>1, <1>3, <2>1, <2>2, <2>3, GoesOnKeeps
<1> QED
  BY <1>2, <1>3 DEF Files!Compare, Files!Expects

LEMMA SpillKeeps == ASSUME FilesInv, Files!Spill PROVE FilesInv'
<1>1. UNCHANGED <<store, piece, made, replaced>> /\ pub.at = "spill" /\ pub # Files!NoCall
  BY DEF Files!Spill, Files!NoCall
<1>2. CASE Files!Answered
  BY <1>1, <1>2, AnswerKeeps DEF FilesInv, Replacing
<1>3. CASE /\ link.at = "temp" \/ temp' = pub.data
           /\ pub' = [pub EXCEPT !.at = "rename"] /\ UNCHANGED <<ops, link>>
  <2>1. /\ pub'.by = pub.by /\ pub'.staged = pub.staged /\ pub'.data = pub.data /\ pub'.crossed = pub.crossed
        /\ pub'.at = "rename"
        /\ pub' = [at |-> pub'.at, by |-> pub'.by, staged |-> pub'.staged, data |-> pub'.data, crossed |-> pub'.crossed]
    BY <1>1, <1>3, CallIs
  <2>2. ~pub.staged
    BY <1>1 DEF FilesInv, Bringing
  <2>3. Bringing'
    BY <1>1, <1>3, <2>1, <2>2, CallIs DEF Bringing
  <2>4. pub' # Files!NoCall
    BY <2>1 DEF Files!NoCall
  <2> QED
    BY <1>1, <1>3, <2>1, <2>3, <2>4, GoesOnKeeps
<1> QED
  BY <1>2, <1>3 DEF Files!Spill

LEMMA MeasureKeeps == ASSUME FilesInv, Files!Measure PROVE FilesInv'
<1>1. UNCHANGED <<store, temp, made, replaced, piece, link>> /\ pub.at = "measure" /\ pub # Files!NoCall
  BY DEF Files!Measure, Files!NoCall
<1>2. CASE Files!Answered
  BY <1>1, <1>2, AnswerKeeps DEF FilesInv, Replacing
<1>3. CASE /\ link.at = "piece" \/ piece = pub.data
           /\ pub' = [pub EXCEPT !.at = "rename"] /\ UNCHANGED ops
  <2>1. /\ pub'.by = pub.by /\ pub'.staged = pub.staged /\ pub'.data = pub.data /\ pub'.crossed = pub.crossed
        /\ pub'.at = "rename"
        /\ pub' = [at |-> pub'.at, by |-> pub'.by, staged |-> pub'.staged, data |-> pub'.data, crossed |-> pub'.crossed]
    BY <1>1, <1>3, CallIs
  <2>2. pub.staged
    BY <1>1 DEF FilesInv, Bringing
  <2>3. Bringing'
    BY <1>1, <1>3, <2>1, <2>2, CallIs DEF Bringing
  <2>4. pub' # Files!NoCall
    BY <2>1 DEF Files!NoCall
  <2> QED
    BY <1>1, <1>3, <2>1, <2>3, <2>4, GoesOnKeeps
<1> QED
  BY <1>2, <1>3 DEF Files!Measure, Files!Staged

LEMMA RenameKeeps == ASSUME FilesInv, LinkInv, Files!Rename PROVE FilesInv'
<1> PICK u \in Updaters : u = pub.by /\ pub.at = "rename"
  <2>1. pub.at = "rename" /\ pub # Files!NoCall
    BY DEF Files!Rename, Files!NoCall
  <2> QED
    BY <2>1, CallIs
<1> PICK r : r = [what |-> store, expected |-> ops[u].digest, base |-> ops[u].read, crossed |-> pub.crossed]
  OBVIOUS
<1>1. Files!Answered /\ made' = made /\ replaced' = replaced \cup {r} /\ pub # Files!NoCall
  BY DEF Files!Rename, Files!NoCall
<1>2. store' \in {pub.data, Files!Absent}
  BY <1>1, CallIs DEF Files!Rename, LinkInv
<1>3. ~pub.crossed => r.what = r.expected /\ (r.what # Files!Absent => r.base = r.what)
  <2> SUFFICES ASSUME ~pub.crossed
               PROVE  store = ops[u].digest /\ (store # Files!Absent => ops[u].read = store)
    OBVIOUS
  <2>1. store = ops[u].digest /\ ops[u].at \in {"write", "publish"}
    BY <1>1, CallIs
  <2>2. ASSUME store # Files!Absent PROVE ops[u].read = store
    <3>1. Sees(ops[u])
      BY DEF FilesInv, ReadAsSeen
    <3>2. PICK g \in 0 .. made : Seen(ops[u], g)
      BY <2>1, <2>2, <3>1 DEF Sees
    <3>3. store = Files!Gen(g) /\ Copying(ops[u], g)
      BY <2>1, <3>2 DEF Seen, Bygone
    <3>4. ops[u].read = [i \in 1 .. Whole |-> g]
      BY <2>1, <3>3 DEF Copying
    <3> QED
      BY <3>3, <3>4 DEF Files!Gen
  <2> QED
    BY <2>1, <2>2
<1>4. Replacing'
  BY <1>1, <1>3 DEF FilesInv, Replacing
<1> QED
  BY <1>1, <1>2, <1>4, AnswerKeeps

\* Somebody else's contents are new, and a publish past its comparison is crossed.
LEMMA OutsiderKeeps == ASSUME FilesInv, Files!Outsider PROVE FilesInv'
<1>1. /\ made' = made + 1 /\ store' = Files!Gen(made + 1) /\ UNCHANGED <<temp, piece, ops, replaced>>
      /\ pub' = IF pub.at \in {"spill", "measure", "rename"} THEN [pub EXCEPT !.crossed = TRUE] ELSE pub
      /\ link.at \in {"piece", "temp"} => link' = link
  BY DEF Files!Outsider
<1>2. /\ made \in Nat /\ \A w \in Updaters : OpShape(ops[w]) /\ ops[w].gen \in 0 .. made
      /\ DOMAIN ops = Updaters
  BY DEF FilesInv, InPlace, Whoever
<1>3. \A h \in 0 .. made : Files!Gen(h) # Files!Gen(made + 1)
  <2>1. \A h \in 0 .. made : h \in Nat /\ made + 1 \in Nat /\ h # made + 1
    BY <1>2
  <2> QED
    BY <2>1, Generations
<1>4. InPlace'
  <2>1. Whoever'
    <3>1. \A w \in Updaters : ops[w].gen \in 0 .. made + 1
      BY <1>2
    <3> QED
      BY <1>1, <1>2, <3>1 DEF Whoever
  <2>2. made + 1 \in Nat /\ made + 1 \in 0 .. made + 1
    BY <1>2
  <2>3. \A w \in Updaters : Files!Gen(made + 1) # Files!Gen(ops[w].gen)
    BY <1>2, <1>3
  <2> QED
    BY <1>1, <1>2, <2>1, <2>2, <2>3 DEF FilesInv, InPlace
<1>5. pub # Files!NoCall => /\ pub' # Files!NoCall /\ pub'.data = pub.data
  <2> SUFFICES ASSUME pub # Files!NoCall PROVE pub' # Files!NoCall /\ pub'.data = pub.data
    OBVIOUS
  <2>1. pub = [at |-> pub.at, by |-> pub.by, staged |-> pub.staged, data |-> pub.data, crossed |-> pub.crossed]
        /\ pub.at \in {"compare", "spill", "measure", "rename"}
    BY CallIs
  <2>2. pub'.at = pub.at /\ pub'.data = pub.data
    BY <1>1, <2>1
  <2> QED
    BY <2>1, <2>2 DEF Files!NoCall
<1>6. Bringing'
  <2>1. CASE pub = Files!NoCall
    BY <1>1, <2>1 DEF Bringing, Files!NoCall
  <2>2. CASE pub # Files!NoCall
    <3>1. pub = [at |-> pub.at, by |-> pub.by, staged |-> pub.staged, data |-> pub.data, crossed |-> pub.crossed]
          /\ pub.at \in {"compare", "spill", "measure", "rename"}
      BY <2>2, CallIs
    <3>2. /\ pub'.at = pub.at /\ pub'.by = pub.by /\ pub'.staged = pub.staged /\ pub'.data = pub.data
          /\ (pub.at \in {"spill", "measure", "rename"} => pub'.crossed) /\ pub'.crossed \in BOOLEAN
          /\ pub' = [at |-> pub'.at, by |-> pub'.by, staged |-> pub'.staged, data |-> pub'.data, crossed |-> pub'.crossed]
      BY <1>1, <2>2, <3>1, CallIs
    <3>3. PICK g \in 1 .. made :
            /\ pub.data = Files!Gen(g)
            /\ \A u \in Updaters \ {pub.by} : ops[u].at # "done" => ops[u].gen # g
            /\ ops[pub.by].gen \in {0, g}
      BY <2>2, CallIs
    <3>4. g \in 1 .. made' /\ store' # Files!Gen(g)
      <4>1. g \in 0 .. made /\ g \in 1 .. made + 1
        BY <1>2
      <4> QED
        BY <1>1, <1>3, <4>1
    <3>5. /\ pub.by \in Updaters /\ ops[pub.by].at \in {"write", "publish"} /\ pub.staged \in BOOLEAN
          /\ pub.at = "spill" => ~pub.staged
          /\ pub.at = "measure" => pub.staged
          /\ pub.at = "rename" => IF pub.staged THEN link.at = "piece" \/ piece = pub.data
                                                ELSE link.at = "temp" \/ temp = pub.data
      BY <2>2, CallIs
    <3> QED
      BY <1>1, <3>1, <3>2, <3>3, <3>4, <3>5 DEF Bringing
  <2> QED
    BY <2>1, <2>2
<1>7. ASSUME NEW h \in 0 .. made, \/ Bygone(h)
                                  \/ store = Files!Gen(h)
      PROVE  Bygone(h)'
  <2>1. store' # Files!Gen(h)
    BY <1>1, <1>3
  <2>2. \A w \in Updaters : ops'[w].at # "done" /\ ops'[w].gen # 0 => ops'[w].gen # h
    BY <1>1, <1>7 DEF FilesInv, InPlace, Bygone
  <2>3. pub' # Files!NoCall => pub'.data # Files!Gen(h)
    <3>1. pub # Files!NoCall => pub.data # Files!Gen(h)
      BY <1>7, CallIs DEF Bygone
    <3>2. pub = Files!NoCall => pub' = Files!NoCall
      BY <1>1 DEF Files!NoCall
    <3> QED
      BY <1>5, <3>1, <3>2
  <2> QED
    BY <2>1, <2>2, <2>3 DEF Bygone
<1>8. ReadAsSeen'
  <2> SUFFICES ASSUME NEW w \in Updaters, ops[w].at \in {"read", "write", "publish"}, ops[w].digest # Files!Absent
               PROVE  \E h \in 0 .. made' : Seen(ops[w], h)'
    BY <1>1 DEF ReadAsSeen, Sees, Seen, Copying
  <2>1. PICK h \in 0 .. made : Seen(ops[w], h)
    BY DEF FilesInv, ReadAsSeen, Sees
  <2>2. Seen(ops[w], h)'
    BY <1>1, <1>7, <2>1 DEF Seen
  <2>3. h \in 0 .. made'
    BY <1>1, <1>2
  <2> QED
    BY <2>2, <2>3
<1> QED
  BY <1>1, <1>4, <1>6, <1>8 DEF FilesInv, Replacing

LEMMA PlantKeeps == ASSUME FilesInv, Files!Plant PROVE FilesInv'
<1>1. UNCHANGED <<store, ops, pub, made, replaced>> /\ link.at = "none"
      /\ \/ link'.at = "temp" /\ UNCHANGED piece
         \/ link'.at = "piece" /\ UNCHANGED temp
  BY DEF Files!Plant, Files!NoLink
<1>2. Bringing'
  <2>1. CASE pub = Files!NoCall
    BY <1>1, <2>1 DEF Bringing
  <2>2. CASE pub # Files!NoCall
    <3>1. pub.at = "rename" => IF pub.staged THEN link'.at = "piece" \/ piece' = pub.data
                                            ELSE link'.at = "temp" \/ temp' = pub.data
      BY <1>1, <2>2, CallIs
    <3> QED
      BY <1>1, <2>2, <3>1, CallIs DEF Bringing
  <2> QED
    BY <2>1, <2>2
<1>3. CASE pub = Files!NoCall
  <2>1. InPlace'
    BY <1>1 DEF FilesInv, InPlace, Whoever
  <2>2. ReadAsSeen'
    BY <1>1 DEF FilesInv, ReadAsSeen, Sees, Seen, Copying, Bygone
  <2> QED
    BY <1>1, <1>2, <2>1, <2>2 DEF FilesInv, Replacing
<1>4. CASE pub # Files!NoCall
  BY <1>1, <1>2, <1>4, GoesOnKeeps
<1> QED
  BY <1>3, <1>4

\* The link is moved by a rename, and is gone with the file that takes its name or with a
\* write that failed; only a plugin's own folder lets a staged link through.
LEMMA LinkKeeps == ASSUME FilesInv, LinkInv, Files!FilesNext PROVE LinkInv'
<1>1. CASE \E u \in Updaters : Files!Refuse(u) \/ Files!Digest(u) \/ Files!Read(u)
  <2>1. UNCHANGED <<store, temp, piece, pub, root, link, beyond>>
    BY <1>1 DEF Files!Refuse, Files!Digest, Files!Read
  <2> QED
    BY <2>1 DEF LinkInv
<1>2. CASE \E u \in Updaters : Files!Write(u) \/ Files!Delete(u)
  <2>1. UNCHANGED <<store, temp, pub, root, link, beyond>> /\ (link.at = "piece" => piece' = Files!Absent)
    BY <1>2 DEF Files!Write, Files!Delete
  <2> QED
    BY <2>1 DEF LinkInv
<1>3. CASE \E u \in Updaters : Files!Publish(u)
  <2>1. UNCHANGED <<store, temp, piece, root, link, beyond>> /\ pub'.at = "compare"
    BY <1>3 DEF Files!Publish
  <2> QED
    BY <2>1 DEF LinkInv
<1>4. CASE Files!Compare
  <2>1. UNCHANGED <<store, temp, piece, root, link, beyond>> /\ pub.at = "compare" /\ pub # Files!NoCall
    BY <1>4 DEF Files!Compare, Files!NoCall
  <2>2. pub'.at # "rename"
    BY <1>4, <2>1, CallIs DEF Files!Compare, Files!Answered, Files!NoCall
  <2> QED
    BY <2>1, <2>2 DEF LinkInv
<1>5. CASE Files!Spill
  <2>1. UNCHANGED <<store, piece, root>> /\ pub.at = "spill" /\ pub # Files!NoCall
    BY <1>5 DEF Files!Spill, Files!NoCall
  <2>2. pub'.at = "rename" => ~pub'.staged
    BY <1>5, <2>1, CallIs DEF Files!Spill, Files!Answered, Files!NoCall
  <2>3. \/ UNCHANGED link /\ (IF link.at = "temp" THEN UNCHANGED temp ELSE UNCHANGED beyond)
        \/ link.at = "temp" /\ link' = [link EXCEPT !.at = "gone"] /\ temp' = Files!Absent
    BY <1>5 DEF Files!Spill
  <2> QED
    BY <2>1, <2>2, <2>3 DEF LinkInv
<1>6. CASE Files!Measure
  <2>1. UNCHANGED <<store, temp, piece, root, link, beyond>> /\ pub.at = "measure" /\ pub # Files!NoCall
    BY <1>6 DEF Files!Measure, Files!NoCall
  <2>2. pub.data # Files!Absent
    <3>1. PICK g \in 1 .. made : pub.data = Files!Gen(g)
      BY <2>1, CallIs
    <3>2. g \in Nat
      BY DEF FilesInv, InPlace
    <3> QED
      BY <3>1, <3>2, Generations
  <2>3. link.at = "piece" /\ pub'.at = "rename" => root = "private"
    BY <1>6, <2>2 DEF Files!Measure, Files!Staged, Files!Answered, Files!NoCall
  <2> QED
    BY <2>1, <2>3 DEF LinkInv
<1>7. CASE Files!Rename
  <2> DEFINE n == IF pub.staged THEN "piece" ELSE "temp"
  <2>1. /\ UNCHANGED <<root, beyond>> /\ pub.at = "rename" /\ pub' = Files!NoCall
        /\ IF pub.staged THEN piece' = Files!Absent /\ UNCHANGED temp
                         ELSE temp' = Files!Absent /\ UNCHANGED piece
        /\ link' = IF link.at = n THEN [link EXCEPT !.at = "target"] ELSE link
    BY <1>7 DEF Files!Rename, Files!Answered
  <2>2. pub'.at # "rename"
    BY <2>1 DEF Files!NoCall
  <2>3. CASE link' = link
    BY <2>1, <2>2, <2>3 DEF LinkInv
  <2>4. CASE link.at = n /\ link' = [link EXCEPT !.at = "target"]
    <3>1. /\ link'.at = "target" /\ link'.how = link.how /\ link'.was = link.was
          /\ link' = [at |-> link'.at, how |-> link'.how, was |-> link'.was]
      BY <2>4 DEF LinkInv
    <3>2. link.how = "piece" => root = "private"
      BY <2>1, <2>4 DEF LinkInv
    <3> QED
      BY <2>1, <2>2, <3>1, <3>2 DEF LinkInv
  <2> HIDE DEF n
  <2> QED
    BY <2>1, <2>3, <2>4
<1>8. CASE Files!Outsider
  <2>1. /\ UNCHANGED <<temp, piece, root, beyond>>
        /\ link' = IF link.at = "target" THEN [link EXCEPT !.at = "gone"] ELSE link
        /\ pub' = IF pub.at \in {"spill", "measure", "rename"} THEN [pub EXCEPT !.crossed = TRUE] ELSE pub
    BY <1>8 DEF Files!Outsider
  <2>2. pub'.at = "rename" => pub.at = "rename" /\ pub'.staged = pub.staged
    <3>1. CASE pub = Files!NoCall
      BY <2>1, <3>1 DEF Files!NoCall
    <3>2. CASE pub # Files!NoCall
      BY <2>1, <3>2, CallIs
    <3> QED
      BY <3>1, <3>2
  <2> QED
    BY <2>1, <2>2 DEF LinkInv
<1>9. CASE Files!Plant
  <2>1. UNCHANGED <<store, pub, root>>
    BY <1>9 DEF Files!Plant
  <2>2. CASE temp' = Files!Absent /\ link' = [at |-> "temp", how |-> "temp", was |-> beyond]
    BY <2>1, <2>2 DEF LinkInv
  <2>3. CASE /\ piece' = Files!Absent /\ beyond' = piece
             /\ \E how \in {"piece", "swapped"} :
                  /\ (how = "swapped") <=> (pub.at = "rename" /\ pub.staged)
                  /\ link' = [at |-> "piece", how |-> how, was |-> piece]
    BY <2>1, <2>3 DEF LinkInv
  <2> QED
    BY <1>9, <2>2, <2>3 DEF Files!Plant
<1> QED
  BY <1>1, <1>2, <1>3, <1>4, <1>5, <1>6, <1>7, <1>8, <1>9 DEF Files!FilesNext

LEMMA FilesSteps == FilesInv /\ LinkInv /\ [Files!FilesNext]_(Files!fileVars) => (FilesInv /\ LinkInv)'
<1> SUFFICES ASSUME FilesInv, LinkInv, [Files!FilesNext]_(Files!fileVars) PROVE (FilesInv /\ LinkInv)'
  OBVIOUS
<1>1. CASE UNCHANGED Files!fileVars
  <2>1. UNCHANGED <<store, temp, piece, ops, pub, made, replaced, root, link, beyond>>
    BY <1>1 DEF Files!fileVars
  <2> QED
    BY <2>1 DEF LinkInv, FilesInv, InPlace, Whoever, Bringing, ReadAsSeen, Sees, Seen, Copying, Bygone, Replacing
<1>2. CASE Files!FilesNext
  <2>1. FilesInv'
    BY <1>2, RefuseKeeps, DigestKeeps, ReadKeeps, WriteKeeps, DeleteKeeps, FilePublishKeeps, CompareKeeps,
       SpillKeeps, MeasureKeeps, RenameKeeps, OutsiderKeeps, PlantKeeps DEF Files!FilesNext
  <2>2. LinkInv'
    BY <1>2, LinkKeeps
  <2> QED
    BY <2>1, <2>2
<1> QED
  BY <1>1, <1>2

\* No update that named the digest it expects is lost, and nothing partial has the name, unless
\* a writer of the folder comes between the comparison and the rename (fs.publish of
\* cmd/aiisdk/harness.go, FilesClient.Publish of pkg/aiiosdk/files.go); whatever path a call
\* names, of any of these names, it acts below its folder and on no symlink, and the name a
\* publish takes its file from does not go up (sandboxRel, cleanRel and noSymlinkOnPath of
\* harness.go); a publish leads out only by a link at its .publish-tmp or at its staged file.
THEOREM FilesStaySafe == Spec => []FilesHold
<1> DEFINE Here == part = "files" => FilesInv /\ LinkInv /\ \E n \in Nat : v9 \in [1 .. n -> Files!Names]
<1>1. Init => Here
  <2> SUFFICES ASSUME Init, part = "files" PROVE FilesInv /\ LinkInv /\ \E n \in Nat : v9 \in [1 .. n -> Files!Names]
    OBVIOUS
  <2>1. Files!FilesInit
    BY DEF Init
  <2>2. v9 \in UNION {[1 .. n -> Files!Names] : n \in 0 .. 3}
    BY <2>1 DEF Files!FilesInit
  <2>3. PICK n \in 0 .. 3 : v9 \in [1 .. n -> Files!Names]
    BY <2>2
  <2>4. n \in Nat
    OBVIOUS
  <2>5. LinkInv
    BY <2>1 DEF Files!FilesInit, Files!NoLink, Files!NoCall, LinkInv
  <2> QED
    BY <2>1, <2>3, <2>4, <2>5, FilesStart
<1>2. Here /\ [Next]_vars => Here'
  <2> SUFFICES ASSUME Here, [Next]_vars, part' = "files"
               PROVE  (FilesInv /\ LinkInv /\ \E n \in Nat : v9 \in [1 .. n -> Files!Names])'
    OBVIOUS
  <2>1. part = "files" /\ [Files!FilesNext]_(Files!fileVars)
    BY DEF Next, vars, Files!fileVars
  <2>2. v9' = v9
    BY <2>1 DEF Files!fileVars, Files!FilesNext, Files!Digest, Files!Read, Files!Write, Files!Delete,
       Files!Publish, Files!Compare, Files!Spill, Files!Measure, Files!Rename, Files!Outsider,
       Files!Plant, Files!Refuse
  <2> QED
    BY <2>1, <2>2, FilesSteps
<1>3. Here => FilesHold
  <2> SUFFICES ASSUME FilesInv, LinkInv, NEW n \in Nat, v9 \in [1 .. n -> Files!Names]
               PROVE  Files!NoUpdateIsLost /\ Files!StaysInside /\ Files!OutOnlyByLinks
    BY DEF FilesHold
  <2>1. Files!NoUpdateIsLost
    BY DEF FilesInv, InPlace, Replacing, Files!NoUpdateIsLost
  <2>2. Files!StaysInside
    BY InsideOf DEF Files!StaysInside
  <2>3. Files!OutOnlyByLinks
    BY DEF LinkInv, Files!OutOnlyByLinks
  <2> QED
    BY <2>1, <2>2, <2>3
<1> QED
  BY <1>1, <1>2, <1>3, PTL DEF Spec

----------------------------------------------------------------------------
(* The stand-in host's memories, by the names of HostMemory.               *)

memories == v1
clock == v2
bygone == v3
USE DEF memories, clock, bygone

Remembered == [text : Memory!Texts, by : Nat, made : Nat]

MemInv ==
    /\ memories \in Seq(Remembered) /\ clock \in Nat
    /\ \A p \in bygone : /\ p = <<p[1], p[2]>>
                         /\ p[1] \in 1 .. Len(memories) /\ p[2] \in 1 .. Len(memories)
                         /\ memories[p[1]].by = p[2]
    /\ \A p, r \in bygone : p[2] = r[2] => p = r

LEMMA MemStarts == Memory!MemInit => MemInv
<1> SUFFICES ASSUME Memory!MemInit PROVE MemInv
  OBVIOUS
<1>1. memories = <<>> /\ clock = 1 /\ bygone = {}
  BY DEF Memory!MemInit
<1> QED
  BY <1>1, EmptySeq DEF MemInv

LEMMA MemSteps == MemInv /\ [Memory!MemNext]_(Memory!memVars) => MemInv'
<1> SUFFICES ASSUME MemInv, [Memory!MemNext]_(Memory!memVars) PROVE MemInv'
  OBVIOUS
<1> DEFINE n == Len(memories)
<1>1. /\ memories \in Seq(Remembered) /\ clock \in Nat /\ n \in Nat
      /\ \A p \in bygone : /\ p = <<p[1], p[2]>> /\ p[1] \in 1 .. n /\ p[2] \in 1 .. n
                           /\ memories[p[1]].by = p[2]
      /\ \A p, r \in bygone : p[2] = r[2] => p = r
  BY LenProperties DEF MemInv
<1>2. DOMAIN memories = 1 .. n /\ \A m \in 1 .. n : memories[m] \in Remembered
  BY <1>1, LenProperties, ElementOfSeq
<1>3. CASE \E text \in Memory!Texts : Memory!Remember(text)
  <2>1. PICK text \in Memory!Texts :
          memories' = Append(memories, [text |-> text, by |-> 0, made |-> clock]) /\ bygone' = bygone
          /\ clock' \in {clock, clock + 1}
    BY <1>3 DEF Memory!Remember, Memory!New, Memory!Tick
  <2>2. [text |-> text, by |-> 0, made |-> clock] \in Remembered
    BY <1>1 DEF Remembered
  <2>3. /\ memories' \in Seq(Remembered) /\ Len(memories') = n + 1
        /\ \A m \in 1 .. n : memories'[m] = memories[m]
    BY <1>1, <2>1, <2>2, AppendProperties
  <2> QED
    BY <1>1, <2>1, <2>3 DEF MemInv
<1>4. CASE \E text \in Memory!Texts : \E m \in Memory!Ids : Memory!Supersede(m, text)
  <2>1. PICK text \in Memory!Texts, m \in 1 .. n : Memory!Supersede(m, text)
    BY <1>2, <1>4 DEF Memory!Ids
  <2> DEFINE r == [memories[m] EXCEPT !.by = n + 1]
             marked == [memories EXCEPT ![m] = r]
             new == [text |-> text, by |-> 0, made |-> clock]
  <2>2. /\ memories[m].by = 0
        /\ memories' = Append([memories EXCEPT ![m].by = n + 1], new)
        /\ bygone' = bygone \cup {<<m, n + 1>>}
        /\ clock' \in {clock, clock + 1}
    BY <2>1 DEF Memory!Supersede, Memory!Replaceable, Memory!Current, Memory!New, Memory!Tick
  <2>3. memories' = Append(marked, new)
    BY <2>2
  <2>4. r \in Remembered /\ new \in Remembered /\ r.by = n + 1
    BY <1>1, <1>2 DEF Remembered
  <2> HIDE DEF r, new
  <2>5. marked \in Seq(Remembered) /\ Len(marked) = n
        /\ \A k \in 1 .. n : marked[k] = IF k = m THEN r ELSE memories[k]
    BY <1>1, <1>2, <2>4, ExceptSeq
  <2> HIDE DEF marked
  <2>6. /\ memories' \in Seq(Remembered) /\ Len(memories') = n + 1
        /\ \A k \in 1 .. n : memories'[k] = marked[k]
    BY <2>3, <2>4, <2>5, AppendProperties
  <2>7. \A p \in bygone : p[1] # m
    BY <1>1, <2>2
  <2>8. ASSUME NEW p \in bygone'
        PROVE  /\ p = <<p[1], p[2]>> /\ p[1] \in 1 .. n + 1 /\ p[2] \in 1 .. n + 1
               /\ memories'[p[1]].by = p[2]
    <3>1. CASE p \in bygone
      BY <1>1, <2>5, <2>6, <2>7, <3>1
    <3>2. CASE p = <<m, n + 1>>
      BY <1>1, <2>4, <2>5, <2>6, <3>2
    <3> QED
      BY <2>2, <3>1, <3>2
  <2>9. \A p, q \in bygone' : p[2] = q[2] => p = q
    BY <1>1, <2>2
  <2>10. clock' \in Nat
    BY <1>1, <2>2
  <2> QED
    BY <2>6, <2>8, <2>9, <2>10 DEF MemInv
<1>5. CASE UNCHANGED Memory!memVars
  BY <1>5 DEF Memory!memVars, MemInv
<1> QED
  BY <1>3, <1>4, <1>5 DEF Memory!MemNext

LEMMA MemKeeps == MemInv => Memory!MemoryIsKept
<1> SUFFICES ASSUME MemInv PROVE Memory!MemoryIsKept
  OBVIOUS
<1>1. \A p, r \in bygone : p[1] = r[1] => p = r
  <2> SUFFICES ASSUME NEW p \in bygone, NEW r \in bygone, p[1] = r[1] PROVE p = r
    OBVIOUS
  <2>1. p = <<p[1], p[2]>> /\ r = <<r[1], r[2]>> /\ memories[p[1]].by = p[2] /\ memories[r[1]].by = r[2]
    BY DEF MemInv
  <2>2. p[2] = r[2]
    BY <2>1
  <2> QED
    BY <2>1, <2>2
<1>2. ASSUME NEW m PROVE Memory!Cardinality({p \in bygone : p[2] = m}) <= 1
  <2> DEFINE S == {p \in bygone : p[2] = m}
  <2>1. Memory!Cardinality(S) = Cardinality(S)
    BY DEF Memory!Cardinality, Cardinality
  <2>2. \A p, r \in S : p = r
    BY DEF MemInv
  <2>3. S = {} \/ \E p : S = {p}
    BY <2>2
  <2>4. Cardinality(S) \in {0, 1}
    <3> HIDE DEF S
    <3> QED
      BY <2>3, FS_EmptySet, FS_Singleton
  <2> QED
    BY <2>1, <2>4
<1>3. \A p \in bygone : memories[p[1]].by = p[2]
  BY DEF MemInv
<1> QED
  BY <1>1, <1>2, <1>3 DEF Memory!MemoryIsKept

\* A finite set with a strict order that compares any two of it has an enumeration in that
\* order: what a sort of the code returns, harness.answerRecall's of its hits.
LEMMA AnOrderSorts ==
    ASSUME NEW S, IsFiniteSet(S), NEW R,
           \A x \in S : <<x, x>> \notin R,
           \A x, y, z \in S : <<x, y>> \in R /\ <<y, z>> \in R => <<x, z>> \in R,
           \A x, y \in S : x = y \/ <<x, y>> \in R \/ <<y, x>> \in R
    PROVE  \E f \in [1 .. Cardinality(S) -> S] :
             /\ \A i, j \in 1 .. Cardinality(S) : i # j => f[i] # f[j]
             /\ \A i, j \in 1 .. Cardinality(S) : i < j => <<f[i], f[j]>> \in R
<1> DEFINE n == Cardinality(S)
           N == 1 .. n
           below(x) == {y \in S : <<y, x>> \in R}
           rank == [x \in S |-> Cardinality(below(x)) + 1]
<1>1. IsFiniteSet(S) /\ Cardinality(S) = n /\ n \in Nat
  BY FS_CardinalityType
<1> HIDE DEF n
<1>0. IsFiniteSet(N) /\ Cardinality(N) = n
  BY <1>1, FS_Interval
<1>2. \A x \in S : IsFiniteSet(below(x)) /\ Cardinality(below(x)) \in 0 .. n - 1
  <2> SUFFICES ASSUME NEW x \in S PROVE IsFiniteSet(below(x)) /\ Cardinality(below(x)) \in 0 .. n - 1
    OBVIOUS
  <2>1. below(x) \in SUBSET S /\ x \notin below(x)
    OBVIOUS
  <2> HIDE DEF below
  <2>2. IsFiniteSet(below(x)) /\ Cardinality(below(x)) <= n /\ (Cardinality(S) = Cardinality(below(x)) => S = below(x))
    BY <1>1, <2>1, FS_Subset
  <2>3. Cardinality(below(x)) \in Nat
    BY <2>2, FS_CardinalityType
  <2>4. Cardinality(below(x)) # n
    BY <1>1, <2>1, <2>2
  <2> QED
    BY <1>1, <2>2, <2>3, <2>4
<1>3. \A x, y \in S : <<x, y>> \in R => Cardinality(below(x)) < Cardinality(below(y))
  <2> SUFFICES ASSUME NEW x \in S, NEW y \in S, <<x, y>> \in R
               PROVE  Cardinality(below(x)) < Cardinality(below(y))
    OBVIOUS
  <2>1. below(x) \in SUBSET below(y) /\ x \in below(y) /\ x \notin below(x)
    OBVIOUS
  <2>2. /\ Cardinality(below(x)) <= Cardinality(below(y))
        /\ Cardinality(below(y)) = Cardinality(below(x)) => below(y) = below(x)
    <3> HIDE DEF below
    <3> QED
      BY <1>2, <2>1, FS_Subset
  <2>3. Cardinality(below(x)) # Cardinality(below(y))
    BY <2>1, <2>2
  <2> HIDE DEF below
  <2>4. Cardinality(below(x)) \in Int /\ Cardinality(below(y)) \in Int
    BY <1>2
  <2> QED
    BY <2>2, <2>3, <2>4
<1> HIDE DEF below
<1>4. rank \in [S -> N] /\ \A x \in S : rank[x] = Cardinality(below(x)) + 1
  <2>1. \A x \in S : Cardinality(below(x)) + 1 \in N
    BY <1>1, <1>2
  <2> QED
    BY <2>1
<1> HIDE DEF rank
<1>5. \A x, y \in S : <<x, y>> \in R => rank[x] < rank[y]
  BY <1>2, <1>3, <1>4
<1>6. \A x, y \in S : rank[x] = rank[y] => x = y
  <2> SUFFICES ASSUME NEW x \in S, NEW y \in S, rank[x] = rank[y], x # y PROVE FALSE
    OBVIOUS
  <2>1. <<x, y>> \in R \/ <<y, x>> \in R
    OBVIOUS
  <2>2. rank[x] \in Int /\ rank[y] \in Int
    BY <1>4
  <2> QED
    BY <1>5, <2>1, <2>2
<1>7. rank \in Injection(S, N)
  BY <1>4, <1>6 DEF Injection, IsInjective
<1>8. rank \in Surjection(S, N)
  BY <1>0, <1>1, <1>7, FS_Injection
<1>9. \A i \in N : \E x \in S : rank[x] = i
  BY <1>8 DEF Surjection
<1> DEFINE f == [i \in N |-> CHOOSE x \in S : rank[x] = i]
<1>10. \A i \in N : f[i] \in S /\ rank[f[i]] = i
  BY <1>9
<1>11. f \in [N -> S]
  BY <1>10
<1> HIDE DEF f
<1>12. \A i, j \in N : i # j => f[i] # f[j]
  BY <1>10
<1>13. \A i, j \in N : i < j => <<f[i], f[j]>> \in R
  <2> SUFFICES ASSUME NEW i \in N, NEW j \in N, i < j PROVE <<f[i], f[j]>> \in R
    OBVIOUS
  <2>1. f[i] \in S /\ f[j] \in S /\ rank[f[i]] = i /\ rank[f[j]] = j
    BY <1>10
  <2>2. <<f[j], f[i]>> \notin R
    BY <1>5, <2>1
  <2>3. f[i] # f[j]
    BY <2>1
  <2> QED
    BY <2>1, <2>2, <2>3
<1> QED
  BY <1>1, <1>11, <1>12, <1>13

LEMMA ScoreIsNat ==
    ASSUME NEW kind \in {"recent", "exact", "words"}, NEW q, NEW text
    PROVE  Memory!Score(kind, q, text) \in Nat
BY DEF Memory!Score

LEMMA MemRanks == MemInv => Memory!RecallIsRanked
<1> SUFFICES ASSUME MemInv, NEW kind \in {"recent", "exact", "words"}, NEW q \in Memory!Texts,
                    NEW since \in 1 .. clock,
                    NEW i \in DOMAIN Memory!Shown(kind, q, since),
                    NEW m \in Memory!Found(kind, q, since)
                              \ Memory!ToSet(SubSeq(Memory!Shown(kind, q, since), 1, i))
             PROVE  LET best == Memory!Shown(kind, q, since)[i]
                        score(k) == Memory!Score(kind, q, memories[k].text) IN
                    \/ score(best) > score(m)
                    \/ score(best) = score(m) /\ memories[best].made >= memories[m].made
  BY DEF Memory!RecallIsRanked
<1> DEFINE S == Memory!Found(kind, q, since)
           C == Cardinality(S)
           hit == Memory!Shown(kind, q, since)
           score(k) == Memory!Score(kind, q, memories[k].text)
           R == {p \in S \X S : Memory!Before(kind, q, p[1], p[2])}
<1>1. S \subseteq 1 .. Len(memories) /\ Len(memories) \in Nat
  BY LenProperties DEF Memory!Found, Memory!Ids, MemInv
<1>2. IsFiniteSet(S) /\ C \in Nat
  <2> HIDE DEF S
  <2>1. IsFiniteSet(1 .. Len(memories)) /\ S \in SUBSET (1 .. Len(memories))
    BY <1>1, FS_Interval
  <2>2. IsFiniteSet(S)
    BY <2>1, FS_Subset
  <2> QED
    BY <2>2, FS_CardinalityType
<1>3. \A k \in S : k \in Int /\ score(k) \in Int /\ memories[k].made \in Int
  <2>1. \A k \in S : score(k) \in Nat
    BY ScoreIsNat
  <2>2. \A k \in S : memories[k].made \in Nat
    <3>1. memories \in Seq(Remembered)
      BY DEF MemInv
    <3>2. \A k \in S : memories[k] \in Remembered
      BY <1>1, <3>1, ElementOfSeq
    <3> QED
      BY <3>2 DEF Remembered
  <2> QED
    BY <1>1, <2>1, <2>2
<1>4. \A a, b \in S : <<a, b>> \in R <=>
         \/ score(a) > score(b)
         \/ score(a) = score(b) /\ memories[a].made > memories[b].made
         \/ score(a) = score(b) /\ memories[a].made = memories[b].made /\ a < b
  BY DEF Memory!Before
<1> HIDE DEF S, R, score
<1>5. \E f \in [1 .. C -> S] : /\ \A a, b \in 1 .. C : a # b => f[a] # f[b]
                               /\ \A a, b \in 1 .. C : a < b => <<f[a], f[b]>> \in R
  <2>1. \A x \in S : <<x, x>> \notin R
    BY <1>3, <1>4
  <2>2. \A x, y, z \in S : <<x, y>> \in R /\ <<y, z>> \in R => <<x, z>> \in R
    BY <1>3, <1>4
  <2>3. ASSUME NEW x \in S, NEW y \in S PROVE x = y \/ <<x, y>> \in R \/ <<y, x>> \in R
    <3>1. /\ x \in Int /\ score(x) \in Int /\ memories[x].made \in Int
          /\ y \in Int /\ score(y) \in Int /\ memories[y].made \in Int
      BY <1>3
    <3>2. \/ score(x) > score(y) \/ score(y) > score(x)
          \/ score(x) = score(y) /\ memories[x].made > memories[y].made
          \/ score(x) = score(y) /\ memories[y].made > memories[x].made
          \/ score(x) = score(y) /\ memories[x].made = memories[y].made /\ (x < y \/ y < x \/ x = y)
      BY <3>1
    <3> QED
      BY <1>4, <3>2
  <2> QED
    BY <1>2, <2>1, <2>2, <2>3, AnOrderSorts
<1> DEFINE f == Memory!Ranked(kind, q, since)
<1>6. Memory!Cardinality(S) = C
  BY DEF Memory!Cardinality, Cardinality
<1>7. Memory!SetToSeqs(S) = {g \in [1 .. C -> S] : \A a, b \in 1 .. C : a # b => g[a] # g[b]}
  BY <1>6 DEF Memory!SetToSeqs
<1>8. f = CHOOSE g \in Memory!SetToSeqs(S) : \A a, b \in DOMAIN g : a < b => Memory!Before(kind, q, g[a], g[b])
  BY DEF Memory!Ranked, S
<1>9. \E g \in Memory!SetToSeqs(S) : \A a, b \in DOMAIN g : a < b => Memory!Before(kind, q, g[a], g[b])
  BY <1>5, <1>7 DEF R
<1>10. f \in Memory!SetToSeqs(S) /\ \A a, b \in DOMAIN f : a < b => Memory!Before(kind, q, f[a], f[b])
  <2> HIDE DEF f
  <2> QED
    BY <1>8, <1>9
<1> HIDE DEF f
<1>11. /\ f \in [1 .. C -> S] /\ \A a, b \in 1 .. C : a # b => f[a] # f[b]
       /\ \A a, b \in 1 .. C : a < b => <<f[a], f[b]>> \in R
  BY <1>7, <1>10 DEF R
<1>12. f \in Seq(S) /\ Len(f) = C
  BY <1>2, <1>11, SeqDef, LenProperties
\* The enumeration has them all.
<1>13. \A k \in S : \E a \in 1 .. C : f[a] = k
  <2>1. f \in Injection(1 .. C, S)
    BY <1>11 DEF Injection, IsInjective
  <2>2. Cardinality(1 .. C) = C
    BY <1>2, FS_Interval
  <2>3. f \in Surjection(1 .. C, S)
    BY <1>2, <2>1, <2>2, FS_Injection
  <2> QED
    BY <2>3 DEF Surjection
<1> DEFINE shown == IF Len(f) < Limit THEN Len(f) ELSE Limit
<1>14. hit = SubSeq(f, 1, shown)
  BY DEF Memory!Shown, f
<1>15. shown \in 0 .. C
  BY <1>2, <1>12, EnginesAssumption DEF EnginesAssumption
<1> HIDE DEF shown
<1>16. hit \in Seq(S) /\ Len(hit) = shown /\ \A a \in 1 .. shown : hit[a] = f[a]
  BY <1>2, <1>12, <1>14, <1>15, SubSeqProperties
<1>17. i \in 1 .. shown
  BY <1>16, LenProperties
<1>18. \A a \in 1 .. i : f[a] \in Memory!ToSet(SubSeq(hit, 1, i))
  <2>1. Len(SubSeq(hit, 1, i)) = i /\ SubSeq(hit, 1, i) \in Seq(S) /\ \A a \in 1 .. i : SubSeq(hit, 1, i)[a] = hit[a]
    BY <1>15, <1>16, <1>17, SubSeqProperties
  <2>2. DOMAIN SubSeq(hit, 1, i) = 1 .. i
    BY <2>1, LenProperties
  <2>3. \A a \in 1 .. i : SubSeq(hit, 1, i)[a] = f[a]
    BY <1>2, <1>15, <1>16, <1>17, <2>1
  <2> HIDE DEF hit
  <2> QED
    BY <2>2, <2>3, Zenon DEF Memory!ToSet
<1>19. PICK a \in 1 .. C : f[a] = m
  BY <1>13 DEF S
<1>20. i < a
  BY <1>2, <1>15, <1>17, <1>18, <1>19
<1>21. <<f[i], m>> \in R /\ f[i] \in S /\ m \in S /\ hit[i] = f[i]
  BY <1>2, <1>11, <1>15, <1>16, <1>17, <1>19, <1>20
<1>22. \/ score(f[i]) > score(m)
       \/ score(f[i]) = score(m) /\ memories[f[i]].made >= memories[m].made
  BY <1>3, <1>4, <1>21
<1> QED
  BY <1>21, <1>22 DEF score

----------------------------------------------------------------------------
(* Streamed responses, by the names of HostStreams.                        *)

table == v1
opened == v2
handle == v3
bodies == v4
dropped == v5
USE DEF table, opened, handle, bodies, dropped

HandleShape ==
    /\ handle = [id |-> handle.id, got |-> handle.got, done |-> handle.done, end |-> handle.end,
                 limit |-> handle.limit]
    /\ handle.got \in Nat /\ handle.limit \in Nat
    /\ IF handle.end = "open" THEN handle.done = FALSE ELSE handle.done = TRUE

\* The stream a handle in use reads: what it brought and what is left make the body.
Reading ==
    handle.end = "open" =>
        /\ handle.id \in 1 .. opened /\ handle.id \notin dropped
        /\ table[handle.id].left \in Nat
        /\ table[handle.id].total = handle.got /\ handle.got <= MaxBody
        /\ bodies[handle.id] = handle.got + table[handle.id].left

\* The host's table is of the handle in use and of the ones that were dropped.
TableIsOpen ==
    /\ handle.end = "whole" => handle.got = bodies[handle.id] /\ handle.got <= MaxBody
    /\ DOMAIN table = dropped \cup (IF handle.end = "open" THEN {handle.id} ELSE {})

StreamsInv ==
    /\ opened \in Nat /\ dropped \subseteq 1 .. opened
    /\ HandleShape /\ Reading
    /\ TableIsOpen

LEMMA StreamsStart == Streams!StreamsInit => StreamsInv
<1> SUFFICES ASSUME Streams!StreamsInit PROVE StreamsInv
  OBVIOUS
<1>1. handle = [id |-> 0, got |-> 0, done |-> TRUE, end |-> "none", limit |-> 0]
      /\ table = <<>> /\ dropped = {} /\ opened = 0
  BY DEF Streams!StreamsInit, Streams!NoHandle
<1>2. HandleShape /\ Reading
  BY <1>1 DEF HandleShape, Reading
<1>3. TableIsOpen
  BY <1>1 DEF TableIsOpen
<1> QED
  BY <1>1, <1>2, <1>3 DEF StreamsInv

LEMMA StreamsStep == StreamsInv /\ [Streams!StreamsNext]_(Streams!streamVars) => StreamsInv'
<1> SUFFICES ASSUME StreamsInv, [Streams!StreamsNext]_(Streams!streamVars) PROVE StreamsInv'
  OBVIOUS
<1> USE EnginesAssumption DEF EnginesAssumption
<1>1. /\ opened \in Nat /\ dropped \subseteq 1 .. opened /\ HandleShape
      /\ DOMAIN table = dropped \cup (IF handle.end = "open" THEN {handle.id} ELSE {})
      /\ handle.end = "whole" => handle.got = bodies[handle.id] /\ handle.got <= MaxBody
  BY DEF StreamsInv, TableIsOpen
<1>2. handle.end = "open" =>
        /\ handle.id \in 1 .. opened /\ handle.id \notin dropped
        /\ table[handle.id].left \in Nat
        /\ table[handle.id].total = handle.got /\ handle.got <= MaxBody
        /\ bodies[handle.id] = handle.got + table[handle.id].left
        /\ DOMAIN table = dropped \cup {handle.id}
  BY <1>1 DEF StreamsInv, Reading
<1>3. CASE Streams!Open
  <2>1. PICK body \in 0 .. MaxBody + 1, limit \in 0 .. MaxBody :
          /\ handle.end # "open"
          /\ opened' = opened + 1 /\ dropped' = dropped
          /\ table' = [i \in DOMAIN table \cup {opened + 1} |->
                         IF i = opened + 1 THEN [left |-> body, total |-> 0, seq |-> 0] ELSE table[i]]
          /\ bodies' = [i \in DOMAIN bodies \cup {opened + 1} |-> IF i = opened + 1 THEN body ELSE bodies[i]]
          /\ handle' = [id |-> opened + 1, got |-> 0, done |-> FALSE, end |-> "open", limit |-> limit]
    BY <1>3, Zenon DEF Streams!Open, Streams!Fresh
  <2>2. handle'.id = opened + 1 /\ handle'.end = "open" /\ handle'.got = 0 /\ HandleShape'
    BY <2>1 DEF HandleShape
  <2>3. table'[opened + 1] = [left |-> body, total |-> 0, seq |-> 0] /\ bodies'[opened + 1] = body
    BY <2>1
  <2>4. DOMAIN table' = dropped \cup {opened + 1}
    BY <1>1, <2>1
  <2>5. opened + 1 \notin dropped /\ opened' \in Nat /\ dropped' \subseteq 1 .. opened' /\ opened + 1 \in 1 .. opened'
    BY <1>1, <2>1
  <2>6. Reading'
    BY <1>1, <2>1, <2>2, <2>3, <2>5 DEF Reading
  <2>7. TableIsOpen'
    BY <2>1, <2>2, <2>4 DEF TableIsOpen
  <2> QED
    BY <2>2, <2>5, <2>6, <2>7 DEF StreamsInv
<1>4. CASE Streams!Next
  <2> DEFINE s == table[handle.id]
  <2>0. handle.end = "open" /\ opened' = opened /\ bodies' = bodies /\ dropped' = dropped
    BY <1>4 DEF Streams!Next
  <2>1. PICK k \in {0, 1}, err \in {"none", "eof", "broken"} :
          /\ k <= s.left
          /\ err = "none" => k > 0
          /\ err = "eof" => k = s.left
          /\ IF Streams!Ends(err, s.total + k) THEN Streams!Forget(handle.id)
             ELSE table' = [table EXCEPT ![handle.id] = [left |-> s.left - k, total |-> s.total + k, seq |-> s.seq + 1]]
          /\ handle' = [handle EXCEPT !.got = @ + k, !.done = Streams!Ends(err, s.total + k),
                                     !.end = IF ~Streams!Ends(err, s.total + k) THEN @
                                             ELSE IF Streams!PastCeiling(s.total + k) THEN "too large"
                                             ELSE IF err = "broken" THEN "broken" ELSE "whole"]
    BY <1>4, Zenon DEF Streams!Next
  <2> HIDE DEF s
  <2>2. s.total = handle.got /\ s.left \in Nat /\ handle.got \in Nat /\ handle.got <= MaxBody
        /\ bodies[handle.id] = handle.got + s.left /\ handle.id \in 1 .. opened /\ handle.id \notin dropped
        /\ DOMAIN table = dropped \cup {handle.id} /\ handle.end = "open"
    BY <1>1, <1>2, <2>0, <2>1 DEF HandleShape, s
  <2>3. CASE Streams!Ends(err, s.total + k)
    <3> DEFINE e == IF Streams!PastCeiling(s.total + k) THEN "too large"
                    ELSE IF err = "broken" THEN "broken" ELSE "whole"
    <3>1. handle' = [handle EXCEPT !.got = handle.got + k, !.done = TRUE, !.end = e]
      BY <2>0, <2>1, <2>3 DEF Streams!Ends
    <3>2. handle' = [id |-> handle.id, got |-> handle.got + k, done |-> TRUE, end |-> e, limit |-> handle.limit]
      BY <1>1, <3>1 DEF HandleShape
    <3>3. e \in {"too large", "broken", "whole"}
      OBVIOUS
    <3>4. e = "whole" => s.total + k <= MaxBody /\ err = "eof"
      BY <2>2, <2>3 DEF Streams!Ends, Streams!PastCeiling
    <3> HIDE DEF e
    <3>10. handle'.end = e /\ e # "open" /\ handle'.done = TRUE /\ handle'.got = handle.got + k
           /\ handle'.id = handle.id /\ handle'.limit = handle.limit
      BY <3>2, <3>3
    <3>11. handle' = [id |-> handle'.id, got |-> handle'.got, done |-> handle'.done, end |-> handle'.end,
                     limit |-> handle'.limit]
      BY <3>2, <3>10
    <3>12. handle'.got \in Nat /\ handle'.limit \in Nat
      BY <1>1, <2>2, <3>10 DEF HandleShape
    <3>5. HandleShape' /\ handle'.end = e /\ handle'.end # "open" /\ handle'.got = handle.got + k /\ handle'.id = handle.id
      BY <3>10, <3>11, <3>12 DEF HandleShape
    <3>6. Reading'
      BY <3>5 DEF Reading
    <3>7. DOMAIN table' = DOMAIN table \ {handle.id}
      BY <2>0, <2>1, <2>3 DEF Streams!Forget, Streams!Restrict
    <3>8. DOMAIN table' = dropped
      BY <2>2, <3>7
    <3>9. TableIsOpen'
      BY <2>0, <2>1, <2>2, <3>4, <3>5, <3>8 DEF TableIsOpen
    <3> QED
      BY <1>1, <2>0, <2>1, <3>5, <3>6, <3>9 DEF StreamsInv
  <2>4. CASE ~Streams!Ends(err, s.total + k)
    <3>1. handle' = [handle EXCEPT !.got = handle.got + k, !.done = FALSE, !.end = "open"]
      BY <2>0, <2>1, <2>2, <2>4 DEF Streams!Ends
    <3>2. handle' = [id |-> handle.id, got |-> handle.got + k, done |-> FALSE, end |-> "open", limit |-> handle.limit]
      BY <1>1, <3>1 DEF HandleShape
    <3>3. HandleShape' /\ handle'.end = "open" /\ handle'.got = handle.got + k /\ handle'.id = handle.id
      BY <1>1, <2>2, <3>2 DEF HandleShape
    <3>4. s.total + k <= MaxBody
      BY <2>2, <2>4 DEF Streams!Ends, Streams!PastCeiling
    <3>5. table' = [table EXCEPT ![handle.id] = [left |-> s.left - k, total |-> s.total + k, seq |-> s.seq + 1]]
      BY <2>0, <2>1, <2>4
    <3>6. DOMAIN table' = DOMAIN table /\ table'[handle.id].left = s.left - k /\ table'[handle.id].total = s.total + k
      BY <2>2, <3>5
    <3>9. /\ s.left - k \in Nat /\ s.total + k = handle.got + k
          /\ handle.got + s.left = (handle.got + k) + (s.left - k)
      BY <2>1, <2>2
    <3>10. /\ handle'.end = "open" /\ handle'.id \in 1 .. opened' /\ handle'.id \notin dropped'
           /\ bodies'[handle'.id] = handle.got + s.left
      BY <2>0, <2>2, <3>3
    <3>11. /\ table'[handle'.id].left = s.left - k /\ table'[handle'.id].total = handle.got + k
           /\ handle'.got = handle.got + k /\ handle'.got <= MaxBody
      BY <3>3, <3>4, <3>6, <3>9
    <3>7. Reading'
      BY <3>9, <3>10, <3>11 DEF Reading
    <3>8. TableIsOpen'
      BY <2>0, <2>1, <2>2, <3>3, <3>6 DEF TableIsOpen
    <3> QED
      BY <1>1, <2>0, <2>1, <3>3, <3>7, <3>8 DEF StreamsInv
  <2> QED
    BY <2>3, <2>4
<1>5. CASE Streams!OverLimit \/ Streams!Close
  <2>1. PICK e \in {"limit", "closed"} : handle' = [handle EXCEPT !.done = TRUE, !.end = e]
    BY <1>5 DEF Streams!OverLimit, Streams!Close
  <2>2. handle' = [id |-> handle.id, got |-> handle.got, done |-> TRUE, end |-> e, limit |-> handle.limit]
    BY <1>1, <2>1 DEF HandleShape
  <2>3. HandleShape' /\ handle'.end \in {"limit", "closed"}
    BY <1>1, <2>2 DEF HandleShape
  <2>4. opened' = opened /\ bodies' = bodies /\ dropped' = dropped
    BY <1>5 DEF Streams!OverLimit, Streams!Close
  <2>5. DOMAIN table' = dropped
    <3>1. CASE handle.end = "open"
      <4>1. Streams!Forget(handle.id)
        BY <1>1, <1>5, <3>1 DEF Streams!OverLimit, Streams!Close, HandleShape
      <4>2. DOMAIN table' = DOMAIN table \ {handle.id}
        BY <4>1 DEF Streams!Forget, Streams!Restrict
      <4> QED
        BY <1>2, <3>1, <4>2
    <3>2. CASE handle.end # "open"
      <4>1. table' = table
        BY <1>1, <1>5, <3>2 DEF Streams!OverLimit, Streams!Close, HandleShape
      <4> QED
        BY <1>1, <3>2, <4>1
    <3> QED
      BY <3>1, <3>2
  <2>6. Reading' /\ TableIsOpen'
    BY <2>3, <2>4, <2>5 DEF Reading, TableIsOpen
  <2> QED
    BY <1>1, <2>3, <2>4, <2>6 DEF StreamsInv
<1>6. CASE Streams!Denied \/ Streams!Drop
  <2>1. /\ handle.end = "open" /\ dropped' = dropped \cup {handle.id}
        /\ table' = table /\ opened' = opened /\ bodies' = bodies
    BY <1>6 DEF Streams!Denied, Streams!Drop
  <2>2. HandleShape' /\ handle'.end \in {"denied", "none"}
    <3>1. CASE Streams!Denied
      <4>1. handle' = [handle EXCEPT !.done = TRUE, !.end = "denied"]
        BY <3>1 DEF Streams!Denied
      <4>2. handle' = [id |-> handle.id, got |-> handle.got, done |-> TRUE, end |-> "denied", limit |-> handle.limit]
        BY <1>1, <4>1 DEF HandleShape
      <4> QED
        BY <1>1, <4>2 DEF HandleShape
    <3>2. CASE Streams!Drop
      <4>1. handle' = [id |-> 0, got |-> 0, done |-> TRUE, end |-> "none", limit |-> 0]
        BY <3>2 DEF Streams!Drop, Streams!NoHandle
      <4> QED
        BY <4>1 DEF HandleShape
    <3> QED
      BY <1>6, <3>1, <3>2
  <2>3. DOMAIN table' = dropped'
    BY <1>2, <2>1
  <2>4. Reading' /\ TableIsOpen'
    BY <2>2, <2>3 DEF Reading, TableIsOpen
  <2>5. dropped' \subseteq 1 .. opened'
    BY <1>1, <1>2, <2>1
  <2> QED
    BY <1>1, <2>1, <2>2, <2>4, <2>5 DEF StreamsInv
<1>7. CASE UNCHANGED Streams!streamVars
  BY <1>7 DEF Streams!streamVars, StreamsInv, HandleShape, Reading, TableIsOpen
<1> QED
  BY <1>3, <1>4, <1>5, <1>6, <1>7 DEF Streams!StreamsNext

----------------------------------------------------------------------------
(* The document example, by the names of DocumentIngest.                   *)

chunks == v1
job == v2
runs == v3
USE DEF chunks, job, runs

JobShape ==
    /\ job = [at |-> job.at, n |-> job.n, i |-> job.i, run |-> job.run]
    /\ job.n \in Nat /\ job.i \in Int

\* Of k chunks in a row, those this ingest has put; and how far it looked for the end.
Stretch(k) ==
    /\ DOMAIN chunks = 0 .. k - 1
    /\ job.at = "put" => job.i \in 0 .. job.n /\ job.i <= k /\ \A m \in 0 .. job.i - 1 : chunks[m] = job.run
    /\ job.at \in {"find", "remove", "stored"} => job.n <= k /\ \A m \in 0 .. job.n - 1 : chunks[m] = job.run
    /\ job.at = "find" => job.i \in 0 .. k /\ job.n <= job.i
    /\ job.at = "remove" => job.i = k - 1
    /\ job.at = "stored" => job.n = k

IngestInv == JobShape /\ \E k \in Nat : Stretch(k)

LEMMA IngestStarts == Ingest!IngestInit => IngestInv
<1> SUFFICES ASSUME Ingest!IngestInit PROVE IngestInv
  OBVIOUS
<1>1. job = [at |-> "rest", n |-> 0, i |-> 0, run |-> 0] /\ chunks = <<>>
  BY DEF Ingest!IngestInit, Ingest!Resting
<1>2. Stretch(0)
  BY <1>1 DEF Stretch
<1> QED
  BY <1>1, <1>2 DEF IngestInv, JobShape

LEMMA IngestSteps == IngestInv /\ [Ingest!IngestNext]_(Ingest!ingestVars) => IngestInv'
<1> SUFFICES ASSUME IngestInv, [Ingest!IngestNext]_(Ingest!ingestVars) PROVE IngestInv'
  OBVIOUS
<1>1. PICK k \in Nat : Stretch(k)
  BY DEF IngestInv
<1>2. JobShape
  BY DEF IngestInv
<1>3. CASE Ingest!Ingest
  <2>1. PICK n \in Nat : job' = [at |-> "put", n |-> n, i |-> 0, run |-> runs + 1]
    BY <1>3 DEF Ingest!Ingest, Ingest!Chunkings
  <2>2. chunks' = chunks
    BY <1>3 DEF Ingest!Ingest
  <2>3. Stretch(k)'
    BY <1>1, <2>1, <2>2 DEF Stretch
  <2> QED
    BY <2>1, <2>3 DEF IngestInv, JobShape
<1>4. CASE Ingest!PutChunk
  <2>1. /\ job.at = "put" /\ job.i < job.n /\ job' = [job EXCEPT !.i = job.i + 1]
        /\ chunks' = [m \in DOMAIN chunks \cup {job.i} |-> IF m = job.i THEN job.run ELSE chunks[m]]
    BY <1>4 DEF Ingest!PutChunk, Ingest!Put
  <2>2. job'.at = "put" /\ job'.n = job.n /\ job'.i = job.i + 1 /\ job'.run = job.run /\ JobShape'
    BY <1>2, <2>1 DEF JobShape
  <2>3. job.i \in 0 .. k /\ job.i \in 0 .. job.n /\ DOMAIN chunks = 0 .. k - 1
        /\ \A m \in 0 .. job.i - 1 : chunks[m] = job.run
    BY <1>1, <1>2, <2>1 DEF Stretch, JobShape
  <2>4. \A m \in 0 .. job.i : m \in DOMAIN chunks \cup {job.i} /\ chunks'[m] = job.run
    BY <1>2, <2>1, <2>3 DEF JobShape
  <2>5. CASE job.i < k
    <3>1. DOMAIN chunks \cup {job.i} = 0 .. k - 1
      BY <2>3, <2>5
    <3>2. DOMAIN chunks' = 0 .. k - 1
      BY <2>1, <3>1
    <3>3. Stretch(k)'
      BY <1>2, <2>1, <2>2, <2>3, <2>4, <2>5, <3>2 DEF Stretch, JobShape
    <3> QED
      BY <2>2, <3>3 DEF IngestInv
  <2>6. CASE job.i = k
    <3>1. DOMAIN chunks \cup {job.i} = 0 .. (k + 1) - 1
      BY <2>3, <2>6
    <3>2. DOMAIN chunks' = 0 .. (k + 1) - 1
      BY <2>1, <3>1
    <3>3. Stretch(k + 1)'
      BY <1>2, <2>1, <2>2, <2>3, <2>4, <2>6, <3>2 DEF Stretch, JobShape
    <3> QED
      BY <2>2, <3>3 DEF IngestInv
  <2> QED
    BY <2>3, <2>5, <2>6
<1>5. CASE Ingest!FindEnd
  <2>1. /\ \/ job.at = "put" /\ job.i = job.n
           \/ job.at = "find"
        /\ chunks' = chunks
        /\ job' = IF job.i \in DOMAIN chunks THEN [job EXCEPT !.at = "find", !.i = job.i + 1]
                  ELSE [job EXCEPT !.at = "remove", !.i = job.i - 1]
    BY <1>5 DEF Ingest!FindEnd, Ingest!Has
  <2>2. /\ job.i \in 0 .. k /\ job.n <= job.i /\ job.n <= k /\ DOMAIN chunks = 0 .. k - 1
        /\ \A m \in 0 .. job.n - 1 : chunks[m] = job.run
    BY <1>1, <1>2, <2>1 DEF Stretch, JobShape
  <2>3. CASE job.i \in DOMAIN chunks
    <3>0. job' = [job EXCEPT !.at = "find", !.i = job.i + 1]
      BY <2>1, <2>3
    <3>4. job' = [at |-> "find", n |-> job.n, i |-> job.i + 1, run |-> job.run]
      BY <1>2, <3>0 DEF JobShape
    <3>1. job'.at = "find" /\ job'.i = job.i + 1 /\ job'.n = job.n /\ job'.run = job.run /\ JobShape'
      BY <1>2, <3>4 DEF JobShape
    <3>2. Stretch(k)'
      BY <1>2, <2>1, <2>2, <2>3, <3>1 DEF Stretch, JobShape
    <3> QED
      BY <3>1, <3>2 DEF IngestInv
  <2>4. CASE job.i \notin DOMAIN chunks
    <3>0. job' = [job EXCEPT !.at = "remove", !.i = job.i - 1]
      BY <2>1, <2>4
    <3>4. job' = [at |-> "remove", n |-> job.n, i |-> job.i - 1, run |-> job.run]
      BY <1>2, <3>0 DEF JobShape
    <3>1. job'.at = "remove" /\ job'.i = job.i - 1 /\ job'.n = job.n /\ job'.run = job.run /\ JobShape'
      BY <1>2, <3>4 DEF JobShape
    <3>2. job.i = k
      BY <1>2, <2>2, <2>4 DEF JobShape
    <3>3. Stretch(k)'
      BY <1>2, <2>1, <2>2, <3>1, <3>2 DEF Stretch, JobShape
    <3> QED
      BY <3>1, <3>3 DEF IngestInv
  <2> QED
    BY <2>3, <2>4
<1>6. CASE Ingest!Remove
  <2>1. /\ job.at = "remove" /\ job.i >= job.n /\ job' = [job EXCEPT !.i = job.i - 1]
        /\ chunks' = [m \in DOMAIN chunks \ {job.i} |-> chunks[m]]
    BY <1>6 DEF Ingest!Remove, Ingest!Delete, Ingest!NextStale, Ingest!Restrict
  <2>2. job'.at = "remove" /\ job'.n = job.n /\ job'.i = job.i - 1 /\ job'.run = job.run /\ JobShape'
    BY <1>2, <2>1 DEF JobShape
  <2>3. job.i = k - 1 /\ DOMAIN chunks = 0 .. k - 1 /\ \A m \in 0 .. job.n - 1 : chunks[m] = job.run
    BY <1>1, <2>1 DEF Stretch
  <2>4. k - 1 \in Nat /\ job.n <= k - 1 /\ (0 .. k - 1) \ {k - 1} = 0 .. (k - 1) - 1
    BY <1>2, <2>1, <2>3 DEF JobShape
  <2>5. Stretch(k - 1)'
    BY <1>2, <2>1, <2>2, <2>3, <2>4 DEF Stretch, JobShape
  <2> QED
    BY <2>2, <2>4, <2>5 DEF IngestInv
<1>7. CASE Ingest!Stored
  <2>1. job.at = "remove" /\ job.i < job.n /\ job' = [job EXCEPT !.at = "stored"] /\ chunks' = chunks
    BY <1>7 DEF Ingest!Stored
  <2>2. job'.at = "stored" /\ job'.n = job.n /\ job'.i = job.i /\ job'.run = job.run /\ JobShape'
    BY <1>2, <2>1 DEF JobShape
  <2>3. Stretch(k)'
    BY <1>1, <1>2, <2>1, <2>2 DEF Stretch, JobShape
  <2> QED
    BY <2>2, <2>3 DEF IngestInv
<1>8. CASE Ingest!Fails
  <2>1. job' = [at |-> "rest", n |-> 0, i |-> 0, run |-> 0] /\ chunks' = chunks
    BY <1>8 DEF Ingest!Fails, Ingest!Resting
  <2>2. Stretch(k)'
    BY <1>1, <2>1 DEF Stretch
  <2> QED
    BY <2>1, <2>2 DEF IngestInv, JobShape
<1>9. CASE UNCHANGED Ingest!ingestVars
  BY <1>9 DEF Ingest!ingestVars, IngestInv, JobShape, Stretch
<1> QED
  BY <1>3, <1>4, <1>5, <1>6, <1>7, <1>8, <1>9 DEF Ingest!IngestNext

LEMMA IngestEnds == IngestInv => Ingest!IngestIsWhole
<1> SUFFICES ASSUME IngestInv PROVE Ingest!IngestIsWhole
  OBVIOUS
<1>1. PICK k \in Nat : Stretch(k)
  BY DEF IngestInv
<1>2. Ingest!Cardinality(DOMAIN chunks) = Cardinality(DOMAIN chunks)
  BY DEF Ingest!Cardinality, Cardinality
<1>3. Cardinality(0 .. k - 1) = k
  <2>1. 0 \in Int /\ k - 1 \in Int
    BY <1>1
  <2>2. Cardinality(0 .. k - 1) = IF 0 > k - 1 THEN 0 ELSE k - 1 - 0 + 1
    BY <2>1, FS_Interval
  <2> QED
    BY <2>2
<1>4. DOMAIN chunks = 0 .. Ingest!Cardinality(DOMAIN chunks) - 1
  BY <1>1, <1>2, <1>3 DEF Stretch
<1>5. job.at = "stored" => DOMAIN chunks = 0 .. job.n - 1 /\ \A i \in DOMAIN chunks : chunks[i] = job.run
  BY <1>1 DEF Stretch
<1> QED
  BY <1>4, <1>5 DEF Ingest!IngestIsWhole

\* What an operation gets back is what it gave or was given: a memory that was superseded stays
\* so, under the one that replaced it, and a recall shows the best matches first, the newest of
\* equals (answerRemember and answerRecall of cmd/aiisdk/harness_memory.go); a stream that ended
\* brought the whole body within the ceiling, and the host keeps no stream that ended or was
\* closed (answerHTTPRead of harness.go); and an ingest that ran to its end leaves its chunks
\* and no others (examples/document-ingest).
THEOREM DataStaysTrue == Spec => []DataComesBack
<1> DEFINE Here == /\ part = "memory" => MemInv
                   /\ part = "streams" => StreamsInv
                   /\ part = "ingest" => IngestInv
<1>1. Init => Here
  BY MemStarts, StreamsStart, IngestStarts DEF Init
<1>2. Here /\ [Next]_vars => Here'
  <2> SUFFICES ASSUME Here, [Next]_vars PROVE Here'
    OBVIOUS
  <2>1. part' = part
    BY DEF Next, vars
  <2>2. part = "memory" => [Memory!MemNext]_(Memory!memVars)
    BY DEF Next, vars, Memory!memVars
  <2>3. part = "streams" => [Streams!StreamsNext]_(Streams!streamVars)
    BY DEF Next, vars, Streams!streamVars
  <2>4. part = "ingest" => [Ingest!IngestNext]_(Ingest!ingestVars)
    BY DEF Next, vars, Ingest!ingestVars
  <2> QED
    BY <2>1, <2>2, <2>3, <2>4, MemSteps, StreamsStep, IngestSteps
<1>3. Here => DataComesBack
  <2>1. MemInv => Memory!MemoryIsKept /\ Memory!RecallIsRanked
    BY MemKeeps, MemRanks
  <2>2. StreamsInv => Streams!StreamsAreExact
    BY DEF StreamsInv, TableIsOpen, Streams!StreamsAreExact
  <2>3. IngestInv => Ingest!IngestIsWhole
    BY IngestEnds
  <2> QED
    BY <2>1, <2>2, <2>3 DEF DataComesBack
<1> QED
  BY <1>1, <1>2, <1>3, PTL DEF Spec
=============================================================================

------------------------------ MODULE TestRun ------------------------------
(***************************************************************************)
(* A run of `aiisdk test` (cmd/aiisdk/test.go, test_native.go): its steps  *)
(* in their order and what the report makes of them, and behind them the   *)
(* stand-in host (harness.go) that answers the calls the plugin makes      *)
(* meanwhile, under the grants and settings of the run.  A wasm plugin and *)
(* a native one call only while they are asked something; the reader of a  *)
(* session engine answers its calls at any time, beside the run itself.    *)
(*                                                                         *)
(* RequestLane and SessionCheck hold how a call and a session are carried  *)
(* and judged; here a step passes or fails.  Files, streams and memories   *)
(* are modules of their own; the operations kept here are those that the   *)
(* settings, kv, tools and network grants decide.                          *)
(***************************************************************************)
EXTENDS Naturals, Sequences, FiniteSets

CONSTANTS Declared,   \* setting -> [default, fits]: plugin.json's declarations
          Lines,      \* what -setting or a case may say: setting -> value
          Scopes,     \* the network grants: [local, hosts, any, port], port 0: none said
          Places,     \* the [host, port] a plugin may ask for
          Tools,      \* the tools it may publish
          MaxTools,   \* how many at most (32)
          MaxCases, MaxChecks \* bounds: those of a run

VARIABLES opts,      \* what the run was asked: [lane, own, kv, tools, scopes, report]
          steps,     \* its steps, in order
          pos,       \* the one it is at; 0 before the first
          asked,     \* the plugin is being asked that one
          rep,       \* [passed, fails, unrun, prereq] (report)
          outcomes,  \* how the checks went, until they are reported
          values,    \* caseSettings
          checking,
          kv, published,
          call,      \* the host call being answered
          last,      \* ghost: the answer just given: to whom, to what, and what it did
          code       \* "none" or the exit: "pass", "fail", "incomplete"
runVars == <<opts, steps, pos, asked, rep, outcomes, values, checking, code>>
hostVars == <<kv, published, call>>
testRunVars == <<runVars, hostVars, last>>

NoCall == [of |-> 0, kind |-> "none", what |-> "", during |-> FALSE]
NoAnswer == [of |-> 0, kind |-> "none", what |-> "", during |-> FALSE, gave |-> <<>>, did |-> FALSE]

\* A step that must pass ends the run when it fails.
Must(n)  == [kind |-> "step", name |-> n, must |-> TRUE]
Other(n) == [kind |-> "step", name |-> n, must |-> FALSE]
CaseOf(line) == [kind |-> "case", name |-> "case", says |-> line]
Wasm(cases, checks) ==
  <<Must("build"), Must("package"), Must("artifact"), Must("verify"), Other("account"),
    Must("admission"), Other("banner")>>
  \o cases \o checks
  \o <<Other("confirmation"), [kind |-> "hostile", name |-> "hostile"], Other("exit")>>
Native(checks) ==
  <<Must("artifact"), Must("package"), Must("readiness"), Other("banner")>> \o checks \o <<Other("exit")>>

TestRunInit ==
  /\ opts \in [lane : {"wasm", "native", "session"}, own : Lines, kv : BOOLEAN, tools : BOOLEAN,
               scopes : SUBSET Scopes, report : BOOLEAN]
  /\ \E nk \in 0..MaxChecks, cases \in UNION {[1..n -> {CaseOf(l) : l \in Lines}] : n \in 0..MaxCases} :
       \E checks \in {<<>>, <<[kind |-> "reading", name |-> "checks"]>>
                              \o [i \in 1..nk |-> [kind |-> "check", name |-> "check"]]} :
         IF opts.lane = "wasm" THEN steps = Wasm(cases, checks)
         ELSE cases = <<>> /\ steps = Native(checks)
  /\ pos = 0 /\ asked = FALSE /\ outcomes = <<>> /\ values = <<>> /\ checking = FALSE
  /\ rep = [passed |-> {}, fails |-> 0, unrun |-> 0, prereq |-> FALSE]
  /\ kv = {} /\ published = {} /\ call = NoCall /\ last = NoAnswer /\ code = "none"

Over == Len(steps) + 1
Now == steps[pos]
At(kind) == code = "none" /\ pos \in DOMAIN steps /\ Now.kind = kind
Passed == [rep EXCEPT !.passed = @ \cup {pos}]
Failed == [rep EXCEPT !.fails = @ + 1]

\* CheckSettingValue for every setting that is named; a case may name one with null.
Null == "null"
Allowed(k, value) == value \in Declared[k].fits
Fits(line, nulls) ==
  \A k \in DOMAIN line : k \in DOMAIN Declared /\ (Allowed(k, line[k]) \/ (nulls /\ line[k] = Null))

\* A tool that is not there, or a setting that is not one, ends the run before its first step.
Begin ==
  /\ pos = 0 /\ code = "none"
  /\ \/ /\ rep' = [rep EXCEPT !.prereq = TRUE, !.unrun = 1]
        /\ pos' = Over /\ code' = code
     \/ /\ pos' = IF Fits(opts.own, FALSE) THEN 1 ELSE 0
        /\ code' = IF Fits(opts.own, FALSE) THEN code ELSE "fail"
        /\ rep' = rep
  /\ UNCHANGED <<opts, steps, asked, outcomes, values, checking, hostVars>>

\* Without an account there is no stance to confirm.
Unread == Now.name = "confirmation" /\ \E i \in 1..pos : steps[i].name = "account" /\ i \notin rep.passed
DoStep ==
  /\ At("step")
  /\ \/ Unread /\ rep' = rep /\ pos' = pos + 1
     \/ ~Unread /\ rep' = Passed /\ pos' = pos + 1
     \/ ~Unread /\ rep' = Failed /\ pos' = IF Now.must THEN Over ELSE pos + 1
  /\ UNCHANGED <<opts, steps, asked, outcomes, values, checking, hostVars, code>>

\* runCase: a case whose settings are none of the plugin's is not asked.
Case ==
  /\ At("case") /\ ~asked
  /\ LET said == {k \in DOMAIN Now.says : Now.says[k] # Null}
     IN  IF Fits(Now.says, TRUE)
         THEN values' = [k \in said |-> Now.says[k]] /\ asked' = TRUE /\ UNCHANGED <<pos, rep>>
         ELSE rep' = Failed /\ pos' = pos + 1 /\ UNCHANGED <<values, asked>>
  /\ UNCHANGED <<opts, steps, outcomes, checking, hostVars, code>>

\* Mutant: what a case said is left to whatever is asked next.
KeptAfter(v) == v
\* A case's settings end with it.
LeftAfter(v) == <<>>

CaseEnds ==
  /\ At("case") /\ asked /\ call = NoCall
  /\ rep' \in {Passed, Failed}
  /\ values' = LeftAfter(values)
  /\ asked' = FALSE /\ pos' = pos + 1
  /\ UNCHANGED <<opts, steps, outcomes, checking, hostVars, code>>

\* runPackageChecks: the staged checks are read again; if they cannot be, none is asked.
NextCheck(i) == steps[i].kind = "check"
ReadChecks ==
  /\ At("reading")
  /\ \/ rep' = rep /\ pos' = pos + 1 /\ checking' = NextCheck(pos + 1)
     \/ /\ rep' = Failed /\ checking' = checking
        /\ pos' = CHOOSE i \in pos + 1 .. Len(steps) :
                    ~NextCheck(i) /\ \A j \in pos + 1 .. i - 1 : NextCheck(j)
  /\ UNCHANGED <<opts, steps, asked, outcomes, values, hostVars, code>>

AskCheck ==
  /\ At("check") /\ ~asked /\ asked' = TRUE
  /\ UNCHANGED <<opts, steps, pos, rep, outcomes, values, checking, hostVars, code>>

\* reportChecks: one that could not be run on this machine is no failure, and no pass.
Reported(all) ==
  LET those(o) == {all[i].at : i \in {j \in 1..Len(all) : all[j].was = o}}
  IN  [rep EXCEPT !.passed = @ \cup those("passed"),
                  !.fails = @ + Cardinality(those("not passed")),
                  !.unrun = @ + Cardinality(those("not here"))]

\* The reader of a session engine goes on beside the end of a check.
CheckEnds ==
  /\ At("check") /\ asked /\ (call = NoCall \/ opts.lane = "session")
  /\ \E o \in {"passed", "not passed"} \cup (IF opts.lane = "session" THEN {"not here"} ELSE {}) :
       LET all == Append(outcomes, [at |-> pos, was |-> o])
       IN  IF NextCheck(pos + 1) THEN outcomes' = all /\ UNCHANGED <<rep, checking>>
           ELSE outcomes' = <<>> /\ checking' = FALSE /\ rep' = Reported(all)
  /\ asked' = FALSE /\ pos' = pos + 1
  /\ UNCHANGED <<opts, steps, values, hostVars, code>>

\* An undeclared operation, which must not come back as done.
Hostile ==
  /\ At("hostile")
  /\ IF ~asked THEN asked' = TRUE /\ UNCHANGED <<rep, pos>>
     ELSE call = NoCall /\ asked' = FALSE /\ rep' \in {Passed, Failed} /\ pos' = pos + 1
  /\ UNCHANGED <<opts, steps, outcomes, values, checking, hostVars, code>>

\* Mutant: what could not run here comes before what failed.
Lenient(r) == IF r.unrun > 0 THEN "incomplete" ELSE IF r.fails > 0 THEN "fail" ELSE "pass"

\* report.result.
Result(r) == IF r.prereq THEN "incomplete"
             ELSE IF r.fails > 0 THEN "fail"
             ELSE IF r.unrun > 0 THEN "incomplete" ELSE "pass"

\* finish: a report that was asked for and not written is no pass.
Finish ==
  /\ code = "none" /\ pos = Over
  /\ code' \in {Result(rep)} \cup (IF opts.report /\ Result(rep) = "pass" THEN {"fail"} ELSE {})
  /\ UNCHANGED <<opts, steps, pos, asked, rep, outcomes, values, checking, hostVars>>

----------------------------------------------------------------------------
\* The stand-in host.

\* The plugin runs and may call.
MayCall ==
  /\ code = "none" /\ pos \in DOMAIN steps
  /\ asked \/ (opts.lane = "session" /\ \E i \in 1 .. pos - 1 : steps[i].name = "readiness")

\* Whether a check is running is looked at first.
Take ==
  /\ MayCall /\ call = NoCall
  /\ call' \in [of : {pos}, kind : {"settings", "put", "delete"}, what : {"all"}, during : {checking}]
             \cup [of : {pos}, kind : {"publish", "withdraw"}, what : Tools, during : {checking}]
             \cup [of : {pos}, kind : {"fetch"}, what : Places, during : {checking}]
  /\ UNCHANGED <<runVars, kv, published>>

\* EffectiveSettings: the defaults, under what was said and fits.
Effective(said) ==
  [k \in {d \in DOMAIN Declared : Declared[d].default # Null \/ d \in DOMAIN said} |->
     IF k \in DOMAIN said THEN said[k] ELSE Declared[k].default]
Override(under, over) ==
  [k \in DOMAIN under \cup DOMAIN over |-> IF k \in DOMAIN over THEN over[k] ELSE under[k]]

\* Without a port a scope means the web's ports, a local one any.
HostCovers(s, p)  == p.host \in s.hosts /\ (s.any \/ s.port = p.port \/ (s.port = 0 /\ p.port \in {80, 443}))
LocalCovers(s, p) == p.host \in s.hosts /\ s.port \in {0, p.port}
Covers(s, p) == IF s.local THEN LocalCovers(s, p) ELSE HostCovers(s, p)

Answered(gave, did) ==
  /\ last' = [of |-> call.of, kind |-> call.kind, what |-> call.what,
              during |-> call.during /\ checking, gave |-> gave, did |-> did]
  /\ call' = NoCall
  /\ UNCHANGED runVars

\* Mutant: a check is not told apart.
LetThrough(kind) == FALSE
\* During a check only the settings are answered.
DeniedInCheck(kind) == call.during /\ kind # "settings"

GetSettings ==
  /\ call.kind = "settings"
  /\ Answered(IF checking THEN Effective(<<>>) ELSE Effective(Override(opts.own, values)), FALSE)
  /\ UNCHANGED <<kv, published>>

KV ==
  /\ call.kind \in {"put", "delete"}
  /\ LET may == opts.kv /\ ~DeniedInCheck(call.kind)
     IN  /\ kv' = IF ~may THEN kv ELSE IF call.kind = "put" THEN {"key"} ELSE {}
         /\ Answered(<<>>, kv' # kv)
  /\ UNCHANGED published

\* answerTools: a name once, and MaxTools of them.
PublishTool ==
  /\ call.kind \in {"publish", "withdraw"}
  /\ LET may == opts.tools /\ ~DeniedInCheck(call.kind)
         room == call.what \notin published /\ Cardinality(published) < MaxTools
     IN  /\ published' = IF ~may THEN published
                         ELSE IF call.kind = "withdraw" THEN published \ {call.what}
                         ELSE IF room THEN published \cup {call.what} ELSE published
         /\ Answered(<<>>, published' # published)
  /\ UNCHANGED kv

Fetch ==
  /\ call.kind = "fetch"
  /\ Answered(<<>>, ~DeniedInCheck("fetch") /\ \E s \in opts.scopes : Covers(s, call.what))
  /\ UNCHANGED <<kv, published>>

RunStep == Begin \/ DoStep \/ Case \/ CaseEnds \/ ReadChecks \/ AskCheck \/ CheckEnds \/ Hostile \/ Finish
TestRunNext ==
  \/ (RunStep \/ Take) /\ last' = NoAnswer
  \/ GetSettings \/ KV \/ PublishTool \/ Fetch

----------------------------------------------------------------------------
\* "RESULT: PASS" is earned (report.result, finish): every step of the run passed, each
\* case and each check among them, and no more than was asked was left out; and an
\* INCOMPLETE of a run that began hides no failure.
PassIsProven ==
  /\ code = "pass" => /\ \A i \in DOMAIN steps : steps[i].kind # "reading" => i \in rep.passed
                      /\ pos = Over
  /\ code = "incomplete" => rep.prereq \/ rep.fails = 0

\* What the stand-in host answers is the asker's own (answer, runCase,
\* runPackageChecks): a case is told its settings over the operator's over the defaults,
\* and nothing a case said is told to anyone else; a call within the checks is told the
\* package's declared values and does nothing; and nothing is done that the run was not
\* granted.  A call that a session engine makes as the checks begin or end is neither.
Said(l, k) == k \in DOMAIN l /\ l[k] # Null
HostKeepsApart ==
  LET asker == steps[last.of]
      ofCase == IF asker.kind = "case" THEN asker.says ELSE <<>>
      inCheck == asker.kind = "check"
  IN  last # NoAnswer =>
        /\ last.during => ~last.did
        /\ last.did => CASE last.kind \in {"put", "delete"} -> opts.kv
                         [] last.kind \in {"publish", "withdraw"} -> opts.tools
                         [] OTHER -> \E s \in opts.scopes : last.what.host \in s.hosts
        /\ (last.kind = "settings" /\ (opts.lane # "session" \/ last.during)) =>
             \A k \in DOMAIN Declared :
               LET own == IF inCheck THEN <<>> ELSE opts.own
                   due == IF Said(ofCase, k) THEN ofCase[k]
                          ELSE IF Said(own, k) THEN own[k] ELSE Declared[k].default
               IN  IF due = Null THEN k \notin DOMAIN last.gave ELSE last.gave[k] = due
=============================================================================

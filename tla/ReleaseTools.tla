---------------------------- MODULE ReleaseTools ----------------------------
(***************************************************************************)
(* The commands that turn a plugin's source into a signed release:         *)
(* `aiisdk package`, `sign`, `publish`, `devcert` and `revoke`             *)
(* (cmd/aiisdk).  They share nothing but files - the staged tree, the      *)
(* bundle and the .keys folder - and an author may run two at once, edit   *)
(* the source or the staged tree between them, and stop any of them in     *)
(* the middle.  A command reads what it needs and then writes its files    *)
(* one after another; os.WriteFile empties a file before it fills it.      *)
(*                                                                         *)
(* Abstracted: a build is a number, Builds[n] lists the variants its       *)
(* plugin.json declares; a hash is what it is the hash of; a key, a        *)
(* certificate and a snapshot carry the number of the chain that minted    *)
(* them.  A command's reads are one step, and two commands do not write    *)
(* one file at the same instant.  Key files are written as on Unix (on     *)
(* Windows a rename puts them in place).  The refusals of `package` before *)
(* it writes anything are left out: they change nothing.                   *)
(***************************************************************************)
EXTENDS Naturals, Sequences, FiniteSets

CONSTANTS Terminals,  \* what an author may run commands in
          Builds,     \* the variants of each state of the source
          Strangers,  \* the variants of packages found elsewhere (-pkg)
          Portable,   \* the variants that are WASM
          Target,     \* the platform and architecture of each variant
          MaxChains,  \* bound: dev chains minted
          MaxCommands \* bound: commands an author runs

VARIABLES source,  \* the build plugin.json and the artifacts describe
          disk,    \* what each file holds
          chains,  \* chains minted
          begun,   \* commands begun
          run,     \* the command each terminal runs
          alone,   \* no two commands on the keys ever overlapped
          told,    \* the revocations `revoke` reported
          seen,    \* every snapshot that ever stood whole in the keys folder
          listed   \* the last catalog entry printed
releaseVars == <<source, disk, chains, begun, run, alone, told, seen, listed>>

\* A staged tree, what `sign` and `package` leave, and the five files of a
\* dev chain.
Stage == {"install", "manifest", "stagedCert", "stagedSig"}
Chain == {"certifierKey", "publisherKey", "rootPub", "publisherCert", "status"}
Files == Stage \cup Chain \cup {"bundle"}

\* A file that is not there, one a write emptied and has not filled, and one
\* that holds something whole.
None == [holds |-> "nothing"]
Torn == [holds |-> "part"]
Key(k)      == [holds |-> "key", of |-> k]
Cert(k)     == [holds |-> "cert", of |-> k]
Install(n)  == [holds |-> "install", of |-> n]
Manifest(n) == [holds |-> "manifest", of |-> n]
Sig(k, i, m)     == [holds |-> "sig", by |-> k, install |-> i, manifest |-> m]
Bundle(i, m, c, s) == [holds |-> "bundle", install |-> i, manifest |-> m, cert |-> c, sig |-> s]
Snapshot(k, e, r)  == [holds |-> "status", by |-> k, epoch |-> e, revoked |-> r]

Intact(f) == disk[f] \notin {None, Torn}

Idle == [cmd |-> "none", todo |-> <<>>, open |-> FALSE, tells |-> {}]
Write(f, c) == [files |-> {f}, as |-> c]
OnKeys == {"devcert", "revoke"}

ReleaseInit ==
  /\ source \in 1..Len(Builds)
  /\ chains \in {0, 1}          \* the keys folder is empty, or holds a chain
  /\ disk = [f \in Files |->
                IF chains = 0 \/ f \notin Chain THEN None
                ELSE CASE f = "publisherCert" -> Cert(1)
                       [] f = "status" -> Snapshot(1, 1, {})
                       [] OTHER -> Key(1)]
  /\ begun = 0
  /\ run = [t \in Terminals |-> Idle]
  /\ alone = TRUE
  /\ told = {}
  /\ seen = IF chains = 0 THEN {} ELSE {Snapshot(1, 1, {})}
  /\ listed = [variants |-> {}, rows |-> {}, tier |-> "T0", author |-> {}]

\* The command has read what it needs and holds in memory what it will write.
Start(t, cmd, todo, tells) ==
  /\ run[t] = Idle /\ begun < MaxCommands
  /\ begun' = begun + 1
  /\ run' = [run EXCEPT ![t] = [cmd |-> cmd, todo |-> todo, open |-> FALSE, tells |-> tells]]
  /\ alone' = (alone /\ (cmd \in OnKeys => \A u \in Terminals : run[u].cmd \notin OnKeys))
  /\ UNCHANGED <<source, disk, told, seen, listed>>

\* package: the stage is removed, then the tree's files are written in the
\* order a map yields them, then the bundle - all from memory.
Package(t) == \E order \in {<<"install", "manifest">>, <<"manifest", "install">>} :
  LET content == [install |-> Install(source), manifest |-> Manifest(source)]
  IN  /\ Start(t, "package",
               <<[files |-> Stage, as |-> None],
                 Write(order[1], content[order[1]]), Write(order[2], content[order[2]]),
                 Write("bundle", Bundle(Install(source), Manifest(source), None, None))>>, {})
      /\ UNCHANGED chains

\* sign: the staged bytes are measured, and what they hash to must be what the
\* staged manifest declares.
StagedBundle(c, s) == Bundle(disk["install"], disk["manifest"], c, s)
MeasuredNever == TRUE
Measured == disk["manifest"].of = disk["install"].of
Sign(t) ==
  /\ Intact("publisherKey") /\ Intact("publisherCert")
  /\ Intact("manifest") /\ Intact("install") /\ Measured
  /\ LET sig == Sig(disk["publisherKey"].of, disk["install"].of, disk["manifest"].of)
     IN  Start(t, "sign",
               <<Write("stagedCert", disk["publisherCert"]), Write("stagedSig", sig),
                 Write("bundle", StagedBundle(disk["publisherCert"], sig))>>, {})
  /\ UNCHANGED chains

\* devcert: refused while any file of a chain is there, unless forced.
Devcert(t, force) ==
  /\ chains < MaxChains
  /\ force \/ \A f \in Chain : disk[f] = None
  /\ chains' = chains + 1
  /\ LET k == chains'
     IN  Start(t, "devcert",
               <<Write("certifierKey", Key(k)), Write("publisherKey", Key(k)),
                 Write("rootPub", Key(k)), Write("publisherCert", Cert(k)),
                 Write("status", Snapshot(k, 1, {}))>>, {})

\* The payloads one may revoke: the staged release's signature, and any
\* certificate by its digest.
Revocable == {Cert(k) : k \in 1..chains} \cup (IF Intact("stagedSig") THEN {disk["stagedSig"]} ELSE {})

\* revoke: the snapshot there is must be one this certifier signed; a missing
\* one counts as epoch 0.
OwnSnapshot == disk["status"].by = disk["certifierKey"].of
Epoch == IF disk["status"] = None THEN 0 ELSE disk["status"].epoch
Entries == IF disk["status"] = None THEN {} ELSE disk["status"].revoked
NextEpochSame == IF Epoch = 0 THEN 1 ELSE Epoch
NextEpoch == Epoch + 1
Revoke(t, x) ==
  /\ Intact("certifierKey")
  /\ disk["status"] # Torn
  /\ disk["status"] # None => OwnSnapshot
  /\ x \in Revocable
  /\ LET k == disk["certifierKey"].of
         todo == IF x \in Entries THEN <<>>
                 ELSE <<Write("status", Snapshot(k, NextEpoch, Entries \cup {x}))>>
     IN  Start(t, "revoke", todo, {[by |-> k, what |-> x]})
  /\ UNCHANGED chains

\* The next write of a command begins: a file is emptied, or some of a folder's
\* files are gone.
WriteOpens(t) ==
  /\ run[t].todo # <<>> /\ ~run[t].open
  /\ LET w == Head(run[t].todo)
     IN  /\ \A u \in Terminals : run[u].open => Head(run[u].todo).files \cap w.files = {}
         /\ IF w.as = None
            THEN \E gone \in {{}, w.files \ {"manifest"}, w.files \ {"install"}} :
                disk' = [f \in Files |-> IF f \in gone THEN None ELSE disk[f]]
            ELSE disk' = [f \in Files |-> IF f \in w.files THEN Torn ELSE disk[f]]
  /\ run' = [run EXCEPT ![t].open = TRUE]
  /\ UNCHANGED <<source, chains, begun, alone, told, seen, listed>>

WriteEnds(t) ==
  /\ run[t].open
  /\ LET w == Head(run[t].todo)
     IN  /\ disk' = [f \in Files |-> IF f \in w.files THEN w.as ELSE disk[f]]
         /\ seen' = IF w.files = {"status"} THEN seen \cup {w.as} ELSE seen
  /\ run' = [run EXCEPT ![t].open = FALSE, ![t].todo = Tail(@)]
  /\ UNCHANGED <<source, chains, begun, alone, told, listed>>

\* The command reports and ends.
Ends(t) ==
  /\ run[t] # Idle /\ run[t].todo = <<>>
  /\ run' = [run EXCEPT ![t] = Idle]
  /\ told' = told \cup run[t].tells
  /\ UNCHANGED <<source, disk, chains, begun, alone, seen, listed>>

\* A command is stopped, or a write of it fails.
Stops(t) ==
  /\ run[t].todo # <<>>
  /\ run' = [run EXCEPT ![t] = Idle]
  /\ UNCHANGED <<source, disk, chains, begun, alone, told, seen, listed>>

\* publish: the package's variants are the ones plugin.json declares - as many,
\* each of them, none twice - and native code is published at T3 alone.
Occurs(list) == {list[i] : i \in 1..Len(list)}
MatchesLoosely(cfg, m) == Len(cfg) = Len(m) /\ \A i \in 1..Len(m) : m[i] \in Occurs(cfg)
MatchesAuthor(cfg, m) ==
  /\ Cardinality(Occurs(cfg)) = Len(cfg) /\ Len(cfg) = Len(m)
  /\ \A i \in 1..Len(m) : m[i] \in Occurs(cfg) \ {m[j] : j \in 1..i-1}
Rows(m) == IF Occurs(m) \cap Portable # {} THEN {"*"} ELSE {Target[v] : v \in Occurs(m)}
Carried == Builds[disk["bundle"].manifest.of]
Publish(m, tier) ==
  /\ \/ Intact("bundle") /\ m = Carried
     \/ m \in Strangers
  /\ MatchesAuthor(Builds[source], m)
  /\ (Occurs(m) \subseteq Portable) <=> (tier # "T3")
  /\ listed' = [variants |-> Occurs(m), rows |-> Rows(m), tier |-> tier,
                author |-> Occurs(Builds[source])]
  /\ UNCHANGED <<source, disk, chains, begun, run, alone, told, seen>>

\* The author changes the source, or a file of the staged tree.
Edit ==
  \/ /\ source' \in 1..Len(Builds) \ {source}
     /\ UNCHANGED disk
  \/ /\ Intact("install")
     /\ disk' = [disk EXCEPT !["install"] = Install(0)]
     /\ UNCHANGED source
EditSource == Edit /\ UNCHANGED <<chains, begun, run, alone, told, seen, listed>>

ReleaseNext ==
  \/ \E t \in Terminals :
       \/ Package(t) \/ Sign(t) \/ WriteOpens(t) \/ WriteEnds(t) \/ Ends(t) \/ Stops(t)
       \/ \E force \in BOOLEAN : Devcert(t, force)
       \/ \E x \in Revocable : Revoke(t, x)
  \/ \E m \in Occurs(Builds) \cup Strangers, tier \in {"T1", "T3"} : Publish(m, tier)
  \/ EditSource

\* A signed release is what its signature measured (sign.go: "the signature
\* binds measured bytes, never claims"): in whatever order the author packages,
\* signs, edits the staged tree and stops commands, a bundle that carries a
\* signature carries the install-root and the manifest it signs, the manifest
\* declares that install-root, and a certificate stands beside it.
SignedIsMeasured ==
  (Intact("bundle") /\ disk["bundle"].sig # None) =>
    LET b == disk["bundle"]
    IN  /\ b.sig.install = b.install.of /\ b.sig.manifest = b.manifest.of
        /\ b.manifest.of = b.install.of
        /\ b.cert # None

\* The trust snapshot forgets nothing (revoke.go, devcert.go): unless two
\* commands wrote the keys at once, a whole snapshot holds every revocation
\* reported for its chain; two snapshots of one chain never share an epoch, and
\* the later of two revokes all the earlier did.
SnapshotForgetsNothing ==
  alone =>
    /\ \A r \in told : (Intact("status") /\ disk["status"].by = r.by) => r.what \in disk["status"].revoked
    /\ \A s, u \in seen : (s.by = u.by /\ s # u) =>
         /\ s.epoch # u.epoch
         /\ s.epoch < u.epoch => s.revoked \subseteq u.revoked

\* A catalog entry describes the package (publish.go): it is printed for exactly
\* the variants plugin.json declared at the time, and its rows serve every one
\* of them.
CatalogIsTrue ==
  /\ listed.variants = listed.author
  /\ \A v \in listed.variants : "*" \in listed.rows \/ Target[v] \in listed.rows
  /\ listed.tier = "T3" <=> \E v \in listed.variants : v \notin Portable
=============================================================================

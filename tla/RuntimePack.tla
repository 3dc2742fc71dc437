----------------------------- MODULE RuntimePack -----------------------------
(***************************************************************************)
(* `aiisdk runtime-pack` (cmd/aiisdk/runtimepack.go, writeRuntimeTree of   *)
(* pkg/aiiospkg/runtime.go): a native engine's runtime tree becomes an     *)
(* archive led by the inventory of its files.  The tree is walked and      *)
(* every file measured first, because the inventory comes first; then      *)
(* every file is read again into the archive - and meanwhile anything may  *)
(* write to the tree.                                                      *)
(*                                                                         *)
(* Abstracted: a file is its size, its bytes (a value) and its executable  *)
(* bit; a hash is the bytes; names are given in the order of the walk with *)
(* their directories, and two names may clash once case is folded.  Byte   *)
(* ceilings, path grammar and the tar layout are left out.                 *)
(***************************************************************************)
EXTENDS Naturals, Sequences, FiniteSets, FiniteSetsExt

CONSTANTS FileNames, \* the files a tree may hold, in walking order
          Dirs,      \* the directories each lies in
          Clashes,   \* the sets of names that fold to one
          Versions,  \* what a file may hold: [size, bytes, exec]
          Hosts,     \* the ceilings of a host: [files, depth] (RuntimeLimits)
          Windows,   \* whether -platform windows was given
          MaxWrites  \* bound: changes of the tree while it is packed

VARIABLES tree,    \* what each file holds now
          at,      \* the file the walk or the writing has come to
          rows,    \* the inventory
          half,    \* the size and mode of a file whose bytes are still to be hashed
          archive, \* the files written so far
          phase,   \* "walk", "write", "done" or "failed"
          budget,  \* -max-files and -max-depth
          writes
packVars == <<tree, at, rows, half, archive, phase, budget, writes>>

Gone == [size |-> 0, bytes |-> "none", exec |-> FALSE]
NoRow == [name |-> "none", size |-> 0, bytes |-> "none", exec |-> FALSE]

PackInit ==
  /\ tree \in [{FileNames[i] : i \in 1..Len(FileNames)} -> Versions \cup {Gone}]
  /\ at = 1 /\ rows = <<>> /\ half = NoRow /\ archive = <<>>
  /\ phase = "walk" /\ writes = 0
  /\ budget \in Hosts

Fail == phase' = "failed" /\ UNCHANGED <<tree, at, rows, half, archive, budget, writes>>

Depth(n) == Cardinality(Dirs[n]) + 1
Listed(s) == {s[i].name : i \in 1..Len(s)}

\* The walk stats a file; one that is gone is not met, or was met a moment before.
Stat ==
  /\ phase = "walk" /\ at <= Len(FileNames) /\ half = NoRow
  /\ LET n == FileNames[at]
     IN  IF tree[n] = Gone
         THEN Fail \/ (at' = at + 1 /\ UNCHANGED <<tree, rows, half, archive, phase, budget, writes>>)
         ELSE IF Depth(n) > budget.depth THEN Fail
         ELSE /\ half' = [name |-> n, size |-> tree[n].size, bytes |-> "none", exec |-> tree[n].exec]
              /\ UNCHANGED <<tree, at, rows, archive, phase, budget, writes>>

\* And then hashes it.
Hash ==
  /\ phase = "walk" /\ half # NoRow
  /\ IF tree[half.name] = Gone THEN Fail
     ELSE /\ rows' = Append(rows, [half EXCEPT !.bytes = tree[half.name].bytes])
          /\ half' = NoRow
          /\ at' = at + 1
          /\ UNCHANGED <<tree, archive, phase, budget, writes>>

DirsOf(s) == UNION {Dirs[n] : n \in Listed(s)}

\* memberAllowance and leastFilesCeiling: beside the files the host admits a
\* quarter as many directories again.
MemberAllowance(m) == m + m \div 4
StartCeiling(files, dirs) ==
  LET least == ((files + dirs) * 4) \div 5
  IN  IF least > files THEN least ELSE files
FilesCeiling(files, dirs) == files
LeastFilesCeiling(files, dirs) ==
  LET start == StartCeiling(files, dirs)
      up[m \in Nat] == IF MemberAllowance(m) < files + dirs THEN up[m + 1] ELSE m
  IN  up[start]

\* casefoldSiblings: two names of one directory that a filesystem would merge.
Clash(names) == \E c \in Clashes : Cardinality(c \cap names) > 1

\* The tree is judged before a byte is written.
Refused ==
  \/ rows = <<>>
  \/ Windows /\ \E i \in 1..Len(rows) : rows[i].exec
  \/ Len(rows) > budget.files
  \/ Len(rows) + Cardinality(DirsOf(rows)) > MemberAllowance(budget.files)
  \/ Clash(Listed(rows) \cup DirsOf(rows))
Judge ==
  /\ phase = "walk" /\ at > Len(FileNames) /\ half = NoRow
  /\ IF Refused THEN Fail
     ELSE phase' = "write" /\ at' = 1 /\ UNCHANGED <<tree, rows, half, archive, budget, writes>>

\* A file is read again into the archive: as many bytes as its row says, and
\* hashing to what its row says.
SameSize(f, row) == f.size = row.size
AsListed(f, row) == f.size = row.size /\ f.bytes = row.bytes
Copy ==
  /\ phase = "write" /\ at <= Len(rows)
  /\ LET f == tree[rows[at].name]
     IN  IF f = Gone \/ ~AsListed(f, rows[at]) THEN Fail
         ELSE /\ archive' = Append(archive, [name |-> rows[at].name, size |-> f.size,
                                             bytes |-> f.bytes, exec |-> rows[at].exec])
              /\ at' = at + 1
              /\ UNCHANGED <<tree, rows, half, phase, budget, writes>>

Finish ==
  /\ phase = "write" /\ at > Len(rows)
  /\ phase' = "done"
  /\ UNCHANGED <<tree, at, rows, half, archive, budget, writes>>

\* Something writes to the tree.
Disturb ==
  /\ phase \in {"walk", "write"} /\ writes < MaxWrites
  /\ \E i \in 1..Len(FileNames), v \in Versions \cup {Gone} : tree' = [tree EXCEPT ![FileNames[i]] = v]
  /\ writes' = writes + 1
  /\ UNCHANGED <<at, rows, half, archive, phase, budget>>

PackNext == Stat \/ Hash \/ Judge \/ Copy \/ Finish \/ Disturb

PackSpec == PackInit /\ [][PackNext]_packVars

\* What the report says (RuntimeArchive).
Files == Len(rows)
Directories == Cardinality(DirsOf(rows))
TreeDepth == Max({Depth(n) : n \in Listed(rows)})
\* requires_operator_ceilings, against a host's defaults.
Raised(host) ==
  [files |-> IF LeastFilesCeiling(Files, Directories) > host.files
             THEN LeastFilesCeiling(Files, Directories) ELSE host.files,
   depth |-> IF TreeDepth > host.depth THEN TreeDepth ELSE host.depth]
Admits(host, files, dirs, depth) ==
  files <= host.files /\ files + dirs <= MemberAllowance(host.files) /\ depth <= host.depth

\* The archive is what its inventory says (runtime.go): whatever is written to
\* the tree while it is packed, an archive that is reported carries, row for
\* row, the bytes the inventory lists, and the report's numbers are theirs.
ArchiveIsAsListed ==
  phase = "done" =>
    /\ Len(archive) = Len(rows)
    /\ \A i \in 1..Len(rows) : archive[i].name = rows[i].name /\ archive[i].size = rows[i].size
                               /\ archive[i].bytes = rows[i].bytes

\* The ceilings the report names are the ones that admit it
\* (RequiredCeilings): on every host, once the operator raises exactly what is
\* named the archive is admitted, and one file less would not admit it.
CeilingsAdmit ==
  phase = "done" =>
    \A host \in Hosts :
      /\ Admits(Raised(host), Files, Directories, TreeDepth)
      /\ Raised(host).files > host.files =>
           ~Admits([Raised(host) EXCEPT !.files = @ - 1], Files, Directories, TreeDepth)
=============================================================================

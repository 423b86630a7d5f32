------------------------------ MODULE Extraction ------------------------------
(***************************************************************************)
(* Sandbox.SaveSource (internal/sandbox/sandbox.go): an uploaded archive   *)
(* is unpacked entry by entry into submissions/<id>/.  What the archive    *)
(* holds is open: at every step it yields any entry, its end or an error.  *)
(*                                                                         *)
(*   step    where SaveSource is                                           *)
(*   format  what the magic bytes announce; tar.gz reads like tar          *)
(*   tree    path -> size of the file there, Directory or Absent           *)
(*   files, bytes   the counters of the extraction                         *)
(***************************************************************************)
EXTENDS Integers, FiniteSets, FiniteSetsExt

CONSTANTS
    Paths,        \* cleaned paths below the submission's directory
    Above,        \* path -> the directories above it
    Dockerfile,
    Entries,      \* what an archive may hold
    MaxFiles,     \* 5000
    FileCap,      \* 64 MiB, of one file
    MaxBytes      \* 256 MiB, of all files

ASSUME AboveAssumption == Above \in [Paths -> SUBSET Paths]
ASSUME DockerfileAssumption == Dockerfile \in Paths
ASSUME LimitsAssumption == MaxFiles \in Nat /\ FileCap \in Nat /\ MaxBytes \in Nat
ASSUME EntriesAssumption ==
    Entries \subseteq [path : Paths, kind : {"file", "dir", "link"}, size : Nat,
                       safe : BOOLEAN]

VARIABLES step, format, tree, files, bytes

extracting == <<step, format, tree, files, bytes>>

-----------------------------------------------------------------------------

Absent == -2
Directory == -1
EmptyTree == [p \in Paths |-> Absent]

Files(t) == {p \in Paths : t[p] >= 0}

\* Bytes the tree takes on disk.
DiskUse == MapThenSumSet(LAMBDA p : tree[p], Files(tree))

InitExtraction ==
    /\ step = "start"
    /\ format = "none"
    /\ tree = EmptyTree
    /\ files = 0
    /\ bytes = 0

\* The format is told by the magic bytes; what is neither gzip nor zip is
\* tried as a tar.
Open ==
    /\ step = "start"
    /\ format' \in {"tar", "zip"}
    /\ step' = "extract"
    /\ UNCHANGED <<tree, files, bytes>>

\* SaveSource returns; the extraction's locals are gone.
Return(outcome) == step' = outcome /\ format' = "none" /\ files' = 0 /\ bytes' = 0

\* An error: RemoveAll, and the submission fails.
Refuse == Return("refused") /\ tree' = EmptyTree

\* "..", absolute paths and, in a tar, anything but files and directories.
Skipped(e) == ~e.safe \/ (format = "tar" /\ e.kind = "link")

\* os.MkdirAll: a file in the way is an error.
CanMkdirAll(ps) == \A p \in ps : tree[p] \in {Absent, Directory}
MkdirAll(ps) == [p \in Paths |-> IF p \in ps THEN Directory ELSE tree[p]]

\* The next entry is read only while the total is within its limit.
Reading == step = "extract" /\ bytes <= MaxBytes

ExtractDir(e) ==
    /\ Reading
    /\ ~Skipped(e) /\ e.kind = "dir"
    /\ LET ps == Above[e.path] \cup {e.path}
       IN  IF CanMkdirAll(ps)
           THEN tree' = MkdirAll(ps) /\ UNCHANGED <<step, format, files, bytes>>
           ELSE Refuse

\* Fault: the total forgets the files before.
LastOnly(n) == n

\* totalBytes += written.
Counted(n) == bytes + n

\* The count is checked before a file is created, the total after it has been
\* written.  A zip's links are written like files.  The copy stops at FileCap
\* and says nothing.
ExtractFile(e) ==
    /\ Reading
    /\ ~Skipped(e) /\ e.kind # "dir"
    /\ LET written == Min({e.size, FileCap})
       IN  IF files < MaxFiles /\ CanMkdirAll(Above[e.path]) /\ tree[e.path] # Directory
           THEN /\ tree' = [MkdirAll(Above[e.path]) EXCEPT ![e.path] = written]
                /\ files' = files + 1
                /\ bytes' = Counted(written)
                /\ UNCHANGED <<step, format>>
           ELSE Refuse

OverTotal ==
    /\ step = "extract" /\ bytes > MaxBytes
    /\ Refuse

\* A corrupt archive or a failing disk.
Broken == step = "extract" /\ Refuse

\* os.Stat asks for the name only: a directory called Dockerfile passes, and
\* it is docker build that fails.
EndOfArchive ==
    /\ Reading
    /\ IF tree[Dockerfile] = Absent THEN Refuse
       ELSE Return("saved") /\ UNCHANGED tree

\* The gateway dies: nobody unpacks into this directory again.
Crash == step = "extract" /\ Return("dead") /\ UNCHANGED tree

SaveSource ==
    \/ Open
    \/ \E e \in Entries : ExtractDir(e) \/ ExtractFile(e)
    \/ OverTotal
    \/ Broken
    \/ EndOfArchive
    \/ Crash

-----------------------------------------------------------------------------
(* Properties.                                                             *)

\* Whatever the archive claims, overwrites or repeats, the directory never
\* takes more than the total limit and one capped file, nor more files than
\* allowed; what is handed to docker build is within the limit, and a refused
\* upload leaves nothing, however far it got ("Limits total extracted size to
\* 256MB and 5000 files").
DiskBounded ==
    /\ DiskUse <= MaxBytes + FileCap
    /\ Cardinality(Files(tree)) <= MaxFiles
    /\ step = "saved" => DiskUse <= MaxBytes
    /\ step = "refused" => tree = EmptyTree

\* Why: while the archive is read the counters are never behind the tree.
\* They run ahead of it where an entry overwrites another.
ExtractionInv ==
    /\ IsFiniteSet(Files(tree))
    /\ step \in {"start", "extract"} => DiskUse <= bytes /\ Cardinality(Files(tree)) <= files
    /\ DiskBounded

=============================================================================

------------------------------ MODULE Staging ------------------------------
(***************************************************************************)
(* Stages: qstar_graph_stage copies the files of a stage under a root and  *)
(* leaves a manifest of what it did; export_stage copies a staged layout   *)
(* to a second place.  Both run in the thread of the command that asked    *)
(* for them, one file after the other, and a build stands before the copy  *)
(* of every file a target or a rule makes.                                 *)
(*                                                                         *)
(* What that thread still has to do is the sequence work: the call stack   *)
(* of the C code, unfolded.  A file is known by the label that makes it or *)
(* by its own name, and its contents by the version of the project's       *)
(* inputs they come from.                                                  *)
(***************************************************************************)
EXTENDS Naturals, Sequences, FiniteSets, SequencesExt

CONSTANTS
  Targets,    \* labels of the targets
  Rules,      \* labels of the generated actions
  Stages,     \* labels of the stages
  Plain,      \* authored files nothing makes
  Files,      \* the files of each stage: a sequence of [src, dst]
  Root,       \* the root each stage is declared with
  Dirs,       \* package-relative directories something is copied to
  MaxVersion, \* bound: how often the project's inputs change
  MaxShort    \* bound: how many files are short at a time for bytes lost unnoticed

Makers == Targets \cup Rules
StageFiles(s) == {Files[s][k] : k \in 1..Len(Files[s])}

\* validate_stage: a root and files it can name, no destination twice
ValidStage(s) ==
  /\ Root[s] \in Dirs
  /\ Files[s] # <<>>
  /\ \A f \in StageFiles(s) : f.src \in Makers \cup Plain
  /\ \A j, k \in 1..Len(Files[s]) : j # k => Files[s][j].dst # Files[s][k].dst

ASSUME StagesAssumption ==
  /\ \A s \in Stages : ValidStage(s)
  /\ MaxVersion \in Nat /\ MaxShort \in Nat

Dsts == {f.dst : f \in UNION {StageFiles(s) : s \in Stages}}
\* the path of a file that is not below a directory something is copied to
Here(x) == <<".", x>>
Paths == {Here(x) : x \in Makers \cup Plain} \cup (Dirs \X Dsts)
Whole == 0..MaxVersion
Absent == MaxVersion + 1
Torn == MaxVersion + 2

NoManifest == [ok |-> FALSE, root |-> "none", dry |-> FALSE]

VARIABLES
  version,   \* the version of the project's inputs
  tree,      \* the contents of each file: a version, Absent or Torn
  manifest,  \* the manifest.json of each stage
  cut,       \* history: stages whose latest staging left no manifest of its own
  short,     \* history: files left short by a copy that counts as done
  work,      \* what the running step still has to do
  why        \* why the running step fails; "none" while it does not

stagingVars == <<version, tree, manifest, cut, short, work, why>>

Make(l)         == [do |-> "make", of |-> l]
Stage(s, r, d)  == [do |-> "stage", of |-> s, root |-> r, dry |-> d]
Export(s, r, d) == [do |-> "export", of |-> s, root |-> r, dry |-> d]
Commit(s, r, d, ok) == [do |-> "commit", of |-> s, root |-> r, dry |-> d, ok |-> ok]
Open(src, dst)  == [do |-> "open", src |-> src, dst |-> dst]
Write(src, dst) == [do |-> "write", src |-> src, dst |-> dst]

\* stage_file: nothing is built or copied in a dry run, and a file is copied
\* even when the destination already has its contents
FileWork(s, r, dry, k) ==
  LET f == Files[s][k] IN
  IF dry THEN <<>>
  ELSE (IF f.src \in Makers THEN <<Make(f.src)>> ELSE <<>>)
       \o <<Open(Here(f.src), <<r, f.dst>>), Write(Here(f.src), <<r, f.dst>>)>>

\* a staging without a root of its own uses the declared one
Own == "own"
RootOf(s, r) == IF r = Own THEN Root[s] ELSE r

StageWork(s, r, dry) ==
  FlattenSeq([k \in DOMAIN Files[s] |-> FileWork(s, RootOf(s, r), dry, k)])
    \o <<Commit(s, RootOf(s, r), dry, TRUE)>>

\* export_project_command_stage: the stage at its own root, then file by file
\* from that root
ExportWork(s, to, dry) ==
  LET Copy(k) == LET d == Files[s][k].dst IN
                 <<Open(<<Root[s], d>>, <<to, d>>), Write(<<Root[s], d>>, <<to, d>>)>>
  IN <<Stage(s, Own, dry)>>
       \o (IF dry THEN <<>> ELSE FlattenSeq([k \in DOMAIN Files[s] |-> Copy(k)]))

-----------------------------------------------------------------------------
Pending == work # <<>>
Now == Head(work)
Rest == Tail(work)

Committing == {k \in DOMAIN work : work[k].do = "commit"}

\* Mutation: an error ends the copying and the manifest is closed as it is.
FailQuietly(reason) ==
  /\ why' = reason
  /\ work' = IF Committing = {} THEN <<>>
             ELSE <<work[CHOOSE k \in Committing : \A j \in Committing : k <= j]>>

\* the first error ends the copying; the manifest is still closed, as failed
Fail(reason) ==
  /\ why' = reason
  /\ work' = IF Committing = {} THEN <<>>
             ELSE LET c == work[CHOOSE k \in Committing : \A j \in Committing : k <= j]
                  IN <<[c EXCEPT !.ok = FALSE]>>

\* the thread goes on with the rest of its work
Done == work' = Rest /\ UNCHANGED why

\* qstar_graph_stage and export_project_command_stage; no file of a stage is
\* touched when its new manifest cannot be begun
Unfold ==
  /\ Pending /\ Now.do \in {"stage", "export"}
  /\ \/ /\ Now.of \in Stages
        /\ work' = (IF Now.do = "stage" THEN StageWork(Now.of, Now.root, Now.dry)
                    ELSE ExportWork(Now.of, Now.root, Now.dry)) \o Rest
        /\ UNCHANGED why
     \/ Now.of \notin Stages /\ Fail("unknown stage")
     \/ Now.of \in Stages /\ Now.do = "stage" /\ Fail("manifest")
  /\ UNCHANGED <<version, tree, manifest, cut, short>>

\* a build of a label: its files are made from the inputs as they are now, or
\* the build fails; a label nothing builds is an error
MakeFile ==
  /\ Pending /\ Now.do = "make"
  /\ \/ /\ Now.of \in Makers
        /\ tree' = [tree EXCEPT ![Here(Now.of)] = version]
        /\ Done
     \/ Fail(IF Now.of \in Makers THEN "build" ELSE "unknown target") /\ UNCHANGED tree
  /\ UNCHANGED <<version, manifest, cut, short>>

\* A missing source is an error, as is a destination that cannot be opened or
\* has no directory; an opened destination is truncated, also when it is the
\* source itself.
OpenCopy ==
  /\ Pending /\ Now.do = "open"
  /\ \/ /\ tree[Now.src] # Absent
        /\ tree' = [tree EXCEPT ![Now.dst] = Torn]
        /\ short' = IF Now.src = Now.dst THEN short \cup {Now.dst} ELSE short
        /\ Done
     \/ Fail(IF tree[Now.src] = Absent THEN "missing" ELSE "copy") /\ UNCHANGED <<tree, short>>
  /\ UNCHANGED <<version, manifest, cut>>

\* The whole source is copied, or fwrite takes less and the copy fails; but
\* what only fclose could tell, or ferror of the source, is not asked, and the
\* copy counts as done.
WriteCopy ==
  /\ Pending /\ Now.do = "write"
  /\ \/ /\ tree' = [tree EXCEPT ![Now.dst] = tree[Now.src]]
        /\ short' = IF Now.src \in short THEN short \cup {Now.dst} ELSE short \ {Now.dst}
        /\ Done
     \/ Fail("copy") /\ UNCHANGED <<tree, short>>
     \/ Cardinality(short) < MaxShort /\ short' = short \cup {Now.dst} /\ Done /\ UNCHANGED tree
  /\ UNCHANGED <<version, manifest, cut>>

\* stage_manifest_end: the temporary file takes the place of the manifest, or
\* that fails and the manifest of an earlier staging stays
CommitManifest ==
  /\ Pending /\ Now.do = "commit"
  /\ \/ /\ manifest' = [manifest EXCEPT ![Now.of] = [ok |-> Now.ok, root |-> Now.root, dry |-> Now.dry]]
        /\ cut' = cut \ {Now.of}
        /\ Done
     \/ /\ cut' = cut \cup {Now.of}
        /\ why' = IF why = "none" THEN "manifest" ELSE why
        /\ work' = <<>>
        /\ UNCHANGED manifest
  /\ UNCHANGED <<version, tree, short>>

StagingStep == Unfold \/ MakeFile \/ OpenCopy \/ WriteCopy \/ CommitManifest

\* the process is killed where it stands; what it wrote stays
StagingKilled ==
  /\ cut' = cut \cup {work[k].of : k \in Committing}
  /\ work' = <<>>
  /\ UNCHANGED <<version, tree, manifest, short, why>>

StagingInit ==
  /\ version = 0
  /\ \E there \in SUBSET Plain :
       tree = [p \in Paths |-> IF p \in {Here(x) : x \in there} THEN 0 ELSE Absent]
  /\ manifest = [s \in Stages |-> NoManifest]
  /\ cut = {}
  /\ short = {}
  /\ work = <<>>
  /\ why = "none"

-----------------------------------------------------------------------------
Contents == Whole \cup {Absent, Torn}

StagingTypeOK ==
  /\ version \in Whole
  /\ tree \in [Paths -> Contents]
  /\ manifest \in [Stages -> [ok : BOOLEAN, root : Dirs \cup {"none"}, dry : BOOLEAN]]
  /\ cut \subseteq Stages
  /\ short \subseteq Paths

\* what a file holds once everything it comes from has been made again; a
\* directory holds a stage but for the files that are lost
Fresh(src) == IF src \in Makers THEN version ELSE tree[Here(src)]
Holds(s, dir, lost) ==
  \A f \in StageFiles(s) : <<dir, f.dst>> \in lost \/ tree[<<dir, f.dst>>] = Fresh(f.src)

\* A manifest that says ok and copy tells what is on disk: every file it lists
\* is there and whole, unless a later staging of that stage is under way or
\* ended without a manifest of its own, killed or unable to commit it, or a
\* copy counted as done left the file short (stage_manifest_end, and the break
\* out of the copy loop of qstar_graph_stage that makes it say fail).
ManifestTellsTree ==
  \A s \in Stages :
    LET m == manifest[s] IN
    m.ok /\ ~m.dry /\ s \notin cut /\ s \notin {work[k].of : k \in Committing} =>
      \A f \in StageFiles(s) : <<m.root, f.dst>> \in short \/ tree[<<m.root, f.dst>>] \in Whole
=============================================================================

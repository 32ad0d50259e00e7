----------------------------- MODULE ActionCache -----------------------------
(***************************************************************************)
(* The local action cache as one action meets it: look up, restore, run,   *)
(* store.  Of src/src/action_cache.c, with the calls that executor.c makes *)
(* of it.                                                                  *)
(*                                                                         *)
(* An entry is three files, an alias a fourth; they are replaced one after *)
(* the other, and the builder may be killed in between.  Builds follow one *)
(* another while files change, outputs are cleaned and blobs rot.  Every   *)
(* key begins with the action's id, so actions do not meet in the cache.   *)
(* The tool and the environment are in the key like inputs, and stand      *)
(* among them here.                                                        *)
(***************************************************************************)
EXTENDS Naturals, FiniteSets, Sequences, SequencesExt

CONSTANTS
    File,      \* what the action can read
    Content,   \* what a file can contain
    Static,    \* the inputs the graph gives the action, in order
    DepsOf,    \* DepsOf[c]: the depfile a compiler writes for contents c
    Starts,    \* the contents a behaviour starts with
    Kinds,     \* "compile" (with a depfile) and "generate" (without)
    MaxEdits,  \* bound on the changes of a behaviour
    Absent,    \* no such file
    Broken     \* a partly written or damaged file

ASSUME ValueAssumption ==
    /\ Absent \notin Content /\ Static \in Seq(File) /\ Static # <<>>
    /\ Kinds \subseteq {"compile", "generate"} /\ MaxEdits \in Nat

Contents == [File -> Content \cup {Absent}]

\* What a compiler reads depends on nothing but what it reads.
ASSUME CompilerAssumption ==
    /\ DepsOf \in [Contents -> Seq(File)]
    /\ Starts \subseteq Contents
    /\ \A c, d \in Contents :
          (\A f \in ToSet(DepsOf[c]) : c[f] = d[f]) => DepsOf[d] = DepsOf[c]

VARIABLES
    kind,      \* the kind of the action, fixed
    content,   \* content[f]: what f contains now
    edits,     \* number of changes so far
    output,    \* the action's output: what it was made from
    depfile,   \* the action's depfile: the list in it
    \* the cache, each file by its key
    manifest, blob, depblob, alias,
    \* the build in progress
    step,      \* the step it is at, "idle" between builds
    job,       \* what it has prepared and looked up
    verdict    \* how the last build ended, "none" when the tree changed since

tree == <<kind, content, edits, output, depfile>>
cache == <<manifest, blob, depblob, alias>>
vars == <<tree, cache, step, job, verdict>>

NoList == <<>>

\* What s lists and t does not, in the order of s.
Without(s, t) ==
    LET kept == {i \in DOMAIN s : s[i] \notin ToSet(t)}
        Rank(i) == Cardinality({h \in kept : h <= i})
    IN  [n \in 1..Cardinality(kept) |-> s[CHOOSE i \in kept : Rank(i) = n]]

Put(f, k, v) == [j \in DOMAIN f \cup {k} |-> IF j = k THEN v ELSE f[j]]
Drop(f, k) == [j \in DOMAIN f \ {k} |-> f[j]]

-----------------------------------------------------------------------------
\* The action itself.

Reads == IF kind = "compile" THEN ToSet(DepsOf[content]) ELSE ToSet(Static)

Runnable == \A f \in Reads : content[f] # Absent

\* What the action makes now.
Made == [f \in Reads |-> content[f]]

-----------------------------------------------------------------------------
\* Keys.

Digest(list) == [i \in DOMAIN list |-> <<list[i], content[list[i]]>>]

\* A depfile that lists a missing file cannot be parsed.
Parses(list) == \A f \in ToSet(list) : content[f] # Absent

\* The inputs in a key: those given, then what the depfile adds.
Effective(inputs, list) == inputs \o Without(list, inputs)

\* qstar_action_cache_evaluate.
Key(inputs, list) == Digest(Effective(inputs, list))
BaseKey(inputs) == Digest(inputs)

-----------------------------------------------------------------------------
\* An entry whose manifest describes its blobs.
Intact(k) ==
    /\ k \in DOMAIN manifest
    /\ k \in DOMAIN blob /\ blob[k] = manifest[k].out
    /\ kind = "compile" => k \in DOMAIN depblob /\ depblob[k] = manifest[k].dep

\* The key and base key of the evaluation, the entry looked at, whether the
\* alias led to it, and whether the process has run.
NoJob == [inputs |-> <<>>, key |-> <<>>, base |-> <<>>, entry |-> <<>>,
          byAlias |-> FALSE, ran |-> FALSE]

Init ==
    /\ kind \in Kinds
    /\ content \in Starts
    /\ edits = 0
    /\ output = Absent /\ depfile = NoList
    /\ manifest = <<>> /\ blob = <<>> /\ depblob = <<>> /\ alias = <<>>
    /\ step = "idle" /\ job = NoJob /\ verdict = "none"

-----------------------------------------------------------------------------
\* Between builds.

\* A file is written or removed; what the graph lists stays.
Edit(f, c) ==
    /\ step = "idle"
    /\ edits < MaxEdits
    /\ c # content[f] /\ (f \in ToSet(Static) => c # Absent)
    /\ content' = [content EXCEPT ![f] = c]
    /\ edits' = edits + 1
    /\ verdict' = "none"
    /\ job' = NoJob
    /\ UNCHANGED <<kind, output, depfile, cache, step>>

\* qstar clean of the target keeps the cache.
Clean ==
    /\ step = "idle"
    /\ output' = Absent /\ depfile' = NoList
    /\ verdict' = "none"
    /\ job' = NoJob
    /\ UNCHANGED <<kind, content, edits, cache, step>>

\* A blob is damaged.
Rot(k) ==
    /\ step = "idle"
    /\ edits < MaxEdits
    /\ k \in DOMAIN blob
    /\ blob' = [blob EXCEPT ![k] = Broken]
    /\ edits' = edits + 1
    /\ verdict' = "none"
    /\ job' = NoJob
    /\ UNCHANGED <<kind, content, output, depfile, manifest, depblob, alias, step>>

-----------------------------------------------------------------------------
\* Look up and restore.

\* What a build knows goes with it.
End(how) == step' = "idle" /\ verdict' = how /\ job' = NoJob

\* The inputs are those of the graph and those the depfile on disk lists.
Prepare ==
    /\ step = "idle"
    /\ LET inputs == Effective(Static, depfile)
       IN  IF Parses(depfile)
           THEN /\ job' = [NoJob EXCEPT !.inputs = inputs, !.key = Key(inputs, depfile),
                                        !.base = BaseKey(inputs)]
                /\ step' = "lookup"
                /\ verdict' = "none"
           ELSE End("failed")
    /\ UNCHANGED <<tree, cache>>

Aliased == job.base \in DOMAIN alias /\ alias[job.base] \in DOMAIN manifest

LookUpKey ==
    /\ step = "lookup"
    /\ job.key \in DOMAIN manifest
    /\ job' = [job EXCEPT !.entry = job.key]
    /\ step' = "verify"
    /\ UNCHANGED <<tree, cache, verdict>>

LookUpAlias ==
    /\ step = "lookup"
    /\ job.key \notin DOMAIN manifest
    /\ Aliased
    /\ job' = [job EXCEPT !.entry = alias[job.base], !.byAlias = TRUE]
    /\ step' = "verify"
    /\ UNCHANGED <<tree, cache, verdict>>

Miss ==
    /\ step = "lookup"
    /\ job.key \notin DOMAIN manifest
    /\ ~Aliased
    /\ step' = "run"
    /\ UNCHANGED <<tree, cache, job, verdict>>

Verify ==
    /\ step = "verify"
    /\ step' = IF ~Intact(job.entry) THEN "discard"
               ELSE IF job.byAlias /\ kind = "compile" THEN "depfile" ELSE "restore"
    /\ UNCHANGED <<tree, cache, job, verdict>>

\* An entry found by its alias brings its depfile with it, which then decides:
\* the key it gives with the present headers must be the entry's.
RestoreDepfile ==
    /\ step = "depfile"
    /\ depfile' = depblob[job.entry]
    /\ step' = "recheck"
    /\ UNCHANGED <<kind, content, edits, output, cache, job, verdict>>

\* Mutation: whatever the alias leads to is restored.
SameKeyAnyway == TRUE

SameKey == Key(job.inputs, depfile) = job.entry

Recheck ==
    /\ step = "recheck"
    /\ IF Parses(depfile)
       THEN /\ step' = IF SameKey THEN "restore" ELSE "run"
            /\ UNCHANGED <<job, verdict>>
       ELSE End("lookup-failed")
    /\ UNCHANGED <<tree, cache>>

Restore ==
    /\ step = "restore"
    /\ output' = blob[job.entry]
    /\ End("hit")
    /\ UNCHANGED <<kind, content, edits, depfile, cache>>

\* cache_discard_entry, from the restore or from the store: the blob goes
\* first, then the manifest, then the depfile blob.
DiscardBlob ==
    /\ step = "discard"
    /\ blob' = Drop(blob, job.entry)
    /\ step' = "discard-manifest"
    /\ UNCHANGED <<tree, manifest, depblob, alias, job, verdict>>

DiscardManifest ==
    /\ step = "discard-manifest"
    /\ manifest' = Drop(manifest, job.entry)
    /\ step' = "discard-depfile"
    /\ UNCHANGED <<tree, blob, depblob, alias, job, verdict>>

DiscardDepfile ==
    /\ step = "discard-depfile"
    /\ depblob' = Drop(depblob, job.entry)
    /\ step' = IF job.ran THEN "put-depfile" ELSE "run"
    /\ UNCHANGED <<tree, manifest, blob, alias, job, verdict>>

-----------------------------------------------------------------------------
\* Run and store.

Run ==
    /\ step = "run"
    /\ Runnable
    /\ output' = Made
    /\ depfile' = IF kind = "compile" THEN DepsOf[content] ELSE depfile
    /\ job' = [job EXCEPT !.ran = TRUE]
    /\ step' = "store"
    /\ UNCHANGED <<kind, content, edits, cache, verdict>>

\* Mutation: the key of the lookup is stored under.
StoreKeyOfLookup == job.key

\* prepared_action_cache_store evaluates anew: the depfile is there now.
StoreKey == Key(job.inputs, depfile)

AlreadyPresent(k) == Intact(k)

Store ==
    /\ step = "store"
    /\ job' = [job EXCEPT !.key = StoreKey, !.base = BaseKey(job.inputs), !.entry = StoreKey]
    /\ step' = IF AlreadyPresent(StoreKey) THEN "put-alias"
               ELSE IF StoreKey \in DOMAIN manifest THEN "discard" ELSE "put-depfile"
    /\ UNCHANGED <<tree, cache, verdict>>

PutDepfile ==
    /\ step = "put-depfile"
    /\ depblob' = IF kind = "compile" THEN Put(depblob, job.entry, depfile) ELSE depblob
    /\ step' = "put-blob"
    /\ UNCHANGED <<tree, manifest, blob, alias, job, verdict>>

PutBlob ==
    /\ step = "put-blob"
    /\ blob' = Put(blob, job.entry, output)
    /\ step' = "put-manifest"
    /\ UNCHANGED <<tree, manifest, depblob, alias, job, verdict>>

PutManifest ==
    /\ step = "put-manifest"
    /\ manifest' = Put(manifest, job.entry, [out |-> output, dep |-> depfile])
    /\ step' = "put-alias"
    /\ UNCHANGED <<tree, blob, depblob, alias, job, verdict>>

\* Mutation: the alias is named after the key of the entry.
AliasNameKey == job.key

AliasName == job.base

PutAlias ==
    /\ step = "put-alias"
    /\ alias' = Put(alias, AliasName, job.entry)
    /\ step' = "idle" /\ verdict' = "ran"
    /\ UNCHANGED <<tree, manifest, blob, depblob, job>>

-----------------------------------------------------------------------------
\* The builder is killed, or a step fails.

\* A depfile is written from its start.
CutShort(list) == \E n \in 0..Len(list) : depfile' = SubSeq(list, 1, n)

\* The process fails, or is killed with the builder.
RunFails ==
    /\ step = "run"
    /\ output' \in {output, Absent, Broken}
    /\ IF kind = "compile" THEN depfile' = depfile \/ CutShort(DepsOf[content])
                           ELSE UNCHANGED depfile
    /\ End("failed")
    /\ UNCHANGED <<kind, content, edits, cache>>

\* cache_copy_file writes the destination in place.
RestoreFails ==
    /\ step \in {"depfile", "restore"}
    /\ IF step = "depfile" THEN CutShort(depblob[job.entry]) /\ UNCHANGED output
                           ELSE output' = Broken /\ UNCHANGED depfile
    /\ End("failed")
    /\ UNCHANGED <<kind, content, edits, cache>>

\* A cache file is removed before its new version takes its name.
PutFails ==
    /\ step \in {"put-depfile", "put-blob", "put-manifest", "put-alias"}
    /\ depblob' = IF step = "put-depfile" THEN Drop(depblob, job.entry) ELSE depblob
    /\ blob' = IF step = "put-blob" THEN Drop(blob, job.entry) ELSE blob
    /\ manifest' = IF step = "put-manifest" THEN Drop(manifest, job.entry) ELSE manifest
    /\ alias' = IF step = "put-alias" THEN Drop(alias, AliasName) ELSE alias
    /\ End("failed")
    /\ UNCHANGED tree

\* Any other step is the last one of its build.
Killed ==
    /\ step # "idle"
    /\ End("failed")
    /\ UNCHANGED <<tree, cache>>

-----------------------------------------------------------------------------
Between ==
    \/ \E f \in File, c \in Content \cup {Absent} : Edit(f, c)
    \/ Clean
    \/ \E k \in DOMAIN blob : Rot(k)

Build ==
    \/ Prepare \/ LookUpKey \/ LookUpAlias \/ Miss
    \/ Verify \/ RestoreDepfile \/ Recheck \/ Restore
    \/ DiscardBlob \/ DiscardManifest \/ DiscardDepfile
    \/ Run \/ Store \/ PutDepfile \/ PutBlob \/ PutManifest \/ PutAlias
    \/ RunFails \/ RestoreFails \/ PutFails \/ Killed

Next == Between \/ Build

Spec == Init /\ [][Next]_vars

-----------------------------------------------------------------------------
Outputs == UNION {[S -> Content] : S \in SUBSET File}
KeySet == Seq(File \X (Content \cup {Absent}))
Steps == {"idle", "lookup", "verify", "depfile", "recheck", "restore", "discard",
          "discard-manifest", "discard-depfile", "run", "store", "put-depfile",
          "put-blob", "put-manifest", "put-alias"}

TypeOK ==
    /\ kind \in Kinds /\ content \in Contents /\ edits \in 0..MaxEdits
    /\ output \in Outputs \cup {Absent, Broken} /\ depfile \in Seq(File)
    /\ \A k \in DOMAIN manifest :
          k \in KeySet /\ manifest[k].out \in Outputs /\ manifest[k].dep \in Seq(File)
    /\ \A k \in DOMAIN blob : k \in KeySet /\ blob[k] \in Outputs \cup {Broken}
    /\ \A k \in DOMAIN depblob : k \in KeySet /\ depblob[k] \in Seq(File)
    /\ \A b \in DOMAIN alias : b \in KeySet /\ alias[b] \in KeySet
    /\ step \in Steps
    /\ job.inputs \in Seq(File) /\ {job.key, job.base, job.entry} \subseteq KeySet
    /\ verdict \in {"none", "hit", "ran", "failed", "lookup-failed"}

(***************************************************************************)
(* When a build has ended well, whether it ran the action or restored it,  *)
(* the output is what the action would make of the tree as it is: through  *)
(* an alias, over a rotten blob, after a crash between the files of an     *)
(* entry, with any depfile a killed process or a restore left behind.      *)
(***************************************************************************)
BuiltIsFresh == TypeOK /\ (verdict \in {"hit", "ran"} => output = Made)

(***************************************************************************)
(* An entry is good for ever, whatever the tree is now: every file its     *)
(* output was made from is in its key, with the contents it had.           *)
(***************************************************************************)
EntriesVouch ==
    \A k \in DOMAIN manifest : Intact(k) =>
      LET made == manifest[k].out
      IN  \A f \in DOMAIN made : <<f, made[f]>> \in ToSet(k)

(***************************************************************************)
(* No step of a lookup or a store, and no crash in one, loses an entry     *)
(* that was intact: only damage does.                                      *)
(***************************************************************************)
CommittedStays ==
    \A k \in DOMAIN manifest : Intact(k) =>
      k \in DOMAIN blob' /\ (Intact(k)' \/ blob'[k] = Broken)

(***************************************************************************)
(* An entry is true when it appears and stays until it is damaged.         *)
(***************************************************************************)
EntriesKept == [][EntriesVouch' /\ CommittedStays]_vars

(***************************************************************************)
(* What a build from a clean target has stored is found by the next one    *)
(* that starts clean: the base key of the store is the base key of that    *)
(* lookup, and the depfile it brings gives the key of the entry.           *)
(* (docs/local-action-cache.md: "Target 단위 `qstar clean //:label`은      *)
(* CAS를 유지하므로 output이 지워진 뒤 복원할 수 있다")                    *)
(***************************************************************************)
StoredIsFound ==
    verdict = "ran" /\ job.inputs = Static =>
      LET b == BaseKey(Static)
      IN  /\ b \in DOMAIN alias
          /\ Intact(alias[b])
          /\ alias[b] = Key(Static, depfile)

(***************************************************************************)
(* A header that has changed since an entry was stored makes the lookup a  *)
(* miss, and the action runs: "Header가 바뀌면 `dependency-changed` miss로 *)
(* 처리하며 object를 복원하지 않는다" (docs/local-action-cache.md:131)     *)
(***************************************************************************)
HeaderChangeIsMiss == verdict = "lookup-failed" => ~Runnable
=============================================================================

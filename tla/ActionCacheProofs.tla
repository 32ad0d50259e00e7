--------------------------- MODULE ActionCacheProofs ---------------------------
(***************************************************************************)
(* Theorems about ActionCache, for every set of files and contents, every  *)
(* compiler and every number of edits.                                     *)
(***************************************************************************)
EXTENDS ActionCache, FiniteSetTheorems, SequenceTheorems, TLAPS

JobRecord == [inputs : Seq(File), key : KeySet, base : KeySet, entry : KeySet,
              byAlias : BOOLEAN, ran : BOOLEAN]

TypeInv ==
    /\ kind \in Kinds /\ content \in Contents /\ edits \in 0..MaxEdits
    /\ output \in Outputs \cup {Absent, Broken} /\ depfile \in Seq(File)
    /\ \A k \in DOMAIN manifest : k \in KeySet /\ manifest[k].dep \in Seq(File)
    /\ \A k \in DOMAIN blob : k \in KeySet /\ blob[k] \in Outputs \cup {Broken}
    /\ \A k \in DOMAIN depblob : k \in KeySet /\ depblob[k] \in Seq(File)
    /\ \A b \in DOMAIN alias : b \in KeySet /\ alias[b] \in KeySet
    /\ step \in Steps /\ job \in JobRecord
    /\ verdict \in {"none", "hit", "ran", "failed", "lookup-failed"}

\* What the action reads, and makes, of contents c.
ReadsOf(c) == IF kind = "compile" THEN ToSet(DepsOf[c]) ELSE ToSet(Static)
MadeOf(c) == [f \in ReadsOf(c) |-> c[f]]

\* The key k lists everything that was read.
Vouches(k, c) == \A f \in ReadsOf(c) : c[f] # Absent /\ <<f, c[f]>> \in ToSet(k)

\* A manifest tells of contents that its key vouches for.  Without a depfile
\* the key and the base key are one, and the alias of an entry is its name.
CacheInv ==
    /\ \A k \in DOMAIN manifest : \E c \in Contents : manifest[k].out = MadeOf(c) /\ Vouches(k, c)
    /\ kind = "generate" => depfile = NoList /\ \A b \in DOMAIN alias : alias[b] = b

\* The keys of the job as it stands.
JobKey == Key(job.inputs, depfile)
JobBase == BaseKey(job.inputs)

\* The job between builds, and what it knows of the tree during one.
JobInv ==
    /\ step # "idle" =>
         /\ verdict = "none" /\ job.base = JobBase
         /\ ToSet(Static) \subseteq ToSet(job.inputs)
         /\ kind = "generate" => job.inputs = Static
    /\ step \in {"lookup", "verify"} => ~job.ran
    /\ step = "lookup" => job.key = JobKey
    /\ step = "verify" =>
         job.entry \in DOMAIN manifest
           /\ (~job.byAlias \/ kind = "generate" => job.entry = JobKey)
    /\ step \in {"depfile", "recheck"} => job.byAlias /\ kind = "compile"
    /\ step \in {"depfile", "recheck", "restore"} => Intact(job.entry)
    /\ step = "restore" => job.entry = JobKey
    /\ step = "discard" => ~Intact(job.entry)
    /\ step = "discard-manifest" => job.entry \notin DOMAIN blob
    /\ step = "discard-depfile" => job.entry \notin DOMAIN manifest

Discards == {"discard", "discard-manifest", "discard-depfile"}
Puts == {"put-depfile", "put-blob", "put-manifest", "put-alias"}

\* From the run of the action to the end of the build.
StoreInv ==
    /\ step \in {"store"} \cup Puts \/ (step \in Discards /\ job.ran) =>
         Runnable /\ output = Made /\ (kind = "compile" => depfile = DepsOf[content])
    /\ step \in Puts \/ (step \in Discards /\ job.ran) => job.entry = JobKey
    /\ step \in {"put-depfile", "put-blob", "put-manifest"} => job.entry \notin DOMAIN manifest
    /\ step \in {"put-blob", "put-manifest"} /\ kind = "compile" =>
         job.entry \in DOMAIN depblob /\ depblob[job.entry] = depfile
    /\ step = "put-manifest" => job.entry \in DOMAIN blob /\ blob[job.entry] = output
    /\ step = "put-alias" => Intact(job.entry)
    /\ verdict \in {"hit", "ran"} => step = "idle" /\ output = Made
    /\ verdict = "ran" =>
         /\ job.base = JobBase /\ job.base \in DOMAIN alias
         /\ alias[job.base] = JobKey
         /\ Intact(alias[job.base])

IInv == TypeInv /\ CacheInv /\ JobInv /\ StoreInv

-----------------------------------------------------------------------------
\* Lists.

LEMMA ToSetOf ==
  ASSUME NEW S, NEW s \in Seq(S)
  PROVE  /\ ToSet(s) \subseteq S
         /\ \A x : x \in ToSet(s) <=> \E i \in 1..Len(s) : s[i] = x
BY DEF ToSet

LEMMA ConcatOf ==
  ASSUME NEW S, NEW s \in Seq(S), NEW t \in Seq(S)
  PROVE  s \o t \in Seq(S) /\ ToSet(s \o t) = ToSet(s) \cup ToSet(t)
<1>1. s \o t \in Seq(S) /\ Len(s \o t) = Len(s) + Len(t)
  OBVIOUS
<1>2. ASSUME NEW x \in ToSet(s) PROVE x \in ToSet(s \o t)
  <2>1. PICK i \in 1..Len(s) : s[i] = x
    BY ToSetOf
  <2>2. i \in 1..Len(s \o t) /\ (s \o t)[i] = x
    BY <1>1, <2>1
  <2> QED
    BY <1>1, <2>2, ToSetOf
<1>3. ASSUME NEW x \in ToSet(t) PROVE x \in ToSet(s \o t)
  <2>1. PICK i \in 1..Len(t) : t[i] = x
    BY ToSetOf
  <2>2. Len(s) + i \in 1..Len(s \o t) /\ (s \o t)[Len(s) + i] = x
    BY <1>1, <2>1
  <2> QED
    BY <1>1, <2>2, ToSetOf
<1>4. ASSUME NEW x \in ToSet(s \o t) PROVE x \in ToSet(s) \cup ToSet(t)
  <2>1. PICK i \in 1..Len(s \o t) : (s \o t)[i] = x
    BY <1>1, ToSetOf
  <2>2. CASE i <= Len(s)
    <3>1. i \in 1..Len(s) /\ s[i] = x
      BY <1>1, <2>1, <2>2
    <3> QED
      BY <3>1, ToSetOf
  <2>3. CASE i > Len(s)
    <3>1. i - Len(s) \in 1..Len(t) /\ t[i - Len(s)] = x
      BY <1>1, <2>1, <2>3
    <3> QED
      BY <3>1, ToSetOf
  <2> QED
    BY <1>1, <2>2, <2>3
<1> QED
  BY <1>1, <1>2, <1>3, <1>4

\* Without keeps what it should, once: the elements kept have the ranks from 1
\* to their number, each its own.
LEMMA Ranks ==
  ASSUME NEW kept \in SUBSET Nat, IsFiniteSet(kept)
  PROVE  LET Rank(i) == Cardinality({h \in kept : h <= i})
         IN  /\ \A i \in kept : Rank(i) \in 1..Cardinality(kept)
             /\ \A i, j \in kept : Rank(i) = Rank(j) => i = j
             /\ \A n \in 1..Cardinality(kept) : \E i \in kept : Rank(i) = n
<1> DEFINE Below(i) == {h \in kept : h <= i}
           Rank(i) == Cardinality(Below(i))
           N == Cardinality(kept)
<1>1. N \in Nat
  BY FS_CardinalityType
<1>2. ASSUME NEW i \in kept
      PROVE  IsFiniteSet(Below(i)) /\ Rank(i) \in Nat /\ Rank(i) <= N /\ Rank(i) # 0
  <2>1. Below(i) \in SUBSET kept /\ i \in Below(i)
    OBVIOUS
  <2>2. IsFiniteSet(Below(i)) /\ Rank(i) <= N
    BY <2>1, FS_Subset
  <2> QED
    BY <2>1, <2>2, FS_CardinalityType, FS_EmptySet
<1>3. ASSUME NEW i \in kept, NEW j \in kept, Rank(i) = Rank(j), i < j PROVE FALSE
  <2> i \in Nat /\ j \in Nat /\ ~(j <= i) /\ j <= j
    BY <1>3
  <2>0. \A h \in Below(i) : h \in Nat /\ h <= i /\ h <= j
    BY <1>3
  <2>1. Below(i) \in SUBSET Below(j) /\ j \in Below(j) /\ j \notin Below(i)
    BY <2>0
  <2>2. Below(j) = Below(i)
    BY <1>2, <1>3, <2>1, FS_Subset
  <2> QED
    BY <2>1, <2>2
<1>4. \A i, j \in kept : Rank(i) = Rank(j) => i = j
  BY <1>3
<1> DEFINE f == [i \in kept |-> Rank(i)]
<1>5. f \in Injection(kept, 1..N)
  <2>1. \A i \in kept : Rank(i) \in 1..N
    BY <1>1, <1>2
  <2> HIDE DEF Rank, N
  <2>2. f \in [kept -> 1..N]
    BY <2>1
  <2>3. \A i, j \in DOMAIN f : f[i] = f[j] => i = j
    BY <1>4
  <2> QED
    BY <2>2, <2>3 DEF Injection, IsInjective
<1>6. IsFiniteSet(1..N) /\ Cardinality(1..N) = N
  BY <1>1, FS_Interval
<1>7. f \in Surjection(kept, 1..N)
  BY <1>5, <1>6, FS_Injection
<1>8. \A n \in 1..N : \E i \in kept : Rank(i) = n
  BY <1>7 DEF Surjection
<1> QED
  BY <1>1, <1>2, <1>4, <1>8

LEMMA WithoutOf ==
  ASSUME NEW S, NEW s \in Seq(S), NEW t
  PROVE  /\ Without(s, t) \in Seq(S)
         /\ \A x \in ToSet(s) \ ToSet(t) : x \in ToSet(Without(s, t))
<1> DEFINE kept == {i \in DOMAIN s : s[i] \notin ToSet(t)}
           Rank(i) == Cardinality({h \in kept : h <= i})
           N == Cardinality(kept)
           w == [n \in 1..N |-> s[CHOOSE i \in kept : Rank(i) = n]]
<1>1. kept \in SUBSET Nat /\ kept \subseteq 1..Len(s) /\ IsFiniteSet(kept) /\ N \in Nat
  <2>1. kept \in SUBSET (1..Len(s)) /\ Len(s) \in Nat
    OBVIOUS
  <2>2. IsFiniteSet(kept)
    BY <2>1, FS_Interval, FS_Subset
  <2> QED
    BY <2>1, <2>2, FS_CardinalityType
<1>2. /\ \A i \in kept : Rank(i) \in 1..N
      /\ \A i, j \in kept : Rank(i) = Rank(j) => i = j
      /\ \A n \in 1..N : \E i \in kept : Rank(i) = n
  BY <1>1, Ranks
<1>3. Without(s, t) = w
  BY DEF Without
<1> HIDE DEF Rank
<1>4. \A n \in 1..N : (CHOOSE i \in kept : Rank(i) = n) \in kept
  BY <1>2
<1>5. \A i \in kept : (CHOOSE j \in kept : Rank(j) = Rank(i)) = i
  BY <1>2
<1> HIDE DEF N
<1>6. w \in [1..N -> S]
  <2>1. \A i \in kept : s[i] \in S
    BY <1>1
  <2> HIDE DEF kept
  <2> QED
    BY <1>4, <2>1
<1>7. w \in Seq(S) /\ Len(w) = N
  <2> HIDE DEF w
  <2>1. \A g \in [1..N -> S] : g \in Seq(S) /\ Len(g) = N
    BY <1>1
  <2> QED
    BY <1>6, <2>1
<1>8. ASSUME NEW x \in ToSet(s), x \notin ToSet(t) PROVE x \in ToSet(w)
  <2>1. PICK i \in 1..Len(s) : s[i] = x
    BY ToSetOf
  <2>2. i \in kept
    BY <1>8, <2>1
  <2>3. Rank(i) \in 1..Len(w) /\ w[Rank(i)] = x
    BY <1>2, <1>5, <1>7, <2>1, <2>2
  <2> HIDE DEF w
  <2> QED
    BY <1>7, <2>3, ToSetOf
<1> HIDE DEF w
<1> QED
  BY <1>3, <1>7, <1>8

LEMMA WithoutNothing ==
  ASSUME NEW t
  PROVE  Without(<<>>, t) = <<>>
<1> DEFINE kept == {i \in DOMAIN <<>> : <<>>[i] \notin ToSet(t)}
<1>1. kept = {}
  OBVIOUS
<1>2. Cardinality(kept) = 0
  BY <1>1, FS_EmptySet
<1> QED
  BY <1>2 DEF Without

-----------------------------------------------------------------------------
\* Keys, and what the action makes.

LEMMA EffectiveOf ==
  ASSUME NEW a \in Seq(File), NEW l \in Seq(File)
  PROVE  /\ Effective(a, l) \in Seq(File)
         /\ ToSet(a) \cup ToSet(l) \subseteq ToSet(Effective(a, l))
<1>1. /\ Without(l, a) \in Seq(File)
      /\ \A f \in ToSet(l) \ ToSet(a) : f \in ToSet(Without(l, a))
  BY WithoutOf
<1> QED
  BY <1>1, ConcatOf DEF Effective

LEMMA DigestOf ==
  ASSUME content \in Contents, NEW l \in Seq(File)
  PROVE  /\ Digest(l) \in KeySet
         /\ \A f \in ToSet(l) : <<f, content[f]>> \in ToSet(Digest(l))
         /\ \A f, v : <<f, v>> \in ToSet(Digest(l)) => v = content[f]
<1> DEFINE T == File \X (Content \cup {Absent})
           d == Digest(l)
<1>1. /\ DOMAIN l = 1..Len(l) /\ Len(l) \in Nat
      /\ \A i \in 1..Len(l) : l[i] \in File
  OBVIOUS
<1>2. d = [i \in 1..Len(l) |-> <<l[i], content[l[i]]>>]
  BY <1>1 DEF Digest
<1>3. d \in [1..Len(l) -> T]
  BY <1>1, <1>2 DEF Contents
<1> HIDE DEF T, d
<1>4. d \in Seq(T) /\ Len(d) = Len(l)
  BY <1>1, <1>3
<1>5. ASSUME NEW f \in ToSet(l) PROVE <<f, content[f]>> \in ToSet(d)
  <2>1. PICK i \in 1..Len(l) : l[i] = f
    BY ToSetOf
  <2>2. i \in 1..Len(d) /\ d[i] = <<f, content[f]>>
    BY <1>2, <1>4, <2>1
  <2> QED
    BY <1>4, <2>2, ToSetOf
<1>6. ASSUME NEW f, NEW v, <<f, v>> \in ToSet(d) PROVE v = content[f]
  <2>1. PICK i \in 1..Len(d) : d[i] = <<f, v>>
    BY <1>4, <1>6, ToSetOf
  <2> QED
    BY <1>2, <1>4, <2>1
<1> QED
  BY <1>4, <1>5, <1>6 DEF d, T, KeySet

LEMMA KeyOf ==
  ASSUME content \in Contents, NEW a \in Seq(File), NEW l \in Seq(File)
  PROVE  /\ Key(a, l) \in KeySet /\ BaseKey(a) \in KeySet
         /\ \A f \in ToSet(a) \cup ToSet(l) : <<f, content[f]>> \in ToSet(Key(a, l))
         /\ \A f, v : <<f, v>> \in ToSet(Key(a, l)) => v = content[f]
BY EffectiveOf, DigestOf DEF Key, BaseKey

\* Without a depfile the key is the base key.
LEMMA KeyWithoutDepfile ==
  ASSUME NEW a \in Seq(File)
  PROVE  Effective(a, NoList) = a /\ Key(a, NoList) = BaseKey(a)
<1>1. Effective(a, NoList) = a
  BY WithoutNothing DEF Effective, NoList
<1> QED
  BY <1>1 DEF Key, BaseKey

LEMMA DependsOf ==
  ASSUME NEW c \in Contents
  PROVE  DepsOf[c] \in Seq(File) /\ ToSet(DepsOf[c]) \subseteq File
         /\ Static \in Seq(File) /\ ToSet(Static) \subseteq File
BY CompilerAssumption, ValueAssumption, ToSetOf

LEMMA MadeIsAnOutput ==
  ASSUME content \in Contents, Runnable
  PROVE  Made \in Outputs /\ Made = MadeOf(content) /\ Reads = ReadsOf(content)
<1>1. Reads \in SUBSET File /\ Reads = ReadsOf(content)
  BY DependsOf DEF Reads, ReadsOf
<1>2. Made \in [Reads -> Content]
  BY <1>1 DEF Made, Runnable, Contents
<1> QED
  BY <1>1, <1>2 DEF Outputs, Made, MadeOf

\* A key with the files that were read tells what was made of them ...
LEMMA KeyVouches ==
  ASSUME content \in Contents, Runnable, NEW a \in Seq(File), NEW l \in Seq(File),
         Reads \subseteq ToSet(a) \cup ToSet(l)
  PROVE  Vouches(Key(a, l), content)
<1>1. Reads = ReadsOf(content)
  BY DEF Reads, ReadsOf
<1> QED
  BY <1>1, KeyOf DEF Vouches, Runnable

\* ... and what was made of files that its key describes is what would be
\* made of them now: the compiler reads nothing else.
LEMMA KeyDecides ==
  ASSUME content \in Contents, NEW a \in Seq(File), NEW l \in Seq(File),
         NEW c \in Contents, Vouches(Key(a, l), c)
  PROVE  Runnable /\ MadeOf(c) = Made
<1>1. \A f \in ReadsOf(c) : content[f] = c[f] /\ c[f] # Absent
  BY KeyOf DEF Vouches
<1>2. Reads = ReadsOf(c)
  <2>1. CASE kind = "compile"
    <3>1. DepsOf[content] = DepsOf[c]
      BY <1>1, <2>1, CompilerAssumption DEF ReadsOf
    <3> QED
      BY <2>1, <3>1 DEF Reads, ReadsOf
  <2> QED
    BY <2>1 DEF Reads, ReadsOf
<1> QED
  BY <1>1, <1>2 DEF Runnable, Made, MadeOf

-----------------------------------------------------------------------------
\* What a step leaves as it is.

LEMMA TreeSame ==
  ASSUME kind' = kind, content' = content
  PROVE  /\ (Runnable' <=> Runnable) /\ Made' = Made
         /\ \A c : MadeOf(c)' = MadeOf(c)
         /\ \A k, c : Vouches(k, c)' <=> Vouches(k, c)
BY DEF Runnable, Made, Reads, MadeOf, Vouches, ReadsOf

LEMMA KeysSame ==
  ASSUME content' = content, depfile' = depfile, job'.inputs = job.inputs
  PROVE  JobKey' = JobKey /\ JobBase' = JobBase
BY DEF JobKey, JobBase, Key, BaseKey, Effective, Digest

LEMMA CacheSame ==
  ASSUME CacheInv, UNCHANGED <<tree, cache>>
  PROVE  CacheInv' /\ \A k : Intact(k)' <=> Intact(k)
<1> USE DEF tree, cache
<1>1. \A c : MadeOf(c)' = MadeOf(c)
  BY TreeSame
<1>2. \A k, c : Vouches(k, c)' <=> Vouches(k, c)
  BY TreeSame
<1> QED
  BY <1>1, <1>2 DEF CacheInv, Intact

LEMMA KeysTyped ==
  ASSUME TypeInv
  PROVE  JobKey \in KeySet /\ JobBase \in KeySet
BY KeyOf DEF TypeInv, JobRecord, JobKey, JobBase

\* A job begins with nothing, and a build that ends forgets its own.
LEMMA NoJobTyped ==
  NoJob \in JobRecord
BY DEF NoJob, JobRecord, KeySet

LEMMA EndKeeps ==
  ASSUME TypeInv, NEW how \in {"failed", "lookup-failed"}, End(how)
  PROVE  JobInv' /\ StoreInv' /\ step' \in Steps /\ job' \in JobRecord
         /\ verdict' \in {"none", "hit", "ran", "failed", "lookup-failed"}
BY NoJobTyped DEF End, JobInv, StoreInv, Steps, Puts, Discards

-----------------------------------------------------------------------------
\* Between builds.

LEMMA InitKeeps ==
  ASSUME Init
  PROVE  IInv
<1>1. TypeInv
  BY NoJobTyped, CompilerAssumption, ValueAssumption DEF Init, TypeInv, Contents, NoList, Steps
<1>2. CacheInv
  BY DEF Init, CacheInv, NoList
<1>3. JobInv /\ StoreInv
  BY DEF Init, JobInv, StoreInv, Puts, Discards
<1> QED
  BY <1>1, <1>2, <1>3 DEF IInv

LEMMA EditKeeps ==
  ASSUME IInv, NEW f \in File, NEW c \in Content \cup {Absent}, Edit(f, c)
  PROVE  IInv'
<1> USE DEF IInv
<1>1. TypeInv'
  <2>1. content' \in Contents
    BY DEF TypeInv, Edit, Contents
  <2>2. edits' \in 0..MaxEdits
    BY ValueAssumption DEF TypeInv, Edit
  <2> QED
    BY <2>1, <2>2, NoJobTyped DEF TypeInv, Edit, cache
<1>2. CacheInv'
  BY DEF CacheInv, MadeOf, Vouches, ReadsOf, Edit, cache
<1>3. JobInv' /\ StoreInv'
  BY DEF Edit, JobInv, StoreInv, Puts, Discards
<1> QED
  BY <1>1, <1>2, <1>3

LEMMA CleanKeeps ==
  ASSUME IInv, Clean
  PROVE  IInv'
<1> USE DEF IInv
<1>1. TypeInv'
  BY NoJobTyped DEF TypeInv, Clean, cache, NoList
<1>2. CacheInv'
  BY DEF CacheInv, MadeOf, Vouches, ReadsOf, Clean, cache
<1>3. JobInv' /\ StoreInv'
  BY DEF Clean, JobInv, StoreInv, Puts, Discards
<1> QED
  BY <1>1, <1>2, <1>3

LEMMA RotKeeps ==
  ASSUME IInv, NEW k \in DOMAIN blob, Rot(k)
  PROVE  IInv'
<1> USE DEF IInv
<1>1. TypeInv'
  <2>1. edits' \in 0..MaxEdits
    BY ValueAssumption DEF TypeInv, Rot
  <2>2. \A j \in DOMAIN blob' : j \in KeySet /\ blob'[j] \in Outputs \cup {Broken}
    BY DEF TypeInv, Rot
  <2> QED
    BY <2>1, <2>2, NoJobTyped DEF TypeInv, Rot
<1>2. CacheInv'
  BY DEF CacheInv, MadeOf, Vouches, ReadsOf, Rot
<1>3. JobInv' /\ StoreInv'
  BY DEF Rot, JobInv, StoreInv, Puts, Discards
<1> QED
  BY <1>1, <1>2, <1>3

-----------------------------------------------------------------------------
\* Look up.

LEMMA PrepareKeeps ==
  ASSUME IInv, Prepare
  PROVE  IInv'
<1> USE DEF IInv
<1> UNCHANGED <<tree, cache>> /\ CacheInv' /\ TypeInv /\ step = "idle"
  BY CacheSame DEF Prepare
<1>1. CASE ~Parses(depfile)
  <2>1. End("failed")
    BY <1>1 DEF Prepare
  <2>2. JobInv' /\ StoreInv' /\ step' \in Steps /\ job' \in JobRecord
        /\ verdict' \in {"none", "hit", "ran", "failed", "lookup-failed"}
    BY <2>1, EndKeeps
  <2> QED
    BY <2>2 DEF TypeInv, tree, cache
<1>2. CASE Parses(depfile)
  <2> DEFINE inputs == Effective(Static, depfile)
  <2>1. /\ step' = "lookup" /\ verdict' = "none"
        /\ job' = [NoJob EXCEPT !.inputs = inputs, !.key = Key(inputs, depfile),
                                !.base = BaseKey(inputs)]
    BY <1>2 DEF Prepare
  <2>2. inputs \in Seq(File) /\ ToSet(Static) \subseteq ToSet(inputs)
    BY EffectiveOf, ValueAssumption DEF TypeInv
  <2>3. kind = "generate" => inputs = Static
    BY KeyWithoutDepfile, ValueAssumption DEF CacheInv
  <2> HIDE DEF inputs
  <2>4. Key(inputs, depfile) \in KeySet /\ BaseKey(inputs) \in KeySet
    BY <2>2, KeyOf DEF TypeInv
  <2>5. /\ job'.inputs = inputs /\ job'.key = Key(inputs, depfile)
        /\ job'.base = BaseKey(inputs) /\ job'.ran = FALSE /\ job' \in JobRecord
    <3> NoJob.ran = FALSE
      BY DEF NoJob
    <3> QED
      BY <2>1, <2>2, <2>4, NoJobTyped DEF JobRecord
  <2>6. JobKey' = Key(inputs, depfile) /\ JobBase' = BaseKey(inputs)
    BY <2>5 DEF JobKey, JobBase, Key, BaseKey, Effective, Digest, tree
  <2>7. TypeInv'
    BY <2>1, <2>5 DEF TypeInv, tree, cache, Steps
  <2>8. JobInv' /\ StoreInv'
    BY <2>1, <2>2, <2>3, <2>5, <2>6 DEF JobInv, StoreInv, Puts, Discards, tree
  <2> QED
    BY <2>7, <2>8
<1> QED
  BY <1>1, <1>2

LEMMA LookUpKeyKeeps ==
  ASSUME IInv, LookUpKey
  PROVE  IInv'
<1> USE DEF IInv
<1> UNCHANGED <<tree, cache>> /\ CacheInv' /\ TypeInv /\ step = "lookup"
  BY CacheSame DEF LookUpKey
<1>1. /\ job'.inputs = job.inputs /\ job'.base = job.base /\ job'.entry = job.key
      /\ job'.ran = job.ran /\ job' \in JobRecord /\ step' = "verify" /\ verdict' = verdict
  BY DEF LookUpKey, TypeInv, JobRecord
<1>2. JobKey' = JobKey /\ JobBase' = JobBase
  BY <1>1, KeysSame DEF tree
<1>3. TypeInv'
  BY <1>1 DEF TypeInv, tree, cache, Steps
<1>4. JobInv' /\ StoreInv'
  BY <1>1, <1>2 DEF JobInv, StoreInv, Puts, Discards, tree, cache, LookUpKey
<1> QED
  BY <1>3, <1>4

LEMMA LookUpAliasKeeps ==
  ASSUME IInv, LookUpAlias
  PROVE  IInv'
<1> USE DEF IInv
<1> UNCHANGED <<tree, cache>> /\ CacheInv' /\ TypeInv /\ step = "lookup"
  BY CacheSame DEF LookUpAlias
<1>1. /\ job'.inputs = job.inputs /\ job'.base = job.base /\ job'.entry = alias[job.base]
      /\ job'.ran = job.ran /\ job' \in JobRecord /\ step' = "verify" /\ verdict' = verdict
      /\ job'.byAlias = TRUE
  BY DEF LookUpAlias, Aliased, TypeInv, JobRecord
<1>2. JobKey' = JobKey /\ JobBase' = JobBase
  BY <1>1, KeysSame DEF tree
<1>3. TypeInv'
  BY <1>1 DEF TypeInv, tree, cache, Steps
<1>4. kind = "generate" => job'.entry = JobKey
  BY <1>1, KeyWithoutDepfile, ValueAssumption
     DEF JobInv, CacheInv, LookUpAlias, Aliased, JobKey, JobBase
<1>5. JobInv' /\ StoreInv'
  BY <1>1, <1>2, <1>4 DEF JobInv, StoreInv, Puts, Discards, tree, cache, LookUpAlias, Aliased
<1> QED
  BY <1>3, <1>5

LEMMA MissKeeps ==
  ASSUME IInv, Miss
  PROVE  IInv'
<1> USE DEF IInv
<1> UNCHANGED <<tree, cache>> /\ CacheInv' /\ TypeInv /\ step = "lookup"
  BY CacheSame DEF Miss
<1>1. step' = "run" /\ verdict' = verdict /\ job' = job
  BY DEF Miss
<1>2. JobKey' = JobKey /\ JobBase' = JobBase
  BY <1>1, KeysSame DEF tree
<1> QED
  BY <1>1, <1>2 DEF TypeInv, JobInv, StoreInv, Puts, Discards, tree, cache, Steps

LEMMA VerifyKeeps ==
  ASSUME IInv, Verify
  PROVE  IInv'
<1> USE DEF IInv
<1> UNCHANGED <<tree, cache>> /\ CacheInv' /\ TypeInv /\ step = "verify"
  BY CacheSame DEF Verify
<1>1. verdict' = verdict /\ job' = job
      /\ step' = IF ~Intact(job.entry) THEN "discard"
                 ELSE IF job.byAlias /\ kind = "compile" THEN "depfile" ELSE "restore"
  BY DEF Verify
<1>2. JobKey' = JobKey /\ JobBase' = JobBase
  BY <1>1, KeysSame DEF tree
<1>3. Intact(job.entry)' <=> Intact(job.entry)
  BY <1>1 DEF Intact, tree, cache
<1>4. TypeInv'
  BY <1>1 DEF TypeInv, tree, cache, Steps
<1>5. JobInv' /\ StoreInv'
  BY <1>1, <1>2, <1>3, ValueAssumption
     DEF JobInv, StoreInv, Puts, Discards, tree, cache, TypeInv
<1> QED
  BY <1>4, <1>5

\* Restore and discard.

LEMMA RestoreDepfileKeeps ==
  ASSUME IInv, RestoreDepfile
  PROVE  IInv'
<1> USE DEF IInv
<1>1. /\ step = "depfile" /\ kind = "compile" /\ Intact(job.entry)
      /\ job.entry \in DOMAIN depblob
  BY DEF RestoreDepfile, JobInv, Intact
<1>2. /\ UNCHANGED <<kind, content, edits, output, cache, job, verdict>>
      /\ step' = "recheck" /\ depfile' \in Seq(File)
  BY <1>1 DEF RestoreDepfile, TypeInv
<1>3. JobBase' = JobBase /\ (Intact(job.entry)' <=> Intact(job.entry))
  BY <1>2 DEF JobBase, BaseKey, Digest, Intact, cache
<1>4. TypeInv'
  BY <1>2 DEF TypeInv, cache, Steps
<1>5. CacheInv'
  <2>1. \A c : MadeOf(c)' = MadeOf(c)
    BY <1>2, TreeSame
  <2>2. \A k, c : Vouches(k, c)' <=> Vouches(k, c)
    BY <1>2, TreeSame
  <2> QED
    BY <1>1, <1>2, <2>1, <2>2 DEF CacheInv, cache
<1>6. JobInv' /\ StoreInv'
  BY <1>1, <1>2, <1>3 DEF JobInv, StoreInv, Puts, Discards
<1> QED
  BY <1>4, <1>5, <1>6

LEMMA RecheckKeeps ==
  ASSUME IInv, Recheck
  PROVE  IInv'
<1> USE DEF IInv
<1> UNCHANGED <<tree, cache>> /\ CacheInv' /\ TypeInv /\ step = "recheck"
  BY CacheSame DEF Recheck
<1>1. CASE ~Parses(depfile)
  <2>1. End("lookup-failed")
    BY <1>1 DEF Recheck
  <2>2. JobInv' /\ StoreInv' /\ step' \in Steps /\ job' \in JobRecord
        /\ verdict' \in {"none", "hit", "ran", "failed", "lookup-failed"}
    BY <2>1, EndKeeps
  <2> QED
    BY <2>2 DEF TypeInv, tree, cache
<1>2. CASE Parses(depfile)
  <2>1. /\ step' = IF job.entry = JobKey THEN "restore" ELSE "run"
        /\ job' = job /\ verdict' = verdict
    BY <1>2 DEF Recheck, SameKey, JobKey
  <2>2. JobKey' = JobKey /\ JobBase' = JobBase
    BY <2>1, KeysSame DEF tree
  <2>3. Intact(job.entry)' <=> Intact(job.entry)
    BY <2>1 DEF Intact, tree, cache
  <2>4. TypeInv'
    BY <2>1 DEF TypeInv, tree, cache, Steps
  <2>5. JobInv' /\ StoreInv'
    BY <2>1, <2>2, <2>3 DEF JobInv, StoreInv, Puts, Discards, tree
  <2> QED
    BY <2>4, <2>5
<1> QED
  BY <1>1, <1>2

\* What a hit restores is what the action would make.
LEMMA RestoreKeeps ==
  ASSUME IInv, Restore
  PROVE  IInv'
<1> USE DEF IInv
<1>1. /\ step = "restore" /\ Intact(job.entry) /\ job.entry = JobKey
      /\ output' = blob[job.entry] /\ step' = "idle" /\ verdict' = "hit" /\ job' = NoJob
      /\ UNCHANGED <<kind, content, edits, depfile, cache>>
  BY DEF Restore, JobInv, End
<1>2. PICK c \in Contents : manifest[JobKey].out = MadeOf(c) /\ Vouches(JobKey, c)
  BY <1>1 DEF CacheInv, Intact
<1>3. Runnable /\ MadeOf(c) = Made
  BY <1>2, KeyDecides DEF TypeInv, JobRecord, JobKey
<1>4. output' = Made /\ output' \in Outputs
  BY <1>1, <1>2, <1>3, MadeIsAnOutput DEF Intact, TypeInv
<1>5. Made' = Made /\ (\A d : MadeOf(d)' = MadeOf(d))
  BY <1>1, TreeSame
<1>6. \A k, d : Vouches(k, d)' <=> Vouches(k, d)
  BY <1>1, TreeSame
<1>7. TypeInv'
  BY <1>1, <1>4, NoJobTyped DEF TypeInv, cache, Steps
<1>8. CacheInv'
  BY <1>1, <1>5, <1>6 DEF CacheInv, cache
<1>9. JobInv' /\ StoreInv'
  BY <1>1, <1>4, <1>5 DEF JobInv, StoreInv, Puts, Discards
<1> QED
  BY <1>7, <1>8, <1>9

LEMMA DiscardBlobKeeps ==
  ASSUME IInv, DiscardBlob
  PROVE  IInv'
<1> USE DEF IInv
<1>1. /\ step = "discard" /\ step' = "discard-manifest" /\ blob' = Drop(blob, job.entry)
      /\ UNCHANGED <<tree, manifest, depblob, alias, job, verdict>>
  BY DEF DiscardBlob
<1>2. job.entry \notin DOMAIN blob'
      /\ (\A k \in DOMAIN blob' : k \in DOMAIN blob /\ blob'[k] = blob[k])
  BY <1>1 DEF Drop
<1>3. JobKey' = JobKey /\ JobBase' = JobBase
  BY <1>1, KeysSame DEF tree
<1>4. (Runnable' <=> Runnable) /\ Made' = Made /\ (\A c : MadeOf(c)' = MadeOf(c))
  BY <1>1, TreeSame DEF tree
<1>5. \A k, c : Vouches(k, c)' <=> Vouches(k, c)
  BY <1>1, TreeSame DEF tree
<1>6. TypeInv'
  BY <1>1, <1>2 DEF TypeInv, tree, Steps
<1>7. CacheInv'
  BY <1>1, <1>4, <1>5 DEF CacheInv, tree
<1>8. JobInv' /\ StoreInv'
  BY <1>1, <1>2, <1>3, <1>4 DEF JobInv, StoreInv, Puts, Discards, tree
<1> QED
  BY <1>6, <1>7, <1>8

LEMMA DiscardManifestKeeps ==
  ASSUME IInv, DiscardManifest
  PROVE  IInv'
<1> USE DEF IInv
<1>1. /\ step = "discard-manifest" /\ step' = "discard-depfile"
      /\ manifest' = Drop(manifest, job.entry)
      /\ UNCHANGED <<tree, blob, depblob, alias, job, verdict>>
  BY DEF DiscardManifest
<1>2. job.entry \notin DOMAIN manifest'
      /\ (\A k \in DOMAIN manifest' : k \in DOMAIN manifest /\ manifest'[k] = manifest[k])
  BY <1>1 DEF Drop
<1>3. JobKey' = JobKey /\ JobBase' = JobBase
  BY <1>1, KeysSame DEF tree
<1>4. (Runnable' <=> Runnable) /\ Made' = Made /\ (\A c : MadeOf(c)' = MadeOf(c))
  BY <1>1, TreeSame DEF tree
<1>5. \A k, c : Vouches(k, c)' <=> Vouches(k, c)
  BY <1>1, TreeSame DEF tree
<1>6. TypeInv'
  BY <1>1, <1>2 DEF TypeInv, tree, Steps
<1>7. CacheInv'
  BY <1>1, <1>2, <1>4, <1>5 DEF CacheInv, tree
<1>8. JobInv' /\ StoreInv'
  BY <1>1, <1>2, <1>3, <1>4 DEF JobInv, StoreInv, Puts, Discards, tree
<1> QED
  BY <1>6, <1>7, <1>8

LEMMA DiscardDepfileKeeps ==
  ASSUME IInv, DiscardDepfile
  PROVE  IInv'
<1> USE DEF IInv
<1>1. /\ step = "discard-depfile" /\ step' = IF job.ran THEN "put-depfile" ELSE "run"
      /\ depblob' = Drop(depblob, job.entry)
      /\ UNCHANGED <<tree, manifest, blob, alias, job, verdict>>
  BY DEF DiscardDepfile
<1>2. \A k \in DOMAIN depblob' : k \in DOMAIN depblob /\ depblob'[k] = depblob[k]
  BY <1>1 DEF Drop
<1>3. JobKey' = JobKey /\ JobBase' = JobBase
  BY <1>1, KeysSame DEF tree
<1>4. (Runnable' <=> Runnable) /\ Made' = Made /\ (\A c : MadeOf(c)' = MadeOf(c))
  BY <1>1, TreeSame DEF tree
<1>5. \A k, c : Vouches(k, c)' <=> Vouches(k, c)
  BY <1>1, TreeSame DEF tree
<1>6. TypeInv'
  BY <1>1, <1>2 DEF TypeInv, tree, Steps
<1>7. CacheInv'
  BY <1>1, <1>4, <1>5 DEF CacheInv, tree
<1>8. JobInv' /\ StoreInv'
  BY <1>1, <1>3, <1>4 DEF JobInv, StoreInv, Puts, Discards, tree
<1> QED
  BY <1>6, <1>7, <1>8

-----------------------------------------------------------------------------
\* Run and store.

LEMMA RunKeeps ==
  ASSUME IInv, Run
  PROVE  IInv'
<1> USE DEF IInv
<1>1. /\ step = "run" /\ Runnable /\ output' = Made
      /\ depfile' = IF kind = "compile" THEN DepsOf[content] ELSE depfile
      /\ step' = "store" /\ UNCHANGED <<kind, content, edits, cache, verdict>>
      /\ job'.inputs = job.inputs /\ job'.base = job.base /\ job' \in JobRecord
  BY DEF Run, TypeInv, JobRecord
<1>2. depfile' \in Seq(File) /\ output' \in Outputs
  BY <1>1, MadeIsAnOutput, DependsOf DEF TypeInv
<1>3. JobBase' = JobBase
  BY <1>1 DEF JobBase, BaseKey, Digest
<1>4. (Runnable' <=> Runnable) /\ Made' = Made /\ (\A c : MadeOf(c)' = MadeOf(c))
  BY <1>1, TreeSame
<1>5. \A k, c : Vouches(k, c)' <=> Vouches(k, c)
  BY <1>1, TreeSame
<1>6. TypeInv'
  BY <1>1, <1>2 DEF TypeInv, cache, Steps
<1>7. CacheInv'
  BY <1>1, <1>4, <1>5 DEF CacheInv, cache
<1>8. JobInv' /\ StoreInv'
  BY <1>1, <1>3, <1>4 DEF JobInv, StoreInv, Puts, Discards
<1> QED
  BY <1>6, <1>7, <1>8

LEMMA StoreKeeps ==
  ASSUME IInv, Store
  PROVE  IInv'
<1> USE DEF IInv
<1> UNCHANGED <<tree, cache>> /\ CacheInv' /\ TypeInv /\ step = "store"
  BY CacheSame DEF Store
<1>1. /\ job' = [job EXCEPT !.key = JobKey, !.base = JobBase, !.entry = JobKey]
      /\ step' = IF Intact(JobKey) THEN "put-alias"
                 ELSE IF JobKey \in DOMAIN manifest THEN "discard" ELSE "put-depfile"
      /\ verdict' = verdict
  BY DEF Store, StoreKey, AlreadyPresent, JobKey, JobBase
<1>2. /\ job'.inputs = job.inputs /\ job'.base = JobBase /\ job'.entry = JobKey
      /\ job' \in JobRecord
  BY <1>1, KeysTyped DEF TypeInv, JobRecord
<1>3. JobKey' = JobKey /\ JobBase' = JobBase
  BY <1>2, KeysSame DEF tree
<1>4. (Runnable' <=> Runnable) /\ Made' = Made
  BY TreeSame DEF tree
<1>5. Intact(job.entry)' <=> Intact(JobKey)
  BY <1>2 DEF Intact, tree, cache
<1>6. TypeInv'
  BY <1>1, <1>2 DEF TypeInv, tree, cache, Steps
<1>7. JobInv' /\ StoreInv'
  BY <1>1, <1>2, <1>3, <1>4, <1>5 DEF JobInv, StoreInv, Puts, Discards, tree, cache
<1> QED
  BY <1>6, <1>7

LEMMA PutDepfileKeeps ==
  ASSUME IInv, PutDepfile
  PROVE  IInv'
<1> USE DEF IInv
<1>1. /\ step = "put-depfile" /\ step' = "put-blob"
      /\ depblob' = IF kind = "compile" THEN Put(depblob, job.entry, depfile) ELSE depblob
      /\ UNCHANGED <<tree, manifest, blob, alias, job, verdict>>
  BY DEF PutDepfile
<1>2. /\ \A k \in DOMAIN depblob' :
           \/ k = job.entry /\ depblob'[k] = depfile
           \/ k \in DOMAIN depblob /\ depblob'[k] = depblob[k]
      /\ kind = "compile" => job.entry \in DOMAIN depblob' /\ depblob'[job.entry] = depfile
  BY <1>1 DEF Put
<1>3. JobKey' = JobKey /\ JobBase' = JobBase
  BY <1>1, KeysSame DEF tree
<1>4. (Runnable' <=> Runnable) /\ Made' = Made /\ (\A c : MadeOf(c)' = MadeOf(c))
  BY <1>1, TreeSame DEF tree
<1>5. \A k, c : Vouches(k, c)' <=> Vouches(k, c)
  BY <1>1, TreeSame DEF tree
<1>6. TypeInv'
  <2>1. job.entry \in KeySet /\ depfile \in Seq(File)
    BY DEF TypeInv, JobRecord
  <2>2. \A k \in DOMAIN depblob' : k \in KeySet /\ depblob'[k] \in Seq(File)
    BY <1>2, <2>1 DEF TypeInv
  <2> QED
    BY <1>1, <2>2 DEF TypeInv, tree, Steps
<1>7. CacheInv'
  BY <1>1, <1>4, <1>5 DEF CacheInv, tree
<1>8. JobInv' /\ StoreInv'
  BY <1>1, <1>2, <1>3, <1>4 DEF JobInv, StoreInv, Puts, Discards, tree
<1> QED
  BY <1>6, <1>7, <1>8

LEMMA PutBlobKeeps ==
  ASSUME IInv, PutBlob
  PROVE  IInv'
<1> USE DEF IInv
<1>1. /\ step = "put-blob" /\ step' = "put-manifest"
      /\ blob' = Put(blob, job.entry, output)
      /\ UNCHANGED <<tree, manifest, depblob, alias, job, verdict>>
  BY DEF PutBlob
<1>2. /\ \A k \in DOMAIN blob' :
           \/ k = job.entry /\ blob'[k] = output
           \/ k \in DOMAIN blob /\ blob'[k] = blob[k]
      /\ job.entry \in DOMAIN blob' /\ blob'[job.entry] = output
  BY <1>1 DEF Put
<1>3. JobKey' = JobKey /\ JobBase' = JobBase
  BY <1>1, KeysSame DEF tree
<1>4. (Runnable' <=> Runnable) /\ Made' = Made /\ (\A c : MadeOf(c)' = MadeOf(c))
  BY <1>1, TreeSame DEF tree
<1>5. \A k, c : Vouches(k, c)' <=> Vouches(k, c)
  BY <1>1, TreeSame DEF tree
<1>6. TypeInv'
  <2>1. output \in Outputs
    BY <1>1, MadeIsAnOutput DEF TypeInv, StoreInv, Puts
  <2>2. job.entry \in KeySet
    BY DEF TypeInv, JobRecord
  <2>3. \A k \in DOMAIN blob' : k \in KeySet /\ blob'[k] \in Outputs \cup {Broken}
    BY <1>2, <2>1, <2>2 DEF TypeInv
  <2> QED
    BY <1>1, <2>3 DEF TypeInv, tree, Steps
<1>7. CacheInv'
  BY <1>1, <1>4, <1>5 DEF CacheInv, tree
<1>8. JobInv' /\ StoreInv'
  BY <1>1, <1>2, <1>3, <1>4 DEF JobInv, StoreInv, Puts, Discards, tree
<1> QED
  BY <1>6, <1>7, <1>8

\* The manifest, the last file of an entry, is true of it: the key was
\* evaluated after the run, with the depfile the run wrote.
LEMMA PutManifestKeeps ==
  ASSUME IInv, PutManifest
  PROVE  IInv'
<1> USE DEF IInv
<1>1. /\ step = "put-manifest" /\ step' = "put-alias"
      /\ manifest' = Put(manifest, job.entry, [out |-> output, dep |-> depfile])
      /\ UNCHANGED <<tree, blob, depblob, alias, job, verdict>>
  BY DEF PutManifest
<1>2. /\ \A k \in DOMAIN manifest' :
           k = job.entry \/ (k \in DOMAIN manifest /\ manifest'[k] = manifest[k])
      /\ job.entry \in DOMAIN manifest'
      /\ manifest'[job.entry].out = output /\ manifest'[job.entry].dep = depfile
  BY <1>1 DEF Put
<1>3. JobKey' = JobKey /\ JobBase' = JobBase
  BY <1>1, KeysSame DEF tree
<1>4. (Runnable' <=> Runnable) /\ Made' = Made /\ (\A c : MadeOf(c)' = MadeOf(c))
  BY <1>1, TreeSame DEF tree
<1>5. \A k, c : Vouches(k, c)' <=> Vouches(k, c)
  BY <1>1, TreeSame DEF tree
<1>6. job.entry = JobKey /\ output = Made /\ Runnable
      /\ (kind = "compile" => depfile = DepsOf[content])
  BY <1>1 DEF StoreInv, Puts
<1>7. TypeInv'
  <2>1. job.entry \in KeySet /\ depfile \in Seq(File)
    BY DEF TypeInv, JobRecord
  <2>2. \A k \in DOMAIN manifest' : k \in KeySet /\ manifest'[k].dep \in Seq(File)
    BY <1>2, <2>1 DEF TypeInv
  <2> QED
    BY <1>1, <2>2 DEF TypeInv, tree, Steps
<1>8. CacheInv'
  <2>1. Reads \subseteq ToSet(job.inputs) \cup ToSet(depfile)
    BY <1>1, <1>6 DEF Reads, JobInv
  <2>2. content \in Contents /\ Vouches(JobKey, content)
    BY <1>6, <2>1, KeyVouches DEF TypeInv, JobRecord, JobKey
  <2>3. output = MadeOf(content)
    BY <1>6, MadeIsAnOutput DEF TypeInv
  <2>4. \A k \in DOMAIN manifest' :
           \E c \in Contents : manifest'[k].out = MadeOf(c) /\ Vouches(k, c)
    BY <1>2, <1>6, <2>2, <2>3 DEF CacheInv
  <2> QED
    BY <1>1, <1>4, <1>5, <2>4 DEF CacheInv, tree
<1>9. Intact(job.entry)'
  BY <1>1, <1>2 DEF Intact, StoreInv, tree
<1>10. JobInv' /\ StoreInv'
  BY <1>1, <1>3, <1>4, <1>9 DEF JobInv, StoreInv, Puts, Discards, tree
<1> QED
  BY <1>7, <1>8, <1>10

LEMMA PutAliasKeeps ==
  ASSUME IInv, PutAlias
  PROVE  IInv'
<1> USE DEF IInv
<1>1. /\ step = "put-alias" /\ step' = "idle" /\ verdict' = "ran"
      /\ alias' = Put(alias, job.base, job.entry)
      /\ UNCHANGED <<tree, manifest, blob, depblob, job>>
  BY DEF PutAlias, AliasName
<1>2. /\ \A b \in DOMAIN alias' :
           \/ b = job.base /\ alias'[b] = job.entry
           \/ b \in DOMAIN alias /\ alias'[b] = alias[b]
      /\ job.base \in DOMAIN alias' /\ alias'[job.base] = job.entry
  BY <1>1 DEF Put
<1>3. JobKey' = JobKey /\ JobBase' = JobBase
  BY <1>1, KeysSame DEF tree
<1>4. (Runnable' <=> Runnable) /\ Made' = Made /\ (\A c : MadeOf(c)' = MadeOf(c))
  BY <1>1, TreeSame DEF tree
<1>5. \A k, c : Vouches(k, c)' <=> Vouches(k, c)
  BY <1>1, TreeSame DEF tree
<1>6. job.entry = JobKey /\ job.base = JobBase /\ output = Made /\ Intact(job.entry)
  BY <1>1 DEF StoreInv, JobInv, Puts
<1>7. TypeInv'
  <2>1. job.entry \in KeySet /\ job.base \in KeySet
    BY DEF TypeInv, JobRecord
  <2>2. \A b \in DOMAIN alias' : b \in KeySet /\ alias'[b] \in KeySet
    BY <1>2, <2>1 DEF TypeInv
  <2> QED
    BY <1>1, <2>2 DEF TypeInv, tree, Steps
<1>8. CacheInv'
  <2>1. kind = "generate" => JobKey = JobBase
    BY KeyWithoutDepfile DEF CacheInv, JobKey, JobBase, TypeInv, JobRecord
  <2> QED
    BY <1>1, <1>2, <1>4, <1>5, <1>6, <2>1 DEF CacheInv, tree
<1>9. Intact(job.entry)'
  BY <1>1, <1>6 DEF Intact, tree
<1>10. JobInv' /\ StoreInv'
  BY <1>1, <1>2, <1>3, <1>4, <1>6, <1>9 DEF JobInv, StoreInv, Puts, Discards, tree
<1> QED
  BY <1>7, <1>8, <1>10

-----------------------------------------------------------------------------
\* Failures.

LEMMA CutShortTyped ==
  ASSUME NEW l \in Seq(File), CutShort(l)
  PROVE  depfile' \in Seq(File)
<1>1. PICK n \in 0..Len(l) : depfile' = SubSeq(l, 1, n)
  BY DEF CutShort
<1>2. Len(l) \in Nat /\ \A i \in 1..Len(l) : l[i] \in File
  OBVIOUS
<1> QED
  BY <1>1, <1>2

LEMMA RunFailsKeeps ==
  ASSUME IInv, RunFails
  PROVE  IInv'
<1> USE DEF IInv
<1>1. /\ output' \in {output, Absent, Broken} /\ End("failed")
      /\ UNCHANGED <<kind, content, edits, cache>>
      /\ IF kind = "compile" THEN depfile' = depfile \/ CutShort(DepsOf[content])
                             ELSE depfile' = depfile
  BY DEF RunFails
<1>2. JobInv' /\ StoreInv' /\ step' \in Steps /\ job' \in JobRecord
      /\ verdict' \in {"none", "hit", "ran", "failed", "lookup-failed"}
  BY <1>1, EndKeeps
<1>3. depfile' \in Seq(File)
  BY <1>1, CutShortTyped, DependsOf DEF TypeInv
<1>4. \A c : MadeOf(c)' = MadeOf(c)
  BY <1>1, TreeSame
<1>5. \A k, c : Vouches(k, c)' <=> Vouches(k, c)
  BY <1>1, TreeSame
<1>6. TypeInv'
  BY <1>1, <1>2, <1>3 DEF TypeInv, cache
<1>7. CacheInv'
  BY <1>1, <1>4, <1>5 DEF CacheInv, cache
<1> QED
  BY <1>2, <1>6, <1>7

LEMMA RestoreFailsKeeps ==
  ASSUME IInv, RestoreFails
  PROVE  IInv'
<1> USE DEF IInv
<1>1. /\ step \in {"depfile", "restore"} /\ End("failed")
      /\ UNCHANGED <<kind, content, edits, cache>>
      /\ IF step = "depfile" THEN CutShort(depblob[job.entry]) /\ output' = output
                             ELSE output' = Broken /\ depfile' = depfile
  BY DEF RestoreFails
<1>2. JobInv' /\ StoreInv' /\ step' \in Steps /\ job' \in JobRecord
      /\ verdict' \in {"none", "hit", "ran", "failed", "lookup-failed"}
  BY <1>1, EndKeeps
<1>3. step = "depfile" => kind = "compile" /\ depblob[job.entry] \in Seq(File)
  BY DEF JobInv, Intact, TypeInv
<1>4. depfile' \in Seq(File)
  BY <1>1, <1>3, CutShortTyped DEF TypeInv
<1>5. \A c : MadeOf(c)' = MadeOf(c)
  BY <1>1, TreeSame
<1>6. \A k, c : Vouches(k, c)' <=> Vouches(k, c)
  BY <1>1, TreeSame
<1>7. TypeInv'
  BY <1>1, <1>2, <1>4 DEF TypeInv, cache
<1>8. CacheInv'
  BY <1>1, <1>3, <1>5, <1>6 DEF CacheInv, cache
<1> QED
  BY <1>2, <1>7, <1>8

LEMMA DropOf ==
  ASSUME NEW f, NEW k
  PROVE  \A j \in DOMAIN Drop(f, k) : j \in DOMAIN f /\ Drop(f, k)[j] = f[j]
BY DEF Drop

LEMMA PutFailsKeeps ==
  ASSUME IInv, PutFails
  PROVE  IInv'
<1> USE DEF IInv
<1>1. /\ End("failed") /\ UNCHANGED tree
      /\ depblob' = IF step = "put-depfile" THEN Drop(depblob, job.entry) ELSE depblob
      /\ blob' = IF step = "put-blob" THEN Drop(blob, job.entry) ELSE blob
      /\ manifest' = IF step = "put-manifest" THEN Drop(manifest, job.entry) ELSE manifest
      /\ alias' = IF step = "put-alias" THEN Drop(alias, AliasName) ELSE alias
  BY DEF PutFails
<1>2. JobInv' /\ StoreInv' /\ step' \in Steps /\ job' \in JobRecord
      /\ verdict' \in {"none", "hit", "ran", "failed", "lookup-failed"}
  BY <1>1, EndKeeps
<1>3. /\ \A k \in DOMAIN depblob' : k \in DOMAIN depblob /\ depblob'[k] = depblob[k]
      /\ \A k \in DOMAIN blob' : k \in DOMAIN blob /\ blob'[k] = blob[k]
      /\ \A k \in DOMAIN manifest' : k \in DOMAIN manifest /\ manifest'[k] = manifest[k]
      /\ \A k \in DOMAIN alias' : k \in DOMAIN alias /\ alias'[k] = alias[k]
  BY <1>1, DropOf
<1>4. \A c : MadeOf(c)' = MadeOf(c)
  BY <1>1, TreeSame DEF tree
<1>5. \A k, c : Vouches(k, c)' <=> Vouches(k, c)
  BY <1>1, TreeSame DEF tree
<1>6. TypeInv'
  BY <1>1, <1>2, <1>3 DEF TypeInv, tree
<1>7. CacheInv'
  BY <1>1, <1>3, <1>4, <1>5 DEF CacheInv, tree
<1> QED
  BY <1>2, <1>6, <1>7

LEMMA KilledKeeps ==
  ASSUME IInv, Killed
  PROVE  IInv'
<1> USE DEF IInv
<1> UNCHANGED <<tree, cache>> /\ CacheInv' /\ End("failed")
  BY CacheSame DEF Killed
<1>1. JobInv' /\ StoreInv' /\ step' \in Steps /\ job' \in JobRecord
      /\ verdict' \in {"none", "hit", "ran", "failed", "lookup-failed"}
  BY EndKeeps
<1> QED
  BY <1>1 DEF TypeInv, tree, cache

LEMMA StutterKeeps ==
  ASSUME IInv, UNCHANGED vars
  PROVE  IInv'
<1> USE DEF IInv
<1>1. UNCHANGED <<tree, cache, step, job, verdict>>
  BY DEF vars
<1>2. CacheInv'
  BY <1>1, CacheSame
<1>3. JobKey' = JobKey /\ JobBase' = JobBase
  BY <1>1, KeysSame DEF tree
<1>4. (Runnable' <=> Runnable) /\ Made' = Made
  BY <1>1, TreeSame DEF tree
<1>5. /\ (Intact(job.entry)' <=> Intact(job.entry))
      /\ (Intact(alias[job.base])' <=> Intact(alias[job.base]))
  BY <1>1 DEF Intact, tree, cache
<1>6. TypeInv'
  BY <1>1 DEF TypeInv, tree, cache
<1>7. JobInv' /\ StoreInv'
  BY <1>1, <1>3, <1>4, <1>5 DEF JobInv, StoreInv, Puts, Discards, tree, cache
<1> QED
  BY <1>2, <1>6, <1>7

-----------------------------------------------------------------------------
\* Theorems.

\* The inductive invariant: whatever happens between builds and wherever a
\* build stops, a manifest is true of a state its key describes, and a build
\* knows of its entry what the step it is at relies on.
THEOREM Invariance == Spec => []IInv
<1>1. Init => IInv
  BY InitKeeps
<1>2. IInv /\ [Next]_vars => IInv'
  <2> SUFFICES ASSUME IInv, [Next]_vars PROVE IInv'
    OBVIOUS
  <2>1. CASE Between
    BY <2>1, EditKeeps, CleanKeeps, RotKeeps DEF Between
  <2>2. CASE Prepare \/ LookUpKey \/ LookUpAlias \/ Miss \/ Verify
    BY <2>2, PrepareKeeps, LookUpKeyKeeps, LookUpAliasKeeps, MissKeeps, VerifyKeeps
  <2>3. CASE RestoreDepfile \/ Recheck \/ Restore
    BY <2>3, RestoreDepfileKeeps, RecheckKeeps, RestoreKeeps
  <2>4. CASE DiscardBlob \/ DiscardManifest \/ DiscardDepfile
    BY <2>4, DiscardBlobKeeps, DiscardManifestKeeps, DiscardDepfileKeeps
  <2>5. CASE Run \/ Store \/ PutDepfile \/ PutBlob \/ PutManifest \/ PutAlias
    BY <2>5, RunKeeps, StoreKeeps, PutDepfileKeeps, PutBlobKeeps, PutManifestKeeps,
       PutAliasKeeps
  <2>6. CASE RunFails \/ RestoreFails \/ PutFails \/ Killed
    BY <2>6, RunFailsKeeps, RestoreFailsKeeps, PutFailsKeeps, KilledKeeps
  <2>7. CASE UNCHANGED vars
    BY <2>7, StutterKeeps
  <2> QED
    BY <2>1, <2>2, <2>3, <2>4, <2>5, <2>6, <2>7 DEF Next, Build
<1> QED
  BY <1>1, <1>2, PTL DEF Spec

\* A build that ends well leaves what the action would make of the tree as it
\* is, whether the action ran or an entry was restored.
THEOREM BuildsAreFresh == Spec => []BuiltIsFresh
<1>1. IInv => BuiltIsFresh
  <2> SUFFICES ASSUME IInv PROVE BuiltIsFresh
    OBVIOUS
  <2>1. ASSUME NEW k \in DOMAIN manifest PROVE manifest[k].out \in Outputs
    <3>1. PICK c \in Contents : manifest[k].out = MadeOf(c) /\ Vouches(k, c)
      BY DEF IInv, CacheInv
    <3>2. ReadsOf(c) \in SUBSET File
      BY DependsOf DEF ReadsOf
    <3>3. MadeOf(c) \in [ReadsOf(c) -> Content]
      BY <3>1, <3>2 DEF MadeOf, Vouches, Contents
    <3> QED
      BY <3>1, <3>2, <3>3 DEF Outputs
  <2>2. job.inputs \in Seq(File) /\ {job.key, job.base, job.entry} \subseteq KeySet
    BY DEF IInv, TypeInv, JobRecord
  <2> QED
    BY <2>1, <2>2 DEF IInv, TypeInv, StoreInv, BuiltIsFresh, TypeOK
<1> QED
  BY <1>1, Invariance, PTL

\* The alias and the entry a build from a clean target has stored are those
\* the lookup of the next clean build asks for.
THEOREM StoredEntriesAreFound == Spec => []StoredIsFound
<1>1. IInv => StoredIsFound
  <2> SUFFICES ASSUME IInv, verdict = "ran", job.inputs = Static
               PROVE  /\ BaseKey(Static) \in DOMAIN alias
                      /\ Intact(alias[BaseKey(Static)])
                      /\ alias[BaseKey(Static)] = Key(Static, depfile)
    BY DEF StoredIsFound
  <2> QED
    BY DEF IInv, StoreInv, JobKey, JobBase
<1> QED
  BY <1>1, Invariance, PTL

\* What is put or discarded is not an entry that was intact.
LEMMA OthersStay ==
  ASSUME IInv, [Next]_vars
  PROVE  CommittedStays
<1> SUFFICES ASSUME NEW k \in DOMAIN manifest, Intact(k)
             PROVE  k \in DOMAIN blob' /\ (Intact(k)' \/ blob'[k] = Broken)
  BY DEF CommittedStays
<1>1. CASE UNCHANGED <<kind, manifest, blob, depblob>>
  BY <1>1 DEF Intact
<1>2. CASE \E j \in DOMAIN blob : Rot(j)
  BY <1>2 DEF Rot, Intact
<1>3. CASE DiscardBlob \/ DiscardManifest \/ DiscardDepfile
  <2>1. k # job.entry
    BY <1>3 DEF DiscardBlob, DiscardManifest, DiscardDepfile, IInv, JobInv, Intact
  <2> QED
    BY <1>3, <2>1 DEF DiscardBlob, DiscardManifest, DiscardDepfile, Drop, Intact, tree
<1>4. CASE PutDepfile \/ PutBlob \/ PutManifest
  <2>1. k # job.entry
    BY <1>4 DEF PutDepfile, PutBlob, PutManifest, IInv, StoreInv, Puts
  <2> QED
    BY <1>4, <2>1 DEF PutDepfile, PutBlob, PutManifest, Put, Intact, tree
<1>5. CASE PutFails
  <2>1. step # "put-alias" => k # job.entry
    BY <1>5 DEF PutFails, IInv, StoreInv, Puts
  <2> QED
    BY <1>5, <2>1 DEF PutFails, Drop, Intact, tree
<1>6. CASE (\E f \in File, c \in Content \cup {Absent} : Edit(f, c)) \/ Clean
  BY <1>1, <1>6 DEF Edit, Clean, cache
<1>7. CASE Prepare \/ LookUpKey \/ LookUpAlias \/ Miss \/ Verify \/ Recheck \/ Store \/ Killed
  BY <1>1, <1>7 DEF Prepare, LookUpKey, LookUpAlias, Miss, Verify, Recheck, Store, Killed,
                    tree, cache
<1>8. CASE RestoreDepfile \/ Restore \/ Run \/ PutAlias \/ RunFails \/ RestoreFails
  BY <1>1, <1>8 DEF RestoreDepfile, Restore, Run, PutAlias, RunFails, RestoreFails, tree, cache
<1>9. CASE UNCHANGED vars
  BY <1>1, <1>9 DEF vars, tree, cache
<1> QED
  BY <1>2, <1>3, <1>4, <1>5, <1>6, <1>7, <1>8, <1>9 DEF Next, Between, Build

\* An entry is true when it appears, and no step of a lookup or a store and no
\* crash in one loses it: only damage does.
THEOREM EntriesAreKept == Spec => EntriesKept
<1>0. IInv => EntriesVouch
  <2> SUFFICES ASSUME IInv, NEW k \in DOMAIN manifest, NEW f \in DOMAIN manifest[k].out
               PROVE  <<f, manifest[k].out[f]>> \in ToSet(k)
    BY DEF EntriesVouch
  <2>1. PICK c \in Contents : manifest[k].out = MadeOf(c) /\ Vouches(k, c)
    BY DEF IInv, CacheInv
  <2>2. f \in ReadsOf(c) /\ manifest[k].out[f] = c[f]
    BY ONLY <2>1, f \in DOMAIN manifest[k].out DEF MadeOf
  <2> QED
    BY <2>1, <2>2 DEF Vouches
<1>1. IInv' => EntriesVouch'
  BY <1>0, PTL
<1>2. IInv /\ [Next]_vars => CommittedStays
  BY OthersStay
<1>3. IInv /\ IInv' /\ [Next]_vars => [EntriesVouch' /\ CommittedStays]_vars
  BY <1>1, <1>2
<1> QED
  BY <1>3, Invariance, PTL DEF Spec, EntriesKept
=============================================================================

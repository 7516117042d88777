-------------------------- MODULE SyncEngineProofs --------------------------
(***************************************************************************)
(* Proofs about SyncEngine for any providers, files, operations and        *)
(* upstream changes: the run status, the counters, the failed-file rows    *)
(* and the files on disk are what the properties say.                      *)
(***************************************************************************)
EXTENDS SyncEngine, FiniteSetTheorems, SequenceTheorems, TLAPS

\* The release in which a part changed last says what its files are now, and
\* nothing is cached or planned by a release that has not been.
Published == 0..Len(releases)
UpstreamInv ==
    /\ \A p \in Parts : latest[p] \in 1..Len(releases)
    /\ \A p \in Parts : \A f \in p : releases[latest[p]][f] = Current(f)
    /\ \A p \in Parts : repomd[p].release \in Published
    /\ \A p \in Parts : \A n \in Release : primary[p][n].release \in Published

\* A listing that is not the current one is taken for the current one only by
\* a fast check; what an operation goes by is gone before the upstream changes.
BasisInv ==
    /\ pc \notin {"downloading", "processing", "recording"} => basis = NoBasis
    /\ \A p \in Parts : /\ basis[p].release \in Published
                        /\ ~basis[p].fast => basis[p].release \in {0, latest[p]}

\* A counter is increased for a file that leaves the loop; the files still to be
\* processed are in place for the rest.
Total == tally["downloaded"] + tally["failed"] + tally["skipped"] + tally["deleted"]
Looping == {"processing", "resolving", "recording"}
TallyInv ==
    /\ pc \in Looping => Total + Cardinality(todo) <= Cardinality(Files)
    /\ pc \notin Looping => tally = Zero
    /\ pc = "processing" => todo \cap With("none") = {}

\* Nothing happens to the files between the plan and its execution.
PlanMade == pc = "downloading" => \A f \in Files : plan[f] = PlannedAction(f, basis[PartOf(f)])

\* What an action of the plan, and the result of its download, say of the file.
Followed(f) ==
    /\ plan[f] = "download" => Wanted(f) # 0
    /\ plan[f] = "delete" => Wanted(f) = 0 /\ basis[PartOf(f)].release # 0
    /\ Checked(f) => plan[f] \in {"skip", "download"}
    /\ Checked(f) /\ plan[f] = "skip" => InPlace(f)
    /\ plan[f] = "download" /\ outcome[f] = "success" => InPlace(f)
    /\ plan[f] = "download" /\ outcome[f] = "none" => ctxDone

\* What its processing has left: a failure is counted, and has a row unless the
\* row was lost.
Processed(f) ==
    plan[f] = "download" =>
        /\ tally["failed"] = 0 => outcome[f] = "success"
        /\ outcome[f] = "failed" /\ ~faults => \E l \in letters : l.file = f /\ l.want = Wanted(f)

PlanFollowed ==
    pc = "processing" => /\ \A f \in Files : Followed(f)
                         /\ \A f \in Files \ todo : Processed(f)

\* A retry starts from one row per file.
SnapshotInv == \A l, m \in snapshot : l.file = m.file => l = m

\* A download that a retry takes for a success has put the file of the row in
\* place; its row goes with its processing unless the store failed.
RetryFollowed ==
    pc = "resolving" =>
        \A l \in snapshot :
            /\ outcome[l.file] = "none" => ctxDone
            /\ outcome[l.file] = "success" => disk[l.file] = l.want
            /\ l.file \notin todo /\ outcome[l.file] = "failed" => tally["failed"] > 0
            /\ l.file \notin todo /\ outcome[l.file] = "success" /\ ~faults => l \notin letters

\* A validation records files that are listed.
Recording == pc = "recording" => \A f \in todo : Wanted(f) # 0

EngineInv ==
    /\ TypeOK /\ UpstreamInv /\ BasisInv /\ OneLetterPerFile /\ TallyInv /\ TallyAddsUp
    /\ PlanMade /\ PlanFollowed /\ SnapshotInv /\ RetryFollowed /\ Recording

------------------------------------------------------------------------------
\* A provider has finitely many files.
LEMMA FilesFinite == config \in Configs => IsFiniteSet(Files)
<1> SUFFICES ASSUME config \in Configs PROVE IsFiniteSet(Files)
  OBVIOUS
<1>1. IsFiniteSet(Parts) /\ \A p \in Parts : IsFiniteSet(p)
  BY ConfigsAssumption DEF Parts
<1> QED  BY <1>1, FS_UNION DEF Files

\* A file is in one part.
LEMMA PartOfFile ==
    ASSUME config \in Configs, NEW f \in Files
    PROVE  PartOf(f) \in Parts /\ f \in PartOf(f) /\ \A p \in Parts : f \in p => p = PartOf(f)
<1>1. \E p \in Parts : f \in p
  BY DEF Files
<1>2. PartOf(f) \in Parts /\ f \in PartOf(f)
  BY <1>1 DEF PartOf
<1>3. Disjoint(Parts)
  BY ConfigsAssumption DEF Parts
<1> QED  BY <1>2, <1>3 DEF Disjoint

\* One row per file: finitely many rows.
LEMMA LettersFinite ==
    ASSUME config \in Configs, letters \subseteq Letter, OneLetterPerFile
    PROVE  IsFiniteSet(letters)
<1> DEFINE g == [l \in letters |-> l.file]
<1>1. g \in [letters -> Files]
  BY DEF Letter
<1>2. \A a, b \in letters : g[a] = g[b] => a = b
  BY DEF OneLetterPerFile
<1>3. g \in Injection(letters, Files)
  BY <1>1, <1>2 DEF Injection, IsInjective
<1> QED  BY <1>3, FilesFinite, FS_Injection

\* A set of rows leaves an id for a new one.
LEMMA FreshIdExists ==
    ASSUME IsFiniteSet(letters)
    PROVE  FreshId \in Nat
<1> DEFINE n == Cardinality(letters) + 1
           Free(i) == \A l \in letters : l.id # i
<1>1. Cardinality(letters) \in Nat
  BY FS_CardinalityType
<1>2. IsFiniteSet(1..n) /\ Cardinality(1..n) = n
  BY <1>1, FS_Interval
<1>3. \E i \in 1..n : Free(i)
  <2> SUFFICES ASSUME \A i \in 1..n : ~Free(i) PROVE FALSE
    OBVIOUS
  <2> DEFINE g == [i \in 1..n |-> CHOOSE l \in letters : l.id = i]
  <2>1. \A i \in 1..n : g[i] \in letters /\ g[i].id = i
    OBVIOUS
  <2>2. g \in Injection(1..n, letters)
    BY <2>1 DEF Injection, IsInjective
  <2>3. n <= Cardinality(letters)
    BY <1>2, <2>2, FS_Injection
  <2> QED  BY <2>3, <1>1
<1>4. FreshId \in 1..n
  BY <1>3 DEF FreshId
<1> QED  BY <1>4, <1>1

\* Where an operation stays with its provider, files and parts are the same.
LEMMA SameProvider ==
    ASSUME config' = config
    PROVE  /\ Files' = Files /\ Parts' = Parts /\ Letter' = Letter /\ NoBasis' = NoBasis
           /\ \A f : PartOf(f)' = PartOf(f)
BY DEF Files, Parts, PartOf, Letter, NoBasis

LEMMA ProviderKept == ASSUME Next PROVE config' = config
BY DEF Next, SyncStep, RetryStep, ValidateStep, StartSync, PlanFails, PlanSync, DryRun, UnsafePath,
       ExecutePlan, FinishSync, StartRetry, ExecuteRetry, FinishRetry, StartValidate, ValidateFails,
       CheckFiles, FinishValidate, Process, Resolve, RecordInvalid, Publish, Sweep, Dismiss, Cancel,
       Crash, NoMoreOps, vars, upstreamVars

\* The latest listing, and what it says of a file.
LEMMA LatestListing ==
    ASSUME TypeOK
    PROVE  /\ Len(releases) \in Nat \ {0} /\ Len(releases) \in Release
           /\ Published \subseteq {0} \cup Release
           /\ \A v \in 1..Len(releases) : releases[v] \in [Files -> {0} \cup Release]
           /\ \A f \in Files : Current(f) \in {0} \cup Release
<1>1. releases \in Seq([Files -> {0} \cup Release]) /\ Len(releases) \in Release
  BY DEF TypeOK
<1>2. Len(releases) \in Nat \ {0} /\ Published \subseteq {0} \cup Release
  BY <1>1, BoundsAssumption DEF Release, Published
<1>3. \A v \in 1..Len(releases) : releases[v] \in [Files -> {0} \cup Release]
  BY <1>1, ElementOfSeq
<1> QED  BY <1>1, <1>2, <1>3 DEF Current

------------------------------------------------------------------------------
\* What a listing may be: its release has been, and is the current one unless
\* the check was a fast one; what it leaves in the caches is of releases that
\* have been.
CopyOK(c) == c \in Copy /\ c.release \in Published
ListingOK(p, l) ==
    /\ l.release \in Published /\ l.fast \in BOOLEAN
    /\ ~l.fast => l.release \in {0, latest[p]}
    /\ CopyOK(l.repomd)
    /\ l.primary \in [Release -> Copy] /\ \A n \in Release : CopyOK(l.primary[n])

\* The caches of a part, before it is listed.
LEMMA CachesOK ==
    ASSUME TypeOK, UpstreamInv, NEW p \in Parts
    PROVE  /\ latest[p] \in Release /\ latest[p] \in Published /\ CopyOK(repomd[p])
           /\ primary[p] \in [Release -> Copy] /\ \A n \in Release : CopyOK(primary[p][n])
<1>1. latest[p] \in Release /\ repomd[p] \in Copy /\ primary[p] \in [Release -> Copy]
  BY DEF TypeOK
<1>2. latest[p] \in Published /\ repomd[p].release \in Published
  BY LatestListing DEF UpstreamInv, Published
<1>3. \A n \in Release : primary[p][n].release \in Published
  BY DEF UpstreamInv
<1> QED  BY <1>1, <1>2, <1>3 DEF CopyOK

\* A write of a release that has been leaves a copy of one that has been.
LEMMA WrittenCopyOK ==
    ASSUME NEW old, CopyOK(old), NEW v \in Release, v \in Published, NEW c \in AfterWrite(old, v)
    PROVE  CopyOK(c)
<1>1. TRUE \in BOOLEAN /\ FALSE \in BOOLEAN
  OBVIOUS
<1>2. \A b \in BOOLEAN : CopyOK([release |-> v, whole |-> b])
  BY DEF CopyOK, Copy
<1>3. c = old \/ c = [release |-> v, whole |-> TRUE] \/ c = [release |-> v, whole |-> FALSE]
  BY DEF AfterWrite
<1> QED  BY <1>1, <1>2, <1>3

LEMMA NameIsRelease == ASSUME NEW v \in Release PROVE NameOf(v) \in Release
BY BoundsAssumption DEF NameOf, Release

LEMMA NoListingOK ==
    ASSUME TypeOK, UpstreamInv, NEW p \in Parts, NEW r, CopyOK(r)
    PROVE  ListingOK(p, NoListing(p, r, primary[p]))
<1>1. 0 \in Published
  BY LatestListing DEF Published
<1> QED  BY <1>1, CachesOK DEF ListingOK, NoListing

\* Metadata that is fetched by the current repomd.xml is current; by another, it
\* counts as a fast check.
LEMMA FetchedOK ==
    ASSUME TypeOK, UpstreamInv, NEW p \in Parts, NEW r, CopyOK(r), NEW v \in Release, v \in Published,
           NEW fast \in BOOLEAN, fast \/ v = latest[p], NEW keep \in BOOLEAN,
           NEW l \in FetchPrimary(p, r, v, fast, keep)
    PROVE  ListingOK(p, l)
<1> DEFINE got == IF config.unique THEN v ELSE latest[p]
           old == primary[p][NameOf(v)]
           Cached == IF keep THEN AfterWrite(old, got) ELSE {old}
<1>1. got \in Release /\ got \in Published /\ (fast \/ got = latest[p])
  BY CachesOK
<1>2. CopyOK(old)
  BY CachesOK, NameIsRelease
<1>3. \A c \in Cached : CopyOK(c)
  BY <1>1, <1>2, WrittenCopyOK
<1>4. CASE l = NoListing(p, r, primary[p])
  BY <1>4, NoListingOK
<1>5. CASE \E c \in Cached : l = [release |-> got, fast |-> fast, repomd |-> r,
                                  primary |-> [primary[p] EXCEPT ![NameOf(v)] = c]]
  <2>1. PICK c \in Cached : l = [release |-> got, fast |-> fast, repomd |-> r,
                                 primary |-> [primary[p] EXCEPT ![NameOf(v)] = c]]
    BY <1>5
  <2>2. CopyOK(c) /\ c \in Copy
    BY <1>3 DEF CopyOK
  <2>3. primary[p] \in [Release -> Copy] /\ \A n \in Release : CopyOK(primary[p][n])
    BY CachesOK
  <2> HIDE DEF got, Cached
  <2>4. l.release = got /\ l.fast = fast /\ l.repomd = r /\ l.primary = [primary[p] EXCEPT ![NameOf(v)] = c]
    BY <2>1
  <2>5. l.primary \in [Release -> Copy] /\ \A n \in Release : CopyOK(l.primary[n])
    BY <2>2, <2>3, <2>4
  <2>6. l.fast \in BOOLEAN
    BY <2>4
  <2>7. ~l.fast => l.release \in {0, latest[p]}
    BY <2>4, <1>1
  <2> QED  BY <2>4, <2>5, <2>6, <2>7, <1>1 DEF ListingOK
<1> QED  BY <1>4, <1>5 DEF FetchPrimary

\* Every listing is sound, whatever is cached and whatever the server answers.
LEMMA ListingSound ==
    ASSUME TypeOK, UpstreamInv, NEW p \in Parts, NEW keep \in BOOLEAN, NEW l \in Listings(p, keep)
    PROVE  ListingOK(p, l)
<1>0. TRUE \in BOOLEAN /\ FALSE \in BOOLEAN
  OBVIOUS
<1>1. CASE l = NoListing(p, repomd[p], primary[p])
  BY <1>1, NoListingOK, CachesOK
<1>2. CASE l \in ListVersion(p)
  <2>1. l = [release |-> latest[p], fast |-> FALSE, repomd |-> repomd[p], primary |-> primary[p]]
    BY <1>2 DEF ListVersion
  <2>2. l.release = latest[p] /\ l.repomd = repomd[p] /\ l.primary = primary[p]
    BY <2>1
  <2>3. l.fast = FALSE
    BY <2>1
  <2>4. l.fast \in BOOLEAN
    BY <2>3
  <2> QED  BY <2>2, <2>4, CachesOK DEF ListingOK
<1>3. CASE l \in Modified(p, keep)
  <2>1. PICK r \in AfterWrite(repomd[p], latest[p]) : l \in FetchPrimary(p, r, latest[p], FALSE, keep)
    BY <1>3 DEF Modified
  <2>2. CopyOK(r)
    BY <2>1, CachesOK, WrittenCopyOK
  <2> QED  BY <2>1, <2>2, <1>0, CachesOK, FetchedOK
<1>4. CASE l \in NotModified(p, keep) /\ MayAnswerNotModified(p)
  <2> DEFINE v == repomd[p].release
             cached == primary[p][NameOf(v)]
  <2>1. v \in Release /\ v \in Published
    BY <1>4, CachesOK DEF MayAnswerNotModified, CopyOK, Copy
  <2>2. CopyOK(cached) /\ cached.release \in Published
    BY <2>1, CachesOK, NameIsRelease DEF CopyOK
  <2>3. CASE l = NoListing(p, repomd[p], primary[p])
    BY <2>3, NoListingOK, CachesOK
  <2>4. CASE l \in FetchPrimary(p, repomd[p], v, TRUE, keep)
    BY <2>1, <2>4, <1>0, CachesOK, FetchedOK
  <2>5. CASE l = [release |-> cached.release, fast |-> TRUE, repomd |-> repomd[p], primary |-> primary[p]]
    <3>1. l.release = cached.release /\ l.repomd = repomd[p] /\ l.primary = primary[p]
      BY <2>5
    <3>2. l.fast
      BY <2>5
    <3>3. l.fast \in BOOLEAN
      BY <2>5
    <3> QED  BY <3>1, <3>2, <3>3, <2>2, CachesOK DEF ListingOK
  <2> QED  BY <1>4, <2>3, <2>4, <2>5 DEF NotModified
<1> QED  BY <1>1, <1>2, <1>3, <1>4 DEF Listings, ListRepo

\* So are the listings of all parts, and the caches they leave.
LEMMA ListPartsSound ==
    ASSUME TypeOK, UpstreamInv, NEW keep \in BOOLEAN, NEW found \in Founds(keep), ListParts(keep, found)
    PROVE  /\ \A p \in Parts : ListingOK(p, found[p])
           /\ repomd' \in [Parts -> Copy] /\ primary' \in [Parts -> [Release -> Copy]]
           /\ \A p \in Parts : repomd'[p].release \in Published
           /\ \A p \in Parts : \A n \in Release : primary'[p][n].release \in Published
<1>1. \A p \in Parts : ListingOK(p, found[p])
  BY ListingSound DEF ListParts
<1>2. repomd' = [p \in Parts |-> found[p].repomd] /\ primary' = [p \in Parts |-> found[p].primary]
  BY DEF ListParts
<1> QED  BY <1>1, <1>2 DEF ListingOK, CopyOK

LEMMA BasisSound ==
    ASSUME TypeOK, NEW found, \A p \in Parts : ListingOK(p, found[p])
    PROVE  /\ BasisOf(found) \in [Parts -> Basis]
           /\ \A p \in Parts : /\ BasisOf(found)[p].release \in Published
                               /\ ~BasisOf(found)[p].fast => BasisOf(found)[p].release \in {0, latest[p]}
<1>1. \A p \in Parts : /\ BasisOf(found)[p].release = found[p].release
                       /\ BasisOf(found)[p].fast = found[p].fast
  BY DEF BasisOf
<1>2. \A p \in Parts : found[p].release \in {0} \cup Release
  BY LatestListing DEF ListingOK
<1>3. \A p \in Parts : found[p].fast \in BOOLEAN
  BY DEF ListingOK
<1>4. \A p \in Parts : [release |-> found[p].release, fast |-> found[p].fast] \in Basis
  BY <1>2, <1>3 DEF Basis
<1>5. BasisOf(found) \in [Parts -> Basis]
  BY <1>4 DEF BasisOf
<1> QED  BY <1>1, <1>5 DEF ListingOK

------------------------------------------------------------------------------
\* What a file should be by a listing, and that the current one says it.
LEMMA WantedByListing ==
    ASSUME TypeOK, UpstreamInv, NEW f \in Files, NEW b \in Basis, b.release \in Published
    PROVE  /\ WantedBy(b, f) \in {0} \cup Release
           /\ b.release = latest[PartOf(f)] => b.release # 0 /\ WantedBy(b, f) = Current(f)
           /\ WantedBy(b, f) # 0 => b.release # 0
<1>1. PartOf(f) \in Parts /\ f \in PartOf(f)
  BY PartOfFile DEF TypeOK
<1>2. b.release # 0 => b.release \in 1..Len(releases)
  BY LatestListing DEF Published
<1>3. WantedBy(b, f) \in {0} \cup Release
  BY <1>2, LatestListing DEF WantedBy
<1>4. b.release = latest[PartOf(f)] => b.release # 0 /\ releases[b.release][f] = Current(f)
  BY <1>1, LatestListing DEF UpstreamInv
<1> QED  BY <1>3, <1>4 DEF WantedBy

LEMMA WantedInPlan ==
    ASSUME TypeOK, UpstreamInv, BasisInv, NEW f \in Files
    PROVE  /\ Wanted(f) \in {0} \cup Release
           /\ Wanted(f) # 0 => basis[PartOf(f)].release # 0
           /\ Checked(f) => Wanted(f) = Current(f)
           /\ basis[PartOf(f)].release = latest[PartOf(f)] => Wanted(f) = Current(f)
<1>1. PartOf(f) \in Parts /\ basis[PartOf(f)] \in Basis
  BY PartOfFile DEF TypeOK
<1>2. /\ basis[PartOf(f)].release \in Published
      /\ ~basis[PartOf(f)].fast => basis[PartOf(f)].release \in {0, latest[PartOf(f)]}
  BY <1>1 DEF BasisInv
<1> QED  BY <1>1, <1>2, WantedByListing DEF Wanted, Checked

\* The write of a failed file leaves its row, unless it fails.
LEMMA FailedFileAdded ==
    ASSUME TypeOK, OneLetterPerFile, NEW f \in Files, NEW want \in Release, AddFailedFile(f, want)
    PROVE  /\ letters' \subseteq Letter /\ OneLetterPerFile'
           /\ faults' \/ \E l \in letters' : l.file = f /\ l.want = want
           /\ \A l \in letters : l.file # f => l \in letters'
           /\ faults' = faults \/ faults' = TRUE
<1> DEFINE Row(l) == IF l.file = f THEN [l EXCEPT !.want = want] ELSE l
           new == NewLetter(f, want)
<1>1. letters \subseteq Letter
  BY DEF TypeOK
<1>2. CASE faults' = TRUE /\ UNCHANGED letters
  BY <1>1, <1>2 DEF OneLetterPerFile
<1>3. CASE /\ UNCHANGED faults /\ \E l \in letters : l.file = f
           /\ letters' = {Row(l) : l \in letters}
  <2>1. \A l \in letters : Row(l) \in Letter /\ Row(l).file = l.file /\ (l.file = f => Row(l).want = want)
    BY <1>1 DEF Letter
  <2>2. letters' \subseteq Letter
    BY <1>3, <2>1
  <2>3. ASSUME NEW a \in letters', NEW b \in letters', a.file = b.file
        PROVE  a = b
    <3>1. PICK l \in letters, m \in letters : a = Row(l) /\ b = Row(m)
      BY <1>3
    <3>2. l = m
      BY <2>1, <2>3, <3>1 DEF OneLetterPerFile
    <3> QED  BY <3>1, <3>2
  <2>4. \E l \in letters' : l.file = f /\ l.want = want
    BY <1>3, <2>1
  <2>5. \A l \in letters : l.file # f => l \in letters'
    BY <1>3
  <2> HIDE DEF Row
  <2> QED  BY <1>3, <2>2, <2>3, <2>4, <2>5 DEF OneLetterPerFile
<1>4. CASE /\ UNCHANGED faults /\ ~\E l \in letters : l.file = f
           /\ letters' = letters \cup {new}
  <2>1. FreshId \in Nat
    BY <1>1, LettersFinite, FreshIdExists DEF TypeOK
  <2>2. new \in Letter /\ new.file = f /\ new.want = want
    BY <2>1 DEF NewLetter, Letter
  <2> HIDE DEF new
  <2>3. OneLetterPerFile'
    BY <1>4, <2>2 DEF OneLetterPerFile
  <2> QED  BY <1>1, <1>4, <2>2, <2>3
<1> QED  BY <1>2, <1>3, <1>4 DEF AddFailedFile

\* A counter that is increased for a file that leaves the loop.
LEMMA Counted ==
    ASSUME TypeOK, TallyInv, pc \in Looping, NEW f \in todo, todo' = todo \ {f},
           NEW c \in Counter, tally' = [tally EXCEPT ![c] = @ + 1]
    PROVE  /\ tally' \in [Counter -> 0..Cardinality(Files)]
           /\ Total \in Nat /\ Total' = Total + 1
           /\ Total' + Cardinality(todo') <= Cardinality(Files)
<1>1. IsFiniteSet(Files) /\ Cardinality(Files) \in Nat
  BY FilesFinite, FS_CardinalityType DEF TypeOK
<1>2. IsFiniteSet(todo) /\ Cardinality(todo) \in Nat
  BY <1>1, FS_Subset, FS_CardinalityType DEF TypeOK
<1>3. Cardinality(todo') = Cardinality(todo) - 1
  BY <1>2, FS_RemoveElement
<1>4. /\ tally \in [Counter -> 0..Cardinality(Files)] /\ \A d \in Counter : tally[d] \in Nat
      /\ Counter = {"downloaded", "failed", "skipped", "deleted"}
  BY <1>1 DEF TypeOK, Counter
<1>5. Total \in Nat /\ Total' = Total + 1
  BY <1>4 DEF Total
<1>6. Total' + Cardinality(todo') <= Cardinality(Files)
  BY <1>2, <1>3, <1>5, <1>1 DEF TallyInv
<1>7. tally[c] + 1 <= Cardinality(Files)
  <2>1. Total + 1 <= Cardinality(Files)
    BY <1>5, <1>6, <1>1, <1>2, <1>3, FS_EmptySet
  <2>2. tally[c] <= Total
    BY <1>4 DEF Total
  <2> QED  BY <2>1, <2>2, <1>1, <1>4, <1>5
<1> QED  BY <1>1, <1>4, <1>5, <1>6, <1>7

------------------------------------------------------------------------------
\* The steps of the three loops over files, what else a step does to a row, and
\* how each of the loops comes to its end.
Loop(f) == Process(f) \/ Resolve(f) \/ RecordInvalid(f)

LEMMA LoopStep ==
    ASSUME TypeOK, NEW f \in Files, Loop(f)
    PROVE  /\ f \in todo /\ todo' = todo \ {f} /\ pc \in Looping
           /\ \E c \in Counter : tally' = [tally EXCEPT ![c] = @ + 1]
           /\ UNCHANGED <<upstreamVars, cacheVars, basis, plan, outcome, snapshot, sweep, run, pc, ctxDone, ops>>
           /\ disk' \in {disk, [disk EXCEPT ![f] = Absent]}
           /\ records' \subseteq Files
           /\ faults' = faults \/ faults' = TRUE
           /\ \/ letters' \subseteq letters
              \/ /\ AddFailedFile(f, Wanted(f))
                 /\ pc = "recording" \/ (pc = "processing" /\ plan[f] = "download")
<1>1. records \subseteq Files /\ Counter = {"downloaded", "failed", "skipped", "deleted"}
  BY DEF TypeOK, Counter
<1>2. CASE Process(f)
  <2>1. /\ f \in todo /\ todo' = todo \ {f} /\ pc = "processing"
        /\ UNCHANGED <<upstreamVars, cacheVars, basis, plan, outcome, snapshot, sweep, run, pc, ctxDone, ops>>
    BY <1>2 DEF Process
  <2>2. \E c \in Counter : tally' = [tally EXCEPT ![c] = @ + 1]
    BY <1>1, <1>2 DEF Process, RecordDownload, RecordFailure, CountMissing, Delete, CountSkip, Count
  <2>3. disk' \in {disk, [disk EXCEPT ![f] = Absent]}
    BY <1>2 DEF Process, RecordDownload, RecordFailure, CountMissing, Delete, CountSkip
  <2>4. records' \subseteq Files
    BY <1>1, <1>2 DEF Process, RecordDownload, RecordFailure, CountMissing, Delete, CountSkip, storeVars
  <2>5. faults' = faults \/ faults' = TRUE
    BY <1>2 DEF Process, RecordDownload, RecordFailure, CountMissing, Delete, CountSkip, AddFailedFile
  <2>6. letters' = letters \/ (AddFailedFile(f, Wanted(f)) /\ plan[f] = "download")
    BY <1>2 DEF Process, RecordDownload, RecordFailure, CountMissing, Delete, CountSkip, storeVars
  <2> QED  BY <2>1, <2>2, <2>3, <2>4, <2>5, <2>6 DEF Looping
<1>3. CASE Resolve(f)
  <2>1. \E c \in Counter : tally' = [tally EXCEPT ![c] = @ + 1]
    BY <1>1, <1>3 DEF Resolve, Count
  <2>2. faults' = faults \/ faults' = TRUE
    BY <1>3 DEF Resolve
  <2>3. letters' \subseteq letters
    BY <1>3 DEF Resolve
  <2> QED  BY <1>1, <1>3, <2>1, <2>2, <2>3 DEF Resolve, Looping
<1>4. CASE RecordInvalid(f)
  <2>1. faults' = faults \/ faults' = TRUE
    BY <1>4 DEF RecordInvalid, AddFailedFile
  <2> QED  BY <1>1, <1>4, <2>1 DEF RecordInvalid, Count, Looping
<1> QED  BY <1>2, <1>3, <1>4 DEF Loop

\* Steps that leave the plan, the files and the rows alone.
Quiet ==
    /\ UNCHANGED <<upstreamVars, cacheVars, storeVars, opVars, disk>>
    /\ pc' \in Busy \cup {"idle"} /\ run' \in RunStatus /\ ops' \in 0..MaxOps
    /\ ctxDone' \in BOOLEAN /\ faults' \in BOOLEAN
    /\ \/ pc' = pc
       \/ pc \in {"idle", "planning"} /\ pc' \in {"idle", "planning", "validating"}
    /\ pc' = pc => faults' = faults /\ (ctxDone' = ctxDone \/ ctxDone' = TRUE)

\* Steps that end an operation.
End ==
    /\ UNCHANGED <<upstreamVars, cacheVars, storeVars, disk, ops>>
    /\ Leave /\ Forget /\ run' \in RunStatus

LEMMA QuietSteps ==
    ASSUME TypeOK, StartSync \/ PlanFails \/ StartValidate \/ Cancel \/ NoMoreOps
    PROVE  Quiet
<1>1. /\ run \in RunStatus /\ ops \in 0..MaxOps /\ pc \in Busy \cup {"idle"}
      /\ ctxDone \in BOOLEAN /\ faults \in BOOLEAN
  BY DEF TypeOK
<1>2. CASE StartSync
  <2>1. ops' \in 0..MaxOps /\ pc = "idle" /\ pc' = "planning" /\ faults' = faults /\ ctxDone' = ctxDone
    BY <1>1, <1>2, BoundsAssumption DEF StartSync, Begin
  <2> QED  BY <1>1, <1>2, <2>1 DEF StartSync, Quiet, Busy, SyncPC, RunStatus
<1>3. CASE PlanFails
  <2>1. pc = "planning" /\ pc' = "idle"
    BY <1>3 DEF PlanFails, Leave
  <2>2. ctxDone' \in BOOLEAN /\ faults' \in BOOLEAN
    BY <1>3 DEF PlanFails, Leave
  <2>3. run' \in RunStatus /\ ops' = ops
    BY <1>1, <1>3 DEF PlanFails, LastRun, RunStatus
  <2>4. UNCHANGED <<upstreamVars, cacheVars, storeVars, opVars, disk>>
    BY <1>3 DEF PlanFails
  <2> QED  BY <1>1, <2>1, <2>2, <2>3, <2>4 DEF Quiet
<1>4. CASE StartValidate
  <2>1. ops' \in 0..MaxOps /\ pc = "idle" /\ pc' = "validating" /\ faults' = faults /\ ctxDone' = ctxDone
    BY <1>1, <1>4, BoundsAssumption DEF StartValidate, Begin
  <2> QED  BY <1>1, <1>4, <2>1 DEF StartValidate, Quiet, Busy, ValidatePC
<1>5. CASE Cancel
  <2>1. (ctxDone' = ctxDone \/ ctxDone' = TRUE) /\ ctxDone' \in BOOLEAN
    BY <1>5 DEF Cancel
  <2>2. UNCHANGED <<upstreamVars, cacheVars, storeVars, opVars, disk, pc, run, ops, faults>>
    BY <1>5 DEF Cancel
  <2> QED  BY <1>1, <2>1, <2>2 DEF Quiet
<1>6. CASE NoMoreOps
  BY <1>1, <1>6 DEF NoMoreOps, Quiet, vars
<1> QED  BY <1>2, <1>3, <1>4, <1>5, <1>6

LEMMA EndSteps ==
    ASSUME TypeOK, UnsafePath \/ FinishSync \/ FinishRetry \/ FinishValidate \/ Crash
    PROVE  End
<1>1. run \in RunStatus
  BY DEF TypeOK
<1>2. CASE FinishSync
  <2>1. LastRun("success") \/ LastRun("partial")
    BY <1>2 DEF FinishSync
  <2>2. run' \in RunStatus
    BY <1>1, <2>1 DEF LastRun, RunStatus
  <2> QED  BY <1>2, <2>2 DEF FinishSync, End
<1> QED  BY <1>1, <1>2 DEF UnsafePath, FinishRetry, FinishValidate, Crash, End

LEMMA StepKinds ==
    ASSUME TypeOK, Next
    PROVE  \/ Quiet \/ End \/ PlanSync \/ DryRun \/ ValidateFails \/ CheckFiles
           \/ StartRetry \/ ExecutePlan \/ ExecuteRetry
           \/ \E f \in Files : Loop(f)
           \/ \E f \in Files : Publish(f)
           \/ \E p \in Parts : Sweep(p)
           \/ \E l \in letters : Dismiss(l)
<1>1. StartSync \/ PlanFails \/ StartValidate \/ Cancel \/ NoMoreOps => Quiet
  BY QuietSteps
<1>2. UnsafePath \/ FinishSync \/ FinishRetry \/ FinishValidate \/ Crash => End
  BY EndSteps
<1> QED  BY <1>1, <1>2 DEF Next, SyncStep, RetryStep, ValidateStep, Loop

------------------------------------------------------------------------------
(* The type of every variable *)

LEMMA TypeOfLists ==
    ASSUME TypeOK, UpstreamInv, TallyInv, PlanSync \/ DryRun \/ ValidateFails \/ CheckFiles
    PROVE  TypeOK'
<1>0. config' = config
  BY DEF PlanSync, DryRun, ValidateFails, CheckFiles, upstreamVars
<1>1. Files' = Files /\ Parts' = Parts /\ Letter' = Letter
  BY <1>0, SameProvider
<1>2. repomd' \in [Parts -> Copy] /\ primary' \in [Parts -> [Release -> Copy]]
  <2>1. \E keep \in BOOLEAN : \E found \in Founds(keep) : ListParts(keep, found)
    BY DEF PlanSync, DryRun, ValidateFails, CheckFiles
  <2> QED  BY <2>1, ListPartsSound
<1>3. /\ UNCHANGED <<config, releases, latest, backdated, records, letters, disk, snapshot, sweep, outcome, tally, ops>>
      /\ UNCHANGED <<basis>> \/ \E keep \in BOOLEAN : \E found \in Founds(keep) :
                                    ListParts(keep, found) /\ basis' = BasisOf(found)
  BY DEF PlanSync, DryRun, ValidateFails, CheckFiles, upstreamVars, storeVars, opVars
<1>4. basis' \in [Parts -> Basis]
  BY <1>3, ListPartsSound, BasisSound DEF TypeOK
<1>5. plan' \in [Files -> Action]
  <2>1. CASE PlanSync
    <3>1. plan' = [f \in Files |-> PlannedAction(f, basis'[PartOf(f)])]
      BY <2>1 DEF PlanSync
    <3>2. \A f \in Files : PlannedAction(f, basis'[PartOf(f)]) \in Action
      BY DEF PlannedAction, Action
    <3> QED  BY <3>1, <3>2
  <2> QED  BY <2>1 DEF DryRun, ValidateFails, CheckFiles, opVars, TypeOK
<1>6. todo' \subseteq Files
  BY DEF PlanSync, DryRun, ValidateFails, CheckFiles, opVars, TypeOK
<1>7. run' \in RunStatus
  BY DEF PlanSync, DryRun, ValidateFails, CheckFiles, LastRun, RunStatus, TypeOK
<1>8. pc' \in Busy \cup {"idle"}
  BY DEF PlanSync, DryRun, ValidateFails, CheckFiles, Leave, Busy, SyncPC, ValidatePC
<1>9. ctxDone' \in BOOLEAN /\ faults' \in BOOLEAN
  <2>1. CASE Leave
    BY <2>1 DEF Leave
  <2> QED  BY <2>1 DEF PlanSync, DryRun, ValidateFails, CheckFiles, TypeOK
<1> QED  BY <1>1, <1>2, <1>3, <1>4, <1>5, <1>6, <1>7, <1>8, <1>9 DEF TypeOK

LEMMA TypeOfExecution ==
    ASSUME TypeOK, ExecutePlan \/ ExecuteRetry
    PROVE  TypeOK'
<1>1. config' = config
  BY DEF ExecutePlan, ExecuteRetry, upstreamVars
<1>2. Files' = Files /\ Parts' = Parts /\ Letter' = Letter
  BY <1>1, SameProvider
<1>3. /\ disk' \in [Files -> {Absent, Partial} \cup Release]
      /\ outcome' \in [Files -> {"none", "success", "failed"}]
  BY DEF ExecutePlan, ExecuteRetry, Execute
<1>4. sweep' \subseteq Parts /\ pc' \in Busy
  BY DEF ExecutePlan, ExecuteRetry, TypeOK, Busy, SyncPC, RetryPC
<1>5. todo' \subseteq Files
  <2>1. CASE ExecutePlan
    BY <2>1 DEF ExecutePlan
  <2>2. CASE ExecuteRetry
    <3>1. Downloads \subseteq Files
      BY <2>2 DEF ExecuteRetry, Downloads, Jobs, TypeOK, Letter
    <3> QED  BY <2>2, <3>1 DEF ExecuteRetry
  <2> QED  BY <2>1, <2>2
<1>6. UNCHANGED <<config, releases, latest, backdated, repomd, primary, records, letters, basis, plan, snapshot, tally,
                  run, ctxDone, faults, ops>>
  BY DEF ExecutePlan, ExecuteRetry, upstreamVars, cacheVars, storeVars
<1> QED  BY <1>2, <1>3, <1>4, <1>5, <1>6 DEF TypeOK

LEMMA TypeOfLoop ==
    ASSUME TypeOK, UpstreamInv, BasisInv, OneLetterPerFile, TallyInv, PlanFollowed, Recording,
           NEW f \in Files, Loop(f)
    PROVE  TypeOK' /\ OneLetterPerFile'
<1>1. config' = config
  BY LoopStep DEF upstreamVars
<1>2. Files' = Files /\ Parts' = Parts /\ Letter' = Letter
  BY <1>1, SameProvider
<1>3. tally' \in [Counter -> 0..Cardinality(Files)]
  BY LoopStep, Counted
<1>4. letters' \subseteq Letter /\ OneLetterPerFile'
  <2>1. CASE letters' \subseteq letters
    BY <2>1 DEF TypeOK, OneLetterPerFile
  <2>2. CASE /\ AddFailedFile(f, Wanted(f))
             /\ pc = "recording" \/ (pc = "processing" /\ plan[f] = "download")
    <3>1. Wanted(f) # 0
      BY <2>2, LoopStep DEF Recording, PlanFollowed, Followed
    <3>2. Wanted(f) \in Release
      BY <3>1, WantedInPlan
    <3> QED  BY <2>2, <3>2, FailedFileAdded
  <2> QED  BY <2>1, <2>2, LoopStep
<1>5. disk' \in [Files -> {Absent, Partial} \cup Release]
  BY LoopStep DEF TypeOK
<1>6. todo' \subseteq Files /\ records' \subseteq Files
  BY LoopStep DEF TypeOK
<1>7. faults' \in BOOLEAN
  BY LoopStep DEF TypeOK
<1>8. UNCHANGED <<config, releases, latest, backdated, repomd, primary, basis, plan, outcome, snapshot, sweep, run, pc,
                  ctxDone, ops>>
  BY LoopStep DEF upstreamVars, cacheVars
<1> QED  BY <1>2, <1>3, <1>4, <1>5, <1>6, <1>7, <1>8 DEF TypeOK

\* A new listing of the upstream: what it says of the files of every part.
LEMMA Publication ==
    ASSUME TypeOK, UpstreamInv, NEW f \in Files, Publish(f)
    PROVE  /\ config' = config /\ pc = "idle" /\ PartOf(f) \in Parts
           /\ releases' \in Seq([Files -> {0} \cup Release])
           /\ Len(releases') = Len(releases) + 1 /\ Len(releases) + 1 \in Release
           /\ \A v \in 1..Len(releases) : releases'[v] = releases[v]
           /\ \A g \in Files \ {f} : Current(g)' = Current(g)
           /\ latest' = [latest EXCEPT ![PartOf(f)] = Len(releases) + 1]
           /\ backdated' \subseteq Parts
           /\ UNCHANGED <<cacheVars, storeVars, opVars, disk, run, pc, ctxDone, faults, ops>>
<1>1. releases \in Seq([Files -> {0} \cup Release]) /\ Len(releases) \in Nat \ {0}
  BY LatestListing DEF TypeOK
<1>2. Len(releases) + 1 \in Release
  BY <1>1, BoundsAssumption DEF Publish, Release
<1>3. PICK content \in {0, Len(releases) + 1} :
         releases' = Append(releases, [releases[Len(releases)] EXCEPT ![f] = content])
  BY DEF Publish
<1> DEFINE new == [releases[Len(releases)] EXCEPT ![f] = content]
<1>4. releases[Len(releases)] \in [Files -> {0} \cup Release]
  BY <1>1, LatestListing
<1>5. new \in [Files -> {0} \cup Release] /\ \A g \in Files \ {f} : new[g] = Current(g)
  BY <1>2, <1>4 DEF Current
<1> HIDE DEF new
<1>6. /\ releases' \in Seq([Files -> {0} \cup Release]) /\ Len(releases') = Len(releases) + 1
      /\ \A v \in 1..Len(releases) : releases'[v] = releases[v]
      /\ releases'[Len(releases) + 1] = new
  BY <1>1, <1>3, <1>5, AppendProperties DEF new
<1>7. \A g \in Files \ {f} : Current(g)' = Current(g)
  BY <1>5, <1>6 DEF Current
<1>8. PartOf(f) \in Parts
  BY PartOfFile DEF TypeOK
<1>9. backdated' \subseteq Parts
  BY <1>8 DEF Publish, TypeOK
<1> QED  BY <1>2, <1>6, <1>7, <1>8, <1>9 DEF Publish

LEMMA TypeOfPublish ==
    ASSUME TypeOK, UpstreamInv, NEW f \in Files, Publish(f)
    PROVE  TypeOK'
<1>1. Files' = Files /\ Parts' = Parts /\ Letter' = Letter
  BY Publication, SameProvider
<1>2. latest' \in [Parts -> Release]
  BY Publication DEF TypeOK
<1>3. UNCHANGED <<config, repomd, primary, disk, records, letters, run, pc, ctxDone, faults, basis, plan, outcome,
                  snapshot, todo, sweep, tally, ops>>
  BY Publication DEF cacheVars, storeVars, opVars
<1> QED  BY <1>1, <1>2, <1>3, Publication DEF TypeOK

LEMMA TypeOfEnds ==
    ASSUME TypeOK, Quiet \/ End
    PROVE  TypeOK'
<1>1. config' = config
  BY DEF Quiet, End, upstreamVars
<1>2. Files' = Files /\ Parts' = Parts /\ Letter' = Letter
  BY <1>1, SameProvider
<1>3. /\ UNCHANGED <<config, releases, latest, backdated, repomd, primary, records, letters, disk>>
      /\ run' \in RunStatus
  BY DEF Quiet, End, upstreamVars, cacheVars, storeVars
<1>4. /\ basis' \in [Parts -> Basis] /\ plan' \in [Files -> Action]
      /\ outcome' \in [Files -> {"none", "success", "failed"}]
      /\ snapshot' \subseteq Letter /\ todo' \subseteq Files /\ sweep' \subseteq Parts
      /\ tally' \in [Counter -> 0..Cardinality(Files)]
  <2>1. CASE Quiet
    BY <2>1 DEF Quiet, opVars, TypeOK
  <2>2. CASE End
    <3>1. [release |-> 0, fast |-> FALSE] \in Basis
      <4>1. 0 \in {0} \cup Release /\ FALSE \in BOOLEAN
        OBVIOUS
      <4> QED  BY <4>1 DEF Basis
    <3>2. Cardinality(Files) \in Nat
      BY FilesFinite, FS_CardinalityType DEF TypeOK
    <3>3. NoBasis \in [Parts -> Basis]
      BY <3>1 DEF NoBasis
    <3> QED  BY <2>2, <3>2, <3>3 DEF End, Forget, NoPlan, NoOutcome, Zero, Action
  <2> QED  BY <2>1, <2>2
<1>5. pc' \in Busy \cup {"idle"} /\ ops' \in 0..MaxOps
  BY DEF Quiet, End, Leave, TypeOK
<1>6. ctxDone' \in BOOLEAN /\ faults' \in BOOLEAN
  BY DEF Quiet, End, Leave
<1> QED  BY <1>2, <1>3, <1>4, <1>5, <1>6 DEF TypeOK

\* A deletion of cached metadata leaves copies as they were, or none.
LEMMA Swept ==
    ASSUME TypeOK, UpstreamInv, NEW p \in Parts, Sweep(p)
    PROVE  /\ repomd' \in [Parts -> Copy] /\ primary' \in [Parts -> [Release -> Copy]]
           /\ \A q \in Parts : repomd'[q].release \in Published
           /\ \A q \in Parts : \A n \in Release : primary'[q][n].release \in Published
<1> DEFINE none == [n \in Release |-> NoCopy]
<1>1. NoCopy \in Copy
  <2>1. 0 \in {0} \cup Release /\ FALSE \in BOOLEAN
    OBVIOUS
  <2> QED  BY <2>1 DEF NoCopy, Copy
<1>2. NoCopy.release \in Published
  BY LatestListing DEF NoCopy, Published
<1>3. none \in [Release -> Copy] /\ \A n \in Release : none[n].release \in Published
  BY <1>1, <1>2
<1>4. repomd' \in {repomd, [repomd EXCEPT ![p] = NoCopy]} /\ primary' \in {primary, [primary EXCEPT ![p] = none]}
  BY DEF Sweep
<1> HIDE DEF none
<1>5. repomd' \in [Parts -> Copy] /\ \A q \in Parts : repomd'[q].release \in Published
  BY <1>1, <1>2, <1>4 DEF TypeOK, UpstreamInv
<1>6. primary' \in [Parts -> [Release -> Copy]]
  BY <1>3, <1>4 DEF TypeOK
<1>7. \A q \in Parts : \A n \in Release : primary'[q][n].release \in Published
  BY <1>3, <1>4 DEF TypeOK, UpstreamInv
<1> QED  BY <1>5, <1>6, <1>7

LEMMA TypeOfOthers ==
    ASSUME TypeOK, UpstreamInv, StartRetry \/ (\E p \in Parts : Sweep(p)) \/ (\E l \in letters : Dismiss(l))
    PROVE  TypeOK'
<1>1. config' = config
  BY DEF StartRetry, Sweep, Dismiss, upstreamVars
<1>2. Files' = Files /\ Parts' = Parts /\ Letter' = Letter
  BY <1>1, SameProvider
<1>3. CASE StartRetry
  <2>1. pc' \in Busy /\ ops' \in 0..MaxOps
    BY <1>3, BoundsAssumption DEF StartRetry, Begin, Busy, RetryPC, TypeOK
  <2>2. snapshot' \subseteq Letter
    BY <1>3 DEF StartRetry, TypeOK
  <2>3. UNCHANGED <<config, releases, latest, backdated, repomd, primary, disk, records, letters, run, ctxDone, faults,
                    basis, plan, outcome, todo, sweep, tally>>
    BY <1>3 DEF StartRetry, Begin, upstreamVars, cacheVars, storeVars
  <2> QED  BY <1>2, <2>1, <2>2, <2>3 DEF TypeOK
<1>4. CASE \E p \in Parts : Sweep(p)
  <2>1. PICK p \in Parts : Sweep(p)
    BY <1>4
  <2>3. repomd' \in [Parts -> Copy] /\ primary' \in [Parts -> [Release -> Copy]]
    BY <2>1, Swept
  <2>4. sweep' \subseteq Parts
    BY <2>1 DEF Sweep, TypeOK
  <2>5. UNCHANGED <<config, releases, latest, backdated, disk, records, letters, run, pc, ctxDone, faults,
                    basis, plan, outcome, snapshot, todo, tally, ops>>
    BY <2>1 DEF Sweep, upstreamVars, storeVars
  <2> QED  BY <1>2, <2>3, <2>4, <2>5 DEF TypeOK
<1>5. CASE \E l \in letters : Dismiss(l)
  <2>1. letters' \subseteq letters
    BY <1>5 DEF Dismiss
  <2>2. faults' \in BOOLEAN
    BY <1>5 DEF Dismiss
  <2>3. UNCHANGED <<config, releases, latest, backdated, repomd, primary, disk, records, run, pc, ctxDone,
                    basis, plan, outcome, snapshot, todo, sweep, tally, ops>>
    BY <1>5 DEF Dismiss, upstreamVars, cacheVars, opVars
  <2> QED  BY <1>2, <2>1, <2>2, <2>3 DEF TypeOK
<1> QED  BY <1>3, <1>4, <1>5

LEMMA TypeStep ==
    ASSUME EngineInv, Next
    PROVE  TypeOK'
BY StepKinds, TypeOfLists, TypeOfExecution, TypeOfLoop, TypeOfPublish, TypeOfEnds, TypeOfOthers DEF EngineInv

------------------------------------------------------------------------------
(* The upstream, the caches and the listings planned by *)

LEMMA UpstreamStep ==
    ASSUME EngineInv, Next
    PROVE  UpstreamInv'
<1> USE DEF EngineInv
<1>0. config' = config /\ Files' = Files /\ Parts' = Parts
  BY ProviderKept, SameProvider
<1>1. CASE UNCHANGED <<upstreamVars, cacheVars>>
  BY <1>0, <1>1 DEF UpstreamInv, Published, Current, upstreamVars, cacheVars
<1>2. CASE PlanSync \/ DryRun \/ ValidateFails \/ CheckFiles
  <2>1. \E keep \in BOOLEAN : \E found \in Founds(keep) : ListParts(keep, found)
    BY <1>2 DEF PlanSync, DryRun, ValidateFails, CheckFiles
  <2>2. UNCHANGED upstreamVars
    BY <1>2 DEF PlanSync, DryRun, ValidateFails, CheckFiles
  <2> QED  BY <1>0, <2>1, <2>2, ListPartsSound DEF UpstreamInv, Published, Current, upstreamVars
<1>3. CASE \E p \in Parts : Sweep(p)
  <2>1. PICK p \in Parts : Sweep(p)
    BY <1>3
  <2>2. UNCHANGED upstreamVars
    BY <2>1 DEF Sweep
  <2> QED  BY <1>0, <2>1, <2>2, Swept DEF UpstreamInv, Published, Current, upstreamVars
<1>4. CASE \E f \in Files : Publish(f)
  <2>1. PICK f \in Files : Publish(f)
    BY <1>4
  <2> DEFINE now == Len(releases)
  <2>2. now \in Nat \ {0} /\ Len(releases') = now + 1 /\ Published \subseteq Published'
    BY <2>1, Publication, LatestListing DEF Published
  <2>3. ASSUME NEW p \in Parts
        PROVE  latest'[p] \in 1..Len(releases') /\ \A g \in p : releases'[latest'[p]][g] = Current(g)'
    <3>1. CASE p = PartOf(f)
      <4>1. latest'[p] = now + 1
        BY <2>1, <3>1, Publication DEF TypeOK
      <4> QED  BY <2>2, <4>1 DEF Current
    <3>2. CASE p # PartOf(f)
      <4>1. latest'[p] = latest[p] /\ latest[p] \in 1..now
        BY <2>1, <3>2, Publication DEF TypeOK, UpstreamInv
      <4>2. \A g \in p : g \in Files \ {f}
        BY <3>2, <2>3, PartOfFile DEF Files, TypeOK
      <4>3. \A g \in p : releases'[latest[p]][g] = Current(g) /\ Current(g)' = Current(g)
        BY <2>1, <4>1, <4>2, Publication DEF UpstreamInv
      <4> QED  BY <2>2, <4>1, <4>3
    <3> QED  BY <3>1, <3>2
  <2>4. UNCHANGED cacheVars
    BY <2>1, Publication
  <2> QED  BY <1>0, <2>2, <2>3, <2>4 DEF UpstreamInv, cacheVars
<1>5. CASE \E f \in Files : Loop(f)
  BY <1>5, <1>1, LoopStep
<1>6. CASE Quiet \/ End \/ StartRetry \/ ExecutePlan \/ ExecuteRetry \/ \E l \in letters : Dismiss(l)
  BY <1>6, <1>1 DEF Quiet, End, StartRetry, ExecutePlan, ExecuteRetry, Dismiss
<1> QED  BY <1>2, <1>3, <1>4, <1>5, <1>6, StepKinds

LEMMA BasisStep ==
    ASSUME EngineInv, Next
    PROVE  BasisInv'
<1> USE DEF EngineInv
<1> DEFINE Planned == {"downloading", "processing", "recording"}
<1>0. config' = config /\ Parts' = Parts /\ NoBasis' = NoBasis
  BY ProviderKept, SameProvider
<1>1. ASSUME basis' = NoBasis
      PROVE  BasisInv'
  <2>1. Len(releases') \in Nat /\ 0 \in Published'
    BY TypeStep, LatestListing DEF TypeOK, Release, Published
  <2>2. \A p \in Parts : basis'[p].release = 0
    BY <1>1 DEF NoBasis
  <2> QED  BY <1>0, <1>1, <2>1, <2>2 DEF BasisInv
<1>2. ASSUME UNCHANGED <<basis, upstreamVars>>, pc \in Planned => pc' \in Planned,
             pc \notin Planned => pc' \notin Planned
      PROVE  BasisInv'
  BY <1>0, <1>2 DEF BasisInv, Published, upstreamVars
<1>3. ASSUME pc \notin Planned, UNCHANGED basis
      PROVE  basis' = NoBasis
  BY <1>3 DEF BasisInv
<1>4. CASE Quiet
  BY <1>4, <1>1, <1>2, <1>3 DEF Quiet, opVars
<1>5. CASE End
  BY <1>5, <1>1 DEF End, Forget
<1>6. CASE PlanSync \/ CheckFiles
  <2>1. \E keep \in BOOLEAN : \E found \in Founds(keep) : ListParts(keep, found) /\ basis' = BasisOf(found)
    BY <1>6 DEF PlanSync, CheckFiles
  <2>2. pc' \in Planned /\ UNCHANGED upstreamVars
    BY <1>6 DEF PlanSync, CheckFiles
  <2>3. \A p \in Parts : /\ basis'[p].release \in Published
                         /\ ~basis'[p].fast => basis'[p].release \in {0, latest[p]}
    BY <2>1, ListPartsSound, BasisSound
  <2> QED  BY <1>0, <2>2, <2>3 DEF BasisInv, Published, upstreamVars
<1>7. CASE DryRun \/ ValidateFails \/ StartRetry \/ ExecuteRetry \/ \E f \in Files : Publish(f)
  BY <1>7, <1>1, <1>3 DEF DryRun, ValidateFails, StartRetry, Begin, ExecuteRetry, Publish, opVars
<1>8. CASE ExecutePlan \/ (\E p \in Parts : Sweep(p)) \/ (\E l \in letters : Dismiss(l))
  BY <1>8, <1>2 DEF ExecutePlan, Sweep, Dismiss, opVars
<1>9. CASE \E f \in Files : Loop(f)
  BY <1>9, <1>2, LoopStep
<1> QED  BY <1>4, <1>5, <1>6, <1>7, <1>8, <1>9, StepKinds

------------------------------------------------------------------------------
(* The rows and the counters *)

LEMMA RowsStep ==
    ASSUME EngineInv, Next
    PROVE  OneLetterPerFile' /\ SnapshotInv'
<1> USE DEF EngineInv
<1>1. CASE UNCHANGED <<letters, snapshot>>
  BY <1>1 DEF OneLetterPerFile, SnapshotInv
<1>2. CASE \E f \in Files : Loop(f)
  <2>1. OneLetterPerFile'
    BY <1>2, TypeOfLoop
  <2>2. UNCHANGED snapshot
    BY <1>2, LoopStep
  <2> QED  BY <2>1, <2>2 DEF SnapshotInv
<1>3. CASE StartRetry
  BY <1>3 DEF StartRetry, OneLetterPerFile, SnapshotInv, storeVars
<1>4. CASE \E l \in letters : Dismiss(l)
  BY <1>4 DEF Dismiss, OneLetterPerFile, SnapshotInv, opVars
<1>5. CASE End
  BY <1>5 DEF End, Forget, OneLetterPerFile, SnapshotInv, storeVars
<1>6. CASE \E f \in Files : Publish(f)
  BY <1>6, <1>1 DEF Publish, opVars, storeVars
<1>7. CASE \E p \in Parts : Sweep(p)
  BY <1>7, <1>1 DEF Sweep, storeVars
<1>8. CASE Quiet \/ PlanSync \/ DryRun \/ ValidateFails \/ CheckFiles \/ ExecutePlan \/ ExecuteRetry
  BY <1>8, <1>1 DEF Quiet, PlanSync, DryRun, ValidateFails, CheckFiles, ExecutePlan, ExecuteRetry, opVars, storeVars
<1> QED  BY <1>2, <1>3, <1>4, <1>5, <1>6, <1>7, <1>8, StepKinds

\* Nothing has been counted, and some files are to be processed.
LEMMA NothingCounted ==
    ASSUME TypeOK, TypeOK', config' = config, tally' = Zero
    PROVE  (Total + Cardinality(todo) <= Cardinality(Files))' /\ (Total = 0)'
<1>1. Total' = 0
  BY DEF Total, Zero, Counter
<1>2. IsFiniteSet(Files) /\ todo' \subseteq Files /\ Files' = Files
  BY FilesFinite, SameProvider DEF TypeOK
<1>3. Cardinality(todo') <= Cardinality(Files) /\ Cardinality(todo') \in Nat
  BY <1>2, FS_Subset, FS_CardinalityType
<1> QED  BY <1>1, <1>2, <1>3

\* The files whose action is counted: those of the plan that are processed.
LEMMA CountedFiles ==
    ASSUME TypeOK, TallyInv, pc = "processing", NEW f \in todo, todo' = todo \ {f}, config' = config, plan' = plan
    PROVE  Cardinality(Files \ (With("none") \cup todo))' = Cardinality(Files \ (With("none") \cup todo)) + 1
<1> DEFINE S == Files \ (With("none") \cup todo)
<1>1. Files' = Files /\ With("none")' = With("none")
  BY SameProvider DEF With
<1>2. f \in Files /\ f \notin With("none") /\ f \notin S
  BY DEF TallyInv, TypeOK
<1>3. S' = S \cup {f}
  BY <1>1, <1>2
<1>4. IsFiniteSet(S)
  BY FilesFinite, FS_Subset DEF TypeOK
<1>5. Cardinality(S') = Cardinality(S) + 1
  BY <1>2, <1>3, <1>4, FS_AddElement
<1> QED  BY <1>5

LEMMA TallyStep ==
    ASSUME EngineInv, Next
    PROVE  TallyInv' /\ TallyAddsUp'
<1> USE DEF EngineInv
<1>0. config' = config /\ Files' = Files /\ TypeOK'
  BY ProviderKept, SameProvider, TypeStep
<1>1. ASSUME tally' = Zero, pc' # "processing"
      PROVE  TallyInv' /\ TallyAddsUp'
  BY <1>0, <1>1, NothingCounted DEF TallyInv, TallyAddsUp, Zero, Counter
<1>2. ASSUME UNCHANGED <<tally, todo, plan>>, pc' = pc
      PROVE  TallyInv' /\ TallyAddsUp'
  BY <1>0, <1>2 DEF TallyInv, TallyAddsUp, Total, With
<1>3. CASE Quiet
  <2>1. pc' = pc \/ (pc \notin Looping /\ pc' # "processing")
    BY <1>3 DEF Quiet, Looping
  <2> QED  BY <1>3, <2>1, <1>1, <1>2 DEF Quiet, opVars, TallyInv
<1>4. CASE End
  BY <1>4, <1>1 DEF End, Forget, Leave
<1>5. CASE PlanSync \/ DryRun \/ ValidateFails \/ CheckFiles \/ StartRetry \/ ExecuteRetry
  BY <1>5, <1>1 DEF PlanSync, DryRun, ValidateFails, CheckFiles, StartRetry, Begin, ExecuteRetry, Leave, opVars, TallyInv, Looping
<1>6. CASE ExecutePlan
  <2>1. tally' = Zero /\ todo' = Files \ With("none") /\ plan' = plan /\ pc' = "processing"
    BY <1>6 DEF ExecutePlan, TallyInv, Looping
  <2>2. With("none")' = With("none") /\ With("none") \subseteq Files
    BY <1>0, <2>1 DEF With
  <2>3. TallyInv'
    BY <1>0, <2>1, <2>2, NothingCounted DEF TallyInv, Looping
  <2>4. (Files \ (With("none") \cup todo))' = {}
    BY <1>0, <2>1, <2>2
  <2>5. Total' = 0
    BY <1>0, <2>1, NothingCounted
  <2> QED  BY <2>3, <2>4, <2>5, FS_EmptySet DEF TallyAddsUp, Total
<1>7. CASE \E f \in Files : Loop(f)
  <2>1. PICK f \in Files : Loop(f)
    BY <1>7
  <2>2. PICK c \in Counter : tally' = [tally EXCEPT ![c] = @ + 1]
    BY <2>1, LoopStep
  <2>3. f \in todo /\ todo' = todo \ {f} /\ pc \in Looping /\ pc' = pc /\ plan' = plan
    BY <2>1, LoopStep
  <2>4. Total' = Total + 1 /\ Total' + Cardinality(todo') <= Cardinality(Files)
    BY <2>2, <2>3, Counted
  <2>5. TallyInv'
    BY <1>0, <2>3, <2>4 DEF TallyInv, With
  <2>6. TallyAddsUp'
    BY <1>0, <2>3, <2>4, CountedFiles DEF TallyAddsUp, Total
  <2> QED  BY <2>5, <2>6
<1>8. CASE \E f \in Files : Publish(f)
  BY <1>8, <1>2 DEF Publish, opVars
<1>9. CASE (\E p \in Parts : Sweep(p)) \/ (\E l \in letters : Dismiss(l))
  BY <1>9, <1>2 DEF Sweep, Dismiss, opVars
<1> QED  BY <1>3, <1>4, <1>5, <1>6, <1>7, <1>8, <1>9, StepKinds

------------------------------------------------------------------------------
(* The plan and what becomes of it *)

LEMMA PlanMadeStep ==
    ASSUME EngineInv, Next
    PROVE  PlanMade'
<1> USE DEF EngineInv
<1>0. config' = config /\ Files' = Files /\ \A f : PartOf(f)' = PartOf(f)
  BY ProviderKept, SameProvider
<1>1. CASE pc' # "downloading"
  BY <1>1 DEF PlanMade
<1>2. ASSUME pc = "downloading", UNCHANGED <<upstreamVars, disk, basis, plan>>
      PROVE  PlanMade'
  BY <1>0, <1>2 DEF PlanMade, PlannedAction, Trusted, Surplus, WantedBy, upstreamVars
<1>3. CASE PlanSync
  <2>1. /\ plan' = [f \in Files |-> PlannedAction(f, basis'[PartOf(f)])]
        /\ UNCHANGED <<upstreamVars, disk>>
    BY <1>3 DEF PlanSync
  <2>2. \A f \in Files : PlannedAction(f, basis[PartOf(f)])' = PlannedAction(f, basis'[PartOf(f)])
    BY <1>0, <2>1 DEF PlannedAction, Trusted, Surplus, WantedBy, upstreamVars
  <2> QED  BY <1>0, <2>1, <2>2 DEF PlanMade
<1>4. CASE Quiet
  BY <1>4, <1>1, <1>2 DEF Quiet, opVars
<1>5. CASE \E l \in letters : Dismiss(l)
  BY <1>5, <1>1, <1>2 DEF Dismiss, opVars
<1>6. CASE \E f \in Files : Loop(f)
  BY <1>6, <1>1, LoopStep DEF Looping
<1>7. CASE \/ End \/ DryRun \/ ValidateFails \/ CheckFiles \/ StartRetry \/ ExecutePlan \/ ExecuteRetry
           \/ (\E f \in Files : Publish(f)) \/ (\E p \in Parts : Sweep(p))
  BY <1>7, <1>1 DEF End, Leave, DryRun, ValidateFails, CheckFiles, StartRetry, Begin, ExecutePlan, ExecuteRetry,
                    Publish, Sweep
<1> QED  BY <1>3, <1>4, <1>5, <1>6, <1>7, StepKinds

\* What an action of the plan says of its file when it is planned.
LEMMA PlannedSays ==
    ASSUME TypeOK, UpstreamInv, BasisInv, PlanMade, pc = "downloading", NEW f \in Files
    PROVE  /\ plan[f] = "download" => /\ Wanted(f) # 0 /\ ~Trusted(f, basis[PartOf(f)])
           /\ plan[f] = "delete" => Wanted(f) = 0 /\ basis[PartOf(f)].release # 0
           /\ Checked(f) => plan[f] \in {"skip", "download"}
           /\ Checked(f) /\ plan[f] = "skip" => InPlace(f)
<1>1. plan[f] = PlannedAction(f, basis[PartOf(f)])
  BY DEF PlanMade
<1>2. Checked(f) => Wanted(f) # 0 /\ Wanted(f) = Current(f)
  BY WantedInPlan DEF Checked
<1> QED  BY <1>1, <1>2 DEF PlannedAction, Wanted, Surplus, Trusted, Checked, InPlace

\* What the pool leaves of a file of the plan.
LEMMA PlanExecuted ==
    ASSUME ExecutePlan, NEW f \in Files
    PROVE  /\ plan[f] # "download" => disk'[f] = disk[f] /\ outcome'[f] = "none"
           /\ outcome'[f] = "success" => disk'[f] = Current(f)
           /\ plan[f] = "download" /\ outcome'[f] = "none" => ctxDone
           /\ disk'[f] # disk[f] => disk'[f] = Current(f) \/ plan[f] = "download"
<1>1. DownloadEnds(f, outcome'[f], disk'[f]) /\ pc = "downloading"
  BY DEF ExecutePlan, Execute
<1>2. Jobs = {[file |-> g, want |-> Wanted(g)] : g \in With("download")}
  BY <1>1 DEF Jobs
<1>3. \A j \in Jobs : j.file \in With("download")
  BY <1>2
<1>4. ASSUME NEW g \in With("download") PROVE g \in Downloads
  <2>1. [file |-> g, want |-> Wanted(g)] \in Jobs
    BY <1>2
  <2>2. g = [file |-> g, want |-> Wanted(g)].file
    OBVIOUS
  <2> QED  BY <2>1, <2>2 DEF Downloads
<1>5. f \in Downloads <=> plan[f] = "download"
  BY <1>3, <1>4 DEF Downloads, With
<1>6. (\E j \in Jobs : j.file = f) => plan[f] = "download"
  BY <1>3 DEF With
<1> QED  BY <1>1, <1>5, <1>6 DEF DownloadEnds

\* Frame: what a file's result says stays true while the file is left alone.
LEMMA FollowedKept ==
    ASSUME NEW f \in Files, Followed(f), config' = config, UNCHANGED <<upstreamVars, basis, plan, outcome>>,
           disk'[f] = disk[f] \/ plan[f] = "delete", ctxDone' = ctxDone \/ ctxDone' = TRUE
    PROVE  Followed(f)'
<1>1. PartOf(f)' = PartOf(f)
  BY SameProvider
<1>2. /\ Wanted(f)' = Wanted(f) /\ (Checked(f)' <=> Checked(f)) /\ Current(f)' = Current(f)
  BY <1>1 DEF Wanted, WantedBy, Checked, Current, upstreamVars
<1>3. (plan[f] # "delete" /\ InPlace(f)) => InPlace(f)'
  BY <1>2 DEF InPlace
<1>4. ctxDone => ctxDone'
  OBVIOUS
<1> QED  BY <1>1, <1>2, <1>3, <1>4 DEF Followed

\* The processing of a file of the plan: a download that did not succeed is
\* counted, and has a row if it failed, unless the write failed.
LEMMA ProcessedOnce ==
    ASSUME EngineInv, NEW f \in Files, Process(f)
    PROVE  Processed(f)'
<1> USE DEF EngineInv
<1> SUFFICES ASSUME plan[f] = "download" PROVE Processed(f)'
  BY DEF Process, Processed
<1>1. /\ UNCHANGED <<config, upstreamVars, basis, plan, outcome>>
      /\ pc = "processing"
  BY DEF Process, upstreamVars
<1>2. Wanted(f)' = Wanted(f)
  BY <1>1, SameProvider DEF Wanted, WantedBy, upstreamVars
<1>3. CASE RecordDownload(f)
  BY <1>1, <1>3 DEF RecordDownload, Processed
<1>4. CASE RecordFailure(f) \/ CountMissing(f)
  <2>1. tally' = [tally EXCEPT !["failed"] = @ + 1]
    BY <1>4 DEF RecordFailure, CountMissing, Count
  <2>2. tally["failed"] \in Nat
    BY FilesFinite, FS_CardinalityType DEF TypeOK, Counter
  <2>3. tally'["failed"] # 0
    BY <2>1, <2>2 DEF TypeOK, Counter
  <2>4. CASE RecordFailure(f)
    <3>1. Wanted(f) \in Release
      BY <1>1, WantedInPlan DEF PlanFollowed, Followed
    <3>2. faults' \/ \E l \in letters' : l.file = f /\ l.want = Wanted(f)
      BY ZenonT(30), <2>4, <3>1, FailedFileAdded DEF RecordFailure
    <3> QED  BY <2>3, <3>2, <1>2 DEF Processed
  <2>5. CASE CountMissing(f)
    BY <2>3, <2>5, <1>1 DEF CountMissing, Processed
  <2> QED  BY <1>4, <2>4, <2>5
<1> QED  BY <1>3, <1>4 DEF Process, Delete, CountSkip

\* Counters do not fall.
LEMMA FailedGrows ==
    ASSUME TypeOK, NEW f \in Files, Loop(f)
    PROVE  tally["failed"] \in Nat /\ tally'["failed"] \in Nat /\ tally'["failed"] >= tally["failed"]
<1>1. PICK c \in Counter : tally' = [tally EXCEPT ![c] = @ + 1]
  BY LoopStep
<1>2. tally["failed"] \in Nat
  BY FilesFinite, FS_CardinalityType DEF TypeOK, Counter
<1> QED  BY <1>1, <1>2 DEF TypeOK, Counter

LEMMA ProcessFollowed ==
    ASSUME EngineInv, NEW f \in Files, Process(f)
    PROVE  PlanFollowed'
<1> USE DEF EngineInv
<1>1. /\ UNCHANGED <<config, upstreamVars, basis, plan, outcome, ctxDone>>
      /\ pc = "processing" /\ todo' = todo \ {f} /\ Loop(f)
  BY DEF Process, upstreamVars, Loop
<1>2. Files' = Files
  BY <1>1, SameProvider
<1>3. ASSUME NEW g \in Files
      PROVE  Followed(g)'
  <2>1. disk'[g] = disk[g] \/ plan[g] = "delete"
    BY DEF Process, RecordDownload, RecordFailure, CountMissing, Delete, CountSkip, TypeOK
  <2> QED  BY <1>1, <1>3, <2>1, FollowedKept DEF PlanFollowed
<1>4. ASSUME NEW g \in Files \ todo'
      PROVE  Processed(g)'
  <2>1. CASE g = f
    BY <2>1, ProcessedOnce
  <2>2. CASE g # f
    <3>1. Processed(g)
      BY <1>1, <1>4, <2>2 DEF PlanFollowed
    <3>2. Wanted(g)' = Wanted(g)
      BY <1>1, SameProvider DEF Wanted, WantedBy, upstreamVars
    <3>3. \A l \in letters : l.file = g => l \in letters'
      <4>1. CASE RecordFailure(f)
        <5>1. Wanted(f) \in Release
          BY <1>1, <4>1, WantedInPlan DEF RecordFailure, PlanFollowed, Followed
        <5> QED  BY <4>1, <5>1, <2>2, FailedFileAdded DEF RecordFailure
      <4> QED  BY <4>1 DEF Process, RecordDownload, CountMissing, Delete, CountSkip, storeVars
    <3>4. faults => faults'
      BY LoopStep, <1>1
    <3>5. tally'["failed"] = 0 => tally["failed"] = 0
      BY <1>1, FailedGrows
    <3> QED  BY <1>1, <3>1, <3>2, <3>3, <3>4, <3>5 DEF Processed
  <2> QED  BY <2>1, <2>2
<1> QED  BY <1>2, <1>3, <1>4 DEF PlanFollowed

LEMMA PlanFollowedStep ==
    ASSUME EngineInv, Next
    PROVE  PlanFollowed'
<1> USE DEF EngineInv
<1>0. config' = config /\ Files' = Files /\ \A f : PartOf(f)' = PartOf(f)
  BY ProviderKept, SameProvider
<1>1. CASE pc' # "processing"
  BY <1>1 DEF PlanFollowed
<1>2. ASSUME pc = "processing", UNCHANGED <<upstreamVars, disk, basis, plan, outcome, todo, tally>>,
             ctxDone' = ctxDone \/ ctxDone' = TRUE, faults' \/ (UNCHANGED letters /\ UNCHANGED faults)
      PROVE  PlanFollowed'
  <2>1. \A f \in Files : Followed(f)'
    BY <1>0, <1>2, FollowedKept DEF PlanFollowed
  <2>2. ASSUME NEW f \in Files \ todo PROVE Processed(f)'
    <3>1. Wanted(f)' = Wanted(f)
      BY <1>0, <1>2 DEF Wanted, WantedBy, upstreamVars
    <3>2. Processed(f)
      BY <1>2, <2>2 DEF PlanFollowed
    <3> QED  BY <1>2, <3>1, <3>2 DEF Processed
  <2> QED  BY <1>0, <1>2, <2>1, <2>2 DEF PlanFollowed
<1>3. CASE ExecutePlan
  <2>1. UNCHANGED <<upstreamVars, basis, plan, ctxDone>> /\ pc = "downloading" /\ todo' = Files \ With("none")
    BY <1>3 DEF ExecutePlan
  <2>2. ASSUME NEW f \in Files PROVE Followed(f)'
    <3>1. /\ Wanted(f)' = Wanted(f) /\ (Checked(f)' <=> Checked(f)) /\ Current(f)' = Current(f)
      BY <1>0, <2>1 DEF Wanted, WantedBy, Checked, Current, upstreamVars
    <3>2. Checked(f) /\ plan[f] = "skip" => InPlace(f)'
      BY <1>3, <2>1, <3>1, PlannedSays, PlanExecuted DEF InPlace
    <3>3. plan[f] = "download" /\ outcome'[f] = "success" => InPlace(f)'
      BY <1>3, <3>1, PlanExecuted DEF InPlace
    <3>4. plan[f] = "download" /\ outcome'[f] = "none" => ctxDone'
      BY <1>3, <2>1, PlanExecuted
    <3> QED  BY <2>1, <3>1, <3>2, <3>3, <3>4, <1>0, PlannedSays DEF Followed
  <2>3. ASSUME NEW f \in Files \ todo' PROVE Processed(f)'
    BY <2>1, <2>3 DEF Processed, With
  <2> QED  BY <1>0, <2>2, <2>3 DEF PlanFollowed
<1>4. CASE Quiet
  BY <1>4, <1>1, <1>2 DEF Quiet, opVars, storeVars
<1>5. CASE \E l \in letters : Dismiss(l)
  <2>1. /\ pc' = pc /\ UNCHANGED <<upstreamVars, disk, basis, plan, outcome, todo, tally, ctxDone>>
        /\ pc = "processing" => faults'
    BY <1>5 DEF Dismiss, opVars
  <2> QED  BY <2>1, <1>1, <1>2
<1>6. CASE \E f \in Files : Loop(f)
  BY <1>6, <1>1, ProcessFollowed DEF Loop, Resolve, RecordInvalid
<1>7. CASE \E p \in Parts : Sweep(p)
  BY <1>7, <1>2 DEF Sweep, storeVars
<1>8. CASE \/ End \/ DryRun \/ ValidateFails \/ CheckFiles \/ StartRetry \/ PlanSync \/ ExecuteRetry
           \/ (\E f \in Files : Publish(f))
  BY <1>8, <1>1 DEF End, Leave, DryRun, ValidateFails, CheckFiles, StartRetry, Begin, PlanSync, ExecuteRetry, Publish
<1> QED  BY <1>3, <1>4, <1>5, <1>6, <1>7, <1>8, StepKinds

------------------------------------------------------------------------------
(* The retry and the validation *)

\* What the pool leaves of the file of a row.
LEMMA RetryExecuted ==
    ASSUME EngineInv, ExecuteRetry, NEW l \in snapshot
    PROVE  /\ outcome'[l.file] = "none" => ctxDone
           /\ outcome'[l.file] # "none" => l.file \in todo'
           /\ outcome'[l.file] = "success" => disk'[l.file] = l.want
<1> USE DEF EngineInv
<1>1. /\ l.file \in Files /\ pc = "retrying" /\ todo' = {f \in Downloads : outcome'[f] # "none"}
      /\ \A m \in snapshot : m.file = l.file => m = l
  BY DEF ExecuteRetry, TypeOK, Letter, SnapshotInv
<1>2. DownloadEnds(l.file, outcome'[l.file], disk'[l.file])
  BY <1>1 DEF ExecuteRetry, Execute
<1>3. Jobs = {[file |-> m.file, want |-> m.want] : m \in snapshot}
  BY <1>1 DEF Jobs
<1>4. l.file \in Downloads
  <2>1. [file |-> l.file, want |-> l.want] \in Jobs /\ l.file = [file |-> l.file, want |-> l.want].file
    BY <1>3
  <2> QED  BY <2>1 DEF Downloads
<1>5. \A j \in Jobs : j.file = l.file => j.want = l.want
  BY <1>1, <1>3
<1> QED  BY <1>1, <1>2, <1>4, <1>5 DEF DownloadEnds

\* A result that is processed: counted, and the row resolved if it is a success.
LEMMA ResolvedOnce ==
    ASSUME EngineInv, NEW f \in Files, Resolve(f)
    PROVE  /\ outcome[f] # "success" => tally'["failed"] > 0
           /\ outcome[f] = "success" => faults' \/ \A l \in snapshot : l.file = f => l \notin letters'
           /\ letters' \subseteq letters
<1> USE DEF EngineInv
<1>1. CASE outcome[f] = "success"
  BY <1>1 DEF Resolve
<1>2. CASE outcome[f] # "success"
  <2>1. tally' = [tally EXCEPT !["failed"] = @ + 1] /\ letters' = letters
    BY <1>2 DEF Resolve, Count
  <2>2. tally["failed"] \in Nat
    BY FilesFinite, FS_CardinalityType DEF TypeOK, Counter
  <2> QED  BY <1>2, <2>1, <2>2 DEF TypeOK, Counter
<1> QED  BY <1>1, <1>2

LEMMA RetryFollowedStep ==
    ASSUME EngineInv, Next
    PROVE  RetryFollowed'
<1> USE DEF EngineInv
<1>1. CASE pc' # "resolving"
  BY <1>1 DEF RetryFollowed
<1>2. ASSUME pc = "resolving", UNCHANGED <<disk, outcome, todo, tally, snapshot>>, letters' \subseteq letters,
             ctxDone' = ctxDone \/ ctxDone' = TRUE, faults' \/ UNCHANGED faults
      PROVE  RetryFollowed'
  BY <1>2 DEF RetryFollowed
<1>3. CASE ExecuteRetry
  <2>1. snapshot' = snapshot /\ ctxDone' = ctxDone
    BY <1>3 DEF ExecuteRetry
  <2> QED  BY <1>3, <2>1, RetryExecuted DEF RetryFollowed
<1>4. CASE \E f \in Files : Resolve(f)
  <2>1. PICK f \in Files : Resolve(f)
    BY <1>4
  <2>2. /\ UNCHANGED <<disk, outcome, snapshot, ctxDone>> /\ pc = "resolving" /\ todo' = todo \ {f}
        /\ letters' \subseteq letters
    BY <2>1, ResolvedOnce DEF Resolve
  <2>3. ASSUME NEW l \in snapshot
        PROVE  /\ outcome[l.file] = "none" => ctxDone
               /\ outcome[l.file] = "success" => disk[l.file] = l.want
    BY <2>2, <2>3 DEF RetryFollowed
  <2>4. ASSUME NEW l \in snapshot, l.file \notin todo', outcome[l.file] = "failed"
        PROVE  tally'["failed"] > 0
    <3>1. CASE l.file = f
      BY <2>1, <2>4, <3>1, ResolvedOnce
    <3>2. CASE l.file # f
      <4>1. tally["failed"] > 0
        BY <2>2, <2>4, <3>2 DEF RetryFollowed
      <4> QED  BY <2>1, <4>1, FailedGrows DEF Loop
    <3> QED  BY <3>1, <3>2
  <2>5. ASSUME NEW l \in snapshot, l.file \notin todo', outcome[l.file] = "success", ~faults'
        PROVE  l \notin letters'
    <3>1. CASE l.file = f
      BY <2>1, <2>5, <3>1, ResolvedOnce
    <3>2. CASE l.file # f
      <4>1. ~faults
        BY <2>1, <2>5, LoopStep DEF Loop
      <4> QED  BY <2>2, <2>5, <3>2, <4>1 DEF RetryFollowed
    <3> QED  BY <3>1, <3>2
  <2> QED  BY <2>2, <2>3, <2>4, <2>5 DEF RetryFollowed
<1>5. CASE Quiet
  BY <1>5, <1>1, <1>2 DEF Quiet, opVars, storeVars
<1>6. CASE \E l \in letters : Dismiss(l)
  <2>1. /\ pc' = pc /\ UNCHANGED <<disk, outcome, todo, tally, snapshot, ctxDone>>
        /\ pc = "resolving" => faults'
        /\ letters' \subseteq letters
    BY <1>6 DEF Dismiss, opVars
  <2> QED  BY <2>1, <1>1, <1>2
<1>7. CASE \E f \in Files : Loop(f)
  BY <1>7, <1>1, <1>4 DEF Loop, Process, RecordInvalid
<1>8. CASE \/ End \/ DryRun \/ ValidateFails \/ CheckFiles \/ StartRetry \/ PlanSync \/ ExecutePlan
           \/ (\E f \in Files : Publish(f)) \/ (\E p \in Parts : Sweep(p))
  BY <1>8, <1>1 DEF End, Leave, DryRun, ValidateFails, CheckFiles, StartRetry, Begin, PlanSync, ExecutePlan, Publish, Sweep
<1> QED  BY <1>3, <1>5, <1>6, <1>7, <1>8, StepKinds

LEMMA RecordingStep ==
    ASSUME EngineInv, Next
    PROVE  Recording'
<1> USE DEF EngineInv
<1>0. config' = config /\ Files' = Files /\ \A f : PartOf(f)' = PartOf(f)
  BY ProviderKept, SameProvider
<1>1. CASE pc' # "recording"
  BY <1>1 DEF Recording
<1>2. ASSUME pc = "recording", UNCHANGED <<upstreamVars, basis>>, todo' \subseteq todo
      PROVE  Recording'
  BY <1>0, <1>2 DEF Recording, Wanted, WantedBy, upstreamVars
<1>3. CASE CheckFiles
  BY <1>0, <1>3 DEF CheckFiles, Recording, Wanted, WantedBy, upstreamVars
<1>4. CASE \E f \in Files : Loop(f)
  BY <1>4, <1>1, <1>2, LoopStep
<1>5. CASE Quiet \/ \E l \in letters : Dismiss(l)
  BY <1>5, <1>1, <1>2 DEF Quiet, Dismiss, opVars
<1>6. CASE \/ End \/ DryRun \/ ValidateFails \/ StartRetry \/ PlanSync \/ ExecutePlan \/ ExecuteRetry
           \/ (\E f \in Files : Publish(f)) \/ (\E p \in Parts : Sweep(p))
  BY <1>6, <1>1 DEF End, Leave, DryRun, ValidateFails, StartRetry, Begin, PlanSync, ExecutePlan, ExecuteRetry,
                    Publish, Sweep
<1> QED  BY <1>3, <1>4, <1>5, <1>6, StepKinds

------------------------------------------------------------------------------
(* The invariant *)

LEMMA EngineInit ==
    ASSUME Init
    PROVE  EngineInv
<1>1. 1 \in Release /\ 0 \in {0} \cup Release
  BY BoundsAssumption DEF Release
<1>2. config \in Configs /\ IsFiniteSet(Files) /\ Cardinality(Files) \in Nat
  BY FilesFinite, FS_CardinalityType DEF Init
<1>3. PICK first \in [Files -> {0, 1}] : releases = <<first>>
  BY DEF Init
<1>4. first \in [Files -> {0} \cup Release]
  BY <1>1
<1>5. releases \in Seq([Files -> {0} \cup Release]) /\ Len(releases) = 1
  BY <1>3, <1>4
<1>6. NoCopy \in Copy /\ NoCopy.release = 0
  <2>1. FALSE \in BOOLEAN
    OBVIOUS
  <2> QED  BY <1>1, <2>1 DEF NoCopy, Copy
<1>7. NoBasis \in [Parts -> Basis]
  <2>1. FALSE \in BOOLEAN
    OBVIOUS
  <2>2. [release |-> 0, fast |-> FALSE] \in Basis
    BY <1>1, <2>1 DEF Basis
  <2> QED  BY <2>2 DEF NoBasis
<1>8. primary \in [Parts -> [Release -> Copy]] /\ \A p \in Parts : \A n \in Release : primary[p][n] = NoCopy
  BY <1>6 DEF Init
<1>9. ctxDone \in BOOLEAN /\ faults \in BOOLEAN
  BY DEF Init
<1>10. TypeOK
  <2>1. /\ latest \in [Parts -> Release] /\ backdated \subseteq Parts
        /\ repomd \in [Parts -> Copy] /\ disk \in [Files -> {Absent, Partial} \cup Release]
        /\ records \subseteq Files /\ letters \subseteq Letter /\ run \in RunStatus /\ pc \in Busy \cup {"idle"}
    BY <1>1, <1>6 DEF Init, RunStatus
  <2>2. /\ basis \in [Parts -> Basis] /\ plan \in [Files -> Action] /\ outcome \in [Files -> {"none", "success", "failed"}]
        /\ snapshot \subseteq Letter /\ todo \subseteq Files /\ sweep \subseteq Parts
    BY <1>7 DEF Init, NoPlan, NoOutcome, Action
  <2>3. tally \in [Counter -> 0..Cardinality(Files)] /\ ops \in 0..MaxOps
    BY <1>2, BoundsAssumption DEF Init, Zero
  <2> QED  BY <1>1, <1>2, <1>5, <1>8, <1>9, <2>1, <2>2, <2>3 DEF TypeOK
<1>11. UpstreamInv
  <2>1. 0 \in Published /\ \A p \in Parts : latest[p] = 1 /\ repomd[p] = NoCopy
    BY <1>5 DEF Init, Published
  <2>2. \A p \in Parts : \A f \in p : releases[1][f] = Current(f)
    BY <1>5 DEF Current
  <2> QED  BY <1>5, <1>6, <1>8, <2>1, <2>2 DEF UpstreamInv
<1>12. BasisInv
  <2>1. 0 \in Published /\ \A p \in Parts : basis[p].release = 0
    BY <1>5 DEF Init, NoBasis, Published
  <2> QED  BY <2>1 DEF BasisInv, Init
<1> QED
  BY <1>10, <1>11, <1>12 DEF EngineInv, Init, OneLetterPerFile, TallyInv, Looping, TallyAddsUp, PlanMade, PlanFollowed,
     SnapshotInv, RetryFollowed, Recording

LEMMA EngineStep ==
    ASSUME EngineInv, [Next]_vars
    PROVE  EngineInv'
<1>1. CASE Next
  BY <1>1, TypeStep, UpstreamStep, BasisStep, RowsStep, TallyStep, PlanMadeStep, PlanFollowedStep, RetryFollowedStep,
     RecordingStep DEF EngineInv
<1>2. CASE UNCHANGED vars
  <2> USE DEF EngineInv
  <2>1. UNCHANGED <<upstreamVars, cacheVars, storeVars, opVars, disk, run, pc, ctxDone, faults, ops>>
    BY <1>2 DEF vars
  <2>2. UNCHANGED <<config, releases, latest, backdated, repomd, primary, records, letters, basis, plan, outcome,
                    snapshot, todo, sweep, tally, disk, run, pc, ctxDone, faults, ops>>
    BY <2>1 DEF upstreamVars, cacheVars, storeVars, opVars
  <2>3. /\ Files' = Files /\ Parts' = Parts /\ Letter' = Letter /\ NoBasis' = NoBasis
        /\ \A f : PartOf(f)' = PartOf(f)
    BY <2>2, SameProvider
  <2>4. TypeOK'
    BY <2>2, <2>3 DEF TypeOK
  <2>5. UpstreamInv' /\ BasisInv'
    BY <2>2, <2>3 DEF UpstreamInv, BasisInv, Published, Current
  <2>6. OneLetterPerFile' /\ SnapshotInv' /\ RetryFollowed'
    BY <2>2 DEF OneLetterPerFile, SnapshotInv, RetryFollowed
  <2>7. TallyInv' /\ TallyAddsUp'
    BY <2>2, <2>3 DEF TallyInv, TallyAddsUp, Total, With
  <2>8. PlanMade'
    BY <2>2, <2>3 DEF PlanMade, PlannedAction, Trusted, Surplus, WantedBy
  <2>9. \A f \in Files : (Followed(f)' <=> Followed(f)) /\ (Processed(f)' <=> Processed(f)) /\ Wanted(f)' = Wanted(f)
    BY <2>2, <2>3 DEF Followed, Processed, Checked, InPlace, Current, Wanted, WantedBy
  <2>10. PlanFollowed' /\ Recording'
    BY <2>2, <2>3, <2>9 DEF PlanFollowed, Recording, TypeOK
  <2> QED  BY <2>4, <2>5, <2>6, <2>7, <2>8, <2>10
<1> QED  BY <1>1, <1>2

\* What the state of the engine says at every moment, for any providers, files
\* and bounds: listings and caches are of releases that have been, the plan
\* says of each file what its listing says, and what has been processed is
\* counted and recorded.
THEOREM EngineInvariant == Spec => []EngineInv
<1>1. Init => EngineInv
  BY EngineInit
<1>2. EngineInv /\ [Next]_vars => EngineInv'
  BY EngineStep
<1> QED  BY <1>1, <1>2, PTL DEF Spec

\* The variables have their types: no counter passes the number of files, no
\* cache and no plan is of a release that is none (TypeOK).
THEOREM EngineTypeOK == Spec => []TypeOK
<1>1. EngineInv => TypeOK
  BY DEF EngineInv
<1> QED  BY <1>1, EngineInvariant, PTL

\* One unresolved row per file, for any number of files and operations
\* (AddFailedFile).
THEOREM EngineOneLetterPerFile == Spec => []OneLetterPerFile
<1>1. EngineInv => OneLetterPerFile
  BY DEF EngineInv
<1> QED  BY <1>1, EngineInvariant, PTL

\* Every action of the plan is counted once (the loop of SyncProvider).
THEOREM EngineTallyAddsUp == Spec => []TallyAddsUp
<1>1. EngineInv => TallyAddsUp
  BY DEF EngineInv
<1> QED  BY <1>1, EngineInvariant, PTL

------------------------------------------------------------------------------
(* What the operations never do *)

\* A sync that ends as a success has every file of the parts it checked in
\* place (SyncProvider, planFromRepomd): only its end records a success, when
\* nothing is counted as failed.
THEOREM EngineSuccessMeansMirrored == Spec => SuccessMeansMirrored
<1>1. ASSUME EngineInv, [Next]_vars, run' # run, run' = "success"
      PROVE  \A f \in Files : Checked(f) => InPlace(f)
  <2> USE DEF EngineInv
  <2>1. Next
    BY <1>1 DEF vars
  <2>2. FinishSync
    <3>1. ~\E f \in Files : Process(f) \/ Resolve(f) \/ RecordInvalid(f)
      BY <1>1, LoopStep DEF Loop
    <3>2. ~\E f \in Files : Publish(f)
      BY <1>1 DEF Publish
    <3>3. ~((\E p \in Parts : Sweep(p)) \/ (\E l \in letters : Dismiss(l)) \/ Cancel \/ Crash \/ NoMoreOps)
      BY <1>1 DEF Sweep, Dismiss, Cancel, Crash, NoMoreOps, vars
    <3>4. ~(RetryStep \/ ValidateStep)
      BY <1>1 DEF RetryStep, ValidateStep, StartRetry, ExecuteRetry, FinishRetry, StartValidate, ValidateFails,
                  CheckFiles, FinishValidate
    <3>5. ~(StartSync \/ PlanFails \/ PlanSync \/ DryRun \/ UnsafePath \/ ExecutePlan)
      BY <1>1 DEF StartSync, PlanFails, PlanSync, DryRun, UnsafePath, ExecutePlan, LastRun
    <3> QED  BY <2>1, <3>1, <3>2, <3>3, <3>4, <3>5 DEF Next, SyncStep
  <2>3. pc = "processing" /\ todo = {} /\ tally["failed"] = 0
    BY <1>1, <2>2 DEF FinishSync, LastRun, Clean
  <2>4. ASSUME NEW f \in Files, Checked(f) PROVE InPlace(f)
    <3>1. Followed(f) /\ Processed(f)
      BY <1>1, <2>3, <2>4 DEF PlanFollowed
    <3> QED  BY <2>3, <2>4, <3>1 DEF Followed, Processed
  <2> QED  BY <2>4
<1>2. EngineInv /\ [Next]_vars => [run' # run /\ run' = "success" => \A f \in Files : Checked(f) => InPlace(f)]_vars
  BY <1>1
<1> QED  BY <1>2, EngineInvariant, PTL DEF Spec, SuccessMeansMirrored

\* No failure of a sync that ran to its end is without a row of what the file
\* should be now (SyncProvider, AddFailedFile).
THEOREM EngineNothingForgotten == Spec => NothingForgotten
<1>1. ASSUME EngineInv, FinishSync, ~ctxDone, ~faults, NEW f \in Files, Checked(f)
      PROVE  InPlace(f) \/ \E l \in letters : l.file = f /\ l.want = Current(f)
  <2> USE DEF EngineInv
  <2>1. Followed(f) /\ Processed(f)
    BY <1>1 DEF FinishSync, PlanFollowed
  <2>2. Wanted(f) = Current(f)
    BY <1>1, WantedInPlan
  <2>3. outcome[f] \in {"none", "success", "failed"}
    BY <1>1 DEF TypeOK
  <2> QED  BY <1>1, <2>1, <2>2, <2>3 DEF Followed, Processed
<1>2. EngineInv /\ [Next]_vars
        => [FinishSync /\ ~ctxDone /\ ~faults
              => \A f \in Files :
                    Checked(f) => InPlace(f) \/ \E l \in letters : l.file = f /\ l.want = Current(f)]_vars
  BY <1>1
<1> QED  BY <1>2, EngineInvariant, PTL DEF Spec, NothingForgotten

\* A retry that counts no failure has resolved the rows it started from, and
\* their files are what the rows ask for (retryFailedFiles).
THEOREM EngineRetryResolves == Spec => RetryResolves
<1>1. ASSUME EngineInv, FinishRetry, Clean, ~ctxDone, ~faults
      PROVE  snapshot \cap letters = {} /\ \A l \in snapshot : disk[l.file] = l.want
  <2> USE DEF EngineInv
  <2>1. pc = "resolving" /\ todo = {} /\ tally["failed"] = 0
    BY <1>1 DEF FinishRetry, Clean
  <2>2. ASSUME NEW l \in snapshot PROVE l \notin letters /\ disk[l.file] = l.want
    <3>1. outcome[l.file] \in {"none", "success", "failed"}
      BY <1>1, <2>2 DEF TypeOK, Letter
    <3> QED  BY <1>1, <2>1, <2>2, <3>1 DEF RetryFollowed
  <2> QED  BY <2>2
<1>2. EngineInv /\ [Next]_vars
        => [FinishRetry /\ Clean /\ ~ctxDone /\ ~faults
              => snapshot \cap letters = {} /\ \A l \in snapshot : disk[l.file] = l.want]_vars
  BY <1>1
<1> QED  BY <1>2, EngineInvariant, PTL DEF Spec, RetryResolves

\* What a step of an operation does to a file that is what the upstream lists.
LEMMA GoodFileStep ==
    ASSUME EngineInv, Next, NEW f \in Files, Current(f) # 0, InPlace(f), disk'[f] # disk[f], pc # "retrying"
    PROVE  ByOldListing(f) /\ plan[f] = "delete"
<1> USE DEF EngineInv
<1>1. CASE ExecutePlan
  <2>1. pc = "downloading" /\ plan[f] = "download"
    BY <1>1, PlanExecuted DEF ExecutePlan, InPlace
  <2>2. Wanted(f) # 0 /\ ~Trusted(f, basis[PartOf(f)])
    BY <2>1, PlannedSays
  <2>3. ~basis[PartOf(f)].fast /\ disk[f] # Wanted(f)
    BY <2>2 DEF Trusted, Wanted, InPlace, Absent
  <2>4. Wanted(f) = Current(f)
    BY <2>2, <2>3, WantedInPlan DEF Checked
  <2> QED  BY <2>3, <2>4 DEF InPlace
<1>2. CASE \E g \in Files : Loop(g)
  <2>1. PICK g \in Files : Loop(g)
    BY <1>2
  <2>2. Process(g) /\ pc = "processing"
    BY <2>1 DEF Loop, Process, Resolve, RecordInvalid
  <2>3. Delete(g)
    BY <2>2 DEF Process, RecordDownload, RecordFailure, CountMissing, CountSkip
  <2>4. g = f /\ plan[f] = "delete"
    BY <2>3 DEF Delete, TypeOK
  <2>5. Wanted(f) = 0 /\ basis[PartOf(f)].release # 0
    BY <2>2, <2>4 DEF PlanFollowed, Followed
  <2>6. basis[PartOf(f)].release # latest[PartOf(f)]
    BY <2>5, WantedInPlan
  <2> QED  BY <2>4, <2>5, <2>6 DEF ByOldListing
<1>3. ASSUME UNCHANGED disk PROVE FALSE
  BY <1>3
<1>4. ~ExecuteRetry
  BY DEF ExecuteRetry
<1>5. CASE \/ Quiet \/ End \/ PlanSync \/ DryRun \/ ValidateFails \/ CheckFiles \/ StartRetry
           \/ (\E g \in Files : Publish(g)) \/ (\E p \in Parts : Sweep(p)) \/ (\E l \in letters : Dismiss(l))
  BY <1>5, <1>3 DEF Quiet, End, PlanSync, DryRun, ValidateFails, CheckFiles, StartRetry, Publish, Sweep, Dismiss
<1> QED  BY <1>1, <1>2, <1>4, <1>5, StepKinds

\* Syncs and validations keep the files that are what the upstream lists; only
\* a retry, which does not look first, and a clean-up by an old listing may not
\* (buildPackageAction, findDeletedPackages).
THEOREM EngineGoodFileKept == Spec => GoodFileKept
<1>1. EngineInv /\ [Next]_vars
        => [\A f \in Files :
              Current(f) # 0 /\ InPlace(f) /\ disk'[f] # disk[f]
                  => \/ pc = "retrying"
                     \/ ByOldListing(f) /\ plan[f] = "delete"]_vars
  BY GoodFileStep
<1> QED  BY <1>1, EngineInvariant, PTL DEF Spec, GoodFileKept
=============================================================================

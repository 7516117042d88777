------------------------- MODULE AirgapExportProofs -------------------------
(***************************************************************************)
(* Proofs about AirgapExport, for any providers, files, layouts, sizes and *)
(* numbers of exports: what an export has collected, what its archives     *)
(* hold of it, and what their checksums say, while syncs, scans and other  *)
(* exports go on beneath it.                                               *)
(***************************************************************************)
EXTENDS AirgapExport, FiniteSetTheorems, SequenceTheorems, WellFoundedInduction, TLAPS

-----------------------------------------------------------------------------
(* The inductive invariant *)

K == Cardinality(Keys)
Packing == {"pack", "close"}
Going == {"open", "pack", "close", "manifest", "record"}

\* The file from which on no closed archive has anything.
Start(e) == IF pc[e] \in Packing THEN first[e] ELSE next[e]

\* How far an export has come, by its place in the code.
ProgressOf(e) ==
    /\ pc[e] \in {"new", "failed", "completed"} => asked[e] = 0
    /\ pc[e] \notin Going => first[e] = 1 /\ next[e] = 1 /\ closed[e] = <<>>
    /\ Len(collected[e]) <= asked[e] * K
    /\ pc[e] \in Going => asked[e] = Len(Requested)
    /\ pc[e] = "open" => next[e] <= Len(collected[e])
    /\ pc[e] \in Packing => first[e] <= Len(collected[e])
    /\ pc[e] = "close" => first[e] < next[e]
    /\ pc[e] \in {"manifest", "record"} => next[e] = Len(collected[e]) + 1
    /\ Len(closed[e]) < Start(e)
Progress == \A e \in Exports : ProgressOf(e)
ExportInv == TypeOK /\ Progress

Keyed(s) == [i \in DOMAIN s |-> s[i].key]
Matches(files, archive) == archive.mixed \/ Keyed(archive.files) = Keyed(files)
Listed(archives) == FlattenSeq([i \in DOMAIN archives |-> archives[i].files])

\* An archive that no other export has written into holds the files that its
\* export has packed, in order; and the closed ones hold all files up to the
\* open one.
PackageOf(e) ==
    /\ pc[e] \in Packing =>
          /\ dir[Current(e)].mixed \/ dir[Current(e)].by = e
          /\ Matches(InArchive(e), dir[Current(e)])
    /\ \A i \in DOMAIN closed[e] : Matches(closed[e][i].files, closed[e][i].hash)
    /\ Listed(closed[e]) = SubSeq(collected[e], 1, Start(e) - 1)
ManifestWhole ==
    /\ \A i \in DOMAIN manifest.archives :
          Matches(manifest.archives[i].files, manifest.archives[i].hash)
    /\ Listed(manifest.archives) = manifest.inventory
PackageInv == (\A e \in Exports : PackageOf(e)) /\ ManifestWhole

Sized(files) == {j \in DOMAIN files : EntrySize(files[j]) > 0}
Fits(files) ==
    /\ TotalSize(files) = 0 => Sized(files) = {}
    /\ TotalSize(files) > SplitSize => Cardinality(Sized(files)) = 1
LeavesOut(files, x) == TotalSize(files) + EntrySize(x) > SplitSize

\* What is known of the sizes of the open archive and of the closed ones.
SplitClosed(archives) ==
    \A i \in DOMAIN archives :
        /\ archives[i].files # <<>> /\ Fits(archives[i].files)
        /\ i > 1 => LeavesOut(archives[i - 1].files, archives[i].files[1])
SplitOf(e) ==
    /\ SplitClosed(closed[e])
    /\ pc[e] \in Packing => Fits(InArchive(e))
    /\ pc[e] = "close" => next[e] > Len(collected[e]) \/ Full(e)
    /\ pc[e] \in Packing \cup {"open"} /\ closed[e] # <<>> =>
          LeavesOut(closed[e][Len(closed[e])].files, collected[e][Start(e)])
SplitInv == \A e \in Exports : SplitOf(e)

\* What a sync has put in place and recorded, and nothing has touched since.
InPlace(f) ==
    /\ content[f] # 0 /\ f \notin partial /\ sync[f] = "idle"
    /\ f \notin unrecorded /\ outputDir[f] = <<Owner[f]>>
Undisturbed(e, f) == InPlace(f) /\ f \notin disturbed[e] /\ Owner[f] \notin unlisted[e]
Entry(f) == [key |-> SyncKey(f), version |-> content[f]]
WholeEntry(f) == [key |-> SyncKey(f), version |-> content[f], whole |-> TRUE]

\* An archive that no other export has written into has the undisturbed files
\* as they are.
Faithful(e, files, archive) ==
    archive.mixed \/
        \A i \in DOMAIN files : \A f \in Files :
            Undisturbed(e, f) /\ files[i].key = SyncKey(f) => archive.files[i] = WholeEntry(f)

FilesSettled ==
    \A f \in Files :
        /\ sync[f] = "writing" => f \in partial
        /\ InPlace(f) => rows[SyncKey(f)] = content[f]
CollectedOf(e) ==
    \A f \in Files : Undisturbed(e, f) =>
        \A j \in 1..asked[e] : Requested[j] = Owner[f] =>
            \E n \in DOMAIN collected[e] : collected[e][n] = Entry(f)
PackedOf(e) ==
    /\ pc[e] \in Packing => Faithful(e, InArchive(e), dir[Current(e)])
    /\ \A i \in DOMAIN closed[e] : Faithful(e, closed[e][i].files, closed[e][i].hash)
CoveredOf(e) ==
    \A n \in 1..Start(e) - 1 :
        \E i \in DOMAIN closed[e] : \E m \in DOMAIN closed[e][i].files :
            closed[e][i].files[m] = collected[e][n]
CompleteOf(e) == pc[e] \in Running => CollectedOf(e) /\ PackedOf(e) /\ CoveredOf(e)
CompleteInv == FilesSettled /\ \A e \in Exports : CompleteOf(e)

-----------------------------------------------------------------------------
(* Files, keys and sizes *)

\* Induction over the natural numbers, for a set in place of a predicate.
LEMMA SetInduction ==
  ASSUME NEW S, 0 \in S, \A n \in Nat : n \in S => n + 1 \in S
  PROVE  Nat \subseteq S
<1> SUFFICES ASSUME Nat \ S # {} PROVE FALSE
  OBVIOUS
<1>1. \A n, k \in Nat : <<k, n>> \in OpToRel(<, Nat) <=> k < n
  BY DEF OpToRel
<1> DEFINE R == OpToRel(<, Nat)
<1>2. IsWellFoundedOn(R, Nat)
  BY NatLessThanWellFounded
<1> HIDE DEF R
<1>3. PICK n \in Nat \ S : \A k \in Nat \ S : ~(<<k, n>> \in R)
  <2>1. Nat \ S \subseteq Nat
    OBVIOUS
  <2> QED  BY <1>2, <2>1, WFMin
<1>4. \A k \in Nat \ S : ~(k < n)
  BY <1>1, <1>3 DEF R
<1>5. n # 0 /\ n - 1 \in Nat /\ n - 1 < n /\ (n - 1) + 1 = n
  OBVIOUS
<1>6. n - 1 \in S
  BY <1>4, <1>5
<1> QED  BY <1>5, <1>6

LEMMA RequestedType ==
  /\ Requested \in Seq(Providers) /\ Len(Requested) \in Nat /\ IsFiniteSet(Providers)
  /\ \A i \in 1..Len(Requested) : Requested[i] \in Providers
  /\ \A f \in Files : Owner[f] \in Providers
<1>1. Requested \in Seq(Providers) /\ \A f \in Files : Owner[f] \in Providers
  BY ProvidersAssumption DEF Providers
<1>2. Len(Requested) \in Nat /\ DOMAIN Requested = 1..Len(Requested)
  BY <1>1
<1>3. Requested \in Surjection(1..Len(Requested), Providers)
  BY <1>1, <1>2 DEF Surjection, Providers, ToSet
<1>4. IsFiniteSet(1..Len(Requested))
  BY <1>2, FS_Interval
<1>5. IsFiniteSet(Providers)
  BY <1>3, <1>4, FS_Surjection
<1> QED  BY <1>1, <1>2, <1>5

\* The path of a file in a layout, and the keys told by it.
Path(layout, f) == layout[f] \o <<f>>

LEMMA PathFacts ==
  /\ Keys = {SyncKey(f) : f \in Files}
               \cup {<<p, Path(layout, f)>> : p \in Providers, f \in Files, layout \in Layouts}
  /\ \A f \in Files : Place(f) = Path(outputDir, f)
  /\ \A layout \in Layouts : \A f \in Files : Path(layout, f)[Len(Path(layout, f))] = f
<1>1. ASSUME NEW layout \in Layouts, NEW f \in Files PROVE Path(layout, f)[Len(Path(layout, f))] = f
  <2> DEFINE S == ToSet(layout[f]) \cup {f}
  <2>1. layout[f] \in Seq(S) /\ <<f>> \in Seq(S) /\ Len(<<f>>) = 1 /\ <<f>>[1] = f
    <3>1. layout[f] \in Seq(ToSet(layout[f]))
      BY FilesAssumption
    <3>2. layout[f] \in Seq(S)
      BY <3>1, SeqMonotonic
    <3> QED  BY <3>2
  <2> HIDE DEF S
  <2>2. Len(layout[f]) \in Nat
    BY <2>1
  <2>3. Len(layout[f] \o <<f>>) = Len(layout[f]) + 1
    BY <2>1, ConcatProperties
  <2>4. (layout[f] \o <<f>>)[Len(layout[f]) + 1] = <<f>>[1]
    BY <2>1, <2>2, ConcatProperties
  <2> QED  BY <2>1, <2>3, <2>4 DEF Path
<1> QED  BY <1>1 DEF Keys, Place, Path

LEMMA KeysFinite == IsFiniteSet(Keys) /\ K \in Nat
<1> DEFINE Synced == {SyncKey(f) : f \in Files}
           Walked == {<<p, Path(layout, f)>> : p \in Providers, f \in Files, layout \in Layouts}
           Triples == Providers \X (Files \X Layouts)
           a == [f \in Files |-> SyncKey(f)]
           b == [t \in Triples |-> <<t[1], Path(t[2][2], t[2][1])>>]
<1>1. IsFiniteSet(Synced)
  <2>1. a \in Surjection(Files, Synced)
    BY DEF Surjection
  <2> HIDE DEF a, Synced
  <2> QED  BY <2>1, FilesAssumption, FS_Surjection
<1>3. Keys = Synced \cup Walked
  BY PathFacts
<1>2. IsFiniteSet(Walked)
  <2>1. b \in Surjection(Triples, Walked)
    <3>1. ASSUME NEW t \in Triples PROVE b[t] \in Walked
      OBVIOUS
    <3>2. ASSUME NEW w \in Walked PROVE \E t \in Triples : b[t] = w
      <4>1. PICK p \in Providers, f \in Files, layout \in Layouts : w = <<p, Path(layout, f)>>
        OBVIOUS
      <4>2. <<p, <<f, layout>>>> \in Triples /\ b[<<p, <<f, layout>>>>] = w
        BY <4>1
      <4> QED  BY <4>2
    <3>3. b \in [Triples -> Walked]
      BY <3>1
    <3> HIDE DEF b, Walked, Triples
    <3> QED  BY <3>2, <3>3 DEF Surjection
  <2>2. IsFiniteSet(Files \X Layouts)
    BY FilesAssumption, FS_Product
  <2>3. IsFiniteSet(Triples)
    BY <2>2, RequestedType, FS_Product
  <2> HIDE DEF b, Walked, Triples
  <2> QED  BY <2>1, <2>3, FS_Surjection
<1> HIDE DEF Synced, Walked
<1> QED  BY <1>1, <1>2, <1>3, FS_Union, FS_CardinalityType DEF K

\* A row's key tells its file; a sync's key is a scan's only for one file.
LEMMA KeyFacts ==
  ASSUME outputDir \in Layouts
  PROVE  /\ \A f \in Files : SyncKey(f) \in Keys /\ FileOf(SyncKey(f)) = f /\ SyncKey(f)[1] = Owner[f]
         /\ \A f \in Files, p \in Providers : ScanKey(p, f) \in Keys /\ FileOf(ScanKey(p, f)) = f
         /\ \A k \in Keys : FileOf(k) \in Files
         /\ \A f, g \in Files : SyncKey(f) = SyncKey(g) => f = g
         /\ \A f, g \in Files : outputDir[f] = <<Owner[f]>> /\ g \in Found(SyncKey(f)) => g = f
         /\ \A f \in Files : outputDir[f] = <<Owner[f]>> /\ content[f] # 0 => f \in Found(SyncKey(f))
<1>1. \A f \in Files : <<f>>[Len(<<f>>)] = f
  OBVIOUS
<1>3. \A f \in Files : SyncKey(f) \in Keys /\ FileOf(SyncKey(f)) = f /\ SyncKey(f)[1] = Owner[f]
  BY <1>1, PathFacts DEF SyncKey, FileOf
<1>4. \A f \in Files, p \in Providers : ScanKey(p, f) \in Keys /\ FileOf(ScanKey(p, f)) = f
  BY PathFacts DEF ScanKey, FileOf
<1>5. ASSUME NEW k \in Keys PROVE FileOf(k) \in Files
  <2>1. CASE \E f \in Files : k = SyncKey(f)
    BY <1>3, <2>1
  <2>2. CASE \E p \in Providers, f \in Files, layout \in Layouts : k = <<p, Path(layout, f)>>
    BY PathFacts, <2>2 DEF FileOf
  <2> QED  BY PathFacts, <2>1, <2>2
<1>6. \A f, g \in Files : SyncKey(f) = SyncKey(g) => f = g
  BY <1>3
<1>7. \A f \in Files : Place(f)[Len(Place(f))] = f
  BY PathFacts
<1>8. \A f \in Files : SyncKey(f)[1] = Owner[f] /\ SyncKey(f)[2] = <<f>>
  BY DEF SyncKey
<1>9. ASSUME NEW f \in Files, NEW g \in Files, outputDir[f] = <<Owner[f]>>, g \in Found(SyncKey(f)) PROVE g = f
  <2>1. Place(g) = Place(f)
    BY <1>8, <1>9 DEF Found, Place
  <2> QED  BY <1>7, <2>1
<1>10. \A f \in Files : outputDir[f] = <<Owner[f]>> /\ content[f] # 0 => f \in Found(SyncKey(f))
  BY <1>8 DEF Found, Place
<1> QED  BY <1>3, <1>4, <1>5, <1>6, <1>9, <1>10

\* A scan leaves a sync's row with the file's own version.
LEMMA ScanOwn ==
  ASSUME outputDir \in Layouts, NEW f \in Files, NEW g \in Files, NEW p \in Providers,
         SyncKey(f) = ScanKey(p, g)
  PROVE  g = f
BY KeyFacts

LEMMA EntriesType ==
  ASSUME outputDir \in Layouts, NEW x \in Entries
  PROVE  /\ x.key \in Keys /\ x.version \in Versions(FileOf(x.key)) /\ EntrySize(x) \in Nat
         /\ x = [key |-> x.key, version |-> x.version]
<1>1. PICK k \in Keys : x \in [key : {k}, version : Versions(FileOf(k))]
  BY DEF Entries
<1>2. x.key = k /\ x.version \in Versions(FileOf(k)) /\ x = [key |-> x.key, version |-> x.version]
  BY <1>1
<1>3. FileOf(k) \in Files
  BY KeyFacts
<1>4. Size[FileOf(k)] \in Seq(Nat)
  BY <1>3, SizeAssumption
<1>5. EntrySize(x) \in Nat
  BY <1>2, <1>4, ElementOfSeq DEF EntrySize, Versions
<1> QED  BY <1>2, <1>5

LEMMA EntryIsTyped ==
  ASSUME NEW k \in Keys, NEW v \in Versions(FileOf(k))
  PROVE  [key |-> k, version |-> v] \in Entries
BY DEF Entries

\* SetToSeq lists a finite set.
LEMMA ListOfSet ==
  ASSUME NEW S, IsFiniteSet(S)
  PROVE  /\ SetToSeq(S) \in Seq(S) /\ Len(SetToSeq(S)) = Cardinality(S)
         /\ \A x \in S : \E n \in DOMAIN SetToSeq(S) : SetToSeq(S)[n] = x
<1> DEFINE n == Cardinality(S)
           l == SetToSeq(S)
<1>1. n \in Nat /\ ExistsBijection(1..n, S)
  BY FS_CardinalityType
<1>2. PICK h : h \in [1..n -> S] /\ IsInjective(h)
  BY <1>1 DEF ExistsBijection, Bijection, Injection
<1>3. l = CHOOSE f \in [1..n -> S] : IsInjective(f)
  BY DEF SetToSeq
<1> HIDE DEF l
<1>4. l \in [1..n -> S] /\ IsInjective(l)
  BY <1>2, <1>3
<1>5. l \in Injection(1..n, S)
  BY <1>4 DEF Injection
<1>6. Cardinality(1..n) = n
  BY <1>1, FS_Interval
<1>7. l \in Surjection(1..n, S)
  BY <1>5, <1>6, FS_Injection
<1> HIDE DEF n
<1>8. l \in Seq(S) /\ Len(l) = n /\ DOMAIN l = 1..n
  BY <1>1, <1>4
<1> QED  BY <1>7, <1>8 DEF n, l, Surjection

-----------------------------------------------------------------------------
(* The lists an export builds *)

\* A solution of the recursion behind FlattenSeq, up to n.
Flattens(g, n, s, S) ==
    /\ DOMAIN g = 1..n /\ \A i \in 1..n : g[i] \in Seq(S)
    /\ \A i \in 1..n : g[i] = IF i = 1 THEN s[1] ELSE g[i - 1] \o s[i]

LEMMA FlattenSolved ==
  ASSUME NEW S, NEW s \in Seq(Seq(S)), s # <<>>
  PROVE  \E g : Flattens(g, Len(s), s, S) /\ FlattenSeq(s) = g[Len(s)]
<1> DEFINE T == {n \in Nat : n <= Len(s) => \E g : Flattens(g, n, s, S)}
<1>0. Len(s) \in Nat \ {0} /\ \A i \in 1..Len(s) : s[i] \in Seq(S)
  BY EmptySeq, ElementOfSeq
<1>1. 0 \in T
  <2>1. Flattens([i \in {} |-> <<>>], 0, s, S)
    BY DEF Flattens
  <2> QED  BY <2>1
<1>2. ASSUME NEW n \in Nat, n \in T PROVE n + 1 \in T
  <2> SUFFICES ASSUME n + 1 <= Len(s) PROVE \E g : Flattens(g, n + 1, s, S)
    OBVIOUS
  <2>1. PICK g : Flattens(g, n, s, S)
    BY <1>0, <1>2
  <2> DEFINE last == IF n = 0 THEN s[1] ELSE g[n] \o s[n + 1]
             h == [i \in 1..(n + 1) |-> IF i = n + 1 THEN last ELSE g[i]]
  <2> HIDE DEF last
  <2>a. n + 1 \in 1..(n + 1) /\ \A i \in 1..n : i \in 1..(n + 1) /\ i # n + 1
    OBVIOUS
  <2>b. DOMAIN h = 1..(n + 1) /\ (\A i \in 1..n : h[i] = g[i]) /\ h[n + 1] = last
    BY <2>a
  <2> HIDE DEF h
  <2>2. /\ DOMAIN h = 1..(n + 1) /\ \A i \in 1..n : h[i] = g[i]
        /\ h[n + 1] = IF n = 0 THEN s[1] ELSE g[n] \o s[n + 1]
    BY <2>b DEF last
  <2>3. s[n + 1] \in Seq(S) /\ s[1] \in Seq(S)
    BY <1>0
  <2>4. \A i \in 1..(n + 1) : i \in 1..n \/ i = n + 1
    OBVIOUS
  <2>5. h[n + 1] \in Seq(S)
    <3>1. CASE n = 0
      BY <2>2, <2>3, <3>1
    <3>2. CASE n # 0
      <4>1. n \in 1..n
        BY <3>2
      <4>2. g[n] \in Seq(S)
        BY <2>1, <4>1 DEF Flattens
      <4>3. g[n] \o s[n + 1] \in Seq(S)
        BY <2>3, <4>2, ConcatProperties
      <4> QED  BY <2>2, <3>2, <4>3
    <3> QED  BY <3>1, <3>2
  <2>6. \A i \in 1..(n + 1) : h[i] \in Seq(S)
    BY <2>1, <2>2, <2>4, <2>5 DEF Flattens
  <2>7. ASSUME NEW i \in 1..(n + 1) PROVE h[i] = IF i = 1 THEN s[1] ELSE h[i - 1] \o s[i]
    <3>1. CASE i = n + 1 /\ n = 0
      BY <2>2, <3>1
    <3>2. CASE i = n + 1 /\ n # 0
      <4>1. n \in 1..n /\ i - 1 = n /\ i # 1
        BY <3>2
      <4> QED  BY <2>2, <3>2, <4>1
    <3>3. CASE i \in 1..n
      <4>1. i # 1 => i - 1 \in 1..n
        BY <3>3
      <4> QED  BY <2>1, <2>2, <3>3, <4>1 DEF Flattens
    <3> QED  BY <2>4, <3>1, <3>2, <3>3
  <2>8. Flattens(h, n + 1, s, S)
    BY <2>2, <2>6, <2>7 DEF Flattens
  <2> QED  BY <2>8
<1> HIDE DEF T
<1>3. Len(s) \in T
  BY <1>0, <1>1, <1>2, SetInduction
<1>4. PICK g : Flattens(g, Len(s), s, S)
  BY <1>0, <1>3 DEF T
<1> DEFINE Solves(f) == f = [i \in 1..Len(s) |-> IF i = 1 THEN s[i] ELSE f[i - 1] \o s[i]]
           F == CHOOSE f : Solves(f)
<1>5. \E f : Solves(f)
  <2> DEFINE d == [i \in 1..Len(s) |-> g[i]]
  <2>1. ASSUME NEW i \in 1..Len(s) PROVE g[i] = IF i = 1 THEN s[i] ELSE d[i - 1] \o s[i]
    <3>1. i # 1 => i - 1 \in 1..Len(s)
      BY <1>0
    <3> QED  BY <1>4, <3>1 DEF Flattens
  <2>2. Solves(d)
    BY <2>1
  <2> QED  BY <2>2
<1>6. FlattenSeq(s) = F[Len(s)]
  BY <1>0 DEF FlattenSeq
<1>7. Solves(F)
  BY <1>5
<1> HIDE DEF F
<1>8. DOMAIN F = 1..Len(s) /\ \A i \in 1..Len(s) : F[i] = IF i = 1 THEN s[i] ELSE F[i - 1] \o s[i]
  BY <1>7
<1> HIDE DEF Solves
<1> DEFINE U == {n \in Nat : n + 1 <= Len(s) => F[n + 1] \in Seq(S)}
<1>9. 0 \in U
  <2>1. 0 + 1 = 1 /\ 1 \in 1..Len(s)
    BY <1>0
  <2>2. F[1] = s[1] /\ s[1] \in Seq(S)
    BY <1>0, <1>8, <2>1
  <2> QED  BY <2>1, <2>2
<1>10. ASSUME NEW n \in Nat, n \in U PROVE n + 1 \in U
  <2> SUFFICES ASSUME (n + 1) + 1 <= Len(s) PROVE F[(n + 1) + 1] \in Seq(S)
    OBVIOUS
  <2>1. F[n + 1] \in Seq(S)
    BY <1>0, <1>10
  <2>2. (n + 1) + 1 \in 1..Len(s) /\ (n + 1) + 1 # 1 /\ ((n + 1) + 1) - 1 = n + 1
    BY <1>0
  <2>3. F[(n + 1) + 1] = F[n + 1] \o s[(n + 1) + 1]
    BY <1>8, <2>2
  <2> QED  BY <1>0, <2>1, <2>2, <2>3, ConcatProperties
<1> HIDE DEF U
<1>11. Nat \subseteq U
  BY <1>9, <1>10, SetInduction
<1>12. \A i \in 1..Len(s) : F[i] \in Seq(S)
  <2> TAKE i \in 1..Len(s)
  <2>1. i - 1 \in Nat /\ (i - 1) + 1 = i /\ i <= Len(s)
    BY <1>0
  <2>2. i - 1 \in U
    BY <1>11, <2>1
  <2> QED  BY <2>1, <2>2 DEF U
<1>13. Flattens(F, Len(s), s, S)
  BY <1>8, <1>12 DEF Flattens
<1> QED  BY <1>6, <1>13

LEMMA FlattenEmpty == FlattenSeq(<<>>) = <<>>
BY DEF FlattenSeq

\* Flattening is one concatenation after the other.
LEMMA FlattenAppend ==
  ASSUME NEW S, NEW s \in Seq(Seq(S)), NEW x \in Seq(S)
  PROVE  FlattenSeq(Append(s, x)) = FlattenSeq(s) \o x /\ FlattenSeq(s) \in Seq(S)
<1> DEFINE t == Append(s, x)
           n == Len(s)
<1>1. t \in Seq(Seq(S)) /\ t # <<>> /\ Len(t) = n + 1 /\ n \in Nat /\ t[n + 1] = x /\ \A i \in 1..n : t[i] = s[i]
  BY AppendProperties
<1> HIDE DEF t
<1>2. PICK h : Flattens(h, n + 1, t, S) /\ FlattenSeq(t) = h[n + 1]
  BY <1>1, FlattenSolved
<1>3. CASE s = <<>>
  <2>1. n = 0 /\ n + 1 = 1 /\ FlattenSeq(s) = <<>>
    BY <1>3, FlattenEmpty
  <2>2. h[n + 1] = t[1]
    BY <1>2, <2>1 DEF Flattens
  <2>3. <<>> \o x = x
    BY ConcatEmptySeq
  <2> QED  BY <1>1, <1>2, <2>1, <2>2, <2>3 DEF t
<1>4. CASE s # <<>>
  <2>1. PICK g : Flattens(g, n, s, S) /\ FlattenSeq(s) = g[n]
    BY <1>4, FlattenSolved
  <2>2. n # 0
    BY <1>4, EmptySeq
  <2> DEFINE U == {k \in Nat : k + 1 <= n => h[k + 1] = g[k + 1]}
  <2> HIDE DEF n
  <2>a. g[1] = s[1] /\ h[1] = t[1] /\ t[1] = s[1]
    <3>1. 1 \in 1..n /\ 1 \in 1..(n + 1)
      BY <1>1, <2>2
    <3> QED  BY <1>1, <1>2, <2>1, <3>1 DEF Flattens
  <2>b. \A i \in 1..n : i # 1 => g[i] = g[i - 1] \o s[i]
    BY <2>1 DEF Flattens
  <2>c. \A i \in 1..(n + 1) : i # 1 => h[i] = h[i - 1] \o t[i]
    BY <1>2 DEF Flattens
  <2>3. 0 \in U
    BY <2>a
  <2>4. ASSUME NEW k \in Nat, k \in U PROVE k + 1 \in U
    <3> SUFFICES ASSUME (k + 1) + 1 <= n PROVE h[(k + 1) + 1] = g[(k + 1) + 1]
      OBVIOUS
    <3>1. (k + 1) + 1 \in 1..n /\ (k + 1) + 1 \in 1..(n + 1) /\ (k + 1) + 1 # 1 /\ ((k + 1) + 1) - 1 = k + 1
      BY <1>1
    <3>2. h[k + 1] = g[k + 1]
      BY <1>1, <2>4
    <3>3. g[(k + 1) + 1] = g[k + 1] \o s[(k + 1) + 1]
      BY <2>b, <3>1
    <3>4. h[(k + 1) + 1] = h[k + 1] \o t[(k + 1) + 1]
      BY <2>c, <3>1
    <3> QED  BY <1>1, <3>1, <3>2, <3>3, <3>4
  <2> HIDE DEF U
  <2>d. n - 1 \in Nat /\ (n - 1) + 1 = n
    BY <1>1, <2>2
  <2>5. n - 1 \in U /\ n - 1 \in Nat /\ (n - 1) + 1 = n
    BY <2>d, <2>3, <2>4, SetInduction
  <2>6. h[n] = g[n]
    BY <2>5 DEF U
  <2>7. n + 1 \in 1..(n + 1) /\ n + 1 # 1 /\ (n + 1) - 1 = n /\ n \in 1..n
    BY <1>1, <2>2
  <2>8. h[n + 1] = h[n] \o t[n + 1]
    BY <1>2, <2>7 DEF Flattens
  <2>9. g[n] \in Seq(S)
    BY <2>1, <2>7 DEF Flattens
  <2> QED  BY <1>1, <1>2, <2>1, <2>6, <2>8, <2>9 DEF t
<1> QED  BY <1>3, <1>4

\* Lists whose parts name the same files name the same files.
LEMMA KeyedConcat ==
  ASSUME NEW S, NEW T, NEW a \in Seq(S), NEW b \in Seq(S), NEW c \in Seq(T), NEW d \in Seq(T),
         Keyed(a) = Keyed(c), Keyed(b) = Keyed(d)
  PROVE  Keyed(a \o b) = Keyed(c \o d)
<1>1. /\ Len(a) = Len(c) /\ \A i \in 1..Len(a) : a[i].key = c[i].key
      /\ Len(b) = Len(d) /\ \A i \in 1..Len(b) : b[i].key = d[i].key
      /\ Len(a) \in Nat /\ Len(b) \in Nat
  <2>1. DOMAIN a = 1..Len(a) /\ DOMAIN c = 1..Len(c) /\ DOMAIN b = 1..Len(b) /\ DOMAIN d = 1..Len(d)
        /\ Len(a) \in Nat /\ Len(b) \in Nat /\ Len(c) \in Nat /\ Len(d) \in Nat
    OBVIOUS
  <2>2. DOMAIN Keyed(a) = DOMAIN a /\ \A i \in DOMAIN a : Keyed(a)[i] = a[i].key
    BY DEF Keyed
  <2>3. DOMAIN Keyed(b) = DOMAIN b /\ \A i \in DOMAIN b : Keyed(b)[i] = b[i].key
    BY DEF Keyed
  <2>4. DOMAIN Keyed(c) = DOMAIN c /\ \A i \in DOMAIN c : Keyed(c)[i] = c[i].key
    BY DEF Keyed
  <2>5. DOMAIN Keyed(d) = DOMAIN d /\ \A i \in DOMAIN d : Keyed(d)[i] = d[i].key
    BY DEF Keyed
  <2>6. 1..Len(a) = 1..Len(c) /\ 1..Len(b) = 1..Len(d)
    BY <2>1, <2>2, <2>3, <2>4, <2>5
  <2>a. \A m, k \in Nat : 1..m = 1..k => m = k
    <3>1. ASSUME NEW m \in Nat, NEW k \in Nat, 1..m = 1..k PROVE m <= k
      <4>1. m # 0 => m \in 1..m
        OBVIOUS
      <4>2. m # 0 => m \in 1..k
        BY <3>1, <4>1
      <4> QED  BY <4>2
    <3> QED  BY <3>1
  <2>7. Len(a) = Len(c) /\ Len(b) = Len(d)
    BY <2>1, <2>6, <2>a
  <2> QED  BY <2>1, <2>2, <2>3, <2>4, <2>5, <2>7
<1> DEFINE ab == a \o b
           cd == c \o d
           n == Len(a) + Len(b)
<1>2. ab \in Seq(S) /\ Len(ab) = n /\ \A i \in 1..n : ab[i] = IF i <= Len(a) THEN a[i] ELSE b[i - Len(a)]
  BY ConcatProperties
<1>3. cd \in Seq(T) /\ Len(cd) = n /\ \A i \in 1..n : cd[i] = IF i <= Len(a) THEN c[i] ELSE d[i - Len(a)]
  <2>1. /\ cd \in Seq(T) /\ Len(cd) = Len(c) + Len(d)
        /\ \A i \in 1..Len(c) + Len(d) : cd[i] = IF i <= Len(c) THEN c[i] ELSE d[i - Len(c)]
    BY ConcatProperties
  <2> HIDE DEF cd
  <2> QED  BY <1>1, <2>1
<1> HIDE DEF ab, cd
<1>4. DOMAIN ab = 1..n /\ DOMAIN cd = 1..n
  BY <1>2, <1>3
<1>5. ASSUME NEW i \in 1..n PROVE ab[i].key = cd[i].key
  <2>1. CASE i <= Len(a)
    <3>1. i \in 1..Len(a) /\ ab[i] = a[i] /\ cd[i] = c[i]
      BY <1>1, <1>2, <1>3, <2>1
    <3> QED  BY <1>1, <3>1
  <2>2. CASE ~(i <= Len(a))
    <3>1. i - Len(a) \in 1..Len(b) /\ ab[i] = b[i - Len(a)] /\ cd[i] = d[i - Len(a)]
      BY <1>1, <1>2, <1>3, <2>2
    <3> QED  BY <1>1, <3>1
  <2> QED  BY <2>1, <2>2
<1> HIDE DEF n
<1> QED  BY <1>4, <1>5 DEF Keyed, ab, cd

KeyedAlike(s, t) == Len(s) = Len(t) /\ \A i \in 1..Len(s) : Keyed(s[i]) = Keyed(t[i])

LEMMA KeyedFlatten ==
  ASSUME NEW S, NEW T, NEW s \in Seq(Seq(S)), NEW t \in Seq(Seq(T)), KeyedAlike(s, t)
  PROVE  Keyed(FlattenSeq(s)) = Keyed(FlattenSeq(t))
<1> DEFINE n == Len(s)
<1>a. Len(s) = Len(t) /\ \A i \in 1..Len(s) : Keyed(s[i]) = Keyed(t[i])
  BY DEF KeyedAlike
<1>0. n \in Nat /\ \A i \in 1..n : s[i] \in Seq(S) /\ t[i] \in Seq(T)
  BY <1>a, ElementOfSeq
<1>1. CASE n = 0
  <2>1. s = <<>> /\ t = <<>>
    BY <1>1, <1>a, EmptySeq
  <2> QED  BY <2>1
<1>2. CASE n # 0
  <2>0. s # <<>> /\ t # <<>>
    BY <1>2, <1>a, EmptySeq
  <2>1. PICK g : Flattens(g, n, s, S) /\ FlattenSeq(s) = g[n]
    BY <2>0, FlattenSolved
  <2>2. PICK h : Flattens(h, n, t, T) /\ FlattenSeq(t) = h[n]
    BY <2>0, <1>a, FlattenSolved
  <2> HIDE DEF n
  <2>3. g[1] = s[1] /\ h[1] = t[1] /\ 1 \in 1..n
    <3>1. 1 \in 1..n
      BY <1>0, <1>2
    <3> QED  BY <2>1, <2>2, <3>1 DEF Flattens
  <2>4. \A i \in 1..n : i # 1 => g[i] = g[i - 1] \o s[i] /\ h[i] = h[i - 1] \o t[i]
    BY <2>1, <2>2 DEF Flattens
  <2>5. \A i \in 1..n : g[i] \in Seq(S) /\ h[i] \in Seq(T)
    BY <2>1, <2>2 DEF Flattens
  <2> DEFINE U == {k \in Nat : k + 1 <= n => Keyed(g[k + 1]) = Keyed(h[k + 1])}
  <2>6. 0 \in U
    <3>1. Keyed(s[1]) = Keyed(t[1])
      BY <2>3, <1>a DEF n
    <3>2. 0 + 1 = 1
      OBVIOUS
    <3> QED  BY <2>3, <3>1, <3>2
  <2>7. ASSUME NEW k \in Nat, k \in U PROVE k + 1 \in U
    <3> SUFFICES ASSUME (k + 1) + 1 <= n PROVE Keyed(g[(k + 1) + 1]) = Keyed(h[(k + 1) + 1])
      OBVIOUS
    <3>1. (k + 1) + 1 \in 1..n /\ (k + 1) + 1 # 1 /\ ((k + 1) + 1) - 1 = k + 1 /\ k + 1 \in 1..n
      BY <1>0
    <3>2. Keyed(g[k + 1]) = Keyed(h[k + 1])
      BY <2>7, <3>1
    <3>3. Keyed(s[(k + 1) + 1]) = Keyed(t[(k + 1) + 1])
      BY <3>1, <1>a DEF n
    <3>4. g[(k + 1) + 1] = g[k + 1] \o s[(k + 1) + 1] /\ h[(k + 1) + 1] = h[k + 1] \o t[(k + 1) + 1]
      BY <2>4, <3>1
    <3>5. /\ g[k + 1] \in Seq(S) /\ s[(k + 1) + 1] \in Seq(S)
          /\ h[k + 1] \in Seq(T) /\ t[(k + 1) + 1] \in Seq(T)
      BY <1>0, <2>5, <3>1
    <3> QED  BY <3>2, <3>3, <3>4, <3>5, KeyedConcat
  <2> HIDE DEF U
  <2>8. n - 1 \in Nat /\ (n - 1) + 1 = n
    BY <1>0, <1>2
  <2>9. n - 1 \in U
    BY <2>6, <2>7, <2>8, SetInduction
  <2>10. Keyed(g[n]) = Keyed(h[n])
    BY <1>0, <2>8, <2>9 DEF U
  <2> QED  BY <2>1, <2>2, <2>10
<1> QED  BY <1>1, <1>2

\* The recursion behind TotalSize, solved up to n.
Totals(g, n, s) ==
    /\ DOMAIN g = 0..n /\ g[0] = 0 /\ \A i \in 0..n : g[i] \in Nat
    /\ \A i \in 1..n : g[i] = g[i - 1] + EntrySize(s[i])

LEMMA TotalSolved ==
  ASSUME outputDir \in Layouts, NEW s \in Seq(Entries)
  PROVE  \E g : Totals(g, Len(s), s) /\ TotalSize(s) = g[Len(s)]
<1> DEFINE T == {n \in Nat : n <= Len(s) => \E g : Totals(g, n, s)}
<1>0. Len(s) \in Nat /\ \A i \in 1..Len(s) : EntrySize(s[i]) \in Nat
  BY ElementOfSeq, EntriesType
<1>1. 0 \in T
  <2>1. Totals([i \in 0..0 |-> 0], 0, s)
    BY DEF Totals
  <2> QED  BY <2>1
<1>2. ASSUME NEW n \in Nat, n \in T PROVE n + 1 \in T
  <2> SUFFICES ASSUME n + 1 <= Len(s) PROVE \E g : Totals(g, n + 1, s)
    OBVIOUS
  <2>1. PICK g : Totals(g, n, s)
    BY <1>0, <1>2
  <2> DEFINE last == g[n] + EntrySize(s[n + 1])
             h == [i \in 0..(n + 1) |-> IF i = n + 1 THEN last ELSE g[i]]
  <2>2. last \in Nat
    BY <1>0, <2>1 DEF Totals
  <2> HIDE DEF last
  <2>3. DOMAIN h = 0..(n + 1) /\ (\A i \in 0..n : h[i] = g[i]) /\ h[n + 1] = last
    OBVIOUS
  <2> HIDE DEF h
  <2>4. \A i \in 0..(n + 1) : h[i] \in Nat
    <3>1. \A i \in 0..(n + 1) : i \in 0..n \/ i = n + 1
      OBVIOUS
    <3>2. \A i \in 0..n : h[i] \in Nat
      BY <2>1, <2>3 DEF Totals
    <3> QED  BY <2>2, <2>3, <3>1, <3>2
  <2>5. ASSUME NEW i \in 1..(n + 1) PROVE h[i] = h[i - 1] + EntrySize(s[i])
    <3>1. CASE i = n + 1
      <4>1. i - 1 = n /\ n \in 0..n
        BY <3>1
      <4> QED  BY <2>3, <3>1, <4>1 DEF last
    <3>2. CASE i # n + 1
      <4>1. i \in 1..n /\ i \in 0..n /\ i - 1 \in 0..n
        BY <3>2
      <4> QED  BY <2>1, <2>3, <4>1 DEF Totals
    <3> QED  BY <3>1, <3>2
  <2>6. h[0] = 0
    BY <2>1, <2>3 DEF Totals
  <2>7. Totals(h, n + 1, s)
    BY <2>3, <2>4, <2>5, <2>6 DEF Totals
  <2> QED  BY <2>7
<1> HIDE DEF T
<1>3. Len(s) \in T
  BY <1>0, <1>1, <1>2, SetInduction
<1>4. PICK g : Totals(g, Len(s), s)
  BY <1>0, <1>3 DEF T
<1> DEFINE Solves(f) == f = [n \in 0..Len(s) |-> IF n = 0 THEN 0 ELSE f[n - 1] + EntrySize(s[n])]
           F == CHOOSE f : Solves(f)
<1>5. \E f : Solves(f)
  <2> DEFINE d == [i \in 0..Len(s) |-> g[i]]
  <2>1. ASSUME NEW n \in 0..Len(s) PROVE g[n] = IF n = 0 THEN 0 ELSE d[n - 1] + EntrySize(s[n])
    <3>1. n # 0 => n - 1 \in 0..Len(s) /\ n \in 1..Len(s)
      BY <1>0
    <3> QED  BY <1>4, <3>1 DEF Totals
  <2>2. Solves(d)
    BY <2>1
  <2> QED  BY <2>2
<1>6. TotalSize(s) = F[Len(s)]
  BY DEF TotalSize
<1>7. Solves(F)
  BY <1>5
<1> HIDE DEF F
<1>8. DOMAIN F = 0..Len(s) /\ \A n \in 0..Len(s) : F[n] = IF n = 0 THEN 0 ELSE F[n - 1] + EntrySize(s[n])
  BY <1>7
<1> HIDE DEF Solves
<1> DEFINE U == {n \in Nat : n <= Len(s) => F[n] \in Nat}
<1>9. 0 \in U
  BY <1>0, <1>8
<1>10. ASSUME NEW n \in Nat, n \in U PROVE n + 1 \in U
  <2> SUFFICES ASSUME n + 1 <= Len(s) PROVE F[n + 1] \in Nat
    OBVIOUS
  <2>1. F[n] \in Nat /\ n + 1 \in 0..Len(s) /\ n + 1 # 0 /\ (n + 1) - 1 = n /\ n + 1 \in 1..Len(s)
    BY <1>0, <1>10
  <2>2. F[n + 1] = F[n] + EntrySize(s[n + 1])
    BY <1>8, <2>1
  <2> QED  BY <1>0, <2>1, <2>2
<1> HIDE DEF U
<1>11. \A i \in 0..Len(s) : F[i] \in Nat
  <2>1. Nat \subseteq U
    BY <1>9, <1>10, SetInduction
  <2> QED  BY <1>0, <2>1 DEF U
<1>12. \A i \in 1..Len(s) : F[i] = F[i - 1] + EntrySize(s[i])
  BY <1>0, <1>8
<1>13. F[0] = 0
  BY <1>0, <1>8
<1>14. Totals(F, Len(s), s)
  BY <1>8, <1>11, <1>12, <1>13 DEF Totals
<1> QED  BY <1>6, <1>14

LEMMA TotalType ==
  ASSUME outputDir \in Layouts, NEW s \in Seq(Entries)
  PROVE  TotalSize(s) \in Nat
<1>1. PICK g : Totals(g, Len(s), s) /\ TotalSize(s) = g[Len(s)]
  BY TotalSolved
<1>2. Len(s) \in 0..Len(s)
  BY LenProperties
<1> QED  BY <1>1, <1>2 DEF Totals

LEMMA TotalEmpty == outputDir \in Layouts => TotalSize(<<>>) = 0
<1> SUFFICES ASSUME outputDir \in Layouts PROVE TotalSize(<<>>) = 0
  OBVIOUS
<1>1. <<>> \in Seq(Entries) /\ Len(<<>>) = 0
  OBVIOUS
<1>2. PICK g : Totals(g, 0, <<>>) /\ TotalSize(<<>>) = g[0]
  BY <1>1, TotalSolved
<1> QED  BY <1>2 DEF Totals

LEMMA TotalAppend ==
  ASSUME outputDir \in Layouts, NEW s \in Seq(Entries), NEW x \in Entries
  PROVE  TotalSize(Append(s, x)) = TotalSize(s) + EntrySize(x)
<1> DEFINE t == Append(s, x)
           n == Len(s)
<1>1. t \in Seq(Entries) /\ Len(t) = n + 1 /\ n \in Nat /\ t[n + 1] = x /\ \A i \in 1..n : t[i] = s[i]
  BY AppendProperties
<1> HIDE DEF t
<1>2. PICK g : Totals(g, n, s) /\ TotalSize(s) = g[n]
  BY TotalSolved
<1>3. PICK h : Totals(h, n + 1, t) /\ TotalSize(t) = h[n + 1]
  BY <1>1, TotalSolved
<1> HIDE DEF n
<1> DEFINE U == {k \in Nat : k <= n => h[k] = g[k]}
<1>4. 0 \in U
  BY <1>2, <1>3 DEF Totals
<1>5. ASSUME NEW k \in Nat, k \in U PROVE k + 1 \in U
  <2> SUFFICES ASSUME k + 1 <= n PROVE h[k + 1] = g[k + 1]
    OBVIOUS
  <2>1. h[k] = g[k] /\ k + 1 \in 1..n /\ k + 1 \in 1..(n + 1) /\ (k + 1) - 1 = k
    BY <1>1, <1>5
  <2>2. g[k + 1] = g[k] + EntrySize(s[k + 1])
    BY <1>2, <2>1 DEF Totals
  <2>3. h[k + 1] = h[k] + EntrySize(t[k + 1])
    BY <1>3, <2>1 DEF Totals
  <2> QED  BY <1>1, <2>1, <2>2, <2>3
<1> HIDE DEF U
<1>6. n \in U
  BY <1>1, <1>4, <1>5, SetInduction
<1>7. h[n] = g[n]
  BY <1>1, <1>6 DEF U
<1>8. n + 1 \in 1..(n + 1) /\ (n + 1) - 1 = n
  BY <1>1
<1>9. h[n + 1] = h[n] + EntrySize(t[n + 1])
  BY <1>3, <1>8 DEF Totals
<1> QED  BY <1>1, <1>2, <1>3, <1>7, <1>9 DEF t

-----------------------------------------------------------------------------
(* Types and places *)

FileTypes ==
    /\ outputDir \in Layouts
    /\ upstream \in [Files -> Nat] /\ content \in [Files -> Nat] /\ rows \in [Keys -> Nat]
    /\ \A f \in Files : upstream[f] \in Versions(f) /\ content[f] \in {0} \cup Versions(f)
    /\ \A k \in Keys : rows[k] \in {0} \cup Versions(FileOf(k))
    /\ partial \subseteq {f \in Files : content[f] # 0}
    /\ sync \in [Files -> {"idle", "writing", "written"}]
    /\ changes \in 0..MaxChanges
    /\ unrecorded \subseteq Files
LocalTypes ==
    /\ pc \in [Exports -> Running \cup {"new", "failed", "completed"}]
    /\ collected \in [Exports -> Seq(Entries)] /\ closed \in [Exports -> Seq(ClosedArchives)]
    /\ asked \in [Exports -> 0..Len(Requested)]
    /\ first \in [Exports -> Nat] /\ next \in [Exports -> Nat]
    /\ unlisted \in [Exports -> SUBSET Providers]
BoundsOf(e) == /\ first[e] \in 1..next[e] /\ next[e] \in 1..Len(collected[e]) + 1
               /\ Len(collected[e]) \in {0} \cup Numbers
MediumTypes ==
    /\ dir \in [Numbers -> ArchiveFiles]
    /\ manifest \in [archives : Seq(ClosedArchives), inventory : Seq(Entries)]
HistoryTypes == disturbed \in [Exports -> SUBSET Files]

LEMMA TypesAreAll ==
  TypeOK <=> FileTypes /\ LocalTypes /\ MediumTypes /\ HistoryTypes /\ \A e \in Exports : BoundsOf(e)
BY DEF TypeOK, FileTypes, LocalTypes, MediumTypes, HistoryTypes, BoundsOf

LEMMA LengthBound ==
  ASSUME NEW a \in 0..Len(Requested), NEW n \in Nat, n <= a * K
  PROVE  n \in {0} \cup Numbers
<1>1. K \in Nat /\ Len(Requested) \in Nat
  BY KeysFinite, RequestedType
<1> DEFINE l == Len(Requested)
<1>2. l * K = a * K + (l - a) * K /\ l - a \in Nat
  BY <1>1
<1>3. \A x, y \in Nat : x * y \in Nat
  OBVIOUS
<1>4. (l - a) * K \in Nat /\ l * K \in Nat /\ a * K \in Nat
  BY <1>1, <1>2, <1>3
<1>5. n <= l * K
  BY <1>2, <1>4
<1> QED  BY <1>4, <1>5 DEF Numbers, K

\* What is at hand wherever an export is.
LEMMA AtExport ==
  ASSUME ExportInv, NEW e \in Exports
  PROVE  /\ collected[e] \in Seq(Entries) /\ Len(collected[e]) \in Nat
         /\ first[e] \in Nat /\ next[e] \in Nat /\ asked[e] \in 0..Len(Requested) /\ asked[e] \in Nat
         /\ first[e] >= 1 /\ first[e] <= next[e] /\ next[e] <= Len(collected[e]) + 1
         /\ closed[e] \in Seq(ClosedArchives) /\ Len(closed[e]) \in Nat /\ DOMAIN closed[e] = 1..Len(closed[e])
         /\ InArchive(e) \in Seq(Entries) /\ Len(InArchive(e)) = next[e] - first[e]
         /\ DOMAIN InArchive(e) = 1..(next[e] - first[e])
         /\ \A i \in 1..(next[e] - first[e]) : InArchive(e)[i] = collected[e][first[e] + i - 1]
         /\ \A n \in 1..Len(collected[e]) : collected[e][n] \in Entries
         /\ Start(e) \in Nat
         /\ pc[e] \in Packing \cup {"open"} => Start(e) \in 1..Len(collected[e])
         /\ pc[e] \in Packing \cup {"open"} => Current(e) \in Numbers /\ dir[Current(e)] \in ArchiveFiles
<1>1. /\ collected[e] \in Seq(Entries) /\ Len(collected[e]) \in Nat
      /\ first[e] \in Nat /\ next[e] \in Nat /\ asked[e] \in 0..Len(Requested) /\ asked[e] \in Nat
      /\ first[e] >= 1 /\ first[e] <= next[e] /\ next[e] <= Len(collected[e]) + 1
      /\ closed[e] \in Seq(ClosedArchives) /\ Len(closed[e]) \in Nat /\ DOMAIN closed[e] = 1..Len(closed[e])
  BY TypesAreAll DEF ExportInv, LocalTypes, BoundsOf
<1>2. \A n \in 1..Len(collected[e]) : collected[e][n] \in Entries
  BY <1>1, ElementOfSeq
<1>3. /\ InArchive(e) \in Seq(Entries) /\ Len(InArchive(e)) = next[e] - first[e]
      /\ \A i \in 1..(next[e] - first[e]) : InArchive(e)[i] = collected[e][first[e] + i - 1]
  <2> DEFINE c == collected[e]
             a == first[e]
             b == next[e] - 1
  <2>1. a \in Int /\ b \in Int /\ \A i \in a..b : c[i] \in Entries
    <3>1. a..b \subseteq 1..Len(c)
      BY <1>1
    <3> QED  BY <1>1, <1>2, <3>1
  <2>2. b - a + 1 = next[e] - first[e] /\ (a <= b => b - a + 1 = next[e] - first[e]) /\ (~(a <= b) => 0 = next[e] - first[e])
    BY <1>1
  <2> HIDE DEF a, b, c
  <2>3. /\ SubSeq(c, a, b) \in Seq(Entries) /\ Len(SubSeq(c, a, b)) = IF a <= b THEN b - a + 1 ELSE 0
        /\ \A i \in 1..b - a + 1 : SubSeq(c, a, b)[i] = c[a + i - 1]
    BY <2>1, SubSeqProperties
  <2> QED  BY <2>2, <2>3 DEF InArchive, a, b, c
<1>4. DOMAIN InArchive(e) = 1..(next[e] - first[e])
  BY <1>3
<1>5. Start(e) \in Nat
  BY <1>1 DEF Start
<1>6. ASSUME pc[e] \in Packing \cup {"open"}
      PROVE  Start(e) \in 1..Len(collected[e]) /\ Current(e) \in Numbers /\ dir[Current(e)] \in ArchiveFiles
  <2>1. ProgressOf(e)
    BY DEF ExportInv, Progress
  <2>2. Start(e) <= Len(collected[e]) /\ Len(closed[e]) < Start(e)
    BY <1>6, <2>1 DEF ProgressOf, Start, Packing
  <2>3. Len(collected[e]) \in {0} \cup Numbers
    BY TypesAreAll DEF ExportInv, BoundsOf
  <2>4. Current(e) \in 1..Len(collected[e])
    BY <1>1, <1>5, <2>2 DEF Current
  <2>5. Len(Requested) * Cardinality(Keys) \in Nat
    <3>1. \A x, y \in Nat : x * y \in Nat
      OBVIOUS
    <3> QED  BY <3>1, KeysFinite, RequestedType DEF K
  <2>6. Current(e) \in Numbers
    BY <1>1, <2>3, <2>4, <2>5 DEF Numbers
  <2> QED  BY <1>1, <1>5, <2>2, <2>6, TypesAreAll DEF ExportInv, MediumTypes
<1> QED  BY <1>1, <1>2, <1>3, <1>4, <1>5, <1>6

\* What the actions do to an export, point by point.
Same(x) ==
    /\ collected'[x] = collected[x] /\ asked'[x] = asked[x] /\ first'[x] = first[x]
    /\ next'[x] = next[x] /\ closed'[x] = closed[x] /\ unlisted'[x] = unlisted[x]
Cleared(x) ==
    /\ collected'[x] = <<>> /\ asked'[x] = 0 /\ first'[x] = 1 /\ next'[x] = 1
    /\ closed'[x] = <<>> /\ unlisted'[x] = {}

LEMMA ForgetClears ==
  ASSUME LocalTypes, HistoryTypes, NEW es \in SUBSET Exports, Forget(es), pc' \in [Exports -> Running \cup {"new", "failed", "completed"}]
  PROVE  /\ \A x \in es : Cleared(x) /\ disturbed'[x] = {}
         /\ \A x \in Exports \ es : Same(x) /\ disturbed'[x] = disturbed[x]
         /\ LocalTypes' /\ HistoryTypes'
<1>1. /\ \A x \in es : Cleared(x) /\ disturbed'[x] = {}
      /\ \A x \in Exports \ es : Same(x) /\ disturbed'[x] = disturbed[x]
  BY DEF Forget, Cleared, Same
<1>2. <<>> \in Seq(Entries) /\ <<>> \in Seq(ClosedArchives) /\ 0 \in 0..Len(Requested)
  BY RequestedType
<1>3. collected' \in [Exports -> Seq(Entries)] /\ closed' \in [Exports -> Seq(ClosedArchives)]
  BY <1>2 DEF Forget, LocalTypes
<1>4. asked' \in [Exports -> 0..Len(Requested)] /\ first' \in [Exports -> Nat] /\ next' \in [Exports -> Nat]
  BY <1>2 DEF Forget, LocalTypes
<1>5. unlisted' \in [Exports -> SUBSET Providers] /\ disturbed' \in [Exports -> SUBSET Files]
  BY DEF Forget, LocalTypes, HistoryTypes
<1> QED  BY <1>1, <1>3, <1>4, <1>5 DEF LocalTypes, HistoryTypes

\* Nothing of an export is left once it has ended.
LEMMA ClearedIsFresh ==
  ASSUME NEW x \in Exports, Cleared(x), pc'[x] \in {"new", "failed", "completed"}
  PROVE  ProgressOf(x)' /\ BoundsOf(x)'
<1>1. /\ collected'[x] = <<>> /\ asked'[x] = 0 /\ first'[x] = 1 /\ next'[x] = 1 /\ closed'[x] = <<>>
      /\ Len(<<>>) = 0 /\ 0 * K = 0
  BY KeysFinite DEF Cleared
<1> QED  BY <1>1 DEF ProgressOf, BoundsOf, Start, Packing, Going

LEMMA SameRests ==
  ASSUME NEW x \in Exports, Same(x), pc'[x] = pc[x], ProgressOf(x), BoundsOf(x)
  PROVE  ProgressOf(x)' /\ BoundsOf(x)'
BY DEF Same, ProgressOf, BoundsOf, Start

LEMMA ExportInit == Init => ExportInv
<1> SUFFICES ASSUME Init PROVE ExportInv
  OBVIOUS
<1>1. FileTypes
  <2>1. /\ outputDir \in Layouts /\ partial = {} /\ sync = [f \in Files |-> "idle"] /\ changes = 0 /\ unrecorded = {}
        /\ upstream \in [Files -> 1..MaxVersions] /\ \A f \in Files : upstream[f] \in Versions(f)
    BY DEF Init
  <2>2. \A f \in Files : upstream[f] \in Nat
    <3>1. \A f \in Files : Versions(f) \subseteq Nat
      BY SizeAssumption DEF Versions
    <3> QED  BY <2>1, <3>1
  <2>3. upstream \in [Files -> Nat]
    BY <2>1, <2>2
  <2>4. PICK synced \in SUBSET {f \in Files : UnderRoot(f)} :
          /\ content = [f \in Files |-> IF f \in synced THEN upstream[f] ELSE 0]
          /\ rows = [k \in Keys |-> IF \E f \in synced : k = SyncKey(f) THEN upstream[FileOf(k)] ELSE 0]
    BY DEF Init
  <2>5. content \in [Files -> Nat] /\ \A f \in Files : content[f] \in {0} \cup Versions(f)
    BY <2>1, <2>2, <2>4
  <2>6. \A k \in Keys : FileOf(k) \in Files
    BY <2>1, KeyFacts
  <2>7. rows \in [Keys -> Nat] /\ \A k \in Keys : rows[k] \in {0} \cup Versions(FileOf(k))
    BY <2>1, <2>2, <2>4, <2>6
  <2> QED  BY <2>1, <2>3, <2>5, <2>7, MaxChangesAssumption DEF FileTypes
<1>2. LocalTypes /\ HistoryTypes
  <2>1. /\ pc = [e \in Exports |-> "new"] /\ collected = [e \in Exports |-> <<>>] /\ asked = [e \in Exports |-> 0]
        /\ first = [e \in Exports |-> 1] /\ next = [e \in Exports |-> 1] /\ closed = [e \in Exports |-> <<>>]
        /\ disturbed = [e \in Exports |-> {}] /\ unlisted = [e \in Exports |-> {}]
    BY DEF Init
  <2>2. <<>> \in Seq(Entries) /\ <<>> \in Seq(ClosedArchives) /\ 0 \in 0..Len(Requested)
    BY RequestedType
  <2> QED  BY <2>1, <2>2 DEF LocalTypes, HistoryTypes
<1>3. MediumTypes
  <2>1. NoArchive \in ArchiveFiles
    <3>1. <<>> \in Seq(Packed)
      OBVIOUS
    <3> QED  BY <3>1 DEF NoArchive, ArchiveFiles
  <2>2. NoManifest \in [archives : Seq(ClosedArchives), inventory : Seq(Entries)]
    BY DEF NoManifest
  <2>3. dir = [k \in Numbers |-> NoArchive] /\ manifest = NoManifest
    BY DEF Init
  <2> QED  BY <2>1, <2>2, <2>3 DEF MediumTypes
<1>4. ASSUME NEW e \in Exports PROVE ProgressOf(e) /\ BoundsOf(e)
  <2>1. pc[e] = "new" /\ collected[e] = <<>> /\ asked[e] = 0 /\ first[e] = 1 /\ next[e] = 1 /\ closed[e] = <<>>
    BY DEF Init
  <2>2. Len(<<>>) = 0 /\ 0 * K = 0
    BY KeysFinite
  <2> QED  BY <2>1, <2>2 DEF ProgressOf, BoundsOf, Start, Packing, Going
<1> QED  BY <1>1, <1>2, <1>3, <1>4, TypesAreAll DEF ExportInv, Progress

\* Steps of syncs and scans leave the exports and the medium alone.
LEMMA ChangeKeeps ==
  ASSUME ExportInv, (\E f \in Files : FileStep(f)) \/ (\E p \in Providers : Scan(p))
  PROVE  FileTypes' /\ HistoryTypes' /\ UNCHANGED <<localVars, mediumVars, pc, unlisted, outputDir>>
<1>0. FileTypes /\ HistoryTypes
  BY TypesAreAll DEF ExportInv
<1>1. \A f \in Files : Versions(f) \subseteq Nat \ {0}
  BY SizeAssumption DEF Versions
<1>2. Change => changes' \in 0..MaxChanges
  BY <1>0, MaxChangesAssumption DEF Change, FileTypes
<1>3. ASSUME NEW fs \in SUBSET Files, Disturb(fs) PROVE HistoryTypes'
  BY <1>0, <1>3 DEF Disturb, HistoryTypes
<1>4. ASSUME NEW f \in Files, UpstreamMoves(f) PROVE FileTypes' /\ HistoryTypes'
  <2>1. PICK v \in Versions(f) : upstream' = [upstream EXCEPT ![f] = v]
    BY <1>4 DEF UpstreamMoves
  <2>2. upstream' \in [Files -> Nat] /\ \A g \in Files : upstream'[g] \in Versions(g)
    BY <1>0, <1>1, <2>1 DEF FileTypes
  <2>3. UNCHANGED <<content, partial, sync, rows, disturbed, unrecorded, outputDir>> /\ Change
    BY <1>4 DEF UpstreamMoves, Untouched
  <2> QED  BY <1>0, <1>2, <2>2, <2>3 DEF FileTypes, HistoryTypes
<1>5. ASSUME NEW f \in Files, Download(f) PROVE FileTypes' /\ HistoryTypes'
  <2>1. /\ Change /\ sync' = [sync EXCEPT ![f] = "writing"] /\ content' = [content EXCEPT ![f] = upstream[f]]
        /\ partial' = partial \cup {f} /\ Disturb({f}) /\ UNCHANGED <<upstream, rows, unrecorded, outputDir>>
    BY <1>5 DEF Download, Untouched
  <2>2. /\ content' \in [Files -> Nat] /\ \A g \in Files : content'[g] \in {0} \cup Versions(g)
        /\ content'[f] # 0 /\ \A g \in Files : g # f => content'[g] = content[g]
    BY <1>0, <1>1, <2>1 DEF FileTypes
  <2>3. partial' \subseteq {g \in Files : content'[g] # 0}
    BY <1>0, <2>1, <2>2 DEF FileTypes
  <2>4. sync' \in [Files -> {"idle", "writing", "written"}]
    BY <1>0, <2>1 DEF FileTypes
  <2> QED  BY <1>0, <1>2, <1>3, <2>1, <2>2, <2>3, <2>4 DEF FileTypes
<1>6. ASSUME NEW f \in Files, EndDownload(f) PROVE FileTypes' /\ HistoryTypes'
  <2>1. Change /\ Disturb({f}) /\ UNCHANGED <<upstream, rows, unrecorded, outputDir>>
    BY <1>6 DEF EndDownload, Untouched
  <2>2. sync' \in [Files -> {"idle", "writing", "written"}]
    BY <1>0, <1>6 DEF EndDownload, FileTypes
  <2>3. /\ content' \in [Files -> Nat] /\ \A g \in Files : content'[g] \in {0} \cup Versions(g)
        /\ partial' \subseteq {g \in Files : content'[g] # 0}
    <3>1. CASE content' = content /\ partial' \subseteq partial
      BY <1>0, <3>1 DEF FileTypes
    <3>2. CASE content' = [content EXCEPT ![f] = 0] /\ partial' = partial \ {f}
      BY <1>0, <3>2 DEF FileTypes
    <3> QED  BY <1>6, <3>1, <3>2 DEF EndDownload
  <2> QED  BY <1>0, <1>2, <1>3, <2>1, <2>2, <2>3 DEF FileTypes
<1>7. ASSUME NEW f \in Files, Record(f) PROVE FileTypes' /\ HistoryTypes'
  <2>1. Change /\ Disturb({f}) /\ UNCHANGED <<upstream, content, partial, outputDir>> /\ sync' = [sync EXCEPT ![f] = "idle"]
    BY <1>7 DEF Record, Untouched
  <2>2. sync' \in [Files -> {"idle", "writing", "written"}] /\ unrecorded' \subseteq Files
    BY <1>0, <1>7, <2>1 DEF Record, FileTypes
  <2>3. FileOf(SyncKey(f)) = f /\ SyncKey(f) \in Keys
    BY <1>0, KeyFacts DEF FileTypes
  <2>4. rows' = rows \/ rows' = [rows EXCEPT ![SyncKey(f)] = content[f]]
    BY <1>7 DEF Record
  <2>5. rows' \in [Keys -> Nat] /\ \A k \in Keys : rows'[k] \in {0} \cup Versions(FileOf(k))
    BY <1>0, <2>3, <2>4 DEF FileTypes
  <2> QED  BY <1>0, <1>2, <1>3, <2>1, <2>2, <2>5 DEF FileTypes
<1>8. ASSUME NEW p \in Providers, Scan(p) PROVE FileTypes' /\ HistoryTypes'
  <2> DEFINE met == {f \in Scanned(p) : content[f] # 0}
  <2>1. /\ Change /\ Disturb(met) /\ UNCHANGED <<upstream, content, partial, sync, unrecorded, outputDir>>
        /\ rows' = [k \in Keys |-> IF \E f \in met : k = ScanKey(p, f) THEN content[FileOf(k)] ELSE rows[k]]
    BY <1>8 DEF Scan, Untouched
  <2>2. met \subseteq Files
    BY DEF Scanned
  <2>3. \A k \in Keys : FileOf(k) \in Files
    BY <1>0, KeyFacts DEF FileTypes
  <2> HIDE DEF met
  <2>4. rows' \in [Keys -> Nat] /\ \A k \in Keys : rows'[k] \in {0} \cup Versions(FileOf(k))
    BY <1>0, <2>1, <2>3 DEF FileTypes
  <2>5. HistoryTypes'
    BY <1>3, <2>1, <2>2
  <2> QED  BY <1>0, <1>2, <2>1, <2>4, <2>5 DEF FileTypes
<1>9. UNCHANGED <<localVars, mediumVars, pc, unlisted, outputDir>>
  BY DEF FileStep, UpstreamMoves, Download, EndDownload, Record, Scan, Untouched
<1> QED  BY <1>4, <1>5, <1>6, <1>7, <1>8, <1>9 DEF FileStep

LEMMA CrashClears ==
  ASSUME ExportInv, Crash
  PROVE  /\ FileTypes' /\ LocalTypes' /\ HistoryTypes' /\ UNCHANGED <<mediumVars, outputDir, content, partial, rows>>
         /\ \A x \in Exports : Cleared(x) /\ pc'[x] \in {"new", "failed", "completed"}
<1>0. FileTypes /\ LocalTypes /\ HistoryTypes
  BY TypesAreAll DEF ExportInv
<1>1. /\ Change /\ sync' = [f \in Files |-> "idle"] /\ Forget(Exports)
      /\ unrecorded' = unrecorded \cup {f \in Files : sync[f] = "written"}
      /\ pc' = [e \in Exports |-> IF pc[e] \in Running THEN "failed" ELSE pc[e]]
      /\ UNCHANGED <<outputDir, upstream, content, partial, rows, mediumVars>>
  BY DEF Crash
<1>2. FileTypes'
  <2>1. changes' \in 0..MaxChanges
    BY <1>0, <1>1, MaxChangesAssumption DEF Change, FileTypes
  <2> QED  BY <1>0, <1>1, <2>1 DEF FileTypes
<1>3. /\ pc' \in [Exports -> Running \cup {"new", "failed", "completed"}]
      /\ \A x \in Exports : pc'[x] \in {"new", "failed", "completed"}
  BY <1>0, <1>1 DEF LocalTypes, Running
<1>4. LocalTypes' /\ HistoryTypes' /\ \A x \in Exports : Cleared(x)
  BY <1>0, <1>1, <1>3, ForgetClears
<1> QED  BY <1>1, <1>2, <1>3, <1>4

\* A step of one export concerns neither the files nor the other exports.
LEMMA StepRests ==
  ASSUME ExportInv, NEW e \in Exports, ExportStep(e)
  PROVE  /\ UNCHANGED <<fileVars, unrecorded>>
         /\ \A x \in Exports \ {e} : Same(x) /\ pc'[x] = pc[x] /\ disturbed'[x] = disturbed[x]
<1>0. LocalTypes /\ HistoryTypes
  BY TypesAreAll DEF ExportInv
<1>1. UNCHANGED <<fileVars, unrecorded>>
  BY DEF ExportStep, Collect, Collected, Open, Pack, EndArchive, HashArchive, WriteManifest, RecordTransfer, Abort, historyVars
<1>2. ASSUME NEW x \in Exports \ {e}, Forget({e}) PROVE Same(x) /\ disturbed'[x] = disturbed[x]
  BY <1>2 DEF Forget, Same
<1>3. ASSUME NEW x \in Exports \ {e} PROVE Same(x) /\ pc'[x] = pc[x] /\ disturbed'[x] = disturbed[x]
  <2>1. CASE Collect(e)
    <3>1. /\ asked' = [asked EXCEPT ![e] = @ + 1] /\ pc' = [pc EXCEPT ![e] = "collect"]
          /\ UNCHANGED <<first, next, closed, disturbed>>
      BY <2>1 DEF Collect
    <3>2. collected'[x] = collected[x] /\ unlisted'[x] = unlisted[x]
      BY <1>0, <2>1 DEF Collect, LocalTypes
    <3> QED  BY <1>0, <3>1, <3>2 DEF Same, LocalTypes
  <2>2. CASE Collected(e)
    <3>1. (Forget({e}) \/ UNCHANGED <<localVars, disturbed, unlisted>>) /\ pc'[x] = pc[x]
      BY <1>0, <2>2 DEF Collected, Step, LocalTypes
    <3> QED  BY <1>2, <3>1 DEF Same, localVars
  <2>3. CASE Open(e)
    BY <1>0, <2>3 DEF Open, Step, LocalTypes, Same, historyVars
  <2>4. CASE Pack(e)
    <3>1. next' = [next EXCEPT ![e] = @ + 1] /\ UNCHANGED <<collected, asked, first, closed, historyVars, pc>>
      BY <2>4 DEF Pack
    <3> QED  BY <1>0, <3>1 DEF LocalTypes, Same, historyVars
  <2>5. CASE EndArchive(e)
    <3>1. pc' = [pc EXCEPT ![e] = "close"] /\ UNCHANGED <<localVars, historyVars>>
      BY <2>5 DEF EndArchive
    <3> QED  BY <1>0, <3>1 DEF LocalTypes, Same, historyVars, localVars
  <2>6. CASE HashArchive(e)
    <3>1. /\ pc'[x] = pc[x] /\ closed'[x] = closed[x]
          /\ UNCHANGED <<collected, asked, first, next, historyVars>>
      BY <1>0, <2>6 DEF HashArchive, Step, LocalTypes
    <3> QED  BY <3>1 DEF Same, historyVars
  <2>7. CASE WriteManifest(e)
    BY <1>0, <2>7 DEF WriteManifest, Step, LocalTypes, Same, historyVars, localVars
  <2>8. CASE RecordTransfer(e)
    BY <1>0, <1>2, <2>8 DEF RecordTransfer, Step, LocalTypes
  <2>9. CASE Abort(e)
    BY <1>0, <1>2, <2>9 DEF Abort, LocalTypes
  <2> QED  BY <2>1, <2>2, <2>3, <2>4, <2>5, <2>6, <2>7, <2>8, <2>9 DEF ExportStep
<1> QED  BY <1>1, <1>3

There(p) == {k \in Keys : k[1] = p /\ rows[k] # 0 /\ Found(k) # {}}
Listing(p) == {[key |-> k, version |-> rows[k]] : k \in There(p)}

\* The rows of one provider are a list no longer than there are keys.
LEMMA ListingIsList ==
  ASSUME FileTypes, NEW p
  PROVE  /\ SetToSeq(Listing(p)) \in Seq(Entries) /\ Len(SetToSeq(Listing(p))) \in Nat
         /\ Len(SetToSeq(Listing(p))) <= K
         /\ \A x \in Listing(p) : \E n \in DOMAIN SetToSeq(Listing(p)) : SetToSeq(Listing(p))[n] = x
<1>1. There(p) \in SUBSET Keys
  BY DEF There
<1>2. IsFiniteSet(There(p)) /\ Cardinality(There(p)) <= K /\ Cardinality(There(p)) \in Nat
  BY <1>1, KeysFinite, FS_Subset, FS_CardinalityType DEF K
<1> DEFINE a == [k \in There(p) |-> [key |-> k, version |-> rows[k]]]
<1>3. a \in Surjection(There(p), Listing(p))
  BY DEF Surjection, Listing
<1> HIDE DEF a
<1>4. IsFiniteSet(Listing(p)) /\ Cardinality(Listing(p)) <= Cardinality(There(p))
  BY <1>2, <1>3, FS_Surjection
<1>5. Listing(p) \subseteq Entries
  <2>1. ASSUME NEW k \in There(p) PROVE [key |-> k, version |-> rows[k]] \in Entries
    <3>1. k \in Keys /\ rows[k] \in Versions(FileOf(k))
      BY DEF FileTypes, There
    <3> QED  BY <3>1, EntryIsTyped
  <2> QED  BY <2>1 DEF Listing
<1>6. SetToSeq(Listing(p)) \in Seq(Listing(p)) /\ Len(SetToSeq(Listing(p))) = Cardinality(Listing(p))
      /\ \A x \in Listing(p) : \E n \in DOMAIN SetToSeq(Listing(p)) : SetToSeq(Listing(p))[n] = x
  BY <1>4, ListOfSet
<1>7. Cardinality(Listing(p)) \in Nat
  BY <1>4, FS_CardinalityType
<1>8. SetToSeq(Listing(p)) \in Seq(Entries)
  BY <1>5, <1>6, SeqMonotonic
<1> QED  BY <1>2, <1>4, <1>6, <1>7, <1>8, KeysFinite

\* What each step does at its own export.
LEMMA CollectDoes ==
  ASSUME ExportInv, NEW e \in Exports, Collect(e)
  PROVE  LET p == Requested[asked[e] + 1]
         IN /\ pc[e] \in {"new", "collect"} /\ asked[e] < Len(Requested) /\ p \in Providers
            /\ pc'[e] = "collect" /\ asked'[e] = asked[e] + 1
            /\ first'[e] = first[e] /\ next'[e] = next[e] /\ closed'[e] = closed[e] /\ disturbed' = disturbed
            /\ UNCHANGED mediumVars
            /\ \/ collected'[e] = collected[e] \o SetToSeq(Listing(p)) /\ unlisted'[e] = unlisted[e]
               \/ collected'[e] = collected[e] /\ unlisted'[e] = unlisted[e] \cup {p}
            /\ LocalTypes'
<1> DEFINE p == Requested[asked[e] + 1]
<1>0. FileTypes /\ LocalTypes
  BY TypesAreAll DEF ExportInv
<1>1. /\ pc[e] \in {"new", "collect"} /\ asked[e] < Len(Requested)
      /\ pc' = [pc EXCEPT ![e] = "collect"] /\ asked' = [asked EXCEPT ![e] = @ + 1]
      /\ UNCHANGED <<first, next, closed, mediumVars, disturbed>>
      /\ \/ collected' = [collected EXCEPT ![e] = @ \o SetToSeq(Listing(p))] /\ UNCHANGED unlisted
         \/ unlisted' = [unlisted EXCEPT ![e] = @ \cup {p}] /\ UNCHANGED collected
  BY DEF Collect, Listing, There
<1>2. asked[e] \in 0..Len(Requested) /\ Len(Requested) \in Nat
  BY AtExport, RequestedType
<1>3. p \in Providers
  <2>1. asked[e] + 1 \in 1..Len(Requested)
    BY <1>1, <1>2
  <2> QED  BY <2>1, RequestedType
<1> HIDE DEF p
<1>4. collected[e] \o SetToSeq(Listing(p)) \in Seq(Entries)
  BY <1>0, AtExport, ListingIsList, ConcatProperties
<1>5. collected' \in [Exports -> Seq(Entries)] /\ unlisted' \in [Exports -> SUBSET Providers]
  BY <1>0, <1>1, <1>3, <1>4 DEF LocalTypes
<1>6. asked' \in [Exports -> 0..Len(Requested)]
  <2>1. asked[e] + 1 \in 0..Len(Requested)
    BY <1>1, <1>2
  <2> QED  BY <1>0, <1>1, <2>1 DEF LocalTypes
<1>7. pc' \in [Exports -> Running \cup {"new", "failed", "completed"}]
  BY <1>0, <1>1 DEF LocalTypes, Running
<1>8. /\ pc'[e] = "collect" /\ asked'[e] = asked[e] + 1
      /\ \/ collected'[e] = collected[e] \o SetToSeq(Listing(p)) /\ unlisted'[e] = unlisted[e]
         \/ collected'[e] = collected[e] /\ unlisted'[e] = unlisted[e] \cup {p}
  <2>1. pc'[e] = "collect" /\ asked'[e] = asked[e] + 1
    BY <1>0, <1>1 DEF LocalTypes
  <2>2. CASE collected' = [collected EXCEPT ![e] = @ \o SetToSeq(Listing(p))] /\ UNCHANGED unlisted
    BY <1>0, <2>1, <2>2 DEF LocalTypes
  <2>3. CASE unlisted' = [unlisted EXCEPT ![e] = @ \cup {p}] /\ UNCHANGED collected
    BY <1>0, <2>1, <2>3 DEF LocalTypes
  <2> QED  BY <1>1, <2>1, <2>2, <2>3
<1>9. LocalTypes'
  BY <1>0, <1>1, <1>5, <1>6, <1>7 DEF LocalTypes
<1> QED  BY <1>1, <1>3, <1>8, <1>9 DEF p

LEMMA CollectedDoes ==
  ASSUME ExportInv, NEW e \in Exports, Collected(e)
  PROVE  /\ pc[e] = "collect" /\ asked[e] = Len(Requested) /\ UNCHANGED mediumVars /\ LocalTypes' /\ HistoryTypes'
         /\ \/ Cleared(e) /\ pc'[e] = "failed" /\ disturbed'[e] = {}
            \/ Same(e) /\ pc'[e] = "open" /\ collected[e] # <<>> /\ disturbed' = disturbed
<1>0. LocalTypes /\ HistoryTypes
  BY TypesAreAll DEF ExportInv
<1>1. pc[e] = "collect" /\ asked[e] = Len(Requested) /\ UNCHANGED mediumVars
  BY DEF Collected, Step
<1>2. CASE collected[e] = <<>>
  <2>1. Forget({e}) /\ pc' = [pc EXCEPT ![e] = "failed"]
    BY <1>2 DEF Collected, Step
  <2>2. pc'[e] = "failed" /\ pc' \in [Exports -> Running \cup {"new", "failed", "completed"}]
    BY <1>0, <2>1 DEF LocalTypes
  <2> QED  BY <1>0, <1>1, <2>1, <2>2, ForgetClears
<1>3. CASE collected[e] # <<>>
  <2>1. pc' = [pc EXCEPT ![e] = "open"] /\ UNCHANGED <<localVars, disturbed, unlisted>>
    BY <1>3 DEF Collected, Step
  <2>2. pc'[e] = "open" /\ pc' \in [Exports -> Running \cup {"new", "failed", "completed"}]
    BY <1>0, <2>1 DEF LocalTypes, Running
  <2> QED  BY <1>0, <1>1, <1>3, <2>1, <2>2 DEF LocalTypes, HistoryTypes, localVars, Same
<1> QED  BY <1>2, <1>3

LEMMA OpenDoes ==
  ASSUME ExportInv, NEW e \in Exports, Open(e)
  PROVE  /\ pc[e] = "open" /\ pc'[e] = "pack" /\ first'[e] = next[e] /\ next' = next
         /\ collected' = collected /\ asked' = asked /\ closed' = closed /\ manifest' = manifest
         /\ unlisted' = unlisted /\ disturbed' = disturbed
         /\ LocalTypes' /\ MediumTypes'
         /\ dir'[Current(e)].by = e /\ dir'[Current(e)].files = <<>>
         /\ InUse(Current(e)) => dir'[Current(e)].mixed
         /\ \A n \in Numbers : n # Current(e) => dir'[n] = dir[n]
<1>0. LocalTypes /\ MediumTypes /\ Current(e) \in Numbers
  <2>1. pc[e] = "open"
    BY DEF Open, Step
  <2> QED  BY <2>1, TypesAreAll, AtExport DEF ExportInv
<1> DEFINE new == [by |-> e, files |-> <<>>, mixed |-> InUse(Current(e))]
<1>1. /\ pc[e] = "open" /\ pc' = [pc EXCEPT ![e] = "pack"] /\ dir' = [dir EXCEPT ![Current(e)] = new]
      /\ first' = [first EXCEPT ![e] = next[e]]
      /\ UNCHANGED <<fileVars, collected, asked, next, closed, manifest, historyVars>>
  BY DEF Open, Step
<1>2. new \in ArchiveFiles
  <2>1. InUse(Current(e)) \in BOOLEAN /\ <<>> \in Seq(Packed)
    BY DEF InUse
  <2> QED  BY <2>1 DEF ArchiveFiles
<1>3. new.by = e /\ new.files = <<>> /\ (InUse(Current(e)) => new.mixed)
  OBVIOUS
<1> HIDE DEF new
<1>4. dir' \in [Numbers -> ArchiveFiles] /\ dir'[Current(e)] = new /\ \A n \in Numbers : n # Current(e) => dir'[n] = dir[n]
  BY <1>0, <1>1, <1>2 DEF MediumTypes
<1>5. /\ pc' \in [Exports -> Running \cup {"new", "failed", "completed"}] /\ first' \in [Exports -> Nat]
      /\ pc'[e] = "pack" /\ first'[e] = next[e]
  BY <1>0, <1>1 DEF LocalTypes, Running
<1> QED  BY <1>0, <1>1, <1>3, <1>4, <1>5 DEF LocalTypes, MediumTypes, historyVars

LEMMA WrittenFields ==
  ASSUME NEW a \in ArchiveFiles, NEW e, NEW fs \in Seq(Packed)
  PROVE  /\ Written(a, e, fs) \in ArchiveFiles
         /\ Written(a, e, fs).by = a.by /\ Written(a, e, fs).files = a.files \o fs
         /\ a.mixed => Written(a, e, fs).mixed
         /\ a.by # e => Written(a, e, fs).mixed
<1> DEFINE long == a.files \o fs
           m == a.mixed \/ a.by # e
<1>1. a.files \in Seq(Packed) /\ a.by \in Exports \cup {"none"} /\ m \in BOOLEAN
      /\ a = [by |-> a.by, files |-> a.files, mixed |-> a.mixed]
  BY DEF ArchiveFiles
<1>2. long \in Seq(Packed)
  BY <1>1, ConcatProperties
<1>3. (a.mixed => m) /\ (a.by # e => m)
  OBVIOUS
<1>4. Written(a, e, fs) = [a EXCEPT !.files = long, !.mixed = m]
  BY DEF Written
<1> HIDE DEF long, m
<1>5. Written(a, e, fs) = [by |-> a.by, files |-> long, mixed |-> m]
  BY <1>1, <1>4
<1>6. Written(a, e, fs) \in ArchiveFiles
  BY <1>1, <1>2, <1>5 DEF ArchiveFiles
<1>7. Written(a, e, fs).by = a.by /\ Written(a, e, fs).files = long /\ Written(a, e, fs).mixed = m
  BY <1>5
<1> QED  BY <1>3, <1>6, <1>7 DEF long

LEMMA PackDoes ==
  ASSUME ExportInv, NEW e \in Exports, Pack(e)
  PROVE  /\ pc[e] = "pack" /\ pc' = pc /\ next[e] <= Len(collected[e]) /\ ~Full(e) /\ next'[e] = next[e] + 1
         /\ collected' = collected /\ asked' = asked /\ first' = first /\ closed' = closed /\ manifest' = manifest
         /\ unlisted' = unlisted /\ disturbed' = disturbed
         /\ LocalTypes' /\ MediumTypes'
         /\ \E f \in Found(collected[e][next[e]].key) :
               LET item == [key |-> collected[e][next[e]].key, version |-> content[f], whole |-> f \notin partial]
               IN /\ item \in Packed
                  /\ dir'[Current(e)].files = dir[Current(e)].files \o <<item>>
         /\ dir'[Current(e)].by = dir[Current(e)].by
         /\ dir[Current(e)].mixed => dir'[Current(e)].mixed
         /\ dir[Current(e)].by # e => dir'[Current(e)].mixed
         /\ \A n \in Numbers : n # Current(e) => dir'[n] = dir[n]
<1>1. /\ pc[e] = "pack" /\ pc' = pc /\ next[e] <= Len(collected[e]) /\ ~Full(e)
      /\ next' = [next EXCEPT ![e] = @ + 1]
      /\ UNCHANGED <<fileVars, collected, asked, first, closed, manifest, historyVars>>
  BY DEF Pack
<1>0. /\ FileTypes /\ LocalTypes /\ MediumTypes /\ Current(e) \in Numbers /\ dir[Current(e)] \in ArchiveFiles
      /\ next[e] \in Nat /\ collected[e][next[e]] \in Entries
  <2>1. pc[e] \in Packing
    BY <1>1 DEF Packing
  <2>2. next[e] \in 1..Len(collected[e])
    BY <1>1, AtExport
  <2> QED  BY <2>1, <2>2, AtExport, TypesAreAll DEF ExportInv
<1>2. next' \in [Exports -> Nat] /\ next'[e] = next[e] + 1
  BY <1>0, <1>1 DEF LocalTypes
<1> DEFINE k == collected[e][next[e]].key
           Item(f) == [key |-> k, version |-> content[f], whole |-> f \notin partial]
<1>3. PICK f \in Found(k) : dir' = [dir EXCEPT ![Current(e)] = Written(@, e, <<Item(f)>>)]
  BY DEF Pack
<1>4. k \in Keys /\ f \in Files /\ content[f] \in Nat
  <2>1. f \in Files
    BY <1>3 DEF Found
  <2>2. outputDir \in Layouts
    BY <1>0 DEF FileTypes
  <2> QED  BY <1>0, <2>1, <2>2, EntriesType DEF FileTypes
<1>5. Item(f) \in Packed
  <2>1. (f \notin partial) \in BOOLEAN
    OBVIOUS
  <2> HIDE DEF k
  <2> QED  BY <1>4, <2>1 DEF Packed
<1>6. <<Item(f)>> \in Seq(Packed)
  BY <1>5
<1> DEFINE item == Item(f)
<1> HIDE DEF item
<1>7. dir' = [dir EXCEPT ![Current(e)] = Written(dir[Current(e)], e, <<item>>)]
  BY <1>0, <1>3 DEF MediumTypes, item
<1>8. <<item>> \in Seq(Packed)
  BY <1>6 DEF item
<1> DEFINE w == Written(dir[Current(e)], e, <<item>>)
<1>9. /\ w \in ArchiveFiles /\ w.by = dir[Current(e)].by /\ w.files = dir[Current(e)].files \o <<item>>
      /\ dir[Current(e)].mixed => w.mixed
      /\ dir[Current(e)].by # e => w.mixed
  BY ZenonT(30), <1>0, <1>8, WrittenFields
<1> HIDE DEF w
<1>10. dir' \in [Numbers -> ArchiveFiles] /\ dir'[Current(e)] = w /\ \A n \in Numbers : n # Current(e) => dir'[n] = dir[n]
  BY <1>0, <1>7, <1>9 DEF MediumTypes, w
<1>11. LocalTypes' /\ MediumTypes'
  BY <1>0, <1>1, <1>2, <1>10 DEF LocalTypes, MediumTypes, historyVars
<1>12. \E g \in Found(k) : Item(g) \in Packed /\ dir'[Current(e)].files = dir[Current(e)].files \o <<Item(g)>>
  BY <1>3, <1>5, <1>9, <1>10 DEF item
<1>13. unlisted' = unlisted /\ disturbed' = disturbed
  BY <1>1 DEF historyVars
<1> QED  BY <1>1, <1>2, <1>9, <1>10, <1>11, <1>12, <1>13

LEMMA EndArchiveDoes ==
  ASSUME ExportInv, NEW e \in Exports, EndArchive(e)
  PROVE  /\ pc[e] = "pack" /\ pc'[e] = "close" /\ (next[e] > Len(collected[e]) \/ Full(e))
         /\ UNCHANGED <<localVars, manifest, disturbed, unlisted>>
         /\ LocalTypes' /\ MediumTypes'
         /\ dir'[Current(e)].files = dir[Current(e)].files
         /\ dir'[Current(e)].by = dir[Current(e)].by
         /\ dir[Current(e)].mixed => dir'[Current(e)].mixed
         /\ dir[Current(e)].by # e => dir'[Current(e)].mixed
         /\ \A n \in Numbers : n # Current(e) => dir'[n] = dir[n]
<1>1. /\ pc[e] = "pack" /\ (next[e] > Len(collected[e]) \/ Full(e)) /\ pc' = [pc EXCEPT ![e] = "close"]
      /\ dir' = [dir EXCEPT ![Current(e)] = Written(@, e, <<>>)]
      /\ UNCHANGED <<localVars, manifest, historyVars>>
  BY DEF EndArchive
<1>0. LocalTypes /\ MediumTypes /\ Current(e) \in Numbers /\ dir[Current(e)] \in ArchiveFiles
  <2>1. pc[e] \in Packing
    BY <1>1 DEF Packing
  <2> QED  BY <2>1, AtExport, TypesAreAll DEF ExportInv
<1> DEFINE w == Written(dir[Current(e)], e, <<>>)
<1>2. /\ w \in ArchiveFiles /\ w.by = dir[Current(e)].by /\ w.files = dir[Current(e)].files \o <<>>
      /\ dir[Current(e)].mixed => w.mixed
      /\ dir[Current(e)].by # e => w.mixed
  <2>1. <<>> \in Seq(Packed)
    OBVIOUS
  <2> QED  BY ZenonT(30), <1>0, <2>1, WrittenFields
<1>3. dir[Current(e)].files \o <<>> = dir[Current(e)].files
  <2>1. dir[Current(e)].files \in Seq(Packed)
    BY <1>0 DEF ArchiveFiles
  <2> QED  BY <2>1, ConcatEmptySeq
<1>4. dir' = [dir EXCEPT ![Current(e)] = w]
  BY <1>0, <1>1 DEF MediumTypes
<1> HIDE DEF w
<1>5. dir' \in [Numbers -> ArchiveFiles] /\ dir'[Current(e)] = w /\ \A n \in Numbers : n # Current(e) => dir'[n] = dir[n]
  BY <1>0, <1>2, <1>4 DEF MediumTypes
<1>6. pc' \in [Exports -> Running \cup {"new", "failed", "completed"}] /\ pc'[e] = "close"
  BY <1>0, <1>1 DEF LocalTypes, Running
<1> QED  BY <1>0, <1>1, <1>2, <1>3, <1>5, <1>6 DEF LocalTypes, MediumTypes, historyVars, localVars

LEMMA HashDoes ==
  ASSUME ExportInv, NEW e \in Exports, HashArchive(e)
  PROVE  /\ pc[e] = "close"
         /\ pc'[e] = IF next[e] <= Len(collected[e]) THEN "open" ELSE "manifest"
         /\ closed'[e] = Append(closed[e], [files |-> InArchive(e), hash |-> dir[Current(e)]])
         /\ [files |-> InArchive(e), hash |-> dir[Current(e)]] \in ClosedArchives
         /\ UNCHANGED <<collected, asked, first, next, mediumVars, disturbed, unlisted>>
         /\ LocalTypes'
<1>1. /\ pc[e] = "close" /\ pc' = [pc EXCEPT ![e] = IF next[e] <= Len(collected[e]) THEN "open" ELSE "manifest"]
      /\ closed' = [closed EXCEPT ![e] = Append(@, [files |-> InArchive(e), hash |-> dir[Current(e)]])]
      /\ UNCHANGED <<collected, asked, first, next, mediumVars, historyVars>>
  BY DEF HashArchive, Step
<1>0. LocalTypes /\ dir[Current(e)] \in ArchiveFiles /\ InArchive(e) \in Seq(Entries) /\ closed[e] \in Seq(ClosedArchives)
  <2>1. pc[e] \in Packing
    BY <1>1 DEF Packing
  <2> QED  BY <2>1, AtExport, TypesAreAll DEF ExportInv
<1> DEFINE a == [files |-> InArchive(e), hash |-> dir[Current(e)]]
<1>2. a \in ClosedArchives
  BY <1>0 DEF ClosedArchives
<1> HIDE DEF a
<1>3. Append(closed[e], a) \in Seq(ClosedArchives)
  BY <1>0, <1>2, AppendProperties
<1>4. closed' \in [Exports -> Seq(ClosedArchives)] /\ closed'[e] = Append(closed[e], a)
  BY <1>0, <1>1, <1>3 DEF LocalTypes, a
<1>5. /\ pc' \in [Exports -> Running \cup {"new", "failed", "completed"}]
      /\ pc'[e] = IF next[e] <= Len(collected[e]) THEN "open" ELSE "manifest"
  BY <1>0, <1>1 DEF LocalTypes, Running
<1> QED  BY <1>0, <1>1, <1>2, <1>4, <1>5 DEF LocalTypes, historyVars, a

LEMMA ManifestDoes ==
  ASSUME ExportInv, NEW e \in Exports, WriteManifest(e)
  PROVE  /\ pc[e] = "manifest" /\ pc'[e] = "record"
         /\ manifest' = [archives |-> closed[e], inventory |-> collected[e]]
         /\ UNCHANGED <<localVars, dir, disturbed, unlisted>>
         /\ LocalTypes' /\ MediumTypes'
<1>0. LocalTypes /\ MediumTypes /\ collected[e] \in Seq(Entries) /\ closed[e] \in Seq(ClosedArchives)
  BY AtExport, TypesAreAll DEF ExportInv
<1>1. /\ pc[e] = "manifest" /\ pc' = [pc EXCEPT ![e] = "record"]
      /\ manifest' = [archives |-> closed[e], inventory |-> collected[e]]
      /\ UNCHANGED <<localVars, dir, historyVars>>
  BY DEF WriteManifest, Step
<1>2. pc' \in [Exports -> Running \cup {"new", "failed", "completed"}] /\ pc'[e] = "record"
  BY <1>0, <1>1 DEF LocalTypes, Running
<1>3. manifest' \in [archives : Seq(ClosedArchives), inventory : Seq(Entries)]
  BY <1>0, <1>1
<1> QED  BY <1>0, <1>1, <1>2, <1>3 DEF LocalTypes, MediumTypes, localVars, historyVars

LEMMA EndDoes ==
  ASSUME ExportInv, NEW e \in Exports, RecordTransfer(e) \/ Abort(e)
  PROVE  /\ pc[e] \in Running /\ pc'[e] \in {"failed", "completed"} /\ Cleared(e) /\ disturbed'[e] = {}
         /\ UNCHANGED mediumVars /\ LocalTypes' /\ HistoryTypes'
<1>0. LocalTypes /\ HistoryTypes
  BY TypesAreAll DEF ExportInv
<1>1. /\ pc[e] \in Running /\ Forget({e}) /\ UNCHANGED mediumVars
      /\ pc' = [pc EXCEPT ![e] = "completed"] \/ pc' = [pc EXCEPT ![e] = "failed"]
  BY DEF RecordTransfer, Abort, Step, Running
<1>2. pc'[e] \in {"failed", "completed"} /\ pc' \in [Exports -> Running \cup {"new", "failed", "completed"}]
  BY <1>0, <1>1 DEF LocalTypes
<1>3. Cleared(e) /\ disturbed'[e] = {} /\ LocalTypes' /\ HistoryTypes'
  BY <1>0, <1>1, <1>2, ForgetClears
<1> QED  BY <1>1, <1>2, <1>3

LEMMA ExportStepPlace ==
  ASSUME ExportInv, NEW e \in Exports, ExportStep(e)
  PROVE  ProgressOf(e)' /\ BoundsOf(e)' /\ LocalTypes' /\ MediumTypes' /\ HistoryTypes'
<1>0. LocalTypes /\ MediumTypes /\ HistoryTypes /\ ProgressOf(e) /\ BoundsOf(e)
  BY TypesAreAll DEF ExportInv, Progress
<1>a. /\ collected[e] \in Seq(Entries) /\ Len(collected[e]) \in Nat
      /\ first[e] \in Nat /\ next[e] \in Nat /\ asked[e] \in 0..Len(Requested) /\ asked[e] \in Nat
      /\ first[e] >= 1 /\ first[e] <= next[e] /\ next[e] <= Len(collected[e]) + 1
      /\ closed[e] \in Seq(ClosedArchives) /\ Len(closed[e]) \in Nat
  BY AtExport
<1>b. K \in Nat /\ Len(Requested) \in Nat
  BY KeysFinite, RequestedType
<1>c. UNCHANGED mediumVars => MediumTypes'
  BY <1>0 DEF MediumTypes, mediumVars
<1>d. disturbed' = disturbed => HistoryTypes'
  BY <1>0 DEF HistoryTypes
<1>1. CASE Collect(e)
  <2> DEFINE l == SetToSeq(Listing(Requested[asked[e] + 1]))
  <2>1. /\ pc[e] \in {"new", "collect"} /\ asked[e] < Len(Requested)
        /\ pc'[e] = "collect" /\ asked'[e] = asked[e] + 1
        /\ first'[e] = first[e] /\ next'[e] = next[e] /\ closed'[e] = closed[e] /\ disturbed' = disturbed
        /\ UNCHANGED mediumVars /\ LocalTypes'
        /\ collected'[e] = collected[e] \o l \/ collected'[e] = collected[e]
    BY <1>1, CollectDoes
  <2>2. l \in Seq(Entries) /\ Len(l) \in Nat /\ Len(l) <= K
    BY ListingIsList, TypesAreAll DEF ExportInv
  <2> HIDE DEF l
  <2>3. Len(collected'[e]) \in Nat /\ Len(collected'[e]) <= Len(collected[e]) + K /\ Len(collected[e]) <= Len(collected'[e])
    <3>1. Len(collected[e] \o l) = Len(collected[e]) + Len(l)
      BY <1>a, <2>2, ConcatProperties
    <3> QED  BY <1>a, <1>b, <2>1, <2>2, <3>1
  <2>4. (asked[e] + 1) * K = asked[e] * K + K /\ asked[e] * K \in Nat
    <3>1. \A x, y \in Nat : (x + 1) * y = x * y + y /\ x * y \in Nat
      OBVIOUS
    <3> QED  BY <1>a, <1>b, <3>1
  <2>5. Len(collected[e]) <= asked[e] * K
    BY <1>0 DEF ProgressOf
  <2>6. Len(collected'[e]) <= asked'[e] * K
    <3> DEFINE old == asked[e] * K
               new == (asked[e] + 1) * K
    <3>1. new = old + K /\ old \in Nat /\ Len(collected[e]) <= old
      BY <2>4, <2>5
    <3>2. asked'[e] * K = new
      BY <2>1
    <3> HIDE DEF old, new
    <3>3. Len(collected'[e]) <= new
      BY <1>a, <1>b, <2>3, <3>1
    <3> QED  BY <3>2, <3>3
  <2>7. first[e] = 1 /\ next[e] = 1 /\ closed[e] = <<>> /\ Len(<<>>) = 0
    BY <1>0, <2>1 DEF ProgressOf, Going
  <2>8. ProgressOf(e)'
    BY <2>1, <2>6, <2>7 DEF ProgressOf, Going, Packing, Start
  <2>9. asked'[e] \in 0..Len(Requested)
    BY <1>a, <1>b, <2>1
  <2>10. Len(collected'[e]) \in {0} \cup Numbers
    BY <2>3, <2>6, <2>9, LengthBound
  <2>11. BoundsOf(e)'
    BY <2>1, <2>3, <2>7, <2>10 DEF BoundsOf
  <2> QED  BY <1>c, <1>d, <2>1, <2>8, <2>11
<1>2. CASE Collected(e)
  <2>1. /\ pc[e] = "collect" /\ asked[e] = Len(Requested) /\ UNCHANGED mediumVars /\ LocalTypes' /\ HistoryTypes'
        /\ \/ Cleared(e) /\ pc'[e] = "failed"
           \/ Same(e) /\ pc'[e] = "open" /\ collected[e] # <<>>
    BY <1>2, CollectedDoes
  <2>2. CASE Cleared(e) /\ pc'[e] = "failed"
    BY <1>c, <2>1, <2>2, ClearedIsFresh
  <2>3. CASE Same(e) /\ pc'[e] = "open" /\ collected[e] # <<>>
    <3>1. first[e] = 1 /\ next[e] = 1 /\ closed[e] = <<>> /\ Len(<<>>) = 0 /\ Len(collected[e]) <= asked[e] * K
      BY <1>0, <2>1 DEF ProgressOf, Going
    <3>2. Len(collected[e]) >= 1
      BY <1>a, <2>3, EmptySeq
    <3>3. ProgressOf(e)'
      BY <2>1, <2>3, <3>1, <3>2 DEF ProgressOf, Going, Packing, Start, Same
    <3>4. BoundsOf(e)'
      BY <1>0, <2>3 DEF BoundsOf, Same
    <3> QED  BY <1>c, <2>1, <3>3, <3>4
  <2> QED  BY <2>1, <2>2, <2>3
<1>3. CASE Open(e)
  <2>1. /\ pc[e] = "open" /\ pc'[e] = "pack" /\ first'[e] = next[e] /\ next' = next
        /\ collected' = collected /\ asked' = asked /\ closed' = closed /\ disturbed' = disturbed
        /\ LocalTypes' /\ MediumTypes'
    BY <1>3, OpenDoes
  <2>2. ProgressOf(e)'
    BY <1>0, <2>1 DEF ProgressOf, Going, Packing, Start
  <2>3. BoundsOf(e)'
    BY <1>0, <1>a, <2>1 DEF BoundsOf
  <2> QED  BY <1>d, <2>1, <2>2, <2>3
<1>4. CASE Pack(e)
  <2>1. /\ pc[e] = "pack" /\ pc' = pc /\ next[e] <= Len(collected[e]) /\ next'[e] = next[e] + 1
        /\ collected' = collected /\ asked' = asked /\ first' = first /\ closed' = closed /\ disturbed' = disturbed
        /\ LocalTypes' /\ MediumTypes'
    BY <1>4, PackDoes
  <2>2. ProgressOf(e)'
    BY <1>0, <2>1 DEF ProgressOf, Going, Packing, Start
  <2>3. BoundsOf(e)'
    BY <1>0, <1>a, <2>1 DEF BoundsOf
  <2> QED  BY <1>d, <2>1, <2>2, <2>3
<1>5. CASE EndArchive(e)
  <2>1. /\ pc[e] = "pack" /\ pc'[e] = "close" /\ (next[e] > Len(collected[e]) \/ Full(e))
        /\ UNCHANGED <<localVars, disturbed>> /\ LocalTypes' /\ MediumTypes'
    BY <1>5, EndArchiveDoes
  <2>2. first[e] < next[e]
    <3>1. CASE next[e] > Len(collected[e])
      BY <1>0, <1>a, <2>1, <3>1 DEF ProgressOf, Packing
    <3>2. CASE Full(e)
      <4>1. InArchive(e) # <<>>
        <5>1. CurrentSize(e) > 0 /\ TotalSize(<<>>) = 0
          BY <3>2, TotalEmpty, TypesAreAll DEF Full, ExportInv, FileTypes
        <5> QED  BY <5>1 DEF CurrentSize
      <4>2. Len(InArchive(e)) = next[e] - first[e] /\ InArchive(e) \in Seq(Entries)
        BY AtExport
      <4>3. Len(InArchive(e)) # 0
        BY <4>1, <4>2, EmptySeq
      <4> QED  BY <1>a, <4>2, <4>3
    <3> QED  BY <2>1, <3>1, <3>2
  <2>3. ProgressOf(e)'
    BY <1>0, <2>1, <2>2 DEF ProgressOf, Going, Packing, Start, localVars
  <2>4. BoundsOf(e)'
    BY <1>0, <2>1 DEF BoundsOf, localVars
  <2> QED  BY <1>d, <2>1, <2>3, <2>4
<1>6. CASE HashArchive(e)
  <2>1. /\ pc[e] = "close"
        /\ pc'[e] = IF next[e] <= Len(collected[e]) THEN "open" ELSE "manifest"
        /\ closed'[e] = Append(closed[e], [files |-> InArchive(e), hash |-> dir[Current(e)]])
        /\ [files |-> InArchive(e), hash |-> dir[Current(e)]] \in ClosedArchives
        /\ UNCHANGED <<collected, asked, first, next, mediumVars, disturbed, unlisted>>
        /\ LocalTypes'
    BY <1>6, HashDoes
  <2>2. Len(closed'[e]) = Len(closed[e]) + 1
    BY <1>a, <2>1, AppendProperties
  <2>3. Len(closed[e]) < first[e] /\ first[e] < next[e]
    BY <1>0, <2>1 DEF ProgressOf, Packing, Start
  <2>4. Len(closed'[e]) < next[e]
    BY <1>a, <2>2, <2>3
  <2>5. pc'[e] = "open" => next[e] <= Len(collected[e])
    BY <2>1
  <2>6. pc'[e] = "manifest" => next[e] = Len(collected[e]) + 1
    BY <1>a, <2>1
  <2>7. pc'[e] \in {"open", "manifest"}
    BY <2>1
  <2>8. ProgressOf(e)'
    BY <1>0, <2>1, <2>4, <2>5, <2>6, <2>7 DEF ProgressOf, Going, Packing, Start
  <2>9. BoundsOf(e)'
    BY <1>0, <2>1 DEF BoundsOf
  <2> QED  BY <1>c, <1>d, <2>1, <2>8, <2>9
<1>7. CASE WriteManifest(e)
  <2>1. /\ pc[e] = "manifest" /\ pc'[e] = "record"
        /\ UNCHANGED <<localVars, disturbed, unlisted>> /\ LocalTypes' /\ MediumTypes'
    BY <1>7, ManifestDoes
  <2>2. ProgressOf(e)'
    BY <1>0, <2>1 DEF ProgressOf, Going, Packing, Start, localVars
  <2>3. BoundsOf(e)'
    BY <1>0, <2>1 DEF BoundsOf, localVars
  <2> QED  BY <1>d, <2>1, <2>2, <2>3
<1>8. CASE RecordTransfer(e) \/ Abort(e)
  <2>1. pc'[e] \in {"failed", "completed"} /\ Cleared(e) /\ UNCHANGED mediumVars /\ LocalTypes' /\ HistoryTypes'
    BY <1>8, EndDoes
  <2> QED  BY <1>c, <2>1, ClearedIsFresh
<1> QED  BY <1>1, <1>2, <1>3, <1>4, <1>5, <1>6, <1>7, <1>8 DEF ExportStep

LEMMA ExportInvStep == ExportInv /\ [Next]_vars => ExportInv'
<1> SUFFICES ASSUME ExportInv, [Next]_vars PROVE ExportInv'
  OBVIOUS
<1>0. FileTypes /\ LocalTypes /\ MediumTypes /\ HistoryTypes /\ \A x \in Exports : ProgressOf(x) /\ BoundsOf(x)
  BY TypesAreAll DEF ExportInv, Progress
<1>a. TypeOK' <=> FileTypes' /\ LocalTypes' /\ MediumTypes' /\ HistoryTypes' /\ \A x \in Exports : BoundsOf(x)'
  BY DEF TypeOK, FileTypes, LocalTypes, MediumTypes, HistoryTypes, BoundsOf
<1>b. UNCHANGED <<localVars, pc, unlisted>> => \A x \in Exports : Same(x) /\ pc'[x] = pc[x]
  BY DEF localVars, Same
<1>c. UNCHANGED <<localVars, pc, unlisted>> => LocalTypes'
  BY <1>0 DEF localVars, LocalTypes
<1>d. UNCHANGED mediumVars => MediumTypes'
  BY <1>0 DEF mediumVars, MediumTypes
<1>1. ASSUME NEW e \in Exports, ExportStep(e) PROVE ExportInv'
  <2>1. UNCHANGED <<fileVars, unrecorded>> /\ \A x \in Exports \ {e} : Same(x) /\ pc'[x] = pc[x]
    BY <1>1, StepRests
  <2>2. FileTypes'
    BY <1>0, <2>1 DEF FileTypes, fileVars
  <2>3. \A x \in Exports \ {e} : ProgressOf(x)' /\ BoundsOf(x)'
    BY <1>0, <2>1, SameRests
  <2>4. ProgressOf(e)' /\ BoundsOf(e)' /\ LocalTypes' /\ MediumTypes' /\ HistoryTypes'
    BY <1>1, ExportStepPlace
  <2> QED  BY <1>a, <2>2, <2>3, <2>4 DEF ExportInv, Progress
<1>2. CASE (\E f \in Files : FileStep(f)) \/ (\E p \in Providers : Scan(p))
  <2>1. FileTypes' /\ HistoryTypes' /\ UNCHANGED <<localVars, mediumVars, pc, unlisted, outputDir>>
    BY <1>2, ChangeKeeps
  <2>2. \A x \in Exports : ProgressOf(x)' /\ BoundsOf(x)'
    BY <1>0, <1>b, <2>1, SameRests
  <2> QED  BY <1>a, <1>c, <1>d, <2>1, <2>2 DEF ExportInv, Progress
<1>3. CASE Crash
  <2>1. /\ FileTypes' /\ LocalTypes' /\ HistoryTypes' /\ UNCHANGED mediumVars
        /\ \A x \in Exports : Cleared(x) /\ pc'[x] \in {"new", "failed", "completed"}
    BY <1>3, CrashClears
  <2>2. \A x \in Exports : ProgressOf(x)' /\ BoundsOf(x)'
    BY <2>1, ClearedIsFresh
  <2> QED  BY <1>a, <1>d, <2>1, <2>2 DEF ExportInv, Progress
<1>4. CASE UNCHANGED vars
  <2>1. FileTypes' /\ HistoryTypes'
    BY <1>0, <1>4 DEF vars, fileVars, historyVars, FileTypes, HistoryTypes
  <2>2. UNCHANGED <<localVars, mediumVars, pc, unlisted>>
    BY <1>4 DEF vars, historyVars
  <2>3. \A x \in Exports : ProgressOf(x)' /\ BoundsOf(x)'
    BY <1>0, <1>b, <2>2, SameRests
  <2> QED  BY <1>a, <1>c, <1>d, <2>1, <2>2, <2>3 DEF ExportInv, Progress
<1> QED  BY <1>1, <1>2, <1>3, <1>4 DEF Next, AllEnded

\* Where an export is tells how far it has come, and the medium has a number
\* for every archive it may open.
THEOREM ExportInvariant == Spec => []ExportInv
<1> QED  BY ExportInit, ExportInvStep, PTL DEF Spec

\* Every variable of the exports keeps its type and its bounds.
THEOREM ExportTypeOK == Spec => []TypeOK
<1>1. ExportInv => TypeOK
  BY DEF ExportInv
<1> QED  BY <1>1, ExportInvariant, PTL

-----------------------------------------------------------------------------
(* What the archives hold *)

\* One more archive lists its files after the others'.
LEMMA ListedAppend ==
  ASSUME NEW s \in Seq(ClosedArchives), NEW a \in ClosedArchives
  PROVE  Listed(Append(s, a)) = Listed(s) \o a.files
<1> DEFINE t == Append(s, a)
           fs == [i \in DOMAIN s |-> s[i].files]
           ft == [i \in DOMAIN t |-> t[i].files]
           n == Len(s)
<1>1. t \in Seq(ClosedArchives) /\ Len(t) = n + 1 /\ n \in Nat /\ t[n + 1] = a /\ \A i \in 1..n : t[i] = s[i]
  BY AppendProperties
<1> HIDE DEF t
<1>2. DOMAIN s = 1..n /\ DOMAIN t = 1..(n + 1)
  BY <1>1
<1>3. a.files \in Seq(Entries) /\ \A i \in 1..n : s[i].files \in Seq(Entries)
  <2>1. \A i \in 1..n : s[i] \in ClosedArchives
    BY ElementOfSeq
  <2>2. \A b \in ClosedArchives : b.files \in Seq(Entries)
    BY DEF ClosedArchives
  <2> QED  BY <2>1, <2>2
<1>4. fs \in Seq(Seq(Entries)) /\ Len(fs) = n
  BY <1>1, <1>2, <1>3
<1>5. ft = Append(fs, a.files)
  <2>1. /\ Append(fs, a.files) \in Seq(Seq(Entries)) /\ Len(Append(fs, a.files)) = n + 1
        /\ Append(fs, a.files)[n + 1] = a.files /\ \A i \in 1..n : Append(fs, a.files)[i] = fs[i]
    BY <1>3, <1>4, AppendProperties
  <2> DEFINE u == Append(fs, a.files)
  <2>2. \A i \in 1..n : fs[i] = s[i].files
    BY <1>2
  <2>3. DOMAIN u = 1..(n + 1)
    BY <1>1, <2>1
  <2>4. \A i \in 1..(n + 1) : i \in 1..n \/ i = n + 1
    BY <1>1
  <2> HIDE DEF fs, u
  <2>5. \A i \in 1..(n + 1) : u[i] = t[i].files
    BY <1>1, <2>1, <2>2, <2>4 DEF u
  <2>6. u = [i \in 1..(n + 1) |-> u[i]]
    BY <2>1, <2>3 DEF u
  <2>7. ft = u
    BY <1>2, <2>5, <2>6
  <2> QED  BY <2>7 DEF u
<1> HIDE DEF fs, ft
<1>6. FlattenSeq(ft) = FlattenSeq(fs) \o a.files
  BY <1>3, <1>4, <1>5, FlattenAppend
<1> QED  BY <1>6 DEF Listed, fs, ft, t

LEMMA ListedEmpty == Listed(<<>>) = <<>>
<1>1. [i \in DOMAIN <<>> |-> <<>>[i].files] = <<>>
  OBVIOUS
<1> QED  BY <1>1, FlattenEmpty DEF Listed

\* What an export packs next comes after what it has packed.
LEMMA PackGrows ==
  ASSUME ExportInv, NEW e \in Exports, Pack(e)
  PROVE  InArchive(e)' = InArchive(e) \o <<collected[e][next[e]]>>
<1> DEFINE c == collected[e]
           a == first[e]
           n == next[e]
<1>1. c \in Seq(Entries) /\ a \in 1..Len(c) /\ n \in a..Len(c)
  <2>1. a \in Nat /\ a >= 1 /\ a <= n /\ n \in Nat /\ Len(c) \in Nat /\ c \in Seq(Entries)
    BY AtExport
  <2>2. n <= Len(c)
    BY PackDoes
  <2> QED  BY <2>1, <2>2
<1>2. collected'[e] = c /\ first'[e] = a /\ next'[e] = n + 1
  BY PackDoes
<1> HIDE DEF c, a, n
<1>3. SubSeq(c, a, n) = SubSeq(c, a, n - 1) \o <<c[n]>>
  BY <1>1, SubSeqRecursiveSecond
<1>4. (n + 1) - 1 = n
  BY <1>1
<1>5. InArchive(e)' = SubSeq(c, a, n)
  BY <1>2, <1>4 DEF InArchive
<1> QED  BY <1>3, <1>5 DEF InArchive, c, a, n

\* Another export's step in the archive one is packing shows in it.
LEMMA OthersMix ==
  ASSUME ExportInv, NEW e \in Exports, ExportStep(e), NEW x \in Exports \ {e}, pc[x] \in Packing,
         dir[Current(x)].mixed \/ dir[Current(x)].by = x
  PROVE  dir'[Current(x)] = dir[Current(x)] \/ dir'[Current(x)].mixed
<1>0. Current(x) \in Numbers
  BY AtExport
<1>1. CASE Open(e)
  <2>1. CASE Current(x) = Current(e)
    <3>1. InUse(Current(e))
      BY <2>1 DEF InUse, Packing
    <3> QED  BY <1>1, <2>1, <3>1, OpenDoes
  <2>2. CASE Current(x) # Current(e)
    BY <1>0, <1>1, <2>2, OpenDoes
  <2> QED  BY <2>1, <2>2
<1>2. CASE Pack(e)
  <2>1. CASE Current(x) = Current(e)
    <3>1. CASE dir[Current(x)].mixed
      BY <1>2, <2>1, <3>1, PackDoes
    <3>2. CASE dir[Current(x)].by = x
      BY <1>2, <2>1, <3>2, PackDoes
    <3> QED  BY <3>1, <3>2
  <2>2. CASE Current(x) # Current(e)
    BY <1>0, <1>2, <2>2, PackDoes
  <2> QED  BY <2>1, <2>2
<1>3. CASE EndArchive(e)
  <2>1. CASE Current(x) = Current(e)
    <3>1. CASE dir[Current(x)].mixed
      BY <1>3, <2>1, <3>1, EndArchiveDoes
    <3>2. CASE dir[Current(x)].by = x
      BY <1>3, <2>1, <3>2, EndArchiveDoes
    <3> QED  BY <3>1, <3>2
  <2>2. CASE Current(x) # Current(e)
    BY <1>0, <1>3, <2>2, EndArchiveDoes
  <2> QED  BY <2>1, <2>2
<1>4. CASE Collect(e) \/ Collected(e) \/ HashArchive(e) \/ WriteManifest(e) \/ RecordTransfer(e) \/ Abort(e)
  <2>1. dir' = dir
    BY <1>4 DEF Collect, Collected, HashArchive, WriteManifest, RecordTransfer, Abort, mediumVars
  <2> QED  BY <2>1
<1> QED  BY <1>1, <1>2, <1>3, <1>4 DEF ExportStep

LEMMA PackageRests ==
  ASSUME NEW x \in Exports, Same(x), pc'[x] = pc[x], PackageOf(x),
         pc[x] \in Packing => dir'[Current(x)] = dir[Current(x)] \/ dir'[Current(x)].mixed
  PROVE  PackageOf(x)'
<1>1. /\ collected'[x] = collected[x] /\ first'[x] = first[x] /\ next'[x] = next[x] /\ closed'[x] = closed[x]
  BY DEF Same
<1>2. Current(x)' = Current(x) /\ InArchive(x)' = InArchive(x) /\ Start(x)' = Start(x)
  BY <1>1 DEF Current, InArchive, Start
<1>3. (\A i \in DOMAIN closed[x] : Matches(closed[x][i].files, closed[x][i].hash))'
  BY <1>1 DEF PackageOf, Matches
<1>4. Listed(closed'[x]) = SubSeq(collected'[x], 1, Start(x)' - 1)
  BY <1>1, <1>2 DEF PackageOf
<1>5. ASSUME pc'[x] \in Packing
      PROVE  /\ dir'[Current(x)].mixed \/ dir'[Current(x)].by = x
             /\ Matches(InArchive(x), dir'[Current(x)])
  <2>1. CASE dir'[Current(x)] = dir[Current(x)]
    BY <1>5, <2>1 DEF PackageOf
  <2>2. CASE dir'[Current(x)].mixed
    BY <2>2 DEF Matches
  <2> QED  BY <1>5, <2>1, <2>2
<1> QED  BY <1>1, <1>2, <1>3, <1>4, <1>5 DEF PackageOf, Matches, Listed

LEMMA PackageCleared ==
  ASSUME NEW x \in Exports, Cleared(x), pc'[x] \in {"new", "failed", "completed"}
  PROVE  PackageOf(x)'
<1>1. collected'[x] = <<>> /\ first'[x] = 1 /\ next'[x] = 1 /\ closed'[x] = <<>> /\ pc'[x] \notin Packing
  BY DEF Cleared, Packing
<1>2. Start(x)' = 1
  BY <1>1 DEF Start
<1>3. SubSeq(<<>>, 1, 1 - 1) = <<>> /\ DOMAIN <<>> = {}
  BY SubSeqEmpty
<1>4. Listed(closed'[x]) = <<>>
  BY <1>1, ListedEmpty
<1>5. SubSeq(collected'[x], 1, Start(x)' - 1) = <<>>
  BY <1>1, <1>2, <1>3
<1> QED  BY <1>1, <1>3, <1>4, <1>5 DEF PackageOf, Listed

LEMMA PackageInit == Init => PackageInv
<1> SUFFICES ASSUME Init PROVE PackageInv
  OBVIOUS
<1>1. ASSUME NEW e \in Exports PROVE PackageOf(e)
  <2>1. pc[e] = "new" /\ collected[e] = <<>> /\ next[e] = 1 /\ closed[e] = <<>>
    BY DEF Init
  <2>2. Start(e) = 1 /\ pc[e] \notin Packing
    BY <2>1 DEF Start, Packing
  <2>3. SubSeq(<<>>, 1, 1 - 1) = <<>> /\ DOMAIN <<>> = {}
    BY SubSeqEmpty
  <2> QED  BY <2>1, <2>2, <2>3, ListedEmpty DEF PackageOf
<1>2. ManifestWhole
  <2>1. manifest.archives = <<>> /\ manifest.inventory = <<>> /\ DOMAIN <<>> = {}
    BY DEF Init, NoManifest
  <2> QED  BY <2>1, ListedEmpty DEF ManifestWhole
<1> QED  BY <1>1, <1>2 DEF PackageInv

\* What a step leaves of the package its own export is making.
LEMMA PackageStepOwn ==
  ASSUME ExportInv, NEW e \in Exports, PackageOf(e), ExportStep(e)
  PROVE  PackageOf(e)'
<1>0. ProgressOf(e)
  BY DEF ExportInv, Progress
<1>a. /\ collected[e] \in Seq(Entries) /\ Len(collected[e]) \in Nat
      /\ first[e] \in Nat /\ next[e] \in Nat /\ first[e] >= 1 /\ first[e] <= next[e] /\ next[e] <= Len(collected[e]) + 1
      /\ closed[e] \in Seq(ClosedArchives) /\ Len(closed[e]) \in Nat /\ DOMAIN closed[e] = 1..Len(closed[e])
      /\ InArchive(e) \in Seq(Entries)
  BY AtExport
<1>1. CASE Collect(e)
  <2>1. pc[e] \in {"new", "collect"} /\ pc'[e] = "collect" /\ next'[e] = next[e] /\ closed'[e] = closed[e]
    BY <1>1, CollectDoes
  <2>2. next[e] = 1 /\ closed[e] = <<>>
    BY <1>0, <2>1 DEF ProgressOf, Going
  <2>3. Start(e)' = 1 /\ pc'[e] \notin Packing
    BY <2>1, <2>2 DEF Start, Packing
  <2>4. SubSeq(collected'[e], 1, 1 - 1) = <<>> /\ DOMAIN <<>> = {}
    BY SubSeqEmpty
  <2>5. closed'[e] = <<>>
    BY <2>1, <2>2
  <2> QED  BY <2>3, <2>4, <2>5, ListedEmpty DEF PackageOf, Listed
<1>2. CASE Collected(e)
  <2>1. /\ pc[e] = "collect"
        /\ \/ Cleared(e) /\ pc'[e] = "failed"
           \/ Same(e) /\ pc'[e] = "open"
    BY <1>2, CollectedDoes
  <2>2. CASE Cleared(e) /\ pc'[e] = "failed"
    BY <2>2, PackageCleared
  <2>3. CASE Same(e) /\ pc'[e] = "open"
    <3>1. Start(e)' = Start(e) /\ pc'[e] \notin Packing
      BY <2>1, <2>3 DEF Start, Packing, Same
    <3> QED  BY <2>3, <3>1 DEF PackageOf, Same, Listed, Matches
  <2> QED  BY <2>1, <2>2, <2>3
<1>3. CASE Open(e)
  <2>1. /\ pc[e] = "open" /\ pc'[e] = "pack" /\ first'[e] = next[e] /\ next' = next
        /\ collected' = collected /\ closed' = closed
        /\ dir'[Current(e)].by = e /\ dir'[Current(e)].files = <<>>
    BY <1>3, OpenDoes
  <2>2. Start(e)' = Start(e) /\ Current(e)' = Current(e)
    BY <2>1 DEF Start, Current, Packing
  <2>3. InArchive(e)' = <<>>
    <3>1. SubSeq(collected[e], next[e], next[e] - 1) = <<>>
      BY <1>a, SubSeqEmpty
    <3> QED  BY <2>1, <3>1 DEF InArchive
  <2>4. Matches(InArchive(e)', dir'[Current(e)])
    BY <2>1, <2>3 DEF Matches
  <2> QED  BY <2>1, <2>2, <2>4 DEF PackageOf, Listed, Matches
<1>4. CASE Pack(e)
  <2>1. /\ pc[e] = "pack" /\ pc' = pc /\ next[e] <= Len(collected[e])
        /\ collected' = collected /\ first' = first /\ closed' = closed
        /\ dir'[Current(e)].by = dir[Current(e)].by
        /\ dir[Current(e)].mixed => dir'[Current(e)].mixed
    BY <1>4, PackDoes
  <2>2. Start(e)' = Start(e) /\ Current(e)' = Current(e) /\ pc[e] \in Packing /\ pc'[e] \in Packing
    BY <2>1 DEF Start, Current, Packing
  <2>3. PICK f \in Found(collected[e][next[e]].key) :
           LET item == [key |-> collected[e][next[e]].key, version |-> content[f], whole |-> f \notin partial]
           IN item \in Packed /\ dir'[Current(e)].files = dir[Current(e)].files \o <<item>>
    BY <1>4, PackDoes
  <2> DEFINE item == [key |-> collected[e][next[e]].key, version |-> content[f], whole |-> f \notin partial]
             x == collected[e][next[e]]
  <2>4. item.key = x.key /\ item \in Packed /\ dir'[Current(e)].files = dir[Current(e)].files \o <<item>>
    BY <2>3
  <2>5. x \in Entries
    BY <1>a, <2>1, AtExport
  <2> HIDE DEF item, x
  <2>6. Keyed(<<item>>) = Keyed(<<x>>)
    BY <2>4 DEF Keyed
  <2>7. dir[Current(e)] \in ArchiveFiles
    BY <2>2, AtExport
  <2>8. dir[Current(e)].files \in Seq(Packed) /\ <<item>> \in Seq(Packed) /\ <<x>> \in Seq(Entries)
    BY <2>4, <2>5, <2>7 DEF ArchiveFiles
  <2>9. InArchive(e)' = InArchive(e) \o <<x>>
    BY <1>4, PackGrows DEF x
  <2>10. Matches(InArchive(e)', dir'[Current(e)])
    <3>1. CASE dir[Current(e)].mixed
      BY <2>1, <3>1 DEF Matches
    <3>2. CASE Keyed(dir[Current(e)].files) = Keyed(InArchive(e))
      <4>1. Keyed(dir[Current(e)].files \o <<item>>) = Keyed(InArchive(e) \o <<x>>)
        <5> DEFINE A == dir[Current(e)].files
                   B == <<item>>
                   C == InArchive(e)
                   D == <<x>>
        <5>1. A \in Seq(Packed) /\ B \in Seq(Packed) /\ C \in Seq(Entries) /\ D \in Seq(Entries)
              /\ Keyed(A) = Keyed(C) /\ Keyed(B) = Keyed(D)
          BY <1>a, <2>6, <2>8, <3>2
        <5> HIDE DEF A, B, C, D
        <5>2. Keyed(A \o B) = Keyed(C \o D)
          BY <5>1, KeyedConcat
        <5> QED  BY <5>2 DEF A, B, C, D
      <4> QED  BY <2>4, <2>9, <4>1 DEF Matches
    <3> QED  BY <2>2, <3>1, <3>2 DEF PackageOf, Matches
  <2>11. dir'[Current(e)].mixed \/ dir'[Current(e)].by = e
    <3>1. CASE dir[Current(e)].mixed
      BY <2>1, <3>1
    <3>2. CASE dir[Current(e)].by = e
      BY <2>1, <3>2
    <3> QED  BY <2>2, <3>1, <3>2 DEF PackageOf
  <2> QED  BY <2>1, <2>2, <2>10, <2>11 DEF PackageOf, Listed, Matches
<1>5. CASE EndArchive(e)
  <2>1. /\ pc[e] = "pack" /\ pc'[e] = "close" /\ UNCHANGED localVars
        /\ dir'[Current(e)].files = dir[Current(e)].files
        /\ dir'[Current(e)].by = dir[Current(e)].by
        /\ dir[Current(e)].mixed => dir'[Current(e)].mixed
    BY <1>5, EndArchiveDoes
  <2>2. /\ Start(e)' = Start(e) /\ Current(e)' = Current(e) /\ InArchive(e)' = InArchive(e)
        /\ pc[e] \in Packing /\ pc'[e] \in Packing /\ collected' = collected /\ closed' = closed
    BY <2>1 DEF Start, Current, Packing, localVars, InArchive
  <2>3. Matches(InArchive(e), dir'[Current(e)]) /\ (dir'[Current(e)].mixed \/ dir'[Current(e)].by = e)
    <3>1. CASE dir[Current(e)].mixed
      BY <2>1, <3>1 DEF Matches
    <3>2. CASE ~dir[Current(e)].mixed
      BY <2>1, <2>2, <3>2 DEF Matches, PackageOf
    <3> QED  BY <3>1, <3>2
  <2> QED  BY <2>2, <2>3 DEF PackageOf, Listed, Matches
<1>6. CASE HashArchive(e)
  <2> DEFINE a == [files |-> InArchive(e), hash |-> dir[Current(e)]]
             c == collected[e]
  <2>1. /\ pc[e] = "close" /\ pc'[e] \in {"open", "manifest"}
        /\ closed'[e] = Append(closed[e], a) /\ a \in ClosedArchives
        /\ UNCHANGED <<collected, asked, first, next>>
    BY <1>6, HashDoes
  <2>2. pc[e] \in Packing /\ Start(e) = first[e] /\ Start(e)' = next[e] /\ pc'[e] \notin Packing
    BY <2>1 DEF Start, Packing
  <2>3. a.files = InArchive(e) /\ a.hash = dir[Current(e)]
    OBVIOUS
  <2> HIDE DEF a
  <2>4. Matches(a.files, a.hash)
    BY <2>2, <2>3 DEF PackageOf
  <2>5. /\ closed'[e] \in Seq(ClosedArchives) /\ Len(closed'[e]) = Len(closed[e]) + 1
        /\ closed'[e][Len(closed[e]) + 1] = a /\ \A i \in 1..Len(closed[e]) : closed'[e][i] = closed[e][i]
    BY <1>a, <2>1, AppendProperties
  <2>6. \A i \in DOMAIN closed'[e] : Matches(closed'[e][i].files, closed'[e][i].hash)
    <3>1. DOMAIN closed'[e] = 1..(Len(closed[e]) + 1)
      BY <2>5
    <3>a. \A n \in Nat : \A i \in 1..(n + 1) : i \in 1..n \/ i = n + 1
      OBVIOUS
    <3>2. \A i \in 1..(Len(closed[e]) + 1) : i \in 1..Len(closed[e]) \/ i = Len(closed[e]) + 1
      BY <1>a, <3>a
    <3> QED  BY <1>a, <2>4, <2>5, <3>1, <3>2 DEF PackageOf
  <2>7. Listed(closed'[e]) = Listed(closed[e]) \o a.files
    BY <1>a, <2>1, ListedAppend
  <2>8. SubSeq(c, 1, first[e] - 1) \o SubSeq(c, (first[e] - 1) + 1, next[e] - 1) = SubSeq(c, 1, next[e] - 1)
    <3>1. /\ 1 \in 1..Len(c) + 1 /\ first[e] - 1 \in 1 - 1..Len(c) /\ next[e] - 1 \in first[e] - 1..Len(c) /\ c \in Seq(Entries)
      BY <1>a
    <3> QED  BY <3>1, ConcatAdjacentSubSeq
  <2>9. Listed(closed'[e]) = SubSeq(c, 1, next[e] - 1)
    <3>1. (first[e] - 1) + 1 = first[e]
      BY <1>a
    <3>2. Listed(closed[e]) = SubSeq(c, 1, first[e] - 1)
      BY <2>2 DEF PackageOf
    <3>3. a.files = SubSeq(c, first[e], next[e] - 1)
      BY <2>3 DEF InArchive
    <3> QED  BY <2>7, <2>8, <3>1, <3>2, <3>3
  <2> QED  BY <2>1, <2>2, <2>6, <2>9 DEF PackageOf, Listed, Matches
<1>7. CASE WriteManifest(e)
  <2>1. pc[e] = "manifest" /\ pc'[e] = "record" /\ UNCHANGED localVars
    BY <1>7, ManifestDoes
  <2>2. Start(e)' = Start(e) /\ pc'[e] \notin Packing /\ collected' = collected /\ closed' = closed
    BY <2>1 DEF Start, Packing, localVars
  <2> QED  BY <2>2 DEF PackageOf, Listed, Matches
<1>8. CASE RecordTransfer(e) \/ Abort(e)
  BY <1>8, EndDoes, PackageCleared
<1> QED  BY <1>1, <1>2, <1>3, <1>4, <1>5, <1>6, <1>7, <1>8 DEF ExportStep

LEMMA PackageStep == ExportInv /\ PackageInv /\ [Next]_vars => PackageInv'
<1> SUFFICES ASSUME ExportInv, PackageInv, [Next]_vars PROVE PackageInv'
  OBVIOUS
<1>0. (\A x \in Exports : PackageOf(x)) /\ ManifestWhole
  BY DEF PackageInv
<1>a. manifest' = manifest => ManifestWhole'
  BY <1>0 DEF ManifestWhole
<1>b. UNCHANGED <<localVars, dir, pc, unlisted>> => \A x \in Exports : PackageOf(x)'
  <2> SUFFICES ASSUME UNCHANGED <<localVars, dir, pc, unlisted>>, NEW x \in Exports PROVE PackageOf(x)'
    OBVIOUS
  <2>1. Same(x) /\ pc'[x] = pc[x] /\ dir'[Current(x)] = dir[Current(x)]
    BY DEF localVars, Same
  <2> QED  BY <1>0, <2>1, PackageRests
<1>1. ASSUME NEW e \in Exports, ExportStep(e) PROVE PackageInv'
  <2>1. PackageOf(e)'
    BY <1>0, <1>1, PackageStepOwn
  <2>2. ASSUME NEW x \in Exports \ {e} PROVE PackageOf(x)'
    <3>1. Same(x) /\ pc'[x] = pc[x]
      BY <1>1, StepRests
    <3>2. pc[x] \in Packing => dir'[Current(x)] = dir[Current(x)] \/ dir'[Current(x)].mixed
      BY <1>0, <1>1, OthersMix DEF PackageOf
    <3> QED  BY <1>0, <3>1, <3>2, PackageRests
  <2>3. ManifestWhole'
    <3>1. CASE WriteManifest(e)
      <4>1. manifest' = [archives |-> closed[e], inventory |-> collected[e]] /\ pc[e] = "manifest"
        BY <3>1, ManifestDoes
      <4>2. manifest'.archives = closed[e] /\ manifest'.inventory = collected[e]
        BY <4>1
      <4>3. next[e] = Len(collected[e]) + 1 /\ Start(e) = next[e]
        BY <4>1 DEF ExportInv, Progress, ProgressOf, Start, Packing
      <4>4. Start(e) - 1 = Len(collected[e]) /\ collected[e] \in Seq(Entries)
        BY <4>3, AtExport
      <4>5. Listed(closed[e]) = collected[e]
        BY <1>0, <4>4, SubSeqFull DEF PackageOf
      <4>6. \A i \in DOMAIN closed[e] : Matches(closed[e][i].files, closed[e][i].hash)
        BY <1>0 DEF PackageOf
      <4> QED  BY <4>2, <4>5, <4>6 DEF ManifestWhole, Matches, Listed
    <3>2. CASE ~WriteManifest(e)
      <4>1. manifest' = manifest
        BY <1>1, <3>2 DEF ExportStep, Collect, Collected, Open, Pack, EndArchive, HashArchive, RecordTransfer, Abort, mediumVars
      <4> QED  BY <1>a, <4>1
    <3> QED  BY <3>1, <3>2
  <2> QED  BY <2>1, <2>2, <2>3 DEF PackageInv
<1>2. CASE (\E f \in Files : FileStep(f)) \/ (\E p \in Providers : Scan(p))
  <2>1. UNCHANGED <<localVars, mediumVars, pc, unlisted>>
    BY <1>2, ChangeKeeps
  <2> QED  BY <1>a, <1>b, <2>1 DEF PackageInv, mediumVars
<1>3. CASE Crash
  <2>1. UNCHANGED mediumVars /\ \A x \in Exports : Cleared(x) /\ pc'[x] \in {"new", "failed", "completed"}
    BY <1>3, CrashClears
  <2> QED  BY <1>a, <2>1, PackageCleared DEF PackageInv, mediumVars
<1>4. CASE UNCHANGED vars
  <2>1. UNCHANGED <<localVars, mediumVars, pc, unlisted>>
    BY <1>4 DEF vars, historyVars
  <2> QED  BY <1>a, <1>b, <2>1 DEF PackageInv, mediumVars
<1> QED  BY <1>1, <1>2, <1>3, <1>4 DEF Next, AllEnded

\* Through any interleaving of exports, crashes and changes, an archive that
\* one export alone has written holds what that export lists of it, and the
\* manifest's archives list its inventory.
THEOREM ExportPackageInvariant == Spec => []PackageInv
<1> QED  BY PackageInit, PackageStep, ExportInvariant, PTL DEF Spec

\* A directory whose archives have the checksums of its manifest holds the
\* files of its inventory, each once and in order, unless two exports wrote
\* into one archive file.
THEOREM ExportValidatedIsWhole == Spec => []ValidatedIsWhole
<1>1. ExportInv /\ PackageInv => ValidatedIsWhole
  <2> SUFFICES ASSUME ExportInv, PackageInv, Validates, \A i \in DOMAIN manifest.archives : ~dir[i].mixed
               PROVE  LET archives == manifest.archives
                          packed == FlattenSeq([i \in DOMAIN archives |-> dir[i].files])
                          listed == FlattenSeq([i \in DOMAIN archives |-> archives[i].files])
                      IN /\ listed = manifest.inventory
                         /\ [i \in DOMAIN packed |-> packed[i].key] = [i \in DOMAIN listed |-> listed[i].key]
    BY DEF ValidatedIsWhole
  <2> DEFINE archives == manifest.archives
             n == Len(archives)
             s == [i \in DOMAIN archives |-> dir[i].files]
             t == [i \in DOMAIN archives |-> archives[i].files]
  <2>1. archives \in Seq(ClosedArchives)
    BY TypesAreAll DEF ExportInv, MediumTypes
  <2>2. Listed(archives) = manifest.inventory /\ \A i \in DOMAIN archives : Matches(archives[i].files, archives[i].hash)
    BY DEF PackageInv, ManifestWhole
  <2>3. \A i \in DOMAIN archives : archives[i].hash = dir[i] /\ ~dir[i].mixed
    BY DEF Validates
  <2> HIDE DEF archives
  <2>4. n \in Nat /\ DOMAIN archives = 1..n /\ \A i \in 1..n : archives[i] \in ClosedArchives
    BY <2>1, ElementOfSeq
  <2>5. \A i \in 1..n : archives[i].files \in Seq(Entries) /\ dir[i].files \in Seq(Packed)
    <3>1. \A a \in ClosedArchives : a.files \in Seq(Entries) /\ a.hash.files \in Seq(Packed)
      BY DEF ClosedArchives, ArchiveFiles
    <3>2. \A i \in 1..n : archives[i].files \in Seq(Entries) /\ archives[i].hash.files \in Seq(Packed)
      BY <2>4, <3>1
    <3> QED  BY <2>3, <2>4, <3>2
  <2>6. \A i \in 1..n : Keyed(dir[i].files) = Keyed(archives[i].files)
    BY <2>2, <2>3, <2>4 DEF Matches
  <2>7. /\ s \in Seq(Seq(Packed)) /\ t \in Seq(Seq(Entries)) /\ Len(s) = n /\ Len(t) = n
        /\ \A i \in 1..n : s[i] = dir[i].files /\ t[i] = archives[i].files
    BY <2>4, <2>5
  <2> HIDE DEF s, t, n
  <2>8. \A i \in 1..Len(s) : Keyed(s[i]) = Keyed(t[i])
    BY <2>6, <2>7
  <2>9. Keyed(FlattenSeq(s)) = Keyed(FlattenSeq(t))
    <3>1. s \in Seq(Seq(Packed)) /\ t \in Seq(Seq(Entries)) /\ KeyedAlike(s, t)
      BY <2>7, <2>8 DEF KeyedAlike
    <3> QED  BY <3>1, KeyedFlatten
  <2>10. FlattenSeq(t) = manifest.inventory
    BY <2>2 DEF Listed, t
  <2> QED  BY <2>9, <2>10 DEF Keyed, s, t, archives
<1> QED  BY <1>1, ExportInvariant, ExportPackageInvariant, PTL

-----------------------------------------------------------------------------
(* How the files are split *)

\* One more file either fits beside the others or comes to an archive that
\* has nothing in it yet but empty files.
LEMMA OneMoreFits ==
  ASSUME ExportInv, NEW s \in Seq(Entries), NEW x \in Entries, Fits(s),
         ~(TotalSize(s) > 0 /\ TotalSize(s) + EntrySize(x) > SplitSize)
  PROVE  Fits(s \o <<x>>) /\ TotalSize(s \o <<x>>) = TotalSize(s) + EntrySize(x)
<1> DEFINE t == s \o <<x>>
           n == Len(s)
           a == TotalSize(s)
           b == EntrySize(x)
<1>1. outputDir \in Layouts
  BY TypesAreAll DEF ExportInv, FileTypes
<1>2. t = Append(s, x)
  BY AppendIsConcat
<1>3. /\ t \in Seq(Entries) /\ Len(t) = n + 1 /\ n \in Nat /\ t[n + 1] = x /\ \A i \in 1..n : t[i] = s[i]
      /\ DOMAIN s = 1..n /\ DOMAIN t = 1..(n + 1)
  BY <1>2, AppendProperties
<1>4. TotalSize(t) = a + b
  BY <1>1, <1>2, TotalAppend
<1>5. a \in Nat /\ b \in Nat /\ SplitSize \in Nat \ {0}
  BY <1>1, TotalType, EntriesType, SizeAssumption
<1>6. ~(a > 0 /\ a + b > SplitSize)
  OBVIOUS
<1>7. (a = 0 => Sized(s) = {}) /\ (a > SplitSize => Cardinality(Sized(s)) = 1)
  BY DEF Fits
<1>8. Sized(s) \subseteq Sized(t) /\ Sized(t) \subseteq Sized(s) \cup {n + 1} /\ (b > 0 <=> n + 1 \in Sized(t))
  <2>1. \A i \in 1..(n + 1) : i \in 1..n \/ i = n + 1
    BY <1>3
  <2>2. \A i \in 1..n : i \in 1..(n + 1) /\ n + 1 \in 1..(n + 1)
    BY <1>3
  <2>3. n + 1 \in 1..(n + 1)
    BY <1>3
  <2>4. Sized(s) \subseteq Sized(t)
    BY <1>3, <2>2 DEF Sized
  <2>5. Sized(t) \subseteq Sized(s) \cup {n + 1}
    BY <1>3, <2>1 DEF Sized
  <2>6. b > 0 <=> n + 1 \in Sized(t)
    BY <1>3, <2>3 DEF Sized
  <2> QED  BY <2>4, <2>5, <2>6
<1> HIDE DEF a, b, t, n
<1>9. a + b = 0 => Sized(t) = {}
  BY <1>5, <1>7, <1>8
<1>10. ASSUME a + b > SplitSize PROVE Cardinality(Sized(t)) = 1
  <2>1. a = 0 /\ b > 0
    BY <1>5, <1>6, <1>10
  <2>2. Sized(t) = {n + 1}
    BY <1>7, <1>8, <2>1
  <2> QED  BY <2>2, FS_Singleton
<1>11. Fits(t)
  BY <1>4, <1>9, <1>10 DEF Fits
<1> QED  BY <1>4, <1>11 DEF t, a, b

LEMMA NothingFits == ExportInv => Fits(<<>>)
<1> SUFFICES ASSUME ExportInv PROVE Fits(<<>>)
  OBVIOUS
<1>1. TotalSize(<<>>) = 0
  BY TotalEmpty, TypesAreAll DEF ExportInv, FileTypes
<1>2. Sized(<<>>) = {}
  BY DEF Sized
<1> QED  BY <1>1, <1>2, SizeAssumption DEF Fits

LEMMA SplitRests ==
  ASSUME NEW x \in Exports, Same(x), pc'[x] = pc[x], SplitOf(x)
  PROVE  SplitOf(x)'
<1>1. collected'[x] = collected[x] /\ first'[x] = first[x] /\ next'[x] = next[x] /\ closed'[x] = closed[x]
  BY DEF Same
<1>2. InArchive(x)' = InArchive(x) /\ Start(x)' = Start(x) /\ CurrentSize(x)' = CurrentSize(x)
  BY <1>1 DEF InArchive, Start, CurrentSize
<1>3. Full(x)' <=> Full(x)
  BY <1>1, <1>2 DEF Full
<1> QED  BY <1>1, <1>2, <1>3 DEF SplitOf, SplitClosed, Fits, LeavesOut

LEMMA SplitFresh ==
  ASSUME NEW x \in Exports, closed'[x] = <<>>, pc'[x] \notin Packing
  PROVE  SplitOf(x)'
<1>1. DOMAIN <<>> = {} /\ pc'[x] # "close"
  BY DEF Packing
<1> QED  BY <1>1 DEF SplitOf, SplitClosed

LEMMA SplitStepOwn ==
  ASSUME ExportInv, NEW e \in Exports, SplitOf(e), ExportStep(e)
  PROVE  SplitOf(e)'
<1>0. ProgressOf(e)
  BY DEF ExportInv, Progress
<1>a. /\ collected[e] \in Seq(Entries) /\ Len(collected[e]) \in Nat
      /\ first[e] \in Nat /\ next[e] \in Nat /\ first[e] >= 1 /\ first[e] <= next[e] /\ next[e] <= Len(collected[e]) + 1
      /\ closed[e] \in Seq(ClosedArchives) /\ Len(closed[e]) \in Nat /\ DOMAIN closed[e] = 1..Len(closed[e])
      /\ InArchive(e) \in Seq(Entries)
  BY AtExport
<1>1. CASE Collect(e)
  <2>1. pc[e] \in {"new", "collect"} /\ pc'[e] = "collect" /\ closed'[e] = closed[e]
    BY <1>1, CollectDoes
  <2>2. closed[e] = <<>> /\ pc'[e] \notin Packing
    BY <1>0, <2>1 DEF ProgressOf, Going, Packing
  <2> QED  BY <2>1, <2>2, SplitFresh
<1>2. CASE Collected(e)
  <2>1. /\ pc[e] = "collect"
        /\ \/ Cleared(e) /\ pc'[e] = "failed"
           \/ Same(e) /\ pc'[e] = "open"
    BY <1>2, CollectedDoes
  <2>2. closed'[e] = <<>> /\ pc'[e] \notin Packing
    BY <1>0, <2>1 DEF ProgressOf, Going, Packing, Cleared, Same
  <2> QED  BY <2>2, SplitFresh
<1>3. CASE Open(e)
  <2>1. /\ pc[e] = "open" /\ pc'[e] = "pack" /\ first'[e] = next[e] /\ next' = next
        /\ collected' = collected /\ closed' = closed
    BY <1>3, OpenDoes
  <2>2. InArchive(e)' = <<>>
    <3>1. SubSeq(collected[e], next[e], next[e] - 1) = <<>>
      BY <1>a, SubSeqEmpty
    <3> QED  BY <2>1, <3>1 DEF InArchive
  <2>3. Start(e)' = next[e] /\ Start(e) = next[e]
    BY <2>1 DEF Start, Packing
  <2>4. Fits(InArchive(e)')
    BY <2>2, NothingFits
  <2>5. (Fits(InArchive(e)))'
    BY <2>2, <2>4, StepRests, <1>3 DEF Fits, Sized, ExportStep, TotalSize, EntrySize
  <2>6. pc'[e] # "close"
    BY <2>1
  <2> QED  BY <2>1, <2>3, <2>5, <2>6 DEF SplitOf, SplitClosed, LeavesOut, Fits
<1>4. CASE Pack(e)
  <2>1. /\ pc[e] = "pack" /\ pc' = pc /\ next[e] <= Len(collected[e]) /\ ~Full(e)
        /\ collected' = collected /\ first' = first /\ closed' = closed
    BY <1>4, PackDoes
  <2>2. Start(e)' = Start(e) /\ pc[e] \in Packing /\ pc'[e] # "close"
    BY <2>1 DEF Start, Packing
  <2> DEFINE x == collected[e][next[e]]
  <2>3. x \in Entries
    BY <1>a, <2>1, AtExport
  <2>4. ~(TotalSize(InArchive(e)) > 0 /\ TotalSize(InArchive(e)) + EntrySize(x) > SplitSize)
    BY <2>1 DEF Full, CurrentSize
  <2> HIDE DEF x
  <2>5. Fits(InArchive(e) \o <<x>>)
    BY <1>a, <2>2, <2>3, <2>4, OneMoreFits DEF SplitOf
  <2>6. Fits(InArchive(e)')
    BY <1>4, <2>5, PackGrows DEF x
  <2> QED  BY <2>1, <2>2, <2>6 DEF SplitOf, SplitClosed, LeavesOut, Fits
<1>5. CASE EndArchive(e)
  <2>1. /\ pc[e] = "pack" /\ pc'[e] = "close" /\ (next[e] > Len(collected[e]) \/ Full(e)) /\ UNCHANGED localVars
    BY <1>5, EndArchiveDoes
  <2>2. /\ Start(e)' = Start(e) /\ InArchive(e)' = InArchive(e) /\ pc[e] \in Packing
        /\ collected' = collected /\ closed' = closed /\ next' = next /\ CurrentSize(e)' = CurrentSize(e)
    BY <2>1 DEF Start, Packing, localVars, InArchive, CurrentSize
  <2>3. Full(e)' <=> Full(e)
    BY <2>2 DEF Full
  <2> QED  BY <2>1, <2>2, <2>3 DEF SplitOf, SplitClosed, LeavesOut, Fits
<1>6. CASE HashArchive(e)
  <2> DEFINE a == [files |-> InArchive(e), hash |-> dir[Current(e)]]
             n == Len(closed[e])
  <2>1. /\ pc[e] = "close" /\ pc'[e] = IF next[e] <= Len(collected[e]) THEN "open" ELSE "manifest"
        /\ closed'[e] = Append(closed[e], a) /\ a \in ClosedArchives
        /\ UNCHANGED <<collected, asked, first, next>>
    BY <1>6, HashDoes
  <2>2. a.files = InArchive(e)
    OBVIOUS
  <2> HIDE DEF a
  <2>3. /\ closed'[e] \in Seq(ClosedArchives) /\ Len(closed'[e]) = n + 1 /\ n \in Nat
        /\ closed'[e][n + 1] = a /\ \A i \in 1..n : closed'[e][i] = closed[e][i]
    BY <1>a, <2>1, AppendProperties
  <2>4. pc[e] \in Packing /\ Start(e) = first[e] /\ Start(e)' = next[e] /\ pc'[e] \notin Packing /\ pc'[e] # "close"
    BY <2>1 DEF Start, Packing
  <2>5. first[e] < next[e]
    BY <1>0, <2>1 DEF ProgressOf
  <2>6. a.files # <<>> /\ Fits(a.files) /\ a.files[1] = collected[e][first[e]]
    <3>1. Len(InArchive(e)) = next[e] - first[e] /\ 1 \in 1..(next[e] - first[e])
      BY <1>a, <2>5, AtExport
    <3>2. InArchive(e)[1] = collected[e][first[e] + 1 - 1]
      BY <3>1, AtExport
    <3>3. first[e] + 1 - 1 = first[e]
      BY <1>a
    <3>4. InArchive(e) # <<>>
      BY <1>a, <2>5, <3>1
    <3> QED  BY <2>2, <2>4, <3>2, <3>3, <3>4 DEF SplitOf
  <2>7. closed[e] # <<>> => LeavesOut(closed[e][n].files, a.files[1])
    BY <2>4, <2>6 DEF SplitOf
  <2>8. ASSUME NEW i \in 1..(n + 1)
        PROVE  /\ closed'[e][i].files # <<>> /\ Fits(closed'[e][i].files)
               /\ i > 1 => LeavesOut(closed'[e][i - 1].files, closed'[e][i].files[1])
    <3>1. CASE i \in 1..n
      <4>1. i > 1 => i - 1 \in 1..n
        BY <2>3
      <4> QED  BY <1>a, <2>3, <3>1, <4>1 DEF SplitOf, SplitClosed
    <3>2. CASE i = n + 1
      <4>1. i > 1 => i - 1 = n /\ n \in 1..n /\ closed[e] # <<>>
        <5>1. i > 1 => i - 1 = n /\ n \in 1..n /\ n # 0
          BY <2>3, <3>2
        <5>2. closed[e] = <<>> => n = 0
          OBVIOUS
        <5> QED  BY <5>1, <5>2
      <4>2. i > 1 => closed'[e][i - 1] = closed[e][n]
        BY <2>3, <4>1
      <4> QED  BY <2>3, <2>6, <2>7, <3>2, <4>1, <4>2
    <3> QED  BY <2>3, <3>1, <3>2
  <2>9. DOMAIN closed'[e] = 1..(n + 1)
    BY <2>3
  <2>10. pc'[e] = "open" => LeavesOut(a.files, collected[e][next[e]])
    <3> SUFFICES ASSUME pc'[e] = "open" PROVE LeavesOut(a.files, collected[e][next[e]])
      OBVIOUS
    <3>1. next[e] <= Len(collected[e])
      BY <2>1
    <3>2. Full(e)
      BY <1>a, <2>1, <3>1 DEF SplitOf
    <3> QED  BY <2>2, <3>2 DEF Full, CurrentSize, LeavesOut
  <2>11. pc'[e] = "open" => LeavesOut(closed'[e][Len(closed'[e])].files, collected'[e][Start(e)'])
    BY <2>1, <2>3, <2>4, <2>10
  <2> HIDE DEF n
  <2> QED  BY <2>4, <2>8, <2>9, <2>11 DEF SplitOf, SplitClosed, LeavesOut, Fits
<1>7. CASE WriteManifest(e)
  <2>1. pc[e] = "manifest" /\ pc'[e] = "record" /\ UNCHANGED localVars
    BY <1>7, ManifestDoes
  <2> QED  BY <2>1 DEF SplitOf, SplitClosed, Packing, localVars, Fits, LeavesOut
<1>8. CASE RecordTransfer(e) \/ Abort(e)
  <2>1. pc'[e] \in {"failed", "completed"} /\ closed'[e] = <<>>
    BY <1>8, EndDoes DEF Cleared
  <2> QED  BY <2>1, SplitFresh DEF Packing
<1> QED  BY <1>1, <1>2, <1>3, <1>4, <1>5, <1>6, <1>7, <1>8 DEF ExportStep

LEMMA SplitStep == ExportInv /\ SplitInv /\ [Next]_vars => SplitInv'
<1> SUFFICES ASSUME ExportInv, SplitInv, [Next]_vars PROVE SplitInv'
  OBVIOUS
<1>1. ASSUME NEW e \in Exports, ExportStep(e) PROVE SplitInv'
  <2>1. SplitOf(e)'
    BY <1>1, SplitStepOwn DEF SplitInv
  <2>2. \A x \in Exports \ {e} : SplitOf(x)'
    BY <1>1, StepRests, SplitRests DEF SplitInv
  <2> QED  BY <2>1, <2>2 DEF SplitInv
<1>2. CASE UNCHANGED <<localVars, pc, unlisted>>
  <2>1. \A x \in Exports : Same(x) /\ pc'[x] = pc[x]
    BY <1>2 DEF localVars, Same
  <2> QED  BY <2>1, SplitRests DEF SplitInv
<1>3. CASE (\E f \in Files : FileStep(f)) \/ (\E p \in Providers : Scan(p))
  BY <1>2, <1>3, ChangeKeeps
<1>4. CASE Crash
  <2>1. \A x \in Exports : closed'[x] = <<>> /\ pc'[x] \notin Packing
    BY <1>4, CrashClears DEF Cleared, Packing
  <2> QED  BY <2>1, SplitFresh DEF SplitInv
<1>5. CASE UNCHANGED vars
  BY <1>2, <1>5 DEF vars, historyVars
<1> QED  BY <1>1, <1>3, <1>4, <1>5 DEF Next, AllEnded

\* No archive is larger than the split size but for one file that is so alone,
\* and no archive was rolled before it had to be.
THEOREM ExportSplitRespected == Spec => []SplitRespected
<1>1. Init => SplitInv
  <2> SUFFICES ASSUME Init, NEW e \in Exports PROVE SplitOf(e)
    BY DEF SplitInv
  <2>1. pc[e] = "new" /\ closed[e] = <<>> /\ DOMAIN <<>> = {}
    BY DEF Init
  <2> QED  BY <2>1 DEF SplitOf, SplitClosed, Packing
<1>2. SplitInv => SplitRespected
  <2> SUFFICES ASSUME SplitInv, NEW e \in Exports, NEW i \in DOMAIN closed[e]
               PROVE  LET files == closed[e][i].files
                          sized == {j \in DOMAIN files : EntrySize(files[j]) > 0}
                      IN /\ files # <<>>
                         /\ TotalSize(files) > SplitSize => Cardinality(sized) = 1
                         /\ i > 1 => TotalSize(closed[e][i - 1].files) + EntrySize(files[1]) > SplitSize
    BY DEF SplitRespected
  <2> QED  BY DEF SplitInv, SplitOf, SplitClosed, Fits, Sized, LeavesOut
<1> QED  BY <1>1, <1>2, SplitStep, ExportInvariant, PTL DEF Spec

-----------------------------------------------------------------------------
(* What becomes of the files that are in place *)

\* A file in place is recorded as it is, whatever syncs, scans and crashes do.
LEMMA FilesSettledInit == Init => FilesSettled
<1> SUFFICES ASSUME Init, NEW f \in Files
             PROVE  (sync[f] = "writing" => f \in partial) /\ (InPlace(f) => rows[SyncKey(f)] = content[f])
  BY DEF FilesSettled
<1>1. outputDir \in Layouts /\ sync[f] = "idle"
  BY DEF Init
<1>2. PICK synced \in SUBSET {g \in Files : UnderRoot(g)} :
        /\ content = [g \in Files |-> IF g \in synced THEN upstream[g] ELSE 0]
        /\ rows = [k \in Keys |-> IF \E g \in synced : k = SyncKey(g) THEN upstream[FileOf(k)] ELSE 0]
  BY DEF Init
<1>3. SyncKey(f) \in Keys /\ FileOf(SyncKey(f)) = f
  BY <1>1, KeyFacts
<1>4. content[f] # 0 => rows[SyncKey(f)] = content[f]
  BY <1>2, <1>3
<1> QED  BY <1>1, <1>4 DEF InPlace

LEMMA FilesSettledStep == ExportInv /\ FilesSettled /\ [Next]_vars => FilesSettled'
<1> SUFFICES ASSUME ExportInv, FilesSettled, [Next]_vars PROVE FilesSettled'
  OBVIOUS
<1>0. FileTypes
  BY TypesAreAll DEF ExportInv
<1>a. \A f \in Files : (sync[f] = "writing" => f \in partial) /\ (InPlace(f) => rows[SyncKey(f)] = content[f])
  BY DEF FilesSettled
<1>b. /\ \A f \in Files : SyncKey(f) \in Keys /\ FileOf(SyncKey(f)) = f
      /\ \A f, g \in Files : SyncKey(f) = SyncKey(g) => f = g
  BY <1>0, KeyFacts DEF FileTypes
<1>1. ASSUME UNCHANGED <<fileVars, unrecorded>> PROVE FilesSettled'
  BY <1>1 DEF FilesSettled, InPlace, fileVars
<1>2. ASSUME NEW e \in Exports, ExportStep(e) PROVE FilesSettled'
  BY <1>1, <1>2, StepRests
<1>3. ASSUME NEW f \in Files, UpstreamMoves(f) PROVE FilesSettled'
  <2>1. UNCHANGED <<content, partial, sync, rows, unrecorded, outputDir>>
    BY <1>3 DEF UpstreamMoves, Untouched
  <2> QED  BY <2>1 DEF FilesSettled, InPlace
<1>4. ASSUME NEW f \in Files, Download(f) PROVE FilesSettled'
  <2>1. /\ sync' = [sync EXCEPT ![f] = "writing"] /\ content' = [content EXCEPT ![f] = upstream[f]]
        /\ partial' = partial \cup {f} /\ UNCHANGED <<rows, unrecorded, outputDir>>
    BY <1>4 DEF Download, Untouched
  <2>2. f \in partial'
    BY <2>1
  <2>3. \A g \in Files \ {f} : sync'[g] = sync[g] /\ content'[g] = content[g] /\ (g \in partial' <=> g \in partial)
    BY <1>0, <2>1 DEF FileTypes
  <2> QED  BY <1>a, <2>1, <2>2, <2>3 DEF FilesSettled, InPlace
<1>5. ASSUME NEW f \in Files, EndDownload(f) PROVE FilesSettled'
  <2>1. /\ UNCHANGED <<rows, unrecorded, outputDir>> /\ f \in partial
        /\ \/ partial' = partial \ {f} /\ sync' = [sync EXCEPT ![f] = "written"] /\ content' = content
           \/ sync' = [sync EXCEPT ![f] = "idle"] /\ content' = content /\ partial' = partial
           \/ /\ content' = [content EXCEPT ![f] = 0] /\ partial' = partial \ {f}
              /\ sync' = [sync EXCEPT ![f] = "idle"]
    BY <1>5, <1>a DEF EndDownload, Untouched
  <2>2. \A g \in Files \ {f} : sync'[g] = sync[g] /\ content'[g] = content[g] /\ (g \in partial' <=> g \in partial)
    BY <1>0, <2>1 DEF FileTypes
  <2>3. sync'[f] \in {"idle", "written"} /\ (f \in partial' \/ content'[f] = 0 \/ sync'[f] = "written")
    BY <1>0, <2>1 DEF FileTypes
  <2> QED  BY <1>a, <2>1, <2>2, <2>3 DEF FilesSettled, InPlace
<1>6. ASSUME NEW f \in Files, Record(f) PROVE FilesSettled'
  <2>1. /\ UNCHANGED <<content, partial, outputDir>> /\ sync' = [sync EXCEPT ![f] = "idle"]
        /\ \/ rows' = [rows EXCEPT ![SyncKey(f)] = content[f]] /\ unrecorded' = unrecorded \ {f}
           \/ unrecorded' = unrecorded \cup {f} /\ rows' = rows
    BY <1>6 DEF Record, Untouched
  <2>2. \A g \in Files \ {f} : sync'[g] = sync[g] /\ rows'[SyncKey(g)] = rows[SyncKey(g)] /\ (g \in unrecorded' <=> g \in unrecorded)
    BY <1>0, <1>b, <2>1 DEF FileTypes
  <2>3. sync'[f] = "idle" /\ (rows'[SyncKey(f)] = content[f] \/ f \in unrecorded')
    BY <1>0, <1>b, <2>1 DEF FileTypes
  <2> QED  BY <1>a, <2>1, <2>2, <2>3 DEF FilesSettled, InPlace
<1>7. ASSUME NEW p \in Providers, Scan(p) PROVE FilesSettled'
  <2> DEFINE met == {f \in Scanned(p) : content[f] # 0}
  <2>1. /\ UNCHANGED <<content, partial, sync, unrecorded, outputDir>>
        /\ rows' = [k \in Keys |-> IF \E f \in met : k = ScanKey(p, f) THEN content[FileOf(k)] ELSE rows[k]]
    BY <1>7 DEF Scan, Untouched
  <2> HIDE DEF met
  <2>2. \A f \in Files : rows'[SyncKey(f)] = content[f] \/ rows'[SyncKey(f)] = rows[SyncKey(f)]
    BY <1>b, <2>1
  <2> QED  BY <1>a, <2>1, <2>2 DEF FilesSettled, InPlace
<1>8. CASE Crash
  <2>1. /\ sync' = [f \in Files |-> "idle"] /\ UNCHANGED <<outputDir, content, partial, rows>>
        /\ unrecorded' = unrecorded \cup {f \in Files : sync[f] = "written"}
    BY <1>8 DEF Crash
  <2>2. ASSUME NEW f \in Files, InPlace(f)' PROVE InPlace(f)
    <3>1. f \notin partial /\ f \notin unrecorded /\ sync[f] # "written" /\ content[f] # 0 /\ outputDir[f] = <<Owner[f]>>
      BY <2>1, <2>2 DEF InPlace
    <3>2. sync[f] = "idle"
      BY <1>0, <1>a, <3>1 DEF FileTypes
    <3> QED  BY <3>1, <3>2 DEF InPlace
  <2> QED  BY <1>a, <2>1, <2>2 DEF FilesSettled
<1>9. CASE UNCHANGED vars
  BY <1>1, <1>9 DEF vars, historyVars
<1> QED  BY <1>2, <1>3, <1>4, <1>5, <1>6, <1>7, <1>8, <1>9 DEF Next, AllEnded, FileStep

\* What is undisturbed after a sync's or a scan's step was so before it.
LEMMA ChangeDisturbs ==
  ASSUME ExportInv, (\E g \in Files : FileStep(g)) \/ (\E p \in Providers : Scan(p)),
         NEW e \in Exports, pc[e] \in Running, NEW f \in Files, Undisturbed(e, f)'
  PROVE  Undisturbed(e, f) /\ content'[f] = content[f]
<1>0. FileTypes /\ HistoryTypes /\ UNCHANGED <<unlisted, outputDir>>
  BY TypesAreAll, ChangeKeeps DEF ExportInv
<1>a. /\ content'[f] # 0 /\ f \notin partial' /\ sync'[f] = "idle" /\ f \notin unrecorded' /\ outputDir'[f] = <<Owner[f]>>
      /\ f \notin disturbed'[e] /\ Owner[f] \notin unlisted'[e]
  BY DEF Undisturbed, InPlace
<1>b. ASSUME NEW fs, Disturb(fs) PROVE f \notin fs /\ f \notin disturbed[e]
  BY <1>a, <1>b DEF Disturb
<1>c. ASSUME content'[f] = content[f], f \in partial => f \in partial', sync'[f] = sync[f],
             f \in unrecorded => f \in unrecorded', f \notin disturbed[e]
      PROVE  Undisturbed(e, f) /\ content'[f] = content[f]
  BY <1>0, <1>a, <1>c DEF Undisturbed, InPlace
<1>1. ASSUME NEW g \in Files, UpstreamMoves(g) PROVE Undisturbed(e, f) /\ content'[f] = content[f]
  <2>1. UNCHANGED <<content, partial, sync, disturbed, unrecorded>>
    BY <1>1 DEF UpstreamMoves
  <2> QED  BY <1>a, <1>c, <2>1
<1>2. ASSUME NEW g \in Files, Download(g) PROVE Undisturbed(e, f) /\ content'[f] = content[f]
  <2>1. f # g /\ f \notin disturbed[e]
    BY <1>2, <1>b DEF Download
  <2>2. content'[f] = content[f] /\ partial' = partial \cup {g} /\ sync'[f] = sync[f] /\ unrecorded' = unrecorded
    BY <1>0, <1>2, <2>1 DEF Download, FileTypes
  <2> QED  BY <1>c, <2>1, <2>2
<1>3. ASSUME NEW g \in Files, EndDownload(g) PROVE Undisturbed(e, f) /\ content'[f] = content[f]
  <2>1. f # g /\ f \notin disturbed[e]
    BY <1>3, <1>b DEF EndDownload
  <2>2. content'[f] = content[f] /\ (f \in partial => f \in partial') /\ sync'[f] = sync[f] /\ unrecorded' = unrecorded
    BY <1>0, <1>3, <2>1 DEF EndDownload, FileTypes
  <2> QED  BY <1>c, <2>1, <2>2
<1>4. ASSUME NEW g \in Files, Record(g) PROVE Undisturbed(e, f) /\ content'[f] = content[f]
  <2>1. f # g /\ f \notin disturbed[e]
    BY <1>4, <1>b DEF Record
  <2>2. content' = content /\ partial' = partial /\ sync'[f] = sync[f] /\ (f \in unrecorded => f \in unrecorded')
    BY <1>0, <1>4, <2>1 DEF Record, FileTypes
  <2> QED  BY <1>c, <2>1, <2>2
<1>5. ASSUME NEW p \in Providers, Scan(p) PROVE Undisturbed(e, f) /\ content'[f] = content[f]
  <2>1. f \notin disturbed[e]
    BY <1>5, <1>b DEF Scan
  <2>2. UNCHANGED <<content, partial, sync, unrecorded>>
    BY <1>5 DEF Scan
  <2> QED  BY <1>c, <2>1, <2>2
<1> QED  BY <1>1, <1>2, <1>3, <1>4, <1>5 DEF FileStep

-----------------------------------------------------------------------------
(* What an export has of the files in place *)

\* What is known of an export stays if it is where it was, and no file has
\* become undisturbed or changed while it was.
LEMMA CompleteRests ==
  ASSUME NEW x \in Exports, Same(x), pc'[x] = pc[x], CompleteOf(x),
         \A f \in Files : pc[x] \in Running /\ Undisturbed(x, f)' => Undisturbed(x, f) /\ content'[f] = content[f],
         pc[x] \in Packing => dir'[Current(x)] = dir[Current(x)] \/ dir'[Current(x)].mixed
  PROVE  CompleteOf(x)'
<1> SUFFICES ASSUME pc[x] \in Running PROVE (CollectedOf(x) /\ PackedOf(x) /\ CoveredOf(x))'
  BY DEF CompleteOf
<1>1. /\ collected'[x] = collected[x] /\ asked'[x] = asked[x] /\ first'[x] = first[x]
      /\ next'[x] = next[x] /\ closed'[x] = closed[x]
  BY DEF Same
<1>2. Current(x)' = Current(x) /\ InArchive(x)' = InArchive(x) /\ Start(x)' = Start(x)
  BY <1>1 DEF Current, InArchive, Start
<1>3. CollectedOf(x) /\ PackedOf(x) /\ CoveredOf(x)
  BY DEF CompleteOf
<1>4. \A f \in Files : Undisturbed(x, f)' =>
         Undisturbed(x, f) /\ Entry(f)' = Entry(f) /\ WholeEntry(f)' = WholeEntry(f)
  BY DEF Entry, WholeEntry
<1>5. CollectedOf(x)'
  BY <1>1, <1>3, <1>4 DEF CollectedOf
<1>6. CoveredOf(x)'
  BY <1>1, <1>2, <1>3 DEF CoveredOf
<1>7. ASSUME NEW files, NEW archive, Faithful(x, files, archive)
      PROVE  archive.mixed \/ \A i \in DOMAIN files : \A f \in Files :
                Undisturbed(x, f)' /\ files[i].key = SyncKey(f) => archive.files[i] = WholeEntry(f)'
  BY <1>4, <1>7 DEF Faithful
<1>8. PackedOf(x)'
  <2>1. ASSUME pc[x] \in Packing PROVE Faithful(x, InArchive(x), dir[Current(x)])'
    <3>1. CASE dir'[Current(x)] = dir[Current(x)]
      BY <1>2, <1>3, <1>7, <2>1, <3>1 DEF PackedOf, Faithful
    <3>2. CASE dir'[Current(x)].mixed
      BY <1>2, <3>2 DEF Faithful
    <3> QED  BY <2>1, <3>1, <3>2
  <2>2. \A i \in DOMAIN closed[x] : Faithful(x, closed[x][i].files, closed[x][i].hash)
    BY <1>3 DEF PackedOf
  <2>3. ASSUME NEW i \in DOMAIN closed[x] PROVE Faithful(x, closed[x][i].files, closed[x][i].hash)'
    <3>1. closed[x][i].hash.mixed \/ \A j \in DOMAIN closed[x][i].files : \A f \in Files :
             Undisturbed(x, f)' /\ closed[x][i].files[j].key = SyncKey(f) => closed[x][i].hash.files[j] = WholeEntry(f)'
      BY <1>7, <2>2
    <3> QED  BY <1>1, <3>1 DEF Faithful
  <2> QED  BY <1>1, <2>1, <2>3 DEF PackedOf
<1> QED  BY <1>5, <1>6, <1>8

\* Nothing is said of an export that is not running.
LEMMA CompleteEnded ==
  ASSUME NEW x \in Exports, pc'[x] \in {"new", "failed", "completed"}
  PROVE  CompleteOf(x)'
BY DEF CompleteOf, Running

\* An export's own steps disturb nothing.
LEMMA OwnStepDisturbs ==
  ASSUME ExportInv, NEW e \in Exports, ExportStep(e), NEW x \in Exports,
         disturbed'[x] = disturbed[x], unlisted[x] \subseteq unlisted'[x], NEW f \in Files
  PROVE  /\ InPlace(f)' = InPlace(f) /\ content'[f] = content[f]
         /\ Undisturbed(x, f)' => Undisturbed(x, f)
<1>1. UNCHANGED <<fileVars, unrecorded>>
  BY StepRests
<1>2. InPlace(f)' = InPlace(f) /\ content'[f] = content[f]
  BY <1>1 DEF InPlace, fileVars
<1> QED  BY <1>2 DEF Undisturbed

\* A step by which an export neither collects nor packs leaves what it has.
LEMMA CollectedRests ==
  ASSUME ExportInv, NEW e \in Exports, ExportStep(e), disturbed'[e] = disturbed[e], unlisted'[e] = unlisted[e],
         collected'[e] = collected[e], asked'[e] = asked[e], CollectedOf(e)
  PROVE  CollectedOf(e)'
<1>1. \A f \in Files : (Undisturbed(e, f)' => Undisturbed(e, f)) /\ content'[f] = content[f]
  BY OwnStepDisturbs
<1>2. \A f \in Files : Entry(f)' = Entry(f)
  BY <1>1 DEF Entry
<1> QED  BY <1>1, <1>2 DEF CollectedOf

LEMMA ClosedRests ==
  ASSUME ExportInv, NEW e \in Exports, ExportStep(e), disturbed'[e] = disturbed[e], unlisted'[e] = unlisted[e],
         NEW files, NEW archive, Faithful(e, files, archive)
  PROVE  archive.mixed \/ \A i \in DOMAIN files : \A f \in Files :
            Undisturbed(e, f)' /\ files[i].key = SyncKey(f) => archive.files[i] = WholeEntry(f)'
<1>1. \A f \in Files : (Undisturbed(e, f)' => Undisturbed(e, f)) /\ content'[f] = content[f]
  BY OwnStepDisturbs
<1>2. \A f \in Files : WholeEntry(f)' = WholeEntry(f)
  BY <1>1 DEF WholeEntry
<1> QED  BY <1>1, <1>2 DEF Faithful

\* A file in place is among those its provider's listing gives, as it is.
LEMMA InPlaceIsListed ==
  ASSUME ExportInv, FilesSettled, NEW f \in Files, InPlace(f)
  PROVE  Entry(f) \in Listing(Owner[f])
<1>1. outputDir \in Layouts
  BY TypesAreAll DEF ExportInv, FileTypes
<1>2. content[f] # 0 /\ outputDir[f] = <<Owner[f]>> /\ rows[SyncKey(f)] = content[f]
  BY DEF InPlace, FilesSettled
<1>3. SyncKey(f) \in Keys /\ SyncKey(f)[1] = Owner[f] /\ f \in Found(SyncKey(f))
  BY <1>1, <1>2, KeyFacts
<1>4. SyncKey(f) \in There(Owner[f])
  BY <1>2, <1>3 DEF There
<1> QED  BY <1>2, <1>4 DEF Listing, Entry

\* Collecting a provider adds those of its files that are in place.
LEMMA CollectCompletes ==
  ASSUME ExportInv, FilesSettled, NEW e \in Exports, CompleteOf(e), Collect(e)
  PROVE  CollectedOf(e)'
<1> DEFINE p == Requested[asked[e] + 1]
           c == collected[e]
           l == SetToSeq(Listing(p))
<1>1. /\ pc[e] \in {"new", "collect"} /\ asked'[e] = asked[e] + 1 /\ disturbed' = disturbed
      /\ \/ collected'[e] = c \o l /\ unlisted'[e] = unlisted[e]
         \/ collected'[e] = c /\ unlisted'[e] = unlisted[e] \cup {p}
  BY CollectDoes
<1>2. /\ c \in Seq(Entries) /\ Len(c) \in Nat /\ asked[e] \in Nat
      /\ l \in Seq(Entries) /\ Len(l) \in Nat /\ \A x \in Listing(p) : \E n \in DOMAIN l : l[n] = x
  BY AtExport, ListingIsList, TypesAreAll DEF ExportInv
<1>3. ProgressOf(e)
  BY DEF ExportInv, Progress
<1> SUFFICES ASSUME NEW f \in Files, Undisturbed(e, f)', NEW j \in 1..asked'[e], Requested[j] = Owner[f]
             PROVE  \E n \in DOMAIN collected'[e] : collected'[e][n] = Entry(f)'
  BY DEF CollectedOf
<1>4. /\ InPlace(f)' = InPlace(f) /\ content'[f] = content[f]
      /\ Undisturbed(e, f)' => Undisturbed(e, f)
  <2>1. disturbed'[e] = disturbed[e] /\ unlisted[e] \subseteq unlisted'[e]
    BY <1>1
  <2> QED  BY <2>1, OwnStepDisturbs DEF ExportStep
<1>5. Undisturbed(e, f) /\ InPlace(f) /\ Entry(f)' = Entry(f) /\ Owner[f] \notin unlisted'[e]
  BY <1>4 DEF Undisturbed, Entry
<1> HIDE DEF c, l
<1> DEFINE cl == c \o l
<1>6. /\ cl \in Seq(Entries) /\ Len(cl) = Len(c) + Len(l)
      /\ \A i \in 1..Len(c) + Len(l) : cl[i] = IF i <= Len(c) THEN c[i] ELSE l[i - Len(c)]
  BY <1>2, ConcatProperties
<1> HIDE DEF cl
<1>7. DOMAIN c = 1..Len(c) /\ DOMAIN l = 1..Len(l) /\ DOMAIN cl = 1..(Len(c) + Len(l))
  BY <1>2, <1>6
<1>8. CASE j <= asked[e]
  <2>1. pc[e] = "collect" /\ j \in 1..asked[e]
    BY <1>1, <1>2, <1>3, <1>8 DEF ProgressOf
  <2>2. PICK n \in DOMAIN c : c[n] = Entry(f)
    BY <1>5, <2>1 DEF CompleteOf, Running, CollectedOf, c
  <2>3. CASE collected'[e] = cl
    <3>1. n \in DOMAIN cl /\ cl[n] = c[n]
      BY <1>2, <1>6, <1>7, <2>2
    <3> QED  BY <1>5, <2>2, <2>3, <3>1
  <2>4. CASE collected'[e] = c
    BY <1>5, <2>2, <2>4
  <2> QED  BY <1>1, <2>3, <2>4 DEF cl, c, l
<1>9. CASE j = asked[e] + 1
  <2>1. p = Owner[f]
    BY <1>9
  <2>2. collected'[e] = cl
    BY <1>1, <1>5, <2>1 DEF cl, c, l
  <2>3. PICK n \in DOMAIN l : l[n] = Entry(f)
    BY <1>2, <1>5, <2>1, InPlaceIsListed
  <2>4. Len(c) + n \in DOMAIN cl /\ cl[Len(c) + n] = l[n]
    <3>1. n \in 1..Len(l)
      BY <1>7
    <3>2. Len(c) + n \in 1..(Len(c) + Len(l)) /\ ~(Len(c) + n <= Len(c)) /\ (Len(c) + n) - Len(c) = n
      BY <1>2, <3>1
    <3> QED  BY <1>6, <1>7, <3>2
  <2> QED  BY <1>5, <2>2, <2>3, <2>4
<1>10. j <= asked[e] \/ j = asked[e] + 1
  BY <1>1, <1>2
<1> QED  BY <1>8, <1>9, <1>10

\* Packing a file that is in place packs it as it is.
LEMMA PackCompletes ==
  ASSUME ExportInv, NEW e \in Exports, PackageOf(e), Pack(e), Faithful(e, InArchive(e), dir[Current(e)])
  PROVE  Faithful(e, InArchive(e), dir[Current(e)])'
<1> DEFINE x == collected[e][next[e]]
           s == InArchive(e)
           a == dir[Current(e)]
           b == dir'[Current(e)]
           n == Len(s)
<1>1. /\ pc[e] \in Packing /\ next[e] <= Len(collected[e]) /\ closed' = closed
      /\ unlisted' = unlisted /\ disturbed' = disturbed /\ (a.mixed => b.mixed)
  BY PackDoes DEF Packing
<1>2. PICK g \in Found(x.key) :
         LET item == [key |-> x.key, version |-> content[g], whole |-> g \notin partial]
         IN item \in Packed /\ b.files = a.files \o <<item>>
  BY PackDoes
<1> DEFINE item == [key |-> x.key, version |-> content[g], whole |-> g \notin partial]
<1>3. Current(e)' = Current(e)
  BY <1>1 DEF Current
<1>4. InArchive(e)' = s \o <<x>>
  BY PackGrows
<1>5. item \in Packed /\ b.files = a.files \o <<item>>
  BY <1>2
<1>6. x \in Entries /\ s \in Seq(Entries) /\ a.files \in Seq(Packed)
  <2>1. next[e] \in 1..Len(collected[e])
    BY <1>1, AtExport
  <2>2. dir[Current(e)] \in ArchiveFiles
    BY <1>1, AtExport
  <2> QED  BY <2>1, <2>2, AtExport DEF ArchiveFiles
<1>7. \A f \in Files : (Undisturbed(e, f)' => Undisturbed(e, f)) /\ WholeEntry(f)' = WholeEntry(f)
  <2>1. disturbed'[e] = disturbed[e] /\ unlisted[e] \subseteq unlisted'[e] /\ ExportStep(e)
    BY <1>1 DEF ExportStep
  <2> QED  BY <2>1, OwnStepDisturbs DEF WholeEntry
<1>8. ASSUME NEW f \in Files, Undisturbed(e, f), x.key = SyncKey(f) PROVE item = WholeEntry(f)
  <2>1. outputDir \in Layouts
    BY TypesAreAll DEF ExportInv, FileTypes
  <2>2. outputDir[f] = <<Owner[f]>> /\ f \notin partial
    BY <1>8 DEF Undisturbed, InPlace
  <2>3. g = f
    <3>1. g \in Found(SyncKey(f))
      BY <1>2, <1>8
    <3>2. g \in Files
      BY <3>1 DEF Found
    <3> QED  BY <2>1, <2>2, <3>1, <3>2, KeyFacts
  <2>4. (g \notin partial) = TRUE
    BY <2>2, <2>3
  <2> QED  BY <1>8, <2>3, <2>4 DEF WholeEntry
<1> HIDE DEF item, x, s, a, b
<1>9. CASE b.mixed
  BY <1>3, <1>9 DEF Faithful, b
<1>10. CASE ~a.mixed
  <2>1. Keyed(a.files) = Keyed(s)
    BY <1>1, <1>10 DEF PackageOf, Matches, a, s
  <2>2. DOMAIN a.files = DOMAIN s
    BY <2>1 DEF Keyed
  <2>3. n \in Nat /\ DOMAIN s = 1..n
    BY <1>6
  <2> DEFINE af == a.files
             bf == b.files
             sx == s \o <<x>>
  <2>4. af \in Seq(Packed) /\ DOMAIN af = 1..n /\ bf = af \o <<item>>
    BY <1>5, <1>6, <2>2, <2>3
  <2>5. bf = Append(af, item) /\ sx = Append(s, x)
    <3> HIDE DEF af, bf
    <3> QED  BY <1>5, <1>6, <2>4, AppendIsConcat
  <2> HIDE DEF af, bf, sx
  <2>a. Len(af) = n
    BY <2>3, <2>4
  <2>6. bf[n + 1] = item /\ \A i \in 1..n : bf[i] = af[i]
    BY <1>5, <2>4, <2>5, <2>a, AppendProperties
  <2> HIDE DEF n
  <2>7. Len(sx) = n + 1 /\ sx \in Seq(Entries) /\ sx[n + 1] = x /\ \A i \in 1..n : sx[i] = s[i]
    BY <1>6, <2>5, AppendProperties DEF n
  <2>8. DOMAIN sx = 1..(n + 1) /\ \A i \in 1..(n + 1) : i \in 1..n \/ i = n + 1
    BY <2>3, <2>7
  <2>9. \A i \in 1..n : \A f \in Files : Undisturbed(e, f) /\ s[i].key = SyncKey(f) => af[i] = WholeEntry(f)
    BY <1>10, <2>3 DEF Faithful, a, s, af
  <2>10. ASSUME NEW i \in DOMAIN sx, NEW f \in Files, Undisturbed(e, f), sx[i].key = SyncKey(f)
         PROVE  bf[i] = WholeEntry(f)
    <3>1. CASE i \in 1..n
      BY <2>6, <2>7, <2>9, <2>10, <3>1
    <3>2. CASE i = n + 1
      BY <1>8, <2>6, <2>7, <2>10, <3>2
    <3> QED  BY <2>8, <3>1, <3>2
  <2>11. InArchive(e)' = sx /\ dir'[Current(e)].files = bf
    BY <1>4 DEF sx, bf, b
  <2>12. \A i \in DOMAIN sx : \A f \in Files :
            Undisturbed(e, f)' /\ sx[i].key = SyncKey(f) => bf[i] = WholeEntry(f)'
    BY <1>7, <2>10
  <2> QED  BY <1>3, <2>11, <2>12 DEF Faithful
<1> QED  BY <1>1, <1>9, <1>10

LEMMA CompleteStepOwn ==
  ASSUME ExportInv, FilesSettled, NEW e \in Exports, PackageOf(e), CompleteOf(e), ExportStep(e)
  PROVE  CompleteOf(e)'
<1>0. ProgressOf(e) /\ (pc[e] \in Running => CollectedOf(e) /\ PackedOf(e) /\ CoveredOf(e))
  BY DEF ExportInv, Progress, CompleteOf
<1>a. /\ collected[e] \in Seq(Entries) /\ Len(collected[e]) \in Nat
      /\ first[e] \in Nat /\ next[e] \in Nat /\ first[e] >= 1 /\ first[e] <= next[e] /\ next[e] <= Len(collected[e]) + 1
      /\ closed[e] \in Seq(ClosedArchives) /\ Len(closed[e]) \in Nat /\ DOMAIN closed[e] = 1..Len(closed[e])
  BY AtExport
<1>b. ASSUME pc[e] \in Running, disturbed'[e] = disturbed[e], unlisted'[e] = unlisted[e], closed'[e] = closed[e]
      PROVE  \A i \in DOMAIN closed[e] : Faithful(e, closed[e][i].files, closed[e][i].hash)'
  <2> SUFFICES ASSUME NEW i \in DOMAIN closed[e] PROVE Faithful(e, closed[e][i].files, closed[e][i].hash)'
    OBVIOUS
  <2>1. Faithful(e, closed[e][i].files, closed[e][i].hash)
    BY <1>0, <1>b DEF PackedOf
  <2>2. closed[e][i].hash.mixed \/ \A j \in DOMAIN closed[e][i].files : \A f \in Files :
           Undisturbed(e, f)' /\ closed[e][i].files[j].key = SyncKey(f) => closed[e][i].hash.files[j] = WholeEntry(f)'
    BY <1>b, <2>1, ClosedRests
  <2> QED  BY <1>b, <2>2 DEF Faithful
<1>c. ASSUME closed[e] = <<>>, closed'[e] = <<>>, pc'[e] \notin Packing, next[e] = 1, next'[e] = 1
      PROVE  PackedOf(e)' /\ CoveredOf(e)'
  <2>1. Start(e)' = 1 /\ DOMAIN <<>> = {} /\ 1..1 - 1 = {}
    BY <1>c DEF Start
  <2> QED  BY <1>c, <2>1 DEF PackedOf, CoveredOf
<1>1. CASE Collect(e)
  <2>1. pc[e] \in {"new", "collect"} /\ pc'[e] = "collect" /\ next'[e] = next[e] /\ closed'[e] = closed[e]
    BY <1>1, CollectDoes
  <2>2. closed[e] = <<>> /\ next[e] = 1 /\ pc'[e] \notin Packing
    BY <1>0, <2>1 DEF ProgressOf, Going, Packing
  <2> QED  BY <1>1, <1>c, <2>1, <2>2, CollectCompletes DEF CompleteOf
<1>2. CASE Collected(e)
  <2>1. /\ pc[e] = "collect"
        /\ \/ Cleared(e) /\ pc'[e] = "failed"
           \/ Same(e) /\ pc'[e] = "open" /\ disturbed' = disturbed
    BY <1>2, CollectedDoes
  <2>2. CASE Cleared(e) /\ pc'[e] = "failed"
    BY <2>2, CompleteEnded
  <2>3. CASE Same(e) /\ pc'[e] = "open" /\ disturbed' = disturbed
    <3>1. closed[e] = <<>> /\ next[e] = 1 /\ pc'[e] \notin Packing /\ pc[e] \in Running
      BY <1>0, <2>1, <2>3 DEF ProgressOf, Going, Packing, Running
    <3>2. CollectedOf(e)'
      BY <1>0, <2>3, <3>1, CollectedRests DEF Same
    <3>3. PackedOf(e)' /\ CoveredOf(e)'
      BY <1>c, <2>3, <3>1 DEF Same
    <3> QED  BY <3>2, <3>3 DEF CompleteOf
  <2> QED  BY <2>1, <2>2, <2>3
<1>3. CASE Open(e)
  <2>1. /\ pc[e] = "open" /\ pc'[e] = "pack" /\ first'[e] = next[e] /\ next' = next
        /\ collected' = collected /\ asked' = asked /\ closed' = closed /\ unlisted' = unlisted /\ disturbed' = disturbed
    BY <1>3, OpenDoes
  <2>2. pc[e] \in Running /\ pc'[e] \in Packing /\ Start(e)' = Start(e)
    BY <2>1 DEF Running, Packing, Start
  <2>3. InArchive(e)' = <<>> /\ DOMAIN <<>> = {}
    <3>1. SubSeq(collected[e], next[e], next[e] - 1) = <<>>
      BY <1>a, SubSeqEmpty
    <3> QED  BY <2>1, <3>1 DEF InArchive
  <2>4. CollectedOf(e)'
    BY <1>0, <2>1, <2>2, CollectedRests
  <2>5. PackedOf(e)'
    <3>1. Faithful(e, InArchive(e), dir[Current(e)])'
      BY <2>3 DEF Faithful
    <3>2. \A i \in DOMAIN closed[e] : Faithful(e, closed[e][i].files, closed[e][i].hash)'
      BY <1>b, <2>1, <2>2
    <3> QED  BY <2>1, <3>1, <3>2 DEF PackedOf
  <2>6. CoveredOf(e)'
    BY <1>0, <2>1, <2>2 DEF CoveredOf
  <2> QED  BY <2>4, <2>5, <2>6 DEF CompleteOf
<1>4. CASE Pack(e)
  <2>1. /\ pc[e] = "pack" /\ pc' = pc /\ collected' = collected /\ asked' = asked /\ first' = first
        /\ closed' = closed /\ unlisted' = unlisted /\ disturbed' = disturbed
    BY <1>4, PackDoes
  <2>2. pc[e] \in Running /\ pc[e] \in Packing /\ Start(e)' = Start(e)
    BY <2>1 DEF Running, Packing, Start
  <2>4. CollectedOf(e)'
    BY <1>0, <2>1, <2>2, CollectedRests
  <2>5. PackedOf(e)'
    <3>1. Faithful(e, InArchive(e), dir[Current(e)])'
      BY <1>0, <1>4, <2>2, PackCompletes DEF PackedOf
    <3>2. \A i \in DOMAIN closed[e] : Faithful(e, closed[e][i].files, closed[e][i].hash)'
      BY <1>b, <2>1, <2>2
    <3> QED  BY <2>1, <3>1, <3>2 DEF PackedOf
  <2>6. CoveredOf(e)'
    BY <1>0, <2>1, <2>2 DEF CoveredOf
  <2> QED  BY <2>4, <2>5, <2>6 DEF CompleteOf
<1>5. CASE EndArchive(e)
  <2>1. /\ pc[e] = "pack" /\ pc'[e] = "close" /\ collected' = collected /\ asked' = asked /\ first' = first
        /\ next' = next /\ closed' = closed /\ unlisted' = unlisted /\ disturbed' = disturbed
        /\ dir'[Current(e)].files = dir[Current(e)].files /\ (dir[Current(e)].mixed => dir'[Current(e)].mixed)
    BY <1>5, EndArchiveDoes DEF localVars
  <2>2. pc[e] \in Running /\ pc[e] \in Packing /\ Start(e)' = Start(e) /\ InArchive(e)' = InArchive(e) /\ Current(e)' = Current(e)
    BY <2>1 DEF Running, Packing, Start, InArchive, Current
  <2>4. CollectedOf(e)'
    BY <1>0, <2>1, <2>2, CollectedRests
  <2>5. PackedOf(e)'
    <3>1. Faithful(e, InArchive(e), dir[Current(e)])
      BY <1>0, <2>2 DEF PackedOf
    <3>2. dir[Current(e)].mixed \/ \A i \in DOMAIN InArchive(e) : \A f \in Files :
             Undisturbed(e, f)' /\ InArchive(e)[i].key = SyncKey(f) => dir[Current(e)].files[i] = WholeEntry(f)'
      BY <2>1, <3>1, ClosedRests
    <3>3. Faithful(e, InArchive(e), dir[Current(e)])'
      <4>1. CASE dir[Current(e)].mixed
        BY <2>1, <2>2, <4>1 DEF Faithful
      <4>2. CASE \A i \in DOMAIN InArchive(e) : \A f \in Files :
             Undisturbed(e, f)' /\ InArchive(e)[i].key = SyncKey(f) => dir[Current(e)].files[i] = WholeEntry(f)'
        BY <2>1, <2>2, <4>2 DEF Faithful
      <4> QED  BY <3>2, <4>1, <4>2
    <3>4. \A i \in DOMAIN closed[e] : Faithful(e, closed[e][i].files, closed[e][i].hash)'
      BY <1>b, <2>1, <2>2
    <3> QED  BY <2>1, <3>3, <3>4 DEF PackedOf
  <2>6. CoveredOf(e)'
    BY <1>0, <2>1, <2>2 DEF CoveredOf
  <2> QED  BY <2>4, <2>5, <2>6 DEF CompleteOf
<1>6. CASE HashArchive(e)
  <2> DEFINE a == [files |-> InArchive(e), hash |-> dir[Current(e)]]
             n == Len(closed[e])
             c == collected[e]
  <2>1. /\ pc[e] = "close" /\ pc'[e] \in {"open", "manifest"}
        /\ closed'[e] = Append(closed[e], a) /\ a \in ClosedArchives
        /\ UNCHANGED <<collected, asked, first, next, disturbed, unlisted>>
    BY <1>6, HashDoes
  <2>2. pc[e] \in Packing /\ pc[e] \in Running /\ Start(e) = first[e] /\ Start(e)' = next[e] /\ pc'[e] \notin Packing
    BY <2>1 DEF Start, Packing, Running
  <2>3. a.files = InArchive(e) /\ a.hash = dir[Current(e)]
    OBVIOUS
  <2> HIDE DEF a
  <2>4. /\ Len(closed'[e]) = n + 1 /\ n \in Nat /\ closed'[e] \in Seq(ClosedArchives)
        /\ closed'[e][n + 1] = a /\ \A i \in 1..n : closed'[e][i] = closed[e][i]
    BY <1>a, <2>1, AppendProperties
  <2>5. DOMAIN closed'[e] = 1..(n + 1) /\ \A i \in 1..(n + 1) : i \in 1..n \/ i = n + 1
    BY <2>4
  <2>6. \A i \in 1..n : i \in 1..(n + 1)
    BY <2>4
  <2>7. n + 1 \in 1..(n + 1)
    BY <2>4
  <2> HIDE DEF n
  <2>8. CollectedOf(e)'
    BY <1>0, <2>1, <2>2, CollectedRests
  <2>9. PackedOf(e)'
    <3>1. Faithful(e, InArchive(e), dir[Current(e)]) /\ \A i \in 1..n : Faithful(e, closed[e][i].files, closed[e][i].hash)
      BY <1>0, <1>a, <2>2 DEF PackedOf, n
    <3>2. \A i \in 1..(n + 1) : Faithful(e, closed'[e][i].files, closed'[e][i].hash)
      BY <2>3, <2>4, <2>5, <3>1
    <3>3. ASSUME NEW i \in 1..(n + 1) PROVE Faithful(e, closed[e][i].files, closed[e][i].hash)'
      <4>1. closed'[e][i].hash.mixed \/ \A j \in DOMAIN closed'[e][i].files : \A f \in Files :
               Undisturbed(e, f)' /\ closed'[e][i].files[j].key = SyncKey(f) => closed'[e][i].hash.files[j] = WholeEntry(f)'
        <5>1. disturbed'[e] = disturbed[e] /\ unlisted'[e] = unlisted[e]
          BY <2>1
        <5>2. Faithful(e, closed'[e][i].files, closed'[e][i].hash)
          BY <3>2
        <5> QED  BY <5>1, <5>2, ClosedRests
      <4> QED  BY <4>1 DEF Faithful
    <3> QED  BY <2>2, <2>5, <3>3 DEF PackedOf
  <2>10. CoveredOf(e)'
    <3>1. ASSUME NEW k \in 1..next[e] - 1
          PROVE  \E i \in 1..(n + 1) : \E m \in DOMAIN closed'[e][i].files : closed'[e][i].files[m] = c[k]
      <4>1. CASE k < first[e]
        <5>1. k \in 1..Start(e) - 1
          BY <1>a, <2>2, <4>1
        <5>2. PICK i \in DOMAIN closed[e] : \E m \in DOMAIN closed[e][i].files : closed[e][i].files[m] = c[k]
          BY <1>0, <2>2, <5>1 DEF CoveredOf
        <5>3. i \in 1..n
          BY <1>a DEF n
        <5> QED  BY <2>4, <2>6, <5>2, <5>3
      <4>2. CASE ~(k < first[e])
        <5> DEFINE m == (k - first[e]) + 1
        <5>1. m \in 1..(next[e] - first[e]) /\ first[e] + m - 1 = k
          BY <1>a, <4>2
        <5>2. m \in DOMAIN InArchive(e) /\ InArchive(e)[m] = c[first[e] + m - 1]
          BY <5>1, AtExport
        <5> HIDE DEF m
        <5>3. InArchive(e)[m] = c[k]
          BY <5>1, <5>2
        <5> QED  BY <2>3, <2>4, <2>7, <5>2, <5>3
      <4> QED  BY <4>1, <4>2
    <3> QED  BY <2>1, <2>2, <2>5, <3>1 DEF CoveredOf
  <2> QED  BY <2>8, <2>9, <2>10 DEF CompleteOf
<1>7. CASE WriteManifest(e)
  <2>1. /\ pc[e] = "manifest" /\ pc'[e] = "record" /\ collected' = collected /\ asked' = asked
        /\ next' = next /\ closed' = closed /\ unlisted' = unlisted /\ disturbed' = disturbed
    BY <1>7, ManifestDoes DEF localVars
  <2>2. pc[e] \in Running /\ pc'[e] \notin Packing /\ Start(e)' = Start(e)
    BY <2>1 DEF Running, Packing, Start
  <2>3. CollectedOf(e)'
    BY <1>0, <2>1, <2>2, CollectedRests
  <2>4. PackedOf(e)'
    <3>1. \A i \in DOMAIN closed[e] : Faithful(e, closed[e][i].files, closed[e][i].hash)'
      BY <1>b, <2>1, <2>2
    <3> QED  BY <2>1, <2>2, <3>1 DEF PackedOf
  <2>5. CoveredOf(e)'
    BY <1>0, <2>1, <2>2 DEF CoveredOf
  <2> QED  BY <2>3, <2>4, <2>5 DEF CompleteOf
<1>8. CASE RecordTransfer(e) \/ Abort(e)
  BY <1>8, EndDoes, CompleteEnded
<1> QED  BY <1>1, <1>2, <1>3, <1>4, <1>5, <1>6, <1>7, <1>8 DEF ExportStep

LEMMA CompleteStep == ExportInv /\ PackageInv /\ CompleteInv /\ [Next]_vars => CompleteInv'
<1> SUFFICES ASSUME ExportInv, PackageInv, CompleteInv, [Next]_vars PROVE CompleteInv'
  OBVIOUS
<1>0. FilesSettled /\ FilesSettled' /\ \A x \in Exports : CompleteOf(x) /\ PackageOf(x)
  BY FilesSettledStep DEF CompleteInv, PackageInv
<1>1. ASSUME NEW e \in Exports, ExportStep(e), NEW x \in Exports PROVE CompleteOf(x)'
  <2>1. CASE x = e
    BY <1>0, <1>1, <2>1, CompleteStepOwn
  <2>2. CASE x # e
    <3>1. Same(x) /\ pc'[x] = pc[x] /\ disturbed'[x] = disturbed[x]
      BY <1>1, <2>2, StepRests
    <3>2. pc[x] \in Packing => dir'[Current(x)] = dir[Current(x)] \/ dir'[Current(x)].mixed
      BY <1>0, <1>1, <2>2, OthersMix DEF PackageOf
    <3>3. unlisted[x] \subseteq unlisted'[x]
      BY <3>1 DEF Same
    <3>4. \A f \in Files : Undisturbed(x, f)' => Undisturbed(x, f) /\ content'[f] = content[f]
      BY <1>1, <3>1, <3>3, OwnStepDisturbs
    <3> QED  BY <1>0, <3>1, <3>2, <3>4, CompleteRests
  <2> QED  BY <2>1, <2>2
<1>2. ASSUME (\E f \in Files : FileStep(f)) \/ (\E p \in Providers : Scan(p)), NEW x \in Exports PROVE CompleteOf(x)'
  <2>1. UNCHANGED <<localVars, mediumVars, pc, unlisted>>
    BY <1>2, ChangeKeeps
  <2>2. Same(x) /\ pc'[x] = pc[x] /\ dir' = dir
    BY <2>1 DEF localVars, mediumVars, Same
  <2>3. \A f \in Files : pc[x] \in Running /\ Undisturbed(x, f)' => Undisturbed(x, f) /\ content'[f] = content[f]
    BY <1>2, ChangeDisturbs
  <2> QED  BY <1>0, <2>2, <2>3, CompleteRests
<1>3. CASE Crash
  <2>1. \A x \in Exports : CompleteOf(x)'
    BY <1>3, CrashClears, CompleteEnded
  <2> QED  BY <1>0, <2>1 DEF CompleteInv
<1>4. ASSUME UNCHANGED vars, NEW x \in Exports PROVE CompleteOf(x)'
  <2>1. Same(x) /\ pc'[x] = pc[x] /\ dir' = dir
    BY <1>4 DEF vars, localVars, mediumVars, historyVars, Same
  <2>2. \A f \in Files : (Undisturbed(x, f)' => Undisturbed(x, f)) /\ content'[f] = content[f]
    BY <1>4 DEF vars, fileVars, historyVars, Undisturbed, InPlace
  <2> QED  BY <1>0, <2>1, <2>2, CompleteRests
<1> QED  BY <1>0, <1>1, <1>2, <1>3, <1>4 DEF Next, AllEnded, CompleteInv

\* A file in place is recorded as it is; what was in place when an export
\* collected its provider, and has not been touched since, is in the list, in
\* the open archive and in the closed ones as it is (Export, addFileToTar).
THEOREM ExportCompleteInvariant == Spec => []CompleteInv
<1>1. Init => CompleteInv
  <2> SUFFICES ASSUME Init PROVE CompleteInv
    OBVIOUS
  <2>1. \A e \in Exports : pc[e] \notin Running
    BY DEF Init, Running
  <2> QED  BY <2>1, FilesSettledInit DEF CompleteInv, CompleteOf
<1> QED  BY <1>1, CompleteStep, ExportInvariant, ExportPackageInvariant, PTL DEF Spec

\* A completed export has every file that was in place when it began and that
\* nothing has touched since, as it is.
THEOREM ExportExportIsComplete == Spec => []ExportIsComplete
<1>1. ExportInv /\ PackageInv /\ CompleteInv => ExportIsComplete
  <2> SUFFICES ASSUME ExportInv, PackageInv, CompleteInv, NEW e \in Exports, pc[e] = "record", NEW f \in Files,
                      content[f] # 0, f \notin partial, sync[f] = "idle", f \notin disturbed[e] \cup unrecorded,
                      Owner[f] \notin unlisted[e], outputDir[f] = <<Owner[f]>>
               PROVE  /\ Entry(f) \in ToSet(collected[e])
                      /\ \E i \in DOMAIN closed[e] :
                            WholeEntry(f) \in ToSet(closed[e][i].hash.files) \/ closed[e][i].hash.mixed
    BY DEF ExportIsComplete, Entry, WholeEntry
  <2>1. Undisturbed(e, f)
    BY DEF Undisturbed, InPlace
  <2>2. CollectedOf(e) /\ PackedOf(e) /\ CoveredOf(e) /\ ProgressOf(e) /\ PackageOf(e)
    BY DEF CompleteInv, CompleteOf, Running, ExportInv, Progress, PackageInv
  <2>3. asked[e] = Len(Requested) /\ Start(e) - 1 = Len(collected[e])
    <3>1. next[e] = Len(collected[e]) + 1 /\ asked[e] = Len(Requested) /\ Start(e) = next[e]
      BY <2>2 DEF ProgressOf, Going, Start, Packing
    <3> QED  BY <3>1, AtExport
  <2>4. PICK j \in 1..Len(Requested) : Requested[j] = Owner[f]
    <3>1. Owner[f] \in ToSet(Requested) /\ DOMAIN Requested = 1..Len(Requested)
      BY RequestedType DEF Providers
    <3> QED  BY <3>1 DEF ToSet
  <2>5. PICK n \in DOMAIN collected[e] : collected[e][n] = Entry(f)
    BY <2>1, <2>2, <2>3, <2>4 DEF CollectedOf
  <2>6. n \in 1..Start(e) - 1
    <3>1. DOMAIN collected[e] = 1..Len(collected[e])
      BY AtExport
    <3> QED  BY <2>3, <3>1
  <2>7. PICK i \in DOMAIN closed[e] : \E m \in DOMAIN closed[e][i].files : closed[e][i].files[m] = Entry(f)
    BY <2>2, <2>5, <2>6 DEF CoveredOf
  <2>8. PICK m \in DOMAIN closed[e][i].files : closed[e][i].files[m] = Entry(f)
    BY <2>7
  <2>9. closed[e][i].files[m].key = SyncKey(f)
    BY <2>8 DEF Entry
  <2>10. ~closed[e][i].hash.mixed => WholeEntry(f) \in ToSet(closed[e][i].hash.files)
    <3> SUFFICES ASSUME ~closed[e][i].hash.mixed PROVE WholeEntry(f) \in ToSet(closed[e][i].hash.files)
      OBVIOUS
    <3>1. Faithful(e, closed[e][i].files, closed[e][i].hash) /\ Matches(closed[e][i].files, closed[e][i].hash)
      BY <2>2 DEF PackedOf, PackageOf
    <3>2. Keyed(closed[e][i].hash.files) = Keyed(closed[e][i].files)
      BY <3>1 DEF Matches
    <3>3. m \in DOMAIN closed[e][i].hash.files
      BY <3>2 DEF Keyed
    <3>4. closed[e][i].hash.files[m] = WholeEntry(f)
      BY <2>1, <2>9, <3>1 DEF Faithful
    <3> QED  BY <3>3, <3>4 DEF ToSet
  <2> QED  BY <2>5, <2>10 DEF ToSet
<1> QED  BY <1>1, ExportInvariant, ExportPackageInvariant, ExportCompleteInvariant, PTL
=============================================================================

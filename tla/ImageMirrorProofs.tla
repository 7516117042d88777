-------------------------- MODULE ImageMirrorProofs --------------------------
(***************************************************************************)
(* Theorems about the mirroring and pushing of images, for any images,     *)
(* manifests and blobs: a sync without a failed download leaves its images *)
(* whole, and what is pushed is the image, recovered from the files alone. *)
(***************************************************************************)
EXTENDS ImageMirror, FiniteSetTheorems, WellFoundedInduction, TLAPS

-----------------------------------------------------------------------------
(* What is below a manifest *)

\* Induction over the natural numbers, for a set in place of a predicate.
LEMMA SetInduction ==
  ASSUME NEW S, 0 \in S, \A n \in Nat : n \in S => n + 1 \in S
  PROVE  Nat \subseteq S
<1> SUFFICES ASSUME Nat \ S # {} PROVE FALSE
  OBVIOUS
<1>1. \A n, k \in Nat : <<k, n>> \in OpToRel(<, Nat) <=> k < n
  BY DEF OpToRel
<1> DEFINE R == OpToRel(<, Nat)
<1>2. IsWellFoundedOn(R, Nat)
  BY NatLessThanWellFounded
<1> HIDE DEF R
<1>3. PICK n \in Nat \ S : \A k \in Nat \ S : ~(<<k, n>> \in R)
  <2>1. Nat \ S \subseteq Nat
    OBVIOUS
  <2> QED  BY <1>2, <2>1, WFMin
<1>4. \A k \in Nat \ S : ~(k < n)
  BY <1>1, <1>3 DEF R
<1>5. n # 0 /\ n - 1 \in Nat /\ n - 1 < n /\ (n - 1) + 1 = n
  OBVIOUS
<1>6. n - 1 \in S
  BY <1>4, <1>5
<1> QED  BY <1>5, <1>6

N == Cardinality(Manifests)
LEMMA NIsNat == N \in Nat
  BY ContentAssumption, FS_CardinalityType DEF N

\* f gives what up to k steps lead to from m.
Leads(f, k, m, kids) ==
    /\ f \in [0..k -> SUBSET Manifests]
    /\ f[0] = {m}
    /\ \A n \in 1..k : f[n] = f[n - 1] \cup UNION {kids[x] : x \in f[n - 1]}

\* The recursive definition of Steps has a solution, and Steps is one.
LEMMA StepsLead ==
  ASSUME NEW m \in Manifests, NEW kids \in [Manifests -> SUBSET Manifests]
  PROVE  Leads(Steps(m, kids), N, m, kids)
<1> DEFINE S == {k \in Nat : \E f : Leads(f, k, m, kids)}
<1>1. 0 \in S
  <2>1. Leads([n \in 0..0 |-> {m}], 0, m, kids)
    BY DEF Leads
  <2> QED  BY <2>1
<1>2. ASSUME NEW k \in Nat, k \in S PROVE k + 1 \in S
  <2>1. PICK f : Leads(f, k, m, kids)
    BY <1>2
  <2> DEFINE top == f[k] \cup UNION {kids[x] : x \in f[k]}
             g == [n \in 0..(k + 1) |-> IF n = k + 1 THEN top ELSE f[n]]
  <2>2. f \in [0..k -> SUBSET Manifests] /\ f[0] = {m}
    BY <2>1 DEF Leads
  <2>3. f[k] \in SUBSET Manifests
    BY <2>2
  <2>4. top \in SUBSET Manifests
    BY <2>3
  <2> HIDE DEF top
  <2>5. g \in [0..(k + 1) -> SUBSET Manifests] /\ g[0] = {m}
    BY <2>2, <2>4
  <2>6. ASSUME NEW n \in 1..(k + 1)
        PROVE  g[n] = g[n - 1] \cup UNION {kids[x] : x \in g[n - 1]}
    <3>1. CASE n = k + 1
      <4>1. g[n] = top /\ g[n - 1] = f[k]
        BY <3>1
      <4> QED  BY <4>1 DEF top
    <3>2. CASE n # k + 1
      <4>1. n \in 1..k /\ g[n] = f[n] /\ g[n - 1] = f[n - 1]
        BY <3>2
      <4> HIDE DEF g
      <4> QED  BY <2>1, <4>1 DEF Leads
    <3> QED  BY <3>1, <3>2
  <2> HIDE DEF g
  <2>7. Leads(g, k + 1, m, kids)
    BY <2>5, <2>6 DEF Leads
  <2> QED  BY <2>7
<1> HIDE DEF S
<1>3. N \in S
  BY <1>1, <1>2, SetInduction, NIsNat
<1>4. PICK f : Leads(f, N, m, kids)
  BY <1>3 DEF S
<1> DEFINE Solves(g) == g = [n \in 0..N |-> IF n = 0 THEN {m} ELSE g[n - 1] \cup UNION {kids[x] : x \in g[n - 1]}]
<1>5. Solves(f)
  <2>1. f = [n \in 0..N |-> f[n]]
    BY <1>4 DEF Leads
  <2>2. ASSUME NEW n \in 0..N
        PROVE  f[n] = IF n = 0 THEN {m} ELSE f[n - 1] \cup UNION {kids[x] : x \in f[n - 1]}
    BY <1>4, NIsNat DEF Leads
  <2> QED  BY <2>1, <2>2
<1>6. Steps(m, kids) = CHOOSE g : Solves(g)
  BY DEF Steps, N
<1> HIDE DEF Solves
<1>7. Solves(Steps(m, kids))
  BY <1>5, <1>6
<1> DEFINE g == Steps(m, kids)
<1>8. /\ g = [n \in 0..N |-> IF n = 0 THEN {m} ELSE g[n - 1] \cup UNION {kids[x] : x \in g[n - 1]}]
  BY <1>7 DEF Solves
<1> HIDE DEF g
<1>9. /\ g[0] = {m}
      /\ \A n \in 1..N : g[n] = g[n - 1] \cup UNION {kids[x] : x \in g[n - 1]}
      /\ DOMAIN g = 0..N /\ g = [n \in 0..N |-> g[n]]
  <2> DEFINE h == [n \in 0..N |-> IF n = 0 THEN {m} ELSE g[n - 1] \cup UNION {kids[x] : x \in g[n - 1]}]
  <2>1. DOMAIN h = 0..N /\ h = [n \in 0..N |-> h[n]]
    OBVIOUS
  <2>2. h[0] = {m} /\ \A n \in 1..N : h[n] = g[n - 1] \cup UNION {kids[x] : x \in g[n - 1]}
    BY NIsNat
  <2>3. g = h
    BY <1>8
  <2> HIDE DEF h
  <2> QED  BY <2>1, <2>2, <2>3
<1>10. \A n \in 0..N : g[n] \in SUBSET Manifests
  <2> DEFINE T == {n \in Nat : n \in 0..N => g[n] \in SUBSET Manifests}
  <2>1. 0 \in T
    BY <1>9
  <2>2. ASSUME NEW n \in Nat, n \in T PROVE n + 1 \in T
    <3> SUFFICES ASSUME n + 1 \in 0..N PROVE g[n + 1] \in SUBSET Manifests
      OBVIOUS
    <3>1. g[n] \in SUBSET Manifests /\ n + 1 \in 1..N /\ (n + 1) - 1 = n
      BY <2>2, NIsNat
    <3>2. g[n + 1] = g[n] \cup UNION {kids[x] : x \in g[n]}
      BY <1>9, <3>1
    <3> QED  BY <3>1, <3>2
  <2> HIDE DEF T
  <2>3. Nat \subseteq T
    BY <2>1, <2>2, SetInduction
  <2> QED  BY <2>3 DEF T
<1>11. g \in [0..N -> SUBSET Manifests]
  BY <1>9, <1>10
<1>12. Leads(g, N, m, kids)
  BY <1>9, <1>11 DEF Leads
<1> QED  BY <1>12 DEF g

\* The closure has the manifest itself, and all that the steps have passed.
LEMMA ClosureHolds ==
  ASSUME NEW m \in Manifests, NEW kids \in [Manifests -> SUBSET Manifests]
  PROVE  /\ Closure(m, kids) \in SUBSET Manifests /\ m \in Closure(m, kids)
         /\ \A n \in 0..N : Steps(m, kids)[n] \subseteq Closure(m, kids)
<1> DEFINE g == Steps(m, kids)
<1>1. Leads(g, N, m, kids)
  BY StepsLead
<1>2. Closure(m, kids) = g[N]
  BY DEF Closure, N
<1> HIDE DEF g
<1> DEFINE T == {k \in Nat : \A n \in 0..N : n + k \in 0..N => g[n] \subseteq g[n + k]}
<1>3. 0 \in T
  BY NIsNat
<1>4. ASSUME NEW k \in Nat, k \in T PROVE k + 1 \in T
  <2> SUFFICES ASSUME NEW n \in 0..N, n + (k + 1) \in 0..N PROVE g[n] \subseteq g[n + (k + 1)]
    OBVIOUS
  <2>1. n + k \in 0..N /\ n + (k + 1) \in 1..N /\ (n + (k + 1)) - 1 = n + k
    BY NIsNat
  <2>2. g[n] \subseteq g[n + k]
    BY <1>4, <2>1
  <2>3. g[n + (k + 1)] = g[n + k] \cup UNION {kids[x] : x \in g[n + k]}
    BY <1>1, <2>1 DEF Leads
  <2> QED  BY <2>2, <2>3
<1> HIDE DEF T
<1>5. Nat \subseteq T
  BY <1>3, <1>4, SetInduction
<1>6. \A n \in 0..N : g[n] \subseteq g[N]
  <2> TAKE n \in 0..N
  <2>1. N - n \in Nat /\ n + (N - n) = N /\ N \in 0..N
    BY NIsNat
  <2>2. N - n \in T
    BY <1>5, <2>1
  <2> QED  BY <2>1, <2>2 DEF T
<1>7. m \in g[0] /\ 0 \in 0..N /\ N \in 0..N /\ g[N] \in SUBSET Manifests
  BY <1>1, NIsNat DEF Leads
<1> QED  BY <1>2, <1>6, <1>7 DEF g

\* Whatever the closure has but the manifest itself is referred to within it.
LEMMA ReferredWithin ==
  ASSUME NEW m \in Manifests, NEW kids \in [Manifests -> SUBSET Manifests],
         NEW x \in Closure(m, kids), x # m
  PROVE  \E y \in Closure(m, kids) : x \in kids[y]
<1> DEFINE g == Steps(m, kids)
           C == Closure(m, kids)
<1>1. Leads(g, N, m, kids) /\ \A n \in 0..N : g[n] \subseteq C
  BY StepsLead, ClosureHolds
<1>2. C = g[N]
  BY DEF Closure, N
<1> HIDE DEF g, C
<1> DEFINE T == {n \in Nat : n \in 0..N => \A z \in g[n] : z = m \/ \E y \in C : z \in kids[y]}
<1>3. 0 \in T
  BY <1>1 DEF Leads
<1>4. ASSUME NEW n \in Nat, n \in T PROVE n + 1 \in T
  <2> SUFFICES ASSUME n + 1 \in 0..N, NEW z \in g[n + 1] PROVE z = m \/ \E y \in C : z \in kids[y]
    OBVIOUS
  <2>1. n \in 0..N /\ n + 1 \in 1..N /\ (n + 1) - 1 = n
    BY NIsNat
  <2>2. g[n + 1] = g[n] \cup UNION {kids[y] : y \in g[n]}
    BY <1>1, <2>1 DEF Leads
  <2>3. g[n] \subseteq C
    BY <1>1, <2>1
  <2> QED  BY <1>4, <2>1, <2>2, <2>3
<1> HIDE DEF T
<1>5. N \in T
  BY <1>3, <1>4, SetInduction, NIsNat
<1>6. N \in 0..N /\ x \in g[N]
  BY <1>2, NIsNat DEF C
<1> QED  BY <1>5, <1>6 DEF T, C

\* As many steps as there are manifests are enough: the closure is closed.
LEMMA ClosureIsClosed ==
  ASSUME NEW m \in Manifests, NEW kids \in [Manifests -> SUBSET Manifests], NEW x \in Closure(m, kids)
  PROVE  kids[x] \subseteq Closure(m, kids)
<1> DEFINE g == Steps(m, kids)
<1>1. Leads(g, N, m, kids)
  BY StepsLead
<1>2. Closure(m, kids) = g[N]
  BY DEF Closure, N
<1> HIDE DEF g
<1>3. \A n \in 0..N : g[n] \in SUBSET Manifests
  BY <1>1 DEF Leads
<1>4. \A n \in Nat : n + 1 \in 0..N => n \in 0..N /\ g[n + 1] = g[n] \cup UNION {kids[y] : y \in g[n]}
  <2> SUFFICES ASSUME NEW n \in Nat, n + 1 \in 0..N
               PROVE  n \in 0..N /\ g[n + 1] = g[n] \cup UNION {kids[y] : y \in g[n]}
    OBVIOUS
  <2>1. n \in 0..N /\ n + 1 \in 1..N /\ (n + 1) - 1 = n
    BY NIsNat
  <2> QED  BY <1>1, <2>1 DEF Leads
<1>5. \A n \in 0..N : IsFiniteSet(g[n]) /\ Cardinality(g[n]) \in Nat /\ Cardinality(g[n]) <= N
  BY <1>3, ContentAssumption, FS_Subset, FS_CardinalityType DEF N
<1> DEFINE T == {n \in Nat : n \in 0..N => \/ Cardinality(g[n]) >= n + 1
                                           \/ \E k \in Nat : k + 1 <= n /\ g[k + 1] = g[k]}
<1>6. 0 \in T
  <2>1. g[0] = {m}
    BY <1>1 DEF Leads
  <2>2. Cardinality({m}) = 1
    BY FS_Singleton
  <2> QED  BY <2>1, <2>2
<1>7. ASSUME NEW n \in Nat, n \in T PROVE n + 1 \in T
  <2> SUFFICES ASSUME n + 1 \in 0..N, g[n + 1] # g[n], ~\E k \in Nat : k + 1 <= n /\ g[k + 1] = g[k]
               PROVE  Cardinality(g[n + 1]) >= (n + 1) + 1
    OBVIOUS
  <2>1. n \in 0..N /\ g[n] \subseteq g[n + 1]
    BY <1>4
  <2>2. Cardinality(g[n]) >= n + 1
    BY <1>7, <2>1
  <2>3. Cardinality(g[n]) <= Cardinality(g[n + 1]) /\ Cardinality(g[n]) # Cardinality(g[n + 1])
    BY <1>5, <2>1, FS_Subset
  <2>4. Cardinality(g[n]) \in Nat /\ Cardinality(g[n + 1]) \in Nat
    BY <1>5, <2>1
  <2> QED  BY <2>2, <2>3, <2>4
<1> HIDE DEF T
<1>8. N \in T
  BY <1>6, <1>7, SetInduction, NIsNat
<1>9. PICK k \in Nat : k + 1 <= N /\ g[k + 1] = g[k]
  <2>1. N \in 0..N /\ Cardinality(g[N]) <= N /\ Cardinality(g[N]) \in Nat
    BY <1>5, NIsNat
  <2> QED  BY <1>8, <2>1, NIsNat DEF T
<1>10. k + 1 \in 0..N /\ k \in 0..N
  BY <1>9, NIsNat
<1> DEFINE U == {j \in Nat : k + j \in 0..N => g[k + j] = g[k]}
<1>11. 0 \in U
  OBVIOUS
<1>12. ASSUME NEW j \in Nat, j \in U PROVE j + 1 \in U
  <2> SUFFICES ASSUME k + (j + 1) \in 0..N PROVE g[k + (j + 1)] = g[k]
    OBVIOUS
  <2>1. k + j \in Nat /\ (k + j) + 1 = k + (j + 1)
    OBVIOUS
  <2>2. k + j \in 0..N /\ g[(k + j) + 1] = g[k + j] \cup UNION {kids[y] : y \in g[k + j]}
    BY <1>4, <2>1
  <2>3. g[k + j] = g[k]
    BY <1>12, <2>2
  <2>4. g[k + 1] = g[k] \cup UNION {kids[y] : y \in g[k]}
    BY <1>4, <1>10
  <2> QED  BY <1>9, <2>1, <2>2, <2>3, <2>4
<1> HIDE DEF U
<1>13. Nat \subseteq U
  BY <1>11, <1>12, SetInduction
<1>14. g[N] = g[k]
  <2>1. N - k \in Nat /\ k + (N - k) = N /\ N \in 0..N
    BY <1>9, NIsNat
  <2>2. N - k \in U
    BY <1>13, <2>1
  <2> QED  BY <2>1, <2>2 DEF U
<1>15. g[k + 1] = g[k] \cup UNION {kids[y] : y \in g[k]}
  BY <1>4, <1>10
<1>16. x \in g[k]
  BY <1>2, <1>14
<1>17. kids[x] \subseteq g[k + 1]
  BY <1>15, <1>16
<1> QED  BY <1>2, <1>9, <1>14, <1>17

\* References that agree on the closure lead to the same closure.
LEMMA SameClosure ==
  ASSUME NEW m \in Manifests, NEW kids \in [Manifests -> SUBSET Manifests],
         NEW read \in [Manifests -> SUBSET Manifests], \A x \in Closure(m, kids) : read[x] = kids[x]
  PROVE  Closure(m, read) = Closure(m, kids)
<1> DEFINE g == Steps(m, kids)
           h == Steps(m, read)
<1>1. Leads(g, N, m, kids) /\ Leads(h, N, m, read) /\ \A n \in 0..N : g[n] \subseteq Closure(m, kids)
  BY StepsLead, ClosureHolds
<1>2. Closure(m, kids) = g[N] /\ Closure(m, read) = h[N]
  BY DEF Closure, N
<1> HIDE DEF g, h
<1> DEFINE T == {n \in Nat : n \in 0..N => g[n] = h[n]}
<1>3. 0 \in T
  BY <1>1 DEF Leads
<1>4. ASSUME NEW n \in Nat, n \in T PROVE n + 1 \in T
  <2> SUFFICES ASSUME n + 1 \in 0..N PROVE g[n + 1] = h[n + 1]
    OBVIOUS
  <2>1. n \in 0..N /\ n + 1 \in 1..N /\ (n + 1) - 1 = n
    BY NIsNat
  <2>2. /\ g[n + 1] = g[n] \cup UNION {kids[y] : y \in g[n]}
        /\ h[n + 1] = h[n] \cup UNION {read[y] : y \in h[n]}
    BY <1>1, <2>1 DEF Leads
  <2>3. g[n] = h[n]
    BY <1>4, <2>1
  <2>4. \A y \in g[n] : read[y] = kids[y]
    BY <1>1, <2>1
  <2>5. {kids[y] : y \in g[n]} = {read[y] : y \in g[n]}
    BY <2>4
  <2> QED  BY <2>2, <2>3, <2>5
<1> HIDE DEF T
<1>5. N \in T
  BY <1>3, <1>4, SetInduction, NIsNat
<1> QED  BY <1>2, <1>5, NIsNat DEF T

\* Fewer references lead to fewer manifests.
LEMMA SmallerClosure ==
  ASSUME NEW m \in Manifests, NEW kids \in [Manifests -> SUBSET Manifests],
         NEW read \in [Manifests -> SUBSET Manifests], \A x \in Manifests : read[x] \subseteq kids[x]
  PROVE  Closure(m, read) \subseteq Closure(m, kids)
<1> DEFINE g == Steps(m, kids)
           h == Steps(m, read)
<1>1. Leads(g, N, m, kids) /\ Leads(h, N, m, read)
  BY StepsLead
<1>2. Closure(m, kids) = g[N] /\ Closure(m, read) = h[N]
  BY DEF Closure, N
<1> HIDE DEF g, h
<1> DEFINE T == {n \in Nat : n \in 0..N => h[n] \subseteq g[n]}
<1>3. 0 \in T
  BY <1>1 DEF Leads
<1>4. ASSUME NEW n \in Nat, n \in T PROVE n + 1 \in T
  <2> SUFFICES ASSUME n + 1 \in 0..N PROVE h[n + 1] \subseteq g[n + 1]
    OBVIOUS
  <2>1. n \in 0..N /\ n + 1 \in 1..N /\ (n + 1) - 1 = n
    BY NIsNat
  <2>2. /\ g[n + 1] = g[n] \cup UNION {kids[y] : y \in g[n]}
        /\ h[n + 1] = h[n] \cup UNION {read[y] : y \in h[n]}
    BY <1>1, <2>1 DEF Leads
  <2>3. h[n] \subseteq g[n] /\ h[n] \subseteq Manifests
    BY <1>1, <1>4, <2>1 DEF Leads
  <2>4. UNION {read[y] : y \in h[n]} \subseteq UNION {kids[y] : y \in g[n]}
    <3> SUFFICES ASSUME NEW y \in h[n] PROVE read[y] \subseteq kids[y] /\ y \in g[n]
      OBVIOUS
    <3> QED  BY <2>3
  <2> QED  BY <2>2, <2>3, <2>4
<1> HIDE DEF T
<1>5. N \in T
  BY <1>3, <1>4, SetInduction, NIsNat
<1> QED  BY <1>2, <1>5, NIsNat DEF T

\* The plan sees the references of a manifest, or none.
LEMMA WhatIsSeen ==
  /\ Seen(Children) \in [Manifests -> SUBSET Manifests] /\ Seen(Refs) \in [Manifests -> SUBSET Blobs]
  /\ Children \in [Manifests -> SUBSET Manifests] /\ Refs \in [Manifests -> SUBSET Blobs]
  /\ \A m \in Manifests : /\ Seen(Children)[m] \subseteq Children[m]
                          /\ m \notin Unparsed => Seen(Children)[m] = Children[m] /\ Seen(Refs)[m] = Refs[m]
                          /\ m \in Unparsed => Seen(Children)[m] = {} /\ Seen(Refs)[m] = {}
BY ContentAssumption DEF Seen

\* The files planned of an image: manifests and blobs, the manifests being those
\* that the plan has seen.
LEMMA PlannedShape ==
  ASSUME NEW m \in Manifests
  PROVE  /\ PlannedOf(m) \subseteq Digests /\ m \in PlannedOf(m)
         /\ PlannedOf(m) \cap Manifests = Closure(m, Seen(Children))
         /\ \A x \in Closure(m, Seen(Children)) : x \in Manifests /\ Seen(Refs)[x] \subseteq PlannedOf(m)
<1> DEFINE C == Closure(m, Seen(Children))
<1>1. C \in SUBSET Manifests /\ m \in C
  BY ClosureHolds, WhatIsSeen
<1>2. PlannedOf(m) = C \cup UNION {Seen(Refs)[x] : x \in C}
  BY DEF PlannedOf, WithBlobs
<1> HIDE DEF C, PlannedOf
<1>3. UNION {Seen(Refs)[x] : x \in C} \subseteq Blobs
  BY <1>1, WhatIsSeen
<1>4. \A x \in C : x \in Manifests /\ Seen(Refs)[x] \subseteq PlannedOf(m)
  BY <1>1, <1>2
<1>5. PlannedOf(m) \cap Manifests = C /\ PlannedOf(m) \subseteq Digests /\ m \in PlannedOf(m)
  BY <1>1, <1>2, <1>3, ContentAssumption DEF Digests
<1> QED  BY <1>4, <1>5 DEF C

\* The files of an image: manifests and blobs, the manifests being its closure.
LEMMA FilesOfShape ==
  ASSUME NEW m \in Manifests
  PROVE  /\ FilesOf(m) \subseteq Digests /\ m \in FilesOf(m)
         /\ FilesOf(m) \cap Manifests = Closure(m, Children)
         /\ Closure(m, Children) \subseteq Manifests
         /\ FilesOf(m) = Closure(m, Children) \cup UNION {Refs[x] : x \in Closure(m, Children)}
<1>1. Closure(m, Children) \in SUBSET Manifests /\ m \in Closure(m, Children)
  BY ClosureHolds, ContentAssumption
<1>2. FilesOf(m) = Closure(m, Children) \cup UNION {Refs[x] : x \in Closure(m, Children)}
  BY DEF FilesOf, WithBlobs
<1>3. UNION {Refs[x] : x \in Closure(m, Children)} \subseteq Blobs
  BY <1>1, ContentAssumption
<1> HIDE DEF FilesOf
<1> QED  BY <1>1, <1>2, <1>3, ContentAssumption DEF Digests

\* Of an image whose manifests all parse, the plan sees everything.
LEMMA AllIsSeen ==
  ASSUME NEW m \in Manifests, FilesOf(m) \cap Unparsed = {}
  PROVE  PlannedOf(m) = FilesOf(m) /\ Closure(m, Seen(Children)) = Closure(m, Children)
<1> DEFINE C == Closure(m, Children)
<1>1. C \subseteq FilesOf(m) /\ C \subseteq Manifests
  BY FilesOfShape
<1>2. \A x \in C : Seen(Children)[x] = Children[x] /\ Seen(Refs)[x] = Refs[x]
  BY <1>1, WhatIsSeen
<1>3. Closure(m, Seen(Children)) = C
  BY <1>2, WhatIsSeen, SameClosure
<1> HIDE DEF C
<1>4. {Seen(Refs)[x] : x \in C} = {Refs[x] : x \in C}
  BY <1>2
<1>5. PlannedOf(m) = C \cup UNION {Seen(Refs)[x] : x \in C}
  BY <1>3 DEF PlannedOf, WithBlobs
<1>6. FilesOf(m) = C \cup UNION {Refs[x] : x \in C}
  BY DEF FilesOf, WithBlobs, C
<1> QED  BY <1>3, <1>4, <1>5, <1>6 DEF C

-----------------------------------------------------------------------------
(* The invariant of the mirror *)

MirrorTypes ==
    /\ current \in [Refers -> Manifests \cup {Unlisted}] /\ had \in [Refers -> SUBSET Manifests]
    /\ \A i \in Refers : current[i] \in Roots[i] \cup {Unlisted} /\ had[i] \subseteq Roots[i]
    /\ whole \in [Refers -> SUBSET Digests] /\ part \in [Refers -> SUBSET Digests]
    /\ \A i \in Refers : part[i] \cap whole[i] = {}
    /\ faults \in 0..MaxFaults /\ syncs \in 0..MaxSyncs
    /\ sync \in {"idle", "plan", "download", "retry", "done"}
    /\ todo \subseteq Refers
    /\ root \in [Refers -> Manifests \cup {Unlisted}]
    /\ pending \subseteq Files /\ writing \subseteq Files \ pending /\ failed \subseteq Files /\ nameless \subseteq Files
    /\ Cardinality(writing) <= Workers
    /\ \A f \in writing : f[2] \in part[f[1]]
    /\ wanted \in [Refers -> SUBSET Digests]

\* Downloads are under way only while the operation that makes them is.
Downloading ==
    /\ IsFiniteSet(writing)
    /\ writing # {} => sync \in {"download", "retry"}
    /\ sync \in {"idle", "done"} => pending = {}

\* Until a download fails, what is planned of an image is there or to come; what
\* is there of a file without a sha256 may be a part of it.
Promised ==
    ~lost => \A i \in Refers : root[i] # Unlisted =>
                \A d \in PlannedOf(root[i]) :
                    \/ d \in whole[i] \/ <<i, d>> \in pending \cup writing
                    \/ d \in Unchecked /\ d \in part[i]

\* All that is in an image's directory, or is to come, belongs to manifests
\* that its reference has named.
NamedOnly == \A i \in Refers : had[i] # {} /\ (current[i] # Unlisted => current[i] \in had[i])
PlannedOnly ==
    /\ \A i \in Refers : \E R \in SUBSET had[i] : wanted[i] = UNION {PlannedOf(r) : r \in R}
    /\ \A i \in Refers : whole[i] \subseteq wanted[i] /\ part[i] \subseteq wanted[i]
    /\ \A f \in pending \cup writing \cup failed \cup nameless : f[2] \in wanted[f[1]]

MirrorInv == MirrorTypes /\ Downloading /\ Promised /\ NamedOnly /\ PlannedOnly

-----------------------------------------------------------------------------
(* The invariant of the push *)

PushTypes ==
    /\ pushes \in 0..MaxPushes
    /\ push \in {"idle", "next", "read", "load", "layout", "copy"}
    /\ at \in 0..Len(Images)
    /\ toRead \subseteq names /\ good \subseteq names /\ names \subseteq Manifests
    /\ chosen \in Manifests \cup {Unlisted} /\ broken \subseteq Blobs
    /\ target \in [Refers -> Manifests \cup {Unlisted}]

\* What is held of an image is its own, and the root is one that the choice allows.
Held ==
    /\ push = "idle" <=> at = 0
    /\ push \in {"idle", "next"} => names = {} /\ good = {} /\ toRead = {} /\ ~settled
    /\ push \in {"layout", "copy"} => chosen \in RootChoice
    /\ push # "copy" => broken = {}

\* The manifests of an image that was settled when the push looked are those
\* seen below manifests that its reference has named; with the blobs seen they
\* are whole, so that all of them are read but those that do not parse.  Nothing
\* is there in part, so that no blob put into a layout is broken.
SettledBundle ==
    settled =>
        /\ names # {} /\ part[Image] = {}
        /\ \E R \in SUBSET had[Image] : names = UNION {Closure(r, Seen(Children)) : r \in R}
        /\ names \subseteq whole[Image]
        /\ names \ Unparsed \subseteq good \cup toRead
        /\ push # "read" => toRead = {}
        /\ push = "copy" => broken = {}

PushInv == PushTypes /\ Held /\ SettledBundle

ImageInv == TypeOK /\ MirrorInv /\ PushInv
-----------------------------------------------------------------------------
(* The steps of the mirror *)

LEMMA FileShape ==
  /\ \A i \in Refers, d \in Digests : <<i, d>> \in Files
  /\ \A f \in Files : f[1] \in Refers /\ f[2] \in Digests /\ f = <<f[1], f[2]>>
BY DEF Files

\* A fault stays below its bound.
LEMMA FaultCounts ==
  ASSUME MirrorTypes, Fault
  PROVE  faults' \in 0..MaxFaults
BY BoundsAssumption DEF MirrorTypes, Fault

LEMMA TagMovesKeeps ==
  ASSUME MirrorInv, NEW i \in Refers, TagMoves(i)
  PROVE  MirrorInv'
<1> USE DEF MirrorInv
<1>1. PICK m \in (Roots[i] \cup {Unlisted}) \ {current[i]} :
          /\ current' = [current EXCEPT ![i] = m]
          /\ had' = [had EXCEPT ![i] = @ \cup ({m} \ {Unlisted})]
  BY DEF TagMoves
<1>2. UNCHANGED <<diskVars, syncVars>> /\ faults' \in 0..MaxFaults
  BY FaultCounts DEF TagMoves
<1>3. Roots[i] \in SUBSET Manifests /\ Unlisted \notin Manifests
  BY ImagesAssumption, ContentAssumption
<1>4. MirrorTypes'
  BY <1>1, <1>2, <1>3 DEF MirrorTypes, diskVars, syncVars, rowVars
<1>5. Downloading' /\ Promised'
  BY <1>2 DEF Downloading, Promised, diskVars, syncVars, rowVars
<1>6. \A j \in Refers : had[j] \subseteq had'[j]
  BY <1>1 DEF MirrorTypes
<1>7. NamedOnly'
  BY <1>1, <1>3 DEF NamedOnly, MirrorTypes
<1>8. PlannedOnly'
  <2>1. \A j \in Refers : \E R \in SUBSET had'[j] : wanted[j] = UNION {PlannedOf(r) : r \in R}
    <3> TAKE j \in Refers
    <3>1. PICK R \in SUBSET had[j] : wanted[j] = UNION {PlannedOf(r) : r \in R}
      BY DEF PlannedOnly
    <3>2. R \in SUBSET had'[j]
      BY <1>6
    <3> QED  BY <3>1, <3>2
  <2>2. UNCHANGED <<wanted, whole, part, pending, writing, failed, nameless>>
    BY <1>2 DEF diskVars, syncVars, rowVars
  <2> QED  BY <2>1, <2>2 DEF PlannedOnly
<1> QED  BY <1>4, <1>5, <1>7, <1>8

\* A step that leaves the references, the files and what is planned alone, and
\* adds no row but those of files that are planned.
LEMMA RowsKeepPlanned ==
  ASSUME MirrorInv, UNCHANGED <<current, had, whole, part, wanted>>,
         pending' \cup writing' \cup failed' \cup nameless' \subseteq pending \cup writing \cup failed \cup nameless
                                                         \cup {f \in Files : f[2] \in part[f[1]]}
  PROVE  NamedOnly' /\ PlannedOnly'
<1>1. NamedOnly'
  BY DEF MirrorInv, NamedOnly
<1>2. \A f \in Files : f[2] \in part[f[1]] => f[2] \in wanted[f[1]]
  BY FileShape DEF MirrorInv, PlannedOnly
<1>3. PlannedOnly'
  BY <1>2 DEF MirrorInv, PlannedOnly
<1> QED  BY <1>1, <1>3

LEMMA StartsKeep ==
  ASSUME MirrorInv, StartSync \/ Retry \/ Validate
  PROVE  MirrorInv'
<1> USE DEF MirrorInv
<1>1. sync \in {"idle", "done"} /\ writing = {} /\ pending = {} /\ syncs' \in 0..MaxSyncs /\ UNCHANGED <<upstreamVars, diskVars, writing, wanted>>
  BY BoundsAssumption DEF StartSync, Retry, Validate, Downloading, MirrorTypes
<1>2. todo' \subseteq Refers
  BY DEF StartSync, Retry, Validate, Listed, Listable, MirrorTypes
<1>3. /\ pending' \subseteq Files /\ failed' \subseteq Files /\ nameless' \subseteq Files
      /\ pending' \cup failed' \cup nameless' \subseteq failed \cup nameless \cup {f \in Files : f[2] \in part[f[1]]}
  BY <1>1 DEF StartSync, Retry, Validate, Wrong, MirrorTypes, rowVars
<1>4. \/ lost' = lost /\ root' = root /\ pending' = pending /\ sync' = "idle"
      \/ root' = [i \in Refers |-> Unlisted] /\ sync' \in {"plan", "retry"}
  BY DEF StartSync, Retry, Validate
<1>5. MirrorTypes'
  BY <1>1, <1>2, <1>3, <1>4 DEF MirrorTypes, upstreamVars, diskVars
<1>6. Downloading'
  BY <1>1, <1>4 DEF Downloading
<1>7. Promised'
  BY <1>1, <1>4 DEF Promised, diskVars
<1>8. NamedOnly' /\ PlannedOnly'
  BY <1>1, <1>3, RowsKeepPlanned DEF upstreamVars, diskVars
<1> QED  BY <1>5, <1>6, <1>7, <1>8

LEMMA PlanImageKeeps ==
  ASSUME MirrorInv, NEW i \in Refers, PlanImage(i)
  PROVE  MirrorInv'
<1> USE DEF MirrorInv
<1>1. sync = "plan" /\ writing = {} /\ todo' \subseteq Refers
      /\ UNCHANGED <<upstreamVars, diskVars, syncs, sync, writing, lost, rowVars>>
  BY DEF PlanImage, Downloading, MirrorTypes
<1>2. CASE UNCHANGED <<root, pending, wanted>>
  <2>1. MirrorTypes' /\ Downloading' /\ Promised'
    BY <1>1, <1>2 DEF MirrorTypes, Downloading, Promised, upstreamVars, diskVars, rowVars
  <2>2. NamedOnly' /\ PlannedOnly'
    BY <1>1, <1>2, RowsKeepPlanned DEF upstreamVars, diskVars, rowVars
  <2> QED  BY <2>1, <2>2
<1>3. CASE /\ current[i] # Unlisted /\ root' = [root EXCEPT ![i] = current[i]]
           /\ \E passed \in Passed(i) :
                 pending' = pending \cup {<<i, d>> : d \in Needed(i, current[i]) \ passed}
           /\ wanted' = [wanted EXCEPT ![i] = @ \cup PlannedOf(current[i])]
  <2> DEFINE m == current[i]
             F == PlannedOf(m)
  <2>1. m \in Manifests /\ m \in had[i]
    BY <1>3 DEF MirrorTypes, NamedOnly
  <2>2. F \subseteq Digests
    BY <2>1, PlannedShape
  <2>3. PICK passed \in SUBSET (part[i] \cap Unchecked) :
            pending' = pending \cup {<<i, d>> : d \in (F \ whole[i]) \ passed}
    BY <1>3 DEF Needed, Passed
  <2>14. wanted' = [wanted EXCEPT ![i] = @ \cup F]
    BY <1>3
  <2>4. \A j \in Refers : root'[j] # Unlisted => PlannedOf(root'[j]) = IF j = i THEN F ELSE PlannedOf(root[j])
    BY <1>3 DEF MirrorTypes
  <2>5. \A R : {PlannedOf(r) : r \in R \cup {m}} = {PlannedOf(r) : r \in R} \cup {F}
    OBVIOUS
  <2> HIDE DEF F, m
  <2>6. MirrorTypes'
    <3>1. pending' \subseteq Files
      BY <2>2, <2>3, FileShape DEF MirrorTypes
    <3>2. wanted' \in [Refers -> SUBSET Digests] /\ root' \in [Refers -> Manifests \cup {Unlisted}]
      BY <1>3, <2>1, <2>2, <2>14 DEF MirrorTypes, m
    <3> QED  BY <1>1, <3>1, <3>2 DEF MirrorTypes, upstreamVars, diskVars, rowVars
  <2>7. Downloading'
    BY <1>1 DEF Downloading
  <2>8. Promised'
    <3> SUFFICES ASSUME ~lost, NEW j \in Refers, root'[j] # Unlisted, NEW d \in PlannedOf(root'[j])
                 PROVE  d \in whole[j] \/ <<j, d>> \in pending' \cup writing \/ (d \in Unchecked /\ d \in part[j])
      BY <1>1 DEF Promised, diskVars
    <3>1. CASE j = i
      <4>1. d \in F
        BY <2>4, <3>1
      <4> QED  BY <2>3, <3>1, <4>1
    <3>2. CASE j # i
      <4>1. root'[j] = root[j]
        BY <1>3, <3>2 DEF MirrorTypes
      <4> QED  BY <1>1, <2>3, <4>1 DEF Promised
    <3> QED  BY <3>1, <3>2
  <2>9. NamedOnly'
    BY <1>1 DEF NamedOnly, upstreamVars
  <2>10. \A j \in Refers : wanted[j] \subseteq wanted'[j]
    BY <2>14 DEF MirrorTypes
  <2>11. \A j \in Refers : \E R \in SUBSET had[j] : wanted'[j] = UNION {PlannedOf(r) : r \in R}
    <3> TAKE j \in Refers
    <3>1. PICK R \in SUBSET had[j] : wanted[j] = UNION {PlannedOf(r) : r \in R}
      BY DEF PlannedOnly
    <3>2. CASE j = i
      <4>1. wanted'[j] = wanted[j] \cup F
        BY <2>14, <3>2 DEF MirrorTypes
      <4>2. R \cup {m} \in SUBSET had[j]
        BY <2>1, <3>2
      <4>3. \A A : UNION (A \cup {F}) = (UNION A) \cup F
        OBVIOUS
      <4>4. UNION {PlannedOf(r) : r \in R \cup {m}} = (UNION {PlannedOf(r) : r \in R}) \cup F
        BY <2>5, <4>3
      <4>5. wanted'[j] = UNION {PlannedOf(r) : r \in R \cup {m}}
        BY <3>1, <4>1, <4>4
      <4> QED  BY <4>2, <4>5
    <3>3. CASE j # i
      BY <2>14, <3>1, <3>3 DEF MirrorTypes
    <3> QED  BY <3>2, <3>3
  <2>12. \A f \in pending' : f[2] \in wanted'[f[1]]
    <3> TAKE f \in pending'
    <3>1. CASE f \in pending
      BY <2>10, <3>1, FileShape DEF PlannedOnly, MirrorTypes
    <3>2. CASE f \notin pending
      <4>1. PICK d \in F : f = <<i, d>>
        BY <2>3, <3>2
      <4> QED  BY <2>14, <4>1 DEF MirrorTypes
    <3> QED  BY <3>1, <3>2
  <2>13. PlannedOnly'
    <3>1. \A f \in writing \cup failed \cup nameless : f[2] \in wanted'[f[1]]
      BY <2>10, FileShape DEF PlannedOnly, MirrorTypes
    <3> QED  BY <1>1, <2>10, <2>11, <2>12, <3>1 DEF PlannedOnly, upstreamVars, diskVars, rowVars
  <2> QED  BY <2>6, <2>7, <2>8, <2>9, <2>13
<1> QED  BY <1>2, <1>3 DEF PlanImage

\* The steps that only move the operation on.
LEMMA MovesOnKeep ==
  ASSUME MirrorInv, StartDownloads \/ EndSync
  PROVE  MirrorInv'
<1> USE DEF MirrorInv
<1>1. /\ UNCHANGED <<upstreamVars, diskVars, syncs, todo, root, pending, writing, lost, rowVars, wanted>>
      /\ sync' = "download" \/ (sync' = "done" /\ pending = {} /\ writing = {})
  BY DEF StartDownloads, EndSync
<1>2. MirrorTypes' /\ Downloading' /\ Promised'
  BY <1>1 DEF MirrorTypes, Downloading, Promised, upstreamVars, diskVars, rowVars
<1>3. NamedOnly' /\ PlannedOnly'
  BY <1>1, RowsKeepPlanned DEF upstreamVars, diskVars, rowVars
<1> QED  BY <1>2, <1>3

\* What a stopped operation leaves.
LEMMA StopKeeps ==
  ASSUME MirrorInv, Stop
  PROVE  MirrorInv'
<1> USE DEF MirrorInv
<1>1. /\ UNCHANGED <<current, had, diskVars, syncs, wanted>> /\ faults' \in 0..MaxFaults
      /\ sync' = "idle" /\ todo' = {} /\ pending' = {} /\ writing' = {} /\ root' = [i \in Refers |-> Unlisted]
  BY FaultCounts DEF Stop
<1>2. PICK given \in {{}, IF sync = "download" THEN writing ELSE {}} :
          failed' = failed \cup given /\ nameless' = nameless \ given
  BY DEF Stop
<1>3. given \subseteq writing
  BY <1>2
<1>4. Cardinality({}) = 0 /\ IsFiniteSet({})
  BY FS_EmptySet
<1>5. MirrorTypes'
  <2>1. failed' \subseteq Files /\ nameless' \subseteq Files
    BY <1>2, <1>3 DEF MirrorTypes
  <2> QED  BY <1>1, <1>4, <2>1, BoundsAssumption DEF MirrorTypes, diskVars
<1>6. Downloading' /\ Promised'
  BY <1>1, <1>4 DEF Downloading, Promised
<1>7. pending' \cup writing' \cup failed' \cup nameless' \subseteq pending \cup writing \cup failed \cup nameless
  BY <1>1, <1>2, <1>3
<1>8. NamedOnly' /\ PlannedOnly'
  BY <1>1, <1>7, RowsKeepPlanned DEF diskVars
<1> QED  BY <1>5, <1>6, <1>8

\* A download takes the file out of the directory until it is whole.
LEMMA DownloadKeeps ==
  ASSUME MirrorInv, NEW f \in Files, Download(f)
  PROVE  MirrorInv'
<1> USE DEF MirrorInv
<1>1. /\ sync \in {"download", "retry"} /\ f \in pending /\ Cardinality(writing) < Workers
      /\ pending' = pending \ {f} /\ writing' = writing \cup {f}
      /\ whole' = [whole EXCEPT ![f[1]] = @ \ {f[2]}] /\ part' = [part EXCEPT ![f[1]] = @ \cup {f[2]}]
      /\ UNCHANGED <<current, had, faults, syncs, sync, todo, root, lost, failed, nameless, wanted>>
  BY DEF Download, upstreamVars, rowVars
<1>2. f[1] \in Refers /\ f[2] \in Digests /\ f = <<f[1], f[2]>> /\ f \notin writing
  BY <1>1, FileShape DEF MirrorTypes
<1>3. IsFiniteSet(writing') /\ Cardinality(writing') <= Workers
  <2>1. IsFiniteSet(writing') /\ Cardinality(writing') = Cardinality(writing) + 1
    BY <1>1, <1>2, FS_AddElement DEF Downloading
  <2>2. Cardinality(writing) \in Nat
    BY FS_CardinalityType DEF Downloading
  <2> QED  BY <1>1, <2>1, <2>2, BoundsAssumption
<1>4. /\ \A i \in Refers : whole'[i] \cup part'[i] \subseteq whole[i] \cup part[i] \cup (IF i = f[1] THEN {f[2]} ELSE {})
      /\ \A i \in Refers, d \in Digests : <<i, d>> # f => (d \in whole'[i] <=> d \in whole[i])
                                                         /\ (d \in part'[i] <=> d \in part[i])
      /\ f[2] \in part'[f[1]]
      /\ whole' \in [Refers -> SUBSET Digests] /\ part' \in [Refers -> SUBSET Digests]
      /\ \A i \in Refers : part'[i] \cap whole'[i] = {}
  BY <1>1, <1>2 DEF MirrorTypes
<1>5. MirrorTypes'
  <2>1. \A g \in writing' : g[2] \in part'[g[1]]
    <3> TAKE g \in writing'
    <3>1. CASE g = f
      BY <1>4, <3>1
    <3>2. CASE g # f
      BY <1>1, <1>4, <3>2, FileShape DEF MirrorTypes
    <3> QED  BY <3>1, <3>2
  <2> QED  BY <1>1, <1>2, <1>3, <1>4, <2>1 DEF MirrorTypes
<1>6. Downloading'
  BY <1>1, <1>3 DEF Downloading
<1>7. Promised'
  <2> SUFFICES ASSUME ~lost, NEW i \in Refers, root[i] # Unlisted, NEW d \in PlannedOf(root[i])
               PROVE  d \in whole'[i] \/ <<i, d>> \in pending' \cup writing' \/ (d \in Unchecked /\ d \in part'[i])
    BY <1>1 DEF Promised
  <2>1. d \in whole[i] \/ <<i, d>> \in pending \cup writing \/ (d \in Unchecked /\ d \in part[i])
    BY DEF Promised
  <2>2. d \in Digests
    <3>1. root[i] \in Manifests
      BY DEF MirrorTypes
    <3> QED  BY <3>1, PlannedShape
  <2>3. CASE <<i, d>> = f
    BY <1>1, <2>3
  <2>4. CASE <<i, d>> # f
    BY <1>1, <1>4, <2>1, <2>2, <2>4
  <2> QED  BY <2>3, <2>4
<1>8. NamedOnly'
  BY <1>1 DEF NamedOnly
<1>9. PlannedOnly'
  <2>1. f[2] \in wanted[f[1]]
    BY <1>1 DEF PlannedOnly
  <2>2. \A i \in Refers : whole'[i] \subseteq wanted[i] /\ part'[i] \subseteq wanted[i]
    BY <1>4, <2>1 DEF PlannedOnly
  <2> QED  BY <1>1, <2>2 DEF PlannedOnly
<1> QED  BY <1>5, <1>6, <1>7, <1>8, <1>9

\* A download that ends has put the file in place, or is lost.
LEMMA EndDownloadKeeps ==
  ASSUME MirrorInv, NEW f \in Files, EndDownload(f)
  PROVE  MirrorInv'
<1> USE DEF MirrorInv
<1>1. /\ f \in writing /\ writing' = writing \ {f}
      /\ UNCHANGED <<current, had, syncs, sync, todo, root, pending, wanted>>
  BY DEF EndDownload
<1>2. f[1] \in Refers /\ f[2] \in Digests /\ f = <<f[1], f[2]>> /\ sync \in {"download", "retry"} /\ f[2] \in part[f[1]]
  BY <1>1, FileShape DEF MirrorTypes, Downloading
<1>3. IsFiniteSet(writing') /\ Cardinality(writing') <= Workers
  <2>1. IsFiniteSet(writing') /\ Cardinality(writing') = Cardinality(writing) - 1
    BY <1>1, FS_RemoveElement DEF Downloading
  <2>2. Cardinality(writing) \in Nat
    BY FS_CardinalityType DEF Downloading
  <2> QED  BY <2>1, <2>2, BoundsAssumption DEF MirrorTypes
<1>4. /\ \/ whole' = [whole EXCEPT ![f[1]] = @ \cup {f[2]}] /\ part' = [part EXCEPT ![f[1]] = @ \ {f[2]}]
         \/ whole' = whole /\ part' = part
         \/ whole' = whole /\ part' = [part EXCEPT ![f[1]] = @ \ {f[2]}] /\ lost'
      /\ whole' = whole /\ ~lost' => f[2] \in Unchecked /\ part' = part
      /\ ~lost' => ~lost
  <2>1. CASE whole' = [whole EXCEPT ![f[1]] = @ \cup {f[2]}] /\ part' = [part EXCEPT ![f[1]] = @ \ {f[2]}]
             /\ UNCHANGED <<faults, lost, nameless>>
    <3>1. f[2] \in whole'[f[1]] /\ f[2] \notin whole[f[1]]
      BY <1>2, <2>1 DEF MirrorTypes
    <3>2. whole' # whole
      BY <3>1
    <3> QED  BY <2>1, <3>2
  <2>2. CASE part' \in {part, [part EXCEPT ![f[1]] = @ \ {f[2]}]} /\ lost' = TRUE /\ UNCHANGED whole
    <3>1. lost'
      BY <2>2
    <3> QED  BY <2>2, <3>1
  <2>3. CASE f[2] \in Unchecked /\ UNCHANGED diskVars /\ UNCHANGED <<faults, lost, nameless>>
    BY <2>3 DEF diskVars
  <2> QED  BY <2>1, <2>2, <2>3 DEF EndDownload
<1>5. /\ faults' \in 0..MaxFaults
      /\ failed' \subseteq failed \cup {f} /\ nameless' \subseteq nameless
  <2>1. faults' \in 0..MaxFaults
    BY FaultCounts DEF EndDownload, MirrorTypes
  <2> QED  BY <2>1 DEF EndDownload, rowVars
<1>6. /\ \A i \in Refers : whole[i] \subseteq whole'[i] /\ whole'[i] \cup part'[i] \subseteq whole[i] \cup part[i]
      /\ whole' \in [Refers -> SUBSET Digests] /\ part' \in [Refers -> SUBSET Digests]
      /\ \A i \in Refers : part'[i] \cap whole'[i] = {}
      /\ \A i \in Refers, d \in Digests : <<i, d>> # f => (d \in part'[i] <=> d \in part[i])
  BY <1>2, <1>4 DEF MirrorTypes
<1>7. MirrorTypes'
  <2>1. \A g \in writing' : g[2] \in part'[g[1]]
    BY <1>1, <1>6, FileShape DEF MirrorTypes
  <2>2. failed' \subseteq Files /\ nameless' \subseteq Files
    BY <1>5 DEF MirrorTypes
  <2> QED  BY <1>1, <1>3, <1>5, <1>6, <2>1, <2>2 DEF MirrorTypes
<1>8. Downloading'
  BY <1>1, <1>2, <1>3 DEF Downloading
<1>9. Promised'
  <2> SUFFICES ASSUME ~lost', NEW i \in Refers, root[i] # Unlisted, NEW d \in PlannedOf(root[i])
               PROVE  d \in whole'[i] \/ <<i, d>> \in pending \cup writing' \/ (d \in Unchecked /\ d \in part'[i])
    BY <1>1 DEF Promised
  <2>1. d \in whole[i] \/ <<i, d>> \in pending \cup writing \/ (d \in Unchecked /\ d \in part[i])
    BY <1>4 DEF Promised
  <2>2. CASE <<i, d>> = f
    <3>1. i = f[1] /\ d = f[2]
      BY <2>2
    <3>2. CASE whole' = whole
      BY <1>2, <1>4, <3>1, <3>2
    <3>3. CASE whole' # whole
      <4>1. whole' = [whole EXCEPT ![f[1]] = @ \cup {f[2]}]
        BY <1>4, <3>3
      <4> QED  BY <1>2, <3>1, <4>1 DEF MirrorTypes
    <3> QED  BY <3>2, <3>3
  <2>3. CASE <<i, d>> # f
    <3>1. d \in Digests
      <4>1. root[i] \in Manifests
        BY DEF MirrorTypes
      <4> QED  BY <4>1, PlannedShape
    <3> QED  BY <1>1, <1>6, <2>1, <2>3, <3>1
  <2> QED  BY <2>2, <2>3
<1>10. NamedOnly'
  BY <1>1 DEF NamedOnly
<1>11. PlannedOnly'
  <2>1. \A i \in Refers : whole'[i] \subseteq wanted[i] /\ part'[i] \subseteq wanted[i]
    BY <1>6 DEF PlannedOnly
  <2>2. \A g \in pending' \cup writing' \cup failed' \cup nameless' : g[2] \in wanted[g[1]]
    BY <1>1, <1>5 DEF PlannedOnly
  <2> QED  BY <1>1, <2>1, <2>2 DEF PlannedOnly
<1> QED  BY <1>7, <1>8, <1>9, <1>10, <1>11

\* The mirror's invariant holds at the start.
LEMMA MirrorInit == Init => MirrorInv
<1> SUFFICES ASSUME Init PROVE MirrorInv
  OBVIOUS
<1>1. /\ \A i \in Refers : current[i] \in Roots[i] /\ current[i] \in Manifests /\ had[i] = {current[i]}
      /\ current \in [Refers -> Manifests] /\ had \in [Refers -> SUBSET Manifests]
  BY DEF Init
<1>2. /\ whole = [i \in Refers |-> {}] /\ part = [i \in Refers |-> {}] /\ wanted = [i \in Refers |-> {}]
      /\ root = [i \in Refers |-> Unlisted]
      /\ faults = 0 /\ syncs = 0 /\ sync = "idle" /\ todo = {} /\ pending = {} /\ writing = {} /\ failed = {} /\ nameless = {}
  BY DEF Init
<1>3. Cardinality(writing) = 0 /\ IsFiniteSet(writing)
  BY <1>2, FS_EmptySet
<1>4. MirrorTypes
  BY <1>1, <1>2, <1>3, BoundsAssumption DEF MirrorTypes
<1>5. Downloading /\ Promised /\ NamedOnly
  BY <1>1, <1>2, <1>3 DEF Downloading, Promised, NamedOnly
<1>6. PlannedOnly
  <2>1. \A i \in Refers : \E R \in SUBSET had[i] : wanted[i] = UNION {PlannedOf(r) : r \in R}
    <3> TAKE i \in Refers
    <3>1. wanted[i] = UNION {PlannedOf(r) : r \in {}} /\ {} \in SUBSET had[i]
      BY <1>2
    <3> QED  BY <3>1
  <2> QED  BY <1>2, <2>1 DEF PlannedOnly
<1> QED  BY <1>4, <1>5, <1>6 DEF MirrorInv

\* The mirror does not notice a push.
LEMMA MirrorRests ==
  ASSUME MirrorInv, UNCHANGED <<upstreamVars, diskVars, syncVars>>
  PROVE  MirrorInv'
BY DEF MirrorInv, MirrorTypes, Downloading, Promised, NamedOnly, PlannedOnly, upstreamVars, diskVars,
       syncVars, rowVars

-----------------------------------------------------------------------------
(* The steps of the push *)

\* The image that a push is at is one of the configured references.
LEMMA ImageIsConfigured ==
  ASSUME PushTypes, at # 0
  PROVE  Image \in Refers /\ at \in 1..Len(Images)
<1>1. at \in 1..Len(Images) /\ DOMAIN Images = 1..Len(Images)
  BY ImagesAssumption DEF PushTypes
<1> QED  BY <1>1 DEF Image, Refers, ToSet

\* A step of the mirror leaves what the push holds as it was.
LEMMA PushRests ==
  ASSUME PushInv, UNCHANGED <<pushes, push, at, names, good, toRead, chosen, broken, target>>,
         settled' => settled /\ (at # 0 => /\ whole[Image] \subseteq whole'[Image] /\ had[Image] \subseteq had'[Image]
                                         /\ part'[Image] \subseteq part[Image])
  PROVE  PushInv'
<1> USE DEF PushInv
<1>1. PushTypes'
  BY DEF PushTypes
<1>2. Image' = Image /\ RootChoice' = RootChoice
  BY DEF Image, RootChoice, Kids
<1>3. Held'
  BY <1>2 DEF Held
<1>4. SettledBundle'
  <2> SUFFICES ASSUME settled' PROVE SettledBundle'
    BY DEF SettledBundle
  <2>1. settled /\ at # 0
    BY DEF Held
  <2>2. whole[Image] \subseteq whole'[Image] /\ had[Image] \subseteq had'[Image] /\ part'[Image] \subseteq part[Image]
    BY <2>1
  <2>3. PICK R \in SUBSET had[Image] : names = UNION {Closure(r, Seen(Children)) : r \in R}
    BY <2>1 DEF SettledBundle
  <2>4. R \in SUBSET had'[Image]
    BY <2>2
  <2>5. \E Q \in SUBSET had'[Image] : names = UNION {Closure(r, Seen(Children)) : r \in Q}
    BY <2>3, <2>4
  <2>6. /\ names # {} /\ part'[Image] = {} /\ names \subseteq whole'[Image] /\ names \ Unparsed \subseteq good \cup toRead
        /\ (push # "read" => toRead = {}) /\ (push = "copy" => broken = {})
    BY <2>1, <2>2 DEF SettledBundle
  <2> QED  BY <1>2, <2>5, <2>6 DEF SettledBundle
<1> QED  BY <1>1, <1>3, <1>4

\* Every step of the mirror is of that kind.
LEMMA MirrorLeavesPush ==
  ASSUME MirrorInv, PushInv,
         \/ \E i \in Refers : TagMoves(i)
         \/ SyncStep
  PROVE  PushInv'
<1> DEFINE Grows == at # 0 => /\ whole[Image] \subseteq whole'[Image] /\ had[Image] \subseteq had'[Image]
                              /\ part'[Image] \subseteq part[Image]
<1>0. at # 0 => Image \in Refers
  BY ImageIsConfigured DEF PushInv
<1>1. ASSUME NEW i \in Refers, TagMoves(i) PROVE PushInv'
  <2>1. Grows /\ UNCHANGED pushVars
    BY <1>0, <1>1 DEF TagMoves, diskVars, MirrorInv, MirrorTypes
  <2> HIDE DEF Grows
  <2> QED  BY <2>1, PushRests DEF pushVars, bundleVars, Grows
<1>2. CASE StartSync \/ StartDownloads \/ Validate \/ Retry \/ EndSync \/ Stop \/ (\E i \in Refers : PlanImage(i))
  <2>1. UNCHANGED <<had, diskVars, pushVars>>
    BY <1>2 DEF StartSync, StartDownloads, Validate, Retry, EndSync, Stop, PlanImage, upstreamVars
  <2> QED  BY <2>1, PushRests DEF pushVars, bundleVars, diskVars
<1>3. ASSUME NEW f \in Files, Download(f) PROVE PushInv'
  <2>1. UNCHANGED <<had, pushes, push, at, names, good, toRead, chosen, broken, target>>
    BY <1>3 DEF Download, upstreamVars
  <2>2. settled' => settled /\ f[1] # Image
    BY <1>3 DEF Download
  <2>3. f[1] # Image => Grows
    BY <1>0, <1>3, <2>1, FileShape DEF Download, MirrorInv, MirrorTypes
  <2> HIDE DEF Grows
  <2> QED  BY <2>1, <2>2, <2>3, PushRests DEF Grows
<1>4. ASSUME NEW f \in Files, EndDownload(f) PROVE PushInv'
  <2>1. UNCHANGED <<had, pushVars>>
    BY <1>4 DEF EndDownload
  <2>2. /\ \/ whole' = [whole EXCEPT ![f[1]] = @ \cup {f[2]}] /\ part' = [part EXCEPT ![f[1]] = @ \ {f[2]}]
           \/ whole' = whole /\ part' = part
           \/ whole' = whole /\ part' = [part EXCEPT ![f[1]] = @ \ {f[2]}]
        /\ Image' = Image
    BY <1>4, <2>1 DEF EndDownload, diskVars, pushVars, Image
  <2>3. whole \in [Refers -> SUBSET Digests] /\ part \in [Refers -> SUBSET Digests]
    BY DEF MirrorInv, MirrorTypes
  <2>4. \A i \in Refers : whole[i] \subseteq whole'[i] /\ part'[i] \subseteq part[i]
    BY <2>2, <2>3
  <2>5. Grows
    BY <1>0, <2>1, <2>2, <2>4
  <2> HIDE DEF Grows
  <2> QED  BY <2>1, <2>5, PushRests DEF pushVars, bundleVars, Grows
<1> QED  BY <1>1, <1>2, <1>3, <1>4 DEF SyncStep

\* Between two images nothing is held.
LEMMA ConcludeKeeps ==
  ASSUME PushInv, push # "idle", Conclude, pushes' = pushes,
         target' \in [Refers -> Manifests \cup {Unlisted}]
  PROVE  PushInv'
<1> USE DEF PushInv
<1>1. /\ names' = {} /\ good' = {} /\ toRead' = {} /\ chosen' = Unlisted /\ broken' = {} /\ ~settled'
      /\ IF at = Len(Images) THEN push' = "idle" /\ at' = 0 ELSE push' = "next" /\ at' = at + 1
  BY DEF Conclude
<1>2. at \in 1..Len(Images) /\ Len(Images) \in Nat
  BY ImageIsConfigured, ImagesAssumption DEF Held
<1>3. PushTypes'
  BY <1>1, <1>2 DEF PushTypes
<1>4. Held' /\ SettledBundle'
  BY <1>1, <1>2 DEF Held, SettledBundle
<1> QED  BY <1>3, <1>4

LEMMA StartPushKeeps ==
  ASSUME PushInv, StartPush
  PROVE  PushInv'
<1> USE DEF PushInv
<1>1. /\ push = "idle" /\ push' = "next" /\ at' = 1 /\ pushes' \in 0..MaxPushes
      /\ UNCHANGED <<names, good, toRead, chosen, broken, settled, target>>
  BY BoundsAssumption DEF StartPush, PushTypes, bundleVars
<1>2. 1 \in 0..Len(Images)
  BY ImagesAssumption
<1>3. PushTypes'
  BY <1>1, <1>2 DEF PushTypes
<1>4. Held' /\ SettledBundle'
  BY <1>1 DEF Held, SettledBundle
<1> QED  BY <1>3, <1>4

\* What the push finds of an image with nothing outstanding are the closures
\* of the manifests that were planned, and with their blobs they are whole.
LEMMA GlobKeeps ==
  ASSUME MirrorInv, PushInv, GlobManifests
  PROVE  PushInv'
<1> USE DEF PushInv
<1> DEFINE found == OnDisk(Image) \cap Manifests
<1>1. push = "next" /\ UNCHANGED <<upstreamVars, diskVars, syncVars, pushes, target>>
  BY DEF GlobManifests
<1>2. CASE found = {}
  <2>1. Conclude
    BY <1>2 DEF GlobManifests
  <2> QED  BY <1>1, <2>1, ConcludeKeeps DEF PushTypes
<1>3. CASE found # {}
  <2>1. /\ push' = "read" /\ names' = found /\ toRead' = found
        /\ settled' = (wanted[Image] \subseteq whole[Image]) /\ UNCHANGED <<at, good, chosen, broken>>
    BY <1>3 DEF GlobManifests
  <2>2. at # 0 /\ good = {}
    BY <1>1 DEF Held
  <2>3. Image \in Refers /\ Image' = Image
    BY <2>1, <2>2, ImageIsConfigured DEF Image
  <2>4. PushTypes'
    BY <1>1, <2>1, <2>2 DEF PushTypes
  <2>5. Held'
    BY <1>1, <2>1, <2>2 DEF Held
  <2>6. SettledBundle'
    <3> SUFFICES ASSUME wanted[Image] \subseteq whole[Image] PROVE SettledBundle'
      BY <2>1 DEF SettledBundle
    <3>1. whole[Image] \subseteq wanted[Image] /\ part[Image] \subseteq wanted[Image]
      BY <2>3 DEF MirrorInv, PlannedOnly
    <3>2. PICK R \in SUBSET had[Image] : wanted[Image] = UNION {PlannedOf(r) : r \in R}
      BY <2>3 DEF MirrorInv, PlannedOnly
    <3>3. \A r \in R : r \in Manifests
      BY <2>3 DEF MirrorInv, MirrorTypes
    <3>4. found = wanted[Image] \cap Manifests
      BY <3>1 DEF OnDisk
    <3>5. part[Image] = {}
      BY <2>3, <3>1 DEF MirrorInv, MirrorTypes
    <3> HIDE DEF found
    <3>6. found = UNION {Closure(r, Seen(Children)) : r \in R}
      <4>1. \A r \in R : PlannedOf(r) \cap Manifests = Closure(r, Seen(Children))
        BY <3>3, PlannedShape
      <4> QED  BY <3>2, <3>4, <4>1
    <3>7. found \subseteq whole[Image]
      BY <3>1, <3>4
    <3>8. \E Q \in SUBSET had'[Image'] : found = UNION {Closure(r, Seen(Children)) : r \in Q}
      BY <1>1, <2>3, <3>6 DEF upstreamVars
    <3> QED  BY <1>1, <1>3, <2>1, <2>2, <2>3, <3>5, <3>7, <3>8 DEF SettledBundle, diskVars, found
  <2> QED  BY <2>4, <2>5, <2>6
<1> QED  BY <1>2, <1>3

LEMMA ReadKeeps ==
  ASSUME PushInv, NEW m \in Manifests, ReadManifest(m)
  PROVE  PushInv'
<1> USE DEF PushInv
<1>1. push = "read" /\ m \in toRead /\ UNCHANGED <<upstreamVars, diskVars, syncVars, pushes, target>>
  BY DEF ReadManifest
<1>2. CASE m \notin OnDisk(Image)
  <2>1. Conclude
    BY <1>2 DEF ReadManifest
  <2> QED  BY <1>1, <2>1, ConcludeKeeps DEF PushTypes
<1>3. CASE m \in OnDisk(Image)
  <2>1. /\ toRead' = toRead \ {m}
        /\ good' = good \cup {m} \/ (m \notin whole[Image] \ Unparsed /\ good' = good)
        /\ push' = IF toRead' = {} THEN "load" ELSE "read"
        /\ UNCHANGED <<at, names, chosen, broken, settled>>
    BY <1>3 DEF ReadManifest
  <2>2. Image' = Image
    BY <2>1 DEF Image
  <2>3. PushTypes'
    <3>1. toRead' \subseteq names /\ good' \subseteq names
      BY <1>1, <2>1 DEF PushTypes
    <3> QED  BY <1>1, <2>1, <3>1 DEF PushTypes
  <2>4. Held'
    BY <1>1, <2>1 DEF Held
  <2>5. SettledBundle'
    <3> SUFFICES ASSUME settled PROVE SettledBundle'
      BY <2>1 DEF SettledBundle
    <3>1. m \in whole[Image]
      BY <1>1 DEF SettledBundle, PushTypes
    <3>2. names \ Unparsed \subseteq good' \cup toRead'
      <4>1. names \ Unparsed \subseteq good \cup toRead
        BY DEF SettledBundle
      <4>2. CASE good' = good \cup {m}
        BY <2>1, <4>1, <4>2
      <4>3. CASE m \in Unparsed /\ good' = good
        BY <2>1, <4>1, <4>3
      <4> QED  BY <2>1, <3>1, <4>2, <4>3
    <3>3. (push' # "read" => toRead' = {}) /\ push' # "copy"
      BY <2>1
    <3> QED  BY <1>1, <2>1, <2>2, <3>2, <3>3 DEF SettledBundle, upstreamVars, diskVars
  <2> QED  BY <2>3, <2>4, <2>5
<1> QED  BY <1>2, <1>3

\* The root is a manifest that was found, and so are those that were read.
LEMMA WhatIsRead ==
  ASSUME PushTypes
  PROVE  /\ RootChoice \subseteq names /\ RootChoice \subseteq Manifests
         /\ Kids \in [Manifests -> SUBSET Manifests] /\ Layers \in [Manifests -> SUBSET Blobs]
         /\ \A m \in Manifests : Layers[m] # {} => m \in good /\ Layers[m] = Refs[m]
<1>1. RootChoice \subseteq names
  BY DEF RootChoice
<1>2. Kids \in [Manifests -> SUBSET Manifests] /\ Layers \in [Manifests -> SUBSET Blobs]
  BY ContentAssumption DEF Kids, Layers
<1> QED  BY <1>1, <1>2 DEF PushTypes, Layers

LEMMA LoadKeeps ==
  ASSUME PushInv, Load
  PROVE  PushInv'
<1> USE DEF PushInv
<1>1. push = "load" /\ UNCHANGED <<upstreamVars, diskVars, syncVars, pushes, target>>
  BY DEF Load
<1>2. CASE Conclude
  BY <1>1, <1>2, ConcludeKeeps DEF PushTypes
<1>3. CASE \E m \in RootChoice : push' = "layout" /\ chosen' = m /\ UNCHANGED <<at, names, good, toRead, broken, settled>>
  <2>1. push' = "layout" /\ chosen' \in RootChoice /\ UNCHANGED <<at, names, good, toRead, broken, settled>>
    BY <1>3
  <2>2. Image' = Image /\ RootChoice' = RootChoice
    BY <2>1 DEF Image, RootChoice, Kids
  <2>3. RootChoice \subseteq Manifests
    BY WhatIsRead
  <2>4. PushTypes'
    BY <1>1, <2>1, <2>3 DEF PushTypes
  <2>5. Held'
    BY <1>1, <2>1, <2>2 DEF Held
  <2>6. SettledBundle'
    BY <1>1, <2>1, <2>2 DEF SettledBundle, upstreamVars, diskVars
  <2> QED  BY <2>4, <2>5, <2>6
<1> QED  BY <1>2, <1>3 DEF Load

\* What the push has read of a settled image's blobs is whole.
LEMMA LayoutKeeps ==
  ASSUME PushInv, WriteLayout
  PROVE  PushInv'
<1> USE DEF PushInv
<1>1. push = "layout" /\ UNCHANGED <<upstreamVars, diskVars, syncVars, pushes, target>>
  BY DEF WriteLayout
<1>2. CASE Conclude
  BY <1>1, <1>2, ConcludeKeeps DEF PushTypes
<1>3. CASE /\ LayoutBlobs \subseteq OnDisk(Image) /\ push' = "copy" /\ broken' = LayoutBlobs \ whole[Image]
           /\ UNCHANGED <<at, names, good, toRead, chosen, settled>>
  <2>1. Image' = Image /\ RootChoice' = RootChoice
    BY <1>3 DEF Image, RootChoice, Kids
  <2>2. LayoutBlobs \subseteq UNION {Refs[x] : x \in good}
    <3>1. chosen \in Manifests
      BY <1>1, WhatIsRead DEF Held
    <3>2. LayoutManifests \subseteq Manifests
      BY <3>1, WhatIsRead, ClosureHolds DEF LayoutManifests
    <3>3. \A m \in LayoutManifests : Layers[m] \subseteq UNION {Refs[x] : x \in good}
      BY <3>2, WhatIsRead
    <3> QED  BY <3>3 DEF LayoutBlobs
  <2>3. good \subseteq Manifests
    BY DEF PushTypes
  <2>4. LayoutBlobs \subseteq Blobs
    BY <2>2, <2>3, ContentAssumption
  <2>5. PushTypes'
    BY <1>1, <1>3, <2>4 DEF PushTypes
  <2>6. Held'
    BY <1>1, <1>3, <2>1 DEF Held
  <2>7. SettledBundle'
    <3> SUFFICES ASSUME settled PROVE SettledBundle'
      BY <1>3 DEF SettledBundle
    <3>1. LayoutBlobs \subseteq OnDisk(Image) /\ part[Image] = {}
      BY <1>3 DEF SettledBundle
    <3>2. broken' = {}
      BY <1>3, <3>1 DEF OnDisk
    <3> QED  BY <1>1, <1>3, <2>1, <3>2 DEF SettledBundle, upstreamVars, diskVars
  <2> QED  BY <2>5, <2>6, <2>7
<1> QED  BY <1>2, <1>3 DEF WriteLayout

LEMMA SkopeoKeeps ==
  ASSUME PushInv, Skopeo
  PROVE  PushInv'
<1> USE DEF PushInv
<1>1. push = "copy" /\ Conclude /\ UNCHANGED pushes
  BY DEF Skopeo
<1>2. target' \in [Refers -> Manifests \cup {Unlisted}]
  BY DEF Skopeo, PushTypes
<1> QED  BY <1>1, <1>2, ConcludeKeeps

LEMMA StopPushKeeps ==
  ASSUME PushInv, StopPush
  PROVE  PushInv'
<1> USE DEF PushInv
<1>1. /\ names' = {} /\ good' = {} /\ toRead' = {} /\ chosen' = Unlisted /\ broken' = {} /\ ~settled'
      /\ push' = "idle" /\ at' = 0 /\ UNCHANGED <<pushes, target>>
  BY DEF StopPush
<1>2. 0 \in 0..Len(Images)
  BY ImagesAssumption
<1>3. PushTypes'
  BY <1>1, <1>2 DEF PushTypes
<1>4. Held' /\ SettledBundle'
  BY <1>1 DEF Held, SettledBundle
<1> QED  BY <1>3, <1>4

LEMMA PushStepKeeps ==
  ASSUME MirrorInv, PushInv, PushStep
  PROVE  MirrorInv' /\ PushInv'
<1>1. UNCHANGED <<upstreamVars, diskVars, syncVars>>
  BY DEF PushStep, StartPush, GlobManifests, Load, WriteLayout, Skopeo, StopPush, ReadManifest
<1>2. PushInv'
  BY StartPushKeeps, GlobKeeps, LoadKeeps, LayoutKeeps, SkopeoKeeps, StopPushKeeps, ReadKeeps DEF PushStep
<1> QED  BY <1>1, <1>2, MirrorRests

-----------------------------------------------------------------------------
(* The theorems *)

\* The Boolean variables have their type, and with it all of them.
Flags == lost \in BOOLEAN /\ settled \in BOOLEAN
LEMMA FlagsStep == Flags /\ [Next]_vars => Flags'
<1> SUFFICES ASSUME Flags, [Next]_vars PROVE Flags'
  OBVIOUS
<1>0. TRUE \in BOOLEAN /\ FALSE \in BOOLEAN
  OBVIOUS
<1>1. lost' \in {lost, TRUE, FALSE}
  <2> USE DEF syncVars
  <2>1. CASE SyncStep
    BY <2>1 DEF SyncStep, StartSync, StartDownloads, Validate, Retry, EndSync, Stop, PlanImage, Download, EndDownload
  <2>2. CASE PushStep
    BY <2>2 DEF PushStep, StartPush, GlobManifests, Load, WriteLayout, Skopeo, StopPush, ReadManifest
  <2>3. CASE (\E i \in Refers : TagMoves(i)) \/ Rest \/ UNCHANGED vars
    BY <2>3 DEF TagMoves, Rest, vars
  <2> QED  BY <2>1, <2>2, <2>3 DEF Next
<1>2. settled' \in {settled, FALSE} \/ (\E b : settled' = b /\ b \in BOOLEAN)
  <2> USE DEF pushVars, bundleVars
  <2>1. CASE StartSync \/ StartDownloads \/ Validate \/ Retry \/ EndSync \/ Stop \/ (\E i \in Refers : PlanImage(i))
             \/ (\E f \in Files : EndDownload(f))
    BY <2>1 DEF StartSync, StartDownloads, Validate, Retry, EndSync, Stop, PlanImage, EndDownload
  <2>2. ASSUME NEW f \in Files, Download(f) PROVE settled' \in BOOLEAN
    <3>1. settled' = (settled /\ f[1] # Image)
      BY <2>2 DEF Download
    <3> QED  BY <3>1
  <2>3. CASE StartPush \/ Load \/ WriteLayout \/ Skopeo \/ StopPush \/ (\E m \in Manifests : ReadManifest(m))
    BY <2>3 DEF StartPush, Load, WriteLayout, Skopeo, StopPush, ReadManifest, Conclude
  <2>4. CASE GlobManifests
    <3>1. settled' = FALSE \/ settled' = (wanted[Image] \subseteq whole[Image])
      BY <2>4 DEF GlobManifests, Conclude
    <3>2. (wanted[Image] \subseteq whole[Image]) \in BOOLEAN
      OBVIOUS
    <3> QED  BY <1>0, <3>1, <3>2
  <2>5. CASE (\E i \in Refers : TagMoves(i)) \/ Rest \/ UNCHANGED vars
    BY <2>5 DEF TagMoves, Rest, vars
  <2> QED  BY <2>1, <2>2, <2>3, <2>4, <2>5 DEF Next, SyncStep, PushStep
<1>3. lost' \in BOOLEAN /\ settled' \in BOOLEAN
  BY <1>0, <1>1, <1>2 DEF Flags
<1> QED  BY <1>3 DEF Flags

LEMMA TypesAreAll == MirrorTypes /\ PushTypes /\ Flags /\ kind \in {"container_images", "registry"} <=> TypeOK
BY Zenon DEF MirrorTypes, PushTypes, Flags, TypeOK

LEMMA KindStep == [Next]_vars => kind' = kind
<1> SUFFICES ASSUME [Next]_vars PROVE kind' = kind
  OBVIOUS
<1> USE DEF upstreamVars
<1>1. CASE SyncStep
  BY <1>1 DEF SyncStep, StartSync, StartDownloads, Validate, Retry, EndSync, Stop, PlanImage, Download, EndDownload
<1>2. CASE PushStep
  BY <1>2 DEF PushStep, StartPush, GlobManifests, Load, WriteLayout, Skopeo, StopPush, ReadManifest
<1>3. CASE (\E i \in Refers : TagMoves(i)) \/ Rest \/ UNCHANGED vars
  BY <1>3 DEF TagMoves, Rest, vars
<1> QED  BY <1>1, <1>2, <1>3 DEF Next

LEMMA PushInit == Init => PushInv
<1> SUFFICES ASSUME Init PROVE PushInv
  OBVIOUS
<1>1. /\ pushes = 0 /\ push = "idle" /\ at = 0 /\ settled = FALSE /\ target = [i \in Refers |-> Unlisted]
      /\ names = {} /\ good = {} /\ toRead = {} /\ chosen = Unlisted /\ broken = {}
  BY DEF Init
<1>2. 0 \in 0..Len(Images)
  BY ImagesAssumption
<1>3. PushTypes
  BY <1>1, <1>2, BoundsAssumption DEF PushTypes
<1>4. Held /\ SettledBundle
  BY <1>1 DEF Held, SettledBundle
<1> QED  BY <1>3, <1>4 DEF PushInv

\* In every reachable state, what planned images need is there or to come, all
\* that is in a directory belongs to manifests its reference has named, and a
\* push that looked at a settled image holds it whole (ImageMirror's steps of
\* the planner, the download pool and PushContainerImages).
THEOREM ImageInvariant == Spec => [](MirrorInv /\ PushInv)
<1>1. Init => MirrorInv /\ PushInv
  BY MirrorInit, PushInit
<1>2. MirrorInv /\ PushInv /\ [Next]_vars => (MirrorInv /\ PushInv)'
  <2> SUFFICES ASSUME MirrorInv, PushInv, [Next]_vars PROVE MirrorInv' /\ PushInv'
    OBVIOUS
  <2>1. ASSUME NEW i \in Refers, TagMoves(i) PROVE MirrorInv' /\ PushInv'
    BY <2>1, TagMovesKeeps, MirrorLeavesPush
  <2>2. CASE SyncStep
    <3>1. PushInv'
      BY <2>2, MirrorLeavesPush
    <3>2. MirrorInv'
      BY <2>2, StartsKeep, MovesOnKeep, StopKeeps, PlanImageKeeps, DownloadKeeps, EndDownloadKeeps DEF SyncStep
    <3> QED  BY <3>1, <3>2
  <2>3. CASE PushStep
    BY <2>3, PushStepKeeps
  <2>4. CASE Rest \/ UNCHANGED vars
    <3>1. UNCHANGED <<upstreamVars, diskVars, syncVars>> /\ UNCHANGED pushVars
      BY <2>4 DEF Rest, vars
    <3>2. MirrorInv'
      BY <3>1, MirrorRests
    <3>3. PushInv'
      BY <3>1, PushRests DEF pushVars, bundleVars, diskVars, upstreamVars
    <3> QED  BY <3>2, <3>3
  <2> QED  BY <2>1, <2>2, <2>3, <2>4 DEF Next
<1> QED  BY <1>1, <1>2, PTL DEF Spec

\* Every variable keeps its type; no more files are downloaded at a time than
\* there are workers, and none that is whole is also there in part.
THEOREM ImageTypeOK == Spec => []TypeOK
<1>1. Init => Flags /\ kind \in {"container_images", "registry"}
  <2>1. ASSUME Init PROVE Flags /\ kind \in {"container_images", "registry"}
    <3>1. lost = FALSE /\ settled = FALSE /\ FALSE \in BOOLEAN
      BY <2>1 DEF Init
    <3>2. Flags
      BY <3>1 DEF Flags
    <3> QED  BY <2>1, <3>2 DEF Init
  <2> QED  BY <2>1
<1>2. Flags /\ kind \in {"container_images", "registry"} /\ [Next]_vars =>
        (Flags /\ kind \in {"container_images", "registry"})'
  BY FlagsStep, KindStep
<1>3. MirrorInv /\ PushInv /\ Flags /\ kind \in {"container_images", "registry"} => TypeOK
  BY TypesAreAll DEF MirrorInv, PushInv
<1> QED  BY <1>1, <1>2, <1>3, ImageInvariant, PTL DEF Spec

\* A sync that ends without a failed download leaves of every image it planned
\* all that it saw in the directory of the image, whole where there is a sha256
\* to tell, and an image of which it saw all is whole, for any images, however
\* they share manifests and blobs, however many syncs were cut off before.
THEOREM ImageCleanSyncIsWhole == Spec => []CleanSyncIsWhole
<1>1. MirrorInv => CleanSyncIsWhole
  <2> SUFFICES ASSUME MirrorInv, sync = "done", ~lost, NEW i \in Refers, root[i] # Unlisted
               PROVE  /\ PlannedOf(root[i]) \ Unchecked \subseteq whole[i]
                      /\ PlannedOf(root[i]) \subseteq OnDisk(i)
                      /\ FilesOf(root[i]) \cap (Unparsed \cup Unchecked) = {} => FilesOf(root[i]) \subseteq whole[i]
    BY Zenon DEF CleanSyncIsWhole
  <2>1. pending = {} /\ writing = {}
    BY DEF MirrorInv, Downloading
  <2>2. \A d \in PlannedOf(root[i]) : d \in whole[i] \/ (d \in Unchecked /\ d \in part[i])
    BY <2>1 DEF MirrorInv, Promised
  <2>3. root[i] \in Manifests
    BY DEF MirrorInv, MirrorTypes
  <2>4. ASSUME FilesOf(root[i]) \cap (Unparsed \cup Unchecked) = {} PROVE FilesOf(root[i]) \subseteq whole[i]
    <3>1. PlannedOf(root[i]) = FilesOf(root[i])
      BY <2>3, <2>4, AllIsSeen
    <3> QED  BY <2>2, <2>4, <3>1
  <2> QED  BY <2>2, <2>4 DEF OnDisk
<1> QED  BY <1>1, ImageInvariant, PTL

\* Once a settled image is read, the manifests that parse refer to each other as
\* they do upstream, and those that none refers to have been named.
LEMMA SettledIsRead ==
  ASSUME MirrorInv, PushInv, settled, push \in {"load", "layout", "copy"}
  PROVE  /\ Image \in Refers /\ had[Image] \subseteq Manifests
         /\ names \subseteq Manifests /\ names \ Unparsed \subseteq good /\ good \subseteq names
         /\ \A x \in Manifests : Kids[x] \subseteq Children[x]
         /\ \A x \in names \ Unparsed : Kids[x] = Children[x] /\ Layers[x] = Refs[x]
         /\ \A m \in names : (\A x \in names : m \notin Kids[x]) => m \in had[Image]
         /\ RootChoice \subseteq had[Image]
<1>1. Image \in Refers
  BY ImageIsConfigured DEF PushInv, Held
<1>2. names \subseteq Manifests /\ names \ Unparsed \subseteq good /\ good \subseteq names
  BY DEF PushInv, SettledBundle, PushTypes
<1>3. had[Image] \subseteq Manifests
  BY <1>1 DEF MirrorInv, MirrorTypes
<1>4. PICK R \in SUBSET had[Image] : names = UNION {Closure(r, Seen(Children)) : r \in R}
  BY DEF PushInv, SettledBundle
<1>5. \A r \in R : r \in Manifests
  BY <1>3
<1>6. \A x \in Manifests : Kids[x] \subseteq Children[x]
  BY WhatIsSeen DEF Kids
<1>7. ASSUME NEW x \in names \ Unparsed PROVE Kids[x] = Children[x] /\ Layers[x] = Refs[x]
  <2>1. PICK r \in R : x \in Closure(r, Seen(Children))
    BY <1>4
  <2>2. Seen(Children)[x] \subseteq Closure(r, Seen(Children))
    BY <1>5, <2>1, WhatIsSeen, ClosureIsClosed
  <2>3. Seen(Children)[x] = Children[x]
    BY <1>2, WhatIsSeen
  <2>4. Children[x] \subseteq names
    BY <1>4, <2>2, <2>3
  <2> QED  BY <1>2, <2>4 DEF Kids, Layers
<1>8. ASSUME NEW m \in names, \A x \in names : m \notin Kids[x] PROVE m \in had[Image]
  <2>1. PICK r \in R : m \in Closure(r, Seen(Children))
    BY <1>4
  <2>2. CASE m = r
    BY <2>2
  <2>3. CASE m # r
    <3>1. PICK y \in Closure(r, Seen(Children)) : m \in Seen(Children)[y]
      BY <1>5, <2>1, <2>3, WhatIsSeen, ReferredWithin
    <3>2. y \in names
      BY <1>4
    <3>3. y \notin Unparsed /\ m \in Children[y]
      BY <1>2, <3>1, <3>2, WhatIsSeen
    <3> QED  BY <1>7, <1>8, <3>2, <3>3
  <2> QED  BY <2>2, <2>3
<1>9. RootChoice \subseteq had[Image]
  <2> DEFINE candidates == {m \in names : \A x \in names : m \notin Kids[x]}
  <2>1. candidates \subseteq had[Image]
    BY <1>8
  <2>2. CASE Image \in Pinned
    <3>1. PICK x : Roots[Image] = {x}
      <4>1. IsFiniteSet(Roots[Image])
        BY <1>1, ImagesAssumption, ContentAssumption, FS_Subset
      <4>2. Cardinality(Roots[Image]) = 1
        BY <2>2, ImagesAssumption
      <4> QED  BY <4>1, <4>2, FS_Singleton
    <3>2. had[Image] \subseteq Roots[Image] /\ had[Image] # {}
      BY <1>1 DEF MirrorInv, MirrorTypes, NamedOnly
    <3>3. had[Image] = Roots[Image]
      BY <3>1, <3>2
    <3>4. RootChoice \subseteq Roots[Image] \cup candidates
      BY DEF RootChoice
    <3> QED  BY <2>1, <3>3, <3>4
  <2>3. CASE Image \notin Pinned
    <3>1. RootChoice \subseteq candidates
      BY <2>3 DEF RootChoice
    <3> QED  BY <2>1, <3>1
  <2> QED  BY <2>2, <2>3
<1> QED  BY <1>1, <1>2, <1>3, <1>6, <1>7, <1>8, <1>9

\* If the reference has named one manifest only, what was found is what is seen
\* below it, and it is the only one that none refers to: nothing is below itself.
\* If all of it parses, what is read of it is all that is below it.
LEMMA OneNamedIsChosen ==
  ASSUME MirrorInv, PushInv, settled, push \in {"load", "layout", "copy"}, NEW h, had[Image] = {h}
  PROVE  /\ h \in Manifests /\ names = Closure(h, Seen(Children)) /\ RootChoice = {h}
         /\ FilesOf(h) \cap Unparsed = {} =>
               /\ names = Closure(h, Children) /\ names \cap Unparsed = {} /\ good = names
               /\ Closure(h, Kids) = Closure(h, Children)
<1>1. /\ Image \in Refers /\ h \in Manifests /\ names \subseteq Manifests
      /\ names \ Unparsed \subseteq good /\ good \subseteq names
      /\ \A x \in Manifests : Kids[x] \subseteq Children[x]
      /\ \A x \in names \ Unparsed : Kids[x] = Children[x]
      /\ \A m \in names : (\A x \in names : m \notin Kids[x]) => m = h
  BY SettledIsRead
<1>3. names = Closure(h, Seen(Children))
  <2>1. PICK R \in SUBSET {h} : names = UNION {Closure(r, Seen(Children)) : r \in R}
    BY DEF PushInv, SettledBundle
  <2>2. names # {}
    BY DEF PushInv, SettledBundle
  <2>3. R = {h}
    BY <2>1, <2>2
  <2> QED  BY <2>1, <2>3
<1>4. h \in names
  BY <1>1, <1>3, WhatIsSeen, ClosureHolds
<1>5. \A x \in names : h \notin Kids[x]
  <2>1. names \subseteq Closure(h, Children)
    BY <1>1, <1>3, WhatIsSeen, SmallerClosure
  <2> QED  BY <1>1, <2>1, AcyclicAssumption
<1>6. {m \in names : \A x \in names : m \notin Kids[x]} = {h}
  BY <1>1, <1>4, <1>5
<1>7. RootChoice = {h}
  <2>1. CASE Image \in Pinned
    <3>1. PICK x : Roots[Image] = {x}
      <4>1. IsFiniteSet(Roots[Image])
        BY <1>1, ImagesAssumption, ContentAssumption, FS_Subset
      <4>2. Cardinality(Roots[Image]) = 1
        BY <2>1, ImagesAssumption
      <4> QED  BY <4>1, <4>2, FS_Singleton
    <3>2. had[Image] \subseteq Roots[Image]
      BY <1>1 DEF MirrorInv, MirrorTypes
    <3>3. Roots[Image] = {h}
      BY <3>1, <3>2
    <3> QED  BY <1>4, <2>1, <3>3 DEF RootChoice
  <2>2. CASE Image \notin Pinned
    <3>1. Cardinality({h}) = 1
      BY FS_Singleton
    <3> QED  BY <1>6, <2>2, <3>1 DEF RootChoice
  <2> QED  BY <2>1, <2>2
<1>8. ASSUME FilesOf(h) \cap Unparsed = {}
      PROVE  /\ names = Closure(h, Children) /\ names \cap Unparsed = {} /\ good = names
             /\ Closure(h, Kids) = Closure(h, Children)
  <2>1. names = Closure(h, Children)
    BY <1>1, <1>3, <1>8, AllIsSeen
  <2>2. names \cap Unparsed = {}
    BY <1>1, <1>8, <2>1, FilesOfShape
  <2>3. Kids \in [Manifests -> SUBSET Manifests]
    BY WhatIsRead DEF PushInv
  <2>4. \A x \in Closure(h, Children) : Kids[x] = Children[x]
    BY <1>1, <2>1, <2>2
  <2>5. Closure(h, Kids) = Closure(h, Children)
    BY <1>1, <2>3, <2>4, WhatIsSeen, SameClosure
  <2> QED  BY <1>1, <2>1, <2>2, <2>5
<1> QED  BY <1>1, <1>3, <1>7, <1>8

\* What is pushed of a settled image is a manifest that its reference has
\* named, never one below it, and no blob of it is broken; if it has named only
\* one, that one is found, and if all its manifests parse, it is pushed whole and
\* not refused (chooseRootDigest, loadImageBundle, writeOCILayout).
THEOREM ImagePushedIsTheImage == Spec => []PushedIsTheImage
<1> DEFINE AllOf(m) == Acceptable /\ LayoutManifests \cup LayoutBlobs = FilesOf(m)
<1>1. MirrorInv /\ PushInv => PushedIsTheImage
  <2> SUFFICES ASSUME MirrorInv, PushInv, push # "idle", settled
               PROVE  /\ push \in {"layout", "copy"} => chosen \in had[Image] /\ broken = {}
                      /\ Cardinality(had[Image]) = 1 =>
                            /\ push = "load" => RootChoice = had[Image]
                            /\ push \in {"layout", "copy"} /\ FilesOf(chosen) \cap Unparsed = {} => AllOf(chosen)
    BY Zenon DEF PushedIsTheImage
  <2>1. ASSUME push \in {"layout", "copy"} PROVE chosen \in had[Image] /\ broken = {}
    <3>1. chosen \in had[Image]
      BY <2>1, SettledIsRead DEF PushInv, Held
    <3>2. broken = {}
      BY <2>1 DEF PushInv, Held, SettledBundle
    <3> QED  BY <3>1, <3>2
  <2>2. ASSUME Cardinality(had[Image]) = 1, push \in {"load", "layout", "copy"} PROVE \E h : had[Image] = {h}
    <3>1. IsFiniteSet(had[Image])
      BY <2>2, SettledIsRead, ContentAssumption, FS_Subset
    <3> QED  BY <2>2, <3>1, FS_Singleton
  <2>3. ASSUME Cardinality(had[Image]) = 1, push = "load" PROVE RootChoice = had[Image]
    <3>1. PICK h : had[Image] = {h}
      BY <2>2, <2>3
    <3> QED  BY <2>3, <3>1, OneNamedIsChosen
  <2>4. ASSUME Cardinality(had[Image]) = 1, push \in {"layout", "copy"}, FilesOf(chosen) \cap Unparsed = {}
        PROVE  AllOf(chosen)
    <3>1. PICK h : had[Image] = {h}
      BY <2>2, <2>4
    <3>2. h \in Manifests /\ RootChoice = {h}
      BY <2>4, <3>1, OneNamedIsChosen
    <3>3. chosen = h
      BY <2>4, <3>2 DEF PushInv, Held
    <3>4. /\ names = Closure(h, Children) /\ names \cap Unparsed = {} /\ good = names
          /\ Closure(h, Kids) = Closure(h, Children)
      BY <2>4, <3>1, <3>3, OneNamedIsChosen
    <3>5. Image \in Refers /\ \A x \in names : Layers[x] = Refs[x]
      BY <2>4, <3>4, SettledIsRead
    <3>6. LayoutManifests = Closure(h, Children)
      BY <3>3, <3>4 DEF LayoutManifests
    <3>7. LayoutBlobs = UNION {Refs[x] : x \in Closure(h, Children)}
      <4>1. {Layers[x] : x \in LayoutManifests} = {Refs[x] : x \in Closure(h, Children)}
        BY <3>4, <3>5, <3>6
      <4> QED  BY <4>1 DEF LayoutBlobs
    <3>8. UNION {Children[m] : m \in LayoutManifests} \subseteq LayoutManifests
      <4>1. \A m \in Closure(h, Children) : Children[m] \subseteq Closure(h, Children)
        BY <3>2, ClosureIsClosed, ContentAssumption
      <4> QED  BY <3>6, <4>1
    <3>9. had[Image] \subseteq Roots[Image]
      BY <3>5 DEF MirrorInv, MirrorTypes
    <3>10. Acceptable
      BY <3>1, <3>3, <3>4, <3>6, <3>8, <3>9 DEF Acceptable
    <3>11. FilesOf(h) = Closure(h, Children) \cup UNION {Refs[x] : x \in Closure(h, Children)}
      BY <3>2, FilesOfShape
    <3> QED  BY <3>3, <3>6, <3>7, <3>10, <3>11
  <2> HIDE DEF AllOf
  <2> QED  BY <2>1, <2>3, <2>4
<1> QED  BY <1>1, ImageInvariant, PTL
=============================================================================

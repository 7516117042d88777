------------------------- MODULE ConfigReloadProofs -------------------------
(***************************************************************************)
(* A sync keeps the provider it has looked up, for any number of names,    *)
(* requests and syncs: the argument is that of a readers-writer lock,      *)
(* there is at most one writer, and once it is inside no sync is.  And     *)
(* what is loaded follows the table: the lists that reloads have made are  *)
(* numbered, and the last one made is that of the table as it is.          *)
(***************************************************************************)
EXTENDS ConfigReload, FiniteSetTheorems, TLAPS

HandlerPC == {"new", "update", "list", "waiting", "pending", "build", "fill", "flags",
              "answer", "ok", "failed"}
WriterPC == {"pending", "build", "fill", "flags"}
InsidePC == {"build", "fill", "flags"}

\* What the argument needs of the types: pc, pass, got and registry are functions.
Shapes ==
    /\ pc \in [Handlers -> HandlerPC]
    /\ pass \in [Passes -> {"idle", "next", "rlock", "syncing"}]
    /\ got = [p \in Passes |-> got[p]]

OneWriter == \A g, h \in Handlers : pc[g] \in WriterPC /\ pc[h] \in WriterPC => g = h

InsideAlone == \A h \in Handlers, p \in Passes : pc[h] \in InsidePC => pass[p] # "syncing"

\* When the process does not run nobody syncs, so that its start may fill the registry.
DownIsIdle == ~up => \A p \in Passes : pass[p] = "idle"

LockInv == Shapes /\ OneWriter /\ InsideAlone /\ DownIsIdle /\ SyncKeepsProvider

\* A request moves on, or ends, without becoming a writer; nothing else moves.
Quiet(h) ==
    /\ \E to \in HandlerPC \ WriterPC : pc' = [pc EXCEPT ![h] = to]
    /\ UNCHANGED <<registry, up, pass, at, got>>

\* The invariant holds at the start: no request, no sync.
LEMMA LockInit == Init => LockInv
  BY DEF Init, LockInv, Shapes, OneWriter, InsideAlone, DownIsIdle, SyncKeepsProvider, HandlerPC,
         WriterPC, InsidePC

\* Steps of a request outside the lock keep the invariant.
LEMMA QuietKeeps ==
  ASSUME LockInv, NEW h \in Handlers, Quiet(h)
  PROVE  LockInv'
<1> USE DEF LockInv, Quiet, HandlerPC, WriterPC, InsidePC
<1>1. Shapes'
  BY DEF Shapes
<1>2. OneWriter'
  BY DEF Shapes, OneWriter
<1>3. InsideAlone'
  BY DEF Shapes, InsideAlone
<1>4. DownIsIdle'
  BY DEF DownIsIdle
<1>5. SyncKeepsProvider'
  BY DEF SyncKeepsProvider
<1>6. QED
  BY <1>1, <1>2, <1>3, <1>4, <1>5

\* The handlers up to the reload, the list and the answer are such steps.
LEMMA RequestIsQuiet ==
  ASSUME NEW h \in Handlers, Request(h) \/ WriteUpdate(h) \/ ListTable(h) \/ Answer(h)
  PROVE  Quiet(h)
<1> USE DEF Quiet, HandlerPC, WriterPC, Go, End, New, About, liveVars, loadedVars, passVars
<1>1. CASE Create(h)
  BY <1>1 DEF Create
<1>2. CASE ReadForUpdate(h)
  BY <1>2 DEF ReadForUpdate
<1>3. CASE Delete(h)
  BY <1>3 DEF Delete
<1>4. CASE Toggle(h)
  BY <1>4 DEF Toggle
<1>5. CASE WriteUpdate(h)
  BY <1>5 DEF WriteUpdate
<1>6. CASE ListTable(h)
  BY <1>6 DEF ListTable, AfterReload
<1>7. CASE Answer(h)
  BY <1>7 DEF Answer
<1>8. QED
  BY <1>1, <1>2, <1>3, <1>4, <1>5, <1>6, <1>7 DEF Request

\* A writer announces itself only if there is none.
LEMMA AnnounceKeeps ==
  ASSUME LockInv, NEW h \in Handlers, Announce(h)
  PROVE  LockInv'
<1> USE DEF LockInv, Announce, Go, Writers, HandlerPC, WriterPC, InsidePC, liveVars, loadedVars, passVars
<1>1. Shapes'
  BY DEF Shapes
<1>2. OneWriter'
  BY DEF Shapes, OneWriter
<1>3. InsideAlone'
  BY DEF Shapes, InsideAlone
<1>4. DownIsIdle' /\ SyncKeepsProvider'
  BY DEF DownIsIdle, SyncKeepsProvider
<1>5. QED
  BY <1>1, <1>2, <1>3, <1>4

\* A writer gets inside only when the last sync has left.
LEMMA AcquireKeeps ==
  ASSUME LockInv, NEW h \in Handlers, Acquire(h)
  PROVE  LockInv'
<1> USE DEF LockInv, Acquire, Go, Readers, HandlerPC, WriterPC, InsidePC, liveVars, loadedVars, passVars
<1>1. Shapes'
  BY DEF Shapes
<1>2. OneWriter'
  BY DEF Shapes, OneWriter
<1>3. InsideAlone'
  BY DEF Shapes, InsideAlone
<1>4. DownIsIdle' /\ SyncKeepsProvider'
  BY DEF DownIsIdle, SyncKeepsProvider
<1>5. QED
  BY <1>1, <1>2, <1>3, <1>4

\* Inside, the registry may change: nobody syncs.
LEMMA InsideKeeps ==
  ASSUME LockInv, NEW h \in Handlers, Clear(h) \/ Fill(h) \/ SetFlags(h)
  PROVE  LockInv'
<1> USE DEF LockInv, HandlerPC, WriterPC, InsidePC
<1>1. /\ pc[h] \in InsidePC
      /\ \E to \in {"fill", "flags", "answer", "ok", "failed"} : pc' = [pc EXCEPT ![h] = to]
      /\ UNCHANGED <<up, pass, at, got>>
  BY DEF Clear, Fill, SetFlags, AfterReload, End, Go, liveVars, passVars
<1>2. Shapes'
  BY <1>1 DEF Shapes
<1>3. OneWriter'
  BY <1>1 DEF Shapes, OneWriter
<1>4. \A p \in Passes : pass'[p] # "syncing"
  BY <1>1 DEF InsideAlone
<1>5. InsideAlone' /\ SyncKeepsProvider'
  BY <1>4 DEF InsideAlone, SyncKeepsProvider
<1>6. DownIsIdle'
  BY <1>1 DEF DownIsIdle
<1>7. QED
  BY <1>2, <1>3, <1>5, <1>6

\* A sync looks its provider up only while there is no writer, and what it
\* finds is registered.  Its other steps start no sync.
LEMMA SyncKeeps ==
  ASSUME LockInv, NEW p \in Passes, StartAll(p) \/ StartOne(p) \/ SyncStep(p)
  PROVE  LockInv'
<1> USE DEF LockInv
<1>1. CASE Lookup(p)
  <2> USE <1>1 DEF Lookup, liveVars, loadedVars
  <2>1. Shapes'
    BY DEF Shapes
  <2>2. OneWriter'
    BY DEF OneWriter
  <2>3. InsideAlone'
    BY DEF Writers, InsideAlone, InsidePC
  <2>4. DownIsIdle'
    BY DEF Shapes, DownIsIdle
  <2>5. SyncKeepsProvider'
    BY DEF Shapes, SyncKeepsProvider
  <2>6. QED
    BY <2>1, <2>2, <2>3, <2>4, <2>5
<1>2. CASE StartAll(p) \/ StartOne(p) \/ SkipDisabled(p) \/ CallSync(p) \/ EndSync(p) \/ EndPass(p)
  <2> DEFINE Moves(to) == /\ UNCHANGED <<pc, registry, up>> /\ up
                          /\ got' \in {got, [got EXCEPT ![p] = NoProvider]}
                          /\ \A q \in Passes \ {p} : at'[q] = at[q]
                          /\ pass' = [pass EXCEPT ![p] = to]
  <2>1. Moves("idle") \/ Moves("next") \/ Moves("rlock")
    <3> USE DEF liveVars, loadedVars, Shapes, DownIsIdle
    <3>1. CASE StartAll(p)
      BY <3>1 DEF StartAll
    <3>2. CASE StartOne(p)
      BY <3>2 DEF StartOne
    <3>3. CASE SkipDisabled(p)
      <4>1. pass' = pass /\ pass = [pass EXCEPT ![p] = "next"] /\ up
        BY <3>3 DEF SkipDisabled
      <4>2. Moves("next")
        BY <3>3, <4>1 DEF SkipDisabled
      <4>3. QED
        BY <4>2
    <3>4. CASE CallSync(p)
      <4>1. up /\ \A q \in Passes \ {p} : at'[q] = at[q]
        BY <3>4 DEF CallSync
      <4>2. Moves("rlock")
        BY <3>4, <4>1 DEF CallSync
      <4>3. QED
        BY <4>2
    <3>5. CASE EndSync(p)
      BY <3>5 DEF EndSync
    <3>6. CASE EndPass(p)
      BY <3>6 DEF EndPass
    <3>7. QED
      BY <1>2, <3>1, <3>2, <3>3, <3>4, <3>5, <3>6
  <2>2. Shapes'
    BY <2>1 DEF Shapes
  <2>3. OneWriter'
    BY <2>1 DEF OneWriter
  <2>4. InsideAlone'
    BY <2>1 DEF Shapes, InsideAlone
  <2>5. DownIsIdle'
    BY <2>1 DEF Shapes, DownIsIdle
  <2>6. SyncKeepsProvider'
    BY <2>1 DEF Shapes, SyncKeepsProvider
  <2>7. QED
    BY <2>2, <2>3, <2>4, <2>5, <2>6
<1>3. QED
  BY <1>1, <1>2 DEF SyncStep

\* The process ends and starts with nobody inside.
LEMMA ProcessKeeps ==
  ASSUME LockInv, Crash \/ StartUp \/ StartPanics
  PROVE  LockInv'
<1> USE DEF LockInv
<1>1. CASE Crash
  BY <1>1 DEF Crash, Shapes, OneWriter, InsideAlone, DownIsIdle, SyncKeepsProvider, HandlerPC,
              WriterPC, InsidePC
<1>2. CASE StartUp
  BY <1>2 DEF StartUp, Start, passVars, Shapes, OneWriter, InsideAlone, DownIsIdle, SyncKeepsProvider
<1>3. CASE StartPanics
  BY <1>3 DEF StartPanics, vars, liveVars, loadedVars, passVars, Shapes, OneWriter, InsideAlone,
              DownIsIdle, SyncKeepsProvider
<1>4. QED
  BY <1>1, <1>2, <1>3

\* The lock's invariant holds in every state of every execution.
THEOREM ReloadInvariant == Spec => []LockInv
<1>1. Init => LockInv
  BY LockInit
<1>2. LockInv /\ [Next]_vars => LockInv'
  <2> SUFFICES ASSUME LockInv, [Next]_vars PROVE LockInv'
    OBVIOUS
  <2>1. ASSUME NEW h \in Handlers, Request(h) \/ ReloadStep(h) PROVE LockInv'
    <3>1. CASE Request(h) \/ WriteUpdate(h) \/ ListTable(h) \/ Answer(h)
      BY <3>1, RequestIsQuiet, QuietKeeps
    <3>2. CASE Announce(h)
      BY <3>2, AnnounceKeeps
    <3>3. CASE Acquire(h)
      BY <3>3, AcquireKeeps
    <3>4. CASE Clear(h) \/ Fill(h) \/ SetFlags(h)
      BY <3>4, InsideKeeps
    <3>5. QED
      BY <2>1, <3>1, <3>2, <3>3, <3>4 DEF ReloadStep
  <2>2. ASSUME NEW p \in Passes, StartAll(p) \/ StartOne(p) \/ SyncStep(p) PROVE LockInv'
    BY <2>2, SyncKeeps
  <2>3. CASE Crash \/ StartUp \/ StartPanics
    BY <2>3, ProcessKeeps
  <2>4. CASE UNCHANGED vars
    BY <2>4 DEF vars, liveVars, loadedVars, passVars, LockInv, Shapes, OneWriter, InsideAlone, DownIsIdle,
                SyncKeepsProvider
  <2>5. QED
    BY <2>1, <2>2, <2>3, <2>4 DEF Next
<1>3. QED
  BY <1>1, <1>2, PTL DEF Spec

\* The provider a sync has looked up is the registered one until it ends.
THEOREM ReloadSyncKeepsProvider == Spec => []SyncKeepsProvider
<1>1. LockInv => SyncKeepsProvider
  BY DEF LockInv
<1>2. QED
  BY <1>1, ReloadInvariant, PTL

-----------------------------------------------------------------------------
(* What is loaded follows the table *)

\* A start seeds a row for each name, a request makes at most one row, and at
\* most one list after the last start.
Starts == IF up THEN crashes + 1 ELSE crashes
Begun == {h \in Handlers : pc[h] # "new"}
HasListed == {h \in Handlers : pc[h] \notin {"new", "update", "list"}}
Bounded ==
    /\ nextId <= NumNames * Starts + Cardinality(Begun) + 1
    /\ lists <= Cardinality(HasListed)

\* A list that is neither applied nor failed is held by a request, which
\* applies it under its number.
Applying == {"waiting", "pending", "build", "fill", "flags"}
Stamped ==
    /\ current <= newest /\ newest <= lists
    /\ \A h \in Handlers : pc[h] \in Applying => stamp[h] \in 1..lists
    /\ newest = lists \/ \E h \in Handlers : pc[h] \in Applying \ {"flags"} /\ stamp[h] = lists
    /\ \A h \in Handlers : pc[h] = "flags" => stamp[h] = current
    /\ ~up => \A h \in Handlers : pc[h] \in {"new", "ok", "failed"}

\* Who changes the table has still to list it: unless somebody has, the last
\* list made is the table.
NobodyLists == \A h \in Handlers : pc[h] # "list"
LastListIsTable ==
    NobodyLists => \A h \in Handlers : pc[h] \in Applying /\ stamp[h] = lists => list[h] = table

\* The two things a reload sets, outside of the moments in which it does, are
\* those of the list applied last, and that is the table if it is the last list
\* made.
RegistryFollows ==
    /\ \A n \in Names : Loadable(loaded[n]) => registry[n] # NoProvider
    /\ \A n \in Registered : loaded[n].enabled /\ loaded[n].settings = registry[n].settings
FlagsFollow == flags = FlagsOf(loaded)
OneTable ==
    up => /\ (\A h \in Handlers : pc[h] # "fill") => RegistryFollows
          /\ (\A h \in Handlers : pc[h] # "flags") => FlagsFollow
          /\ \A h \in Handlers : pc[h] = "flags" => list[h] = loaded
LastListIsLoaded == (up /\ current = lists /\ NobodyLists) => loaded = table

LoadInv == TypeOK /\ Bounded /\ Stamped /\ LastListIsTable /\ OneTable /\ LastListIsLoaded
-----------------------------------------------------------------------------
\* Rows of the table, made and changed.
LEMMA RowMade ==
  ASSUME NEW i \in 1..MaxRows, NEW e \in BOOLEAN, NEW c \in Settings
  PROVE  [id |-> i, enabled |-> e, settings |-> c] \in Rows
BY DEF Rows

LEMMA RowChanged ==
  ASSUME NEW r \in Rows, NEW e \in BOOLEAN, NEW c \in Settings
  PROVE  [r EXCEPT !.enabled = e, !.settings = c] \in Rows
BY DEF Rows

LEMMA RowToggled ==
  ASSUME NEW r \in Rows
  PROVE  [r EXCEPT !.enabled = ~@] \in Rows
<1>1. \A e \in BOOLEAN : [r EXCEPT !.enabled = e] \in Rows
  BY DEF Rows
<1>2. (~r.enabled) \in BOOLEAN
  OBVIOUS
<1> QED  BY <1>1, <1>2

\* The bounds are numbers.
LEMMA BoundsAreNumbers ==
  /\ NumNames \in Nat \ {0} /\ MaxCrashes \in Nat /\ MaxRows \in Nat /\ Cardinality(Handlers) \in Nat
  /\ MaxRows >= NumNames /\ 1 \in Names
<1>1. Cardinality(Handlers) \in Nat
  BY HandlersAssumption, FS_CardinalityType
<1>2. NumNames * (MaxCrashes + 1) \in Nat /\ NumNames * (MaxCrashes + 1) >= NumNames
  BY NumNamesAssumption, MaxCrashesAssumption
<1> QED  BY <1>1, <1>2, NumNamesAssumption, MaxCrashesAssumption DEF MaxRows, Names

\* A request moves on: what it adds to the counts.
LEMMA CountsMove ==
  ASSUME TypeOK, NEW h \in Handlers, NEW to \in HandlerPC, pc' = [pc EXCEPT ![h] = to], to # "new"
  PROVE  /\ Cardinality(Begun) \in Nat /\ Cardinality(HasListed) \in Nat
         /\ Cardinality(Begun') \in Nat /\ Cardinality(HasListed') \in Nat
         /\ Cardinality(Begun') <= Cardinality(Handlers) /\ Cardinality(HasListed') <= Cardinality(Handlers)
         /\ Cardinality(Begun') = IF pc[h] = "new" THEN Cardinality(Begun) + 1 ELSE Cardinality(Begun)
         /\ to \notin {"update", "list"} =>
               /\ Cardinality(HasListed') >= Cardinality(HasListed)
               /\ pc[h] \in {"new", "update", "list"} => Cardinality(HasListed') = Cardinality(HasListed) + 1
         /\ to \in {"update", "list"} /\ pc[h] \in {"new", "update"} =>
               Cardinality(HasListed') = Cardinality(HasListed)
<1>1. Begun \subseteq Handlers /\ HasListed \subseteq Handlers /\ Begun' \subseteq Handlers /\ HasListed' \subseteq Handlers
  BY DEF Begun, HasListed
<1>2. IsFiniteSet(Begun) /\ IsFiniteSet(HasListed)
  BY <1>1, HandlersAssumption, FS_Subset
<1>3. Begun' = Begun \cup {h}
  BY DEF Begun, TypeOK
<1>4. h \in Begun <=> pc[h] # "new"
  BY DEF Begun
<1>5. Cardinality(Begun') = IF pc[h] = "new" THEN Cardinality(Begun) + 1 ELSE Cardinality(Begun)
  BY <1>2, <1>3, <1>4, FS_AddElement
<1>6. ASSUME to \notin {"update", "list"}
      PROVE  /\ Cardinality(HasListed') >= Cardinality(HasListed)
             /\ pc[h] \in {"new", "update", "list"} => Cardinality(HasListed') = Cardinality(HasListed) + 1
  <2>1. HasListed' = HasListed \cup {h}
    BY <1>6 DEF HasListed, TypeOK
  <2>2. h \in HasListed <=> pc[h] \notin {"new", "update", "list"}
    BY DEF HasListed
  <2>3. Cardinality(HasListed) \in Nat
    BY <1>2, FS_CardinalityType
  <2>4. Cardinality(HasListed') = IF h \in HasListed THEN Cardinality(HasListed) ELSE Cardinality(HasListed) + 1
    BY <1>2, <2>1, FS_AddElement
  <2> QED  BY <2>2, <2>3, <2>4
<1>7. ASSUME to \in {"update", "list"}, pc[h] \in {"new", "update"}
      PROVE  Cardinality(HasListed') = Cardinality(HasListed)
  BY <1>7 DEF HasListed, TypeOK
<1>8. /\ Cardinality(Begun) \in Nat /\ Cardinality(HasListed) \in Nat
      /\ Cardinality(Begun') \in Nat /\ Cardinality(HasListed') \in Nat
      /\ Cardinality(Begun') <= Cardinality(Handlers) /\ Cardinality(HasListed') <= Cardinality(Handlers)
  BY <1>1, HandlersAssumption, FS_Subset, FS_CardinalityType
<1> QED  BY <1>5, <1>6, <1>7, <1>8

\* The next id is one that a row may have, as long as a request is to begin or
\* the process to start.
LEMMA IdsSuffice ==
  ASSUME TypeOK, Bounded
  PROVE  /\ (\E h \in Handlers : pc[h] = "new") => nextId \in 1..MaxRows
         /\ ~up => nextId + NumNames \in 1..(MaxRows + 1)
<1>1. nextId \in Nat \ {0} /\ crashes \in Nat /\ crashes <= MaxCrashes
  BY BoundsAreNumbers DEF TypeOK
<1>2. Begun \subseteq Handlers /\ IsFiniteSet(Begun) /\ Cardinality(Begun) \in Nat /\ Cardinality(Begun) <= Cardinality(Handlers)
  BY HandlersAssumption, FS_Subset, FS_CardinalityType DEF Begun
<1>3. Starts \in Nat /\ Starts <= MaxCrashes + 1
  BY <1>1, BoundsAreNumbers DEF Starts
<1>4. NumNames * Starts \in Nat /\ NumNames * Starts <= NumNames * (MaxCrashes + 1)
  BY <1>3, BoundsAreNumbers
<1>5. ASSUME NEW h \in Handlers, pc[h] = "new" PROVE nextId \in 1..MaxRows
  <2>1. Cardinality(Begun) # Cardinality(Handlers)
    <3>1. h \notin Begun
      BY <1>5 DEF Begun
    <3> QED  BY <1>2, <3>1, FS_Subset, HandlersAssumption
  <2> QED  BY <1>1, <1>2, <1>4, <2>1, BoundsAreNumbers DEF Bounded, MaxRows
<1>6. ASSUME ~up PROVE nextId + NumNames \in 1..(MaxRows + 1)
  <2>1. Starts = crashes
    BY <1>6 DEF Starts
  <2>2. NumNames * crashes + NumNames <= NumNames * (MaxCrashes + 1) /\ NumNames * crashes \in Nat
    <3>1. NumNames * (crashes + 1) <= NumNames * (MaxCrashes + 1) /\ NumNames * (crashes + 1) = NumNames * crashes + NumNames
      BY <1>1, BoundsAreNumbers
    <3> QED  BY <3>1, <1>1, BoundsAreNumbers
  <2>3. NumNames * (MaxCrashes + 1) \in Nat
    BY BoundsAreNumbers
  <2> HIDE DEF MaxRows
  <2>4. MaxRows = NumNames * (MaxCrashes + 1) + Cardinality(Handlers)
    BY DEF MaxRows
  <2>5. nextId <= NumNames * crashes + Cardinality(Begun) + 1
    BY <2>1 DEF Bounded
  <2> QED  BY <1>1, <1>2, <2>2, <2>3, <2>4, <2>5, BoundsAreNumbers
<1> QED  BY <1>5, <1>6

-----------------------------------------------------------------------------
\* The handlers' steps, by what they do to the table: a change of the table
\* that is still to be listed, or a move of the request that changes nothing
\* else.
RequestsTyped ==
    /\ name \in [Handlers -> Names] /\ deletes \in [Handlers -> BOOLEAN]
    /\ row \in [Handlers -> Rows \cup {NoRow}]
Changes(h) ==
    /\ pc[h] \in {"new", "update"} /\ up /\ pc' = [pc EXCEPT ![h] = "list"]
    /\ table' \in Tables
    /\ nextId' = nextId \/ (nextId' = nextId + 1 /\ pc[h] = "new")
    /\ RequestsTyped'
    /\ UNCHANGED <<liveVars, loadedVars, passVars, historyVars, list>>
Moves(h) ==
    /\ up
    /\ \E to \in {"update", "failed", "ok", "pending", "build"} :
          /\ pc' = [pc EXCEPT ![h] = to]
          /\ pc[h] \in {"new", "update", "answer", "waiting", "pending"}
          /\ to \in {"pending", "build"} <=> pc[h] \in {"waiting", "pending"}
          /\ to = "update" => pc[h] = "new"
    /\ RequestsTyped'
    /\ UNCHANGED <<tableVars, liveVars, loadedVars, passVars, historyVars, list>>

\* What a request holds keeps its type when it starts and when it ends.
LEMMA RequestsHold ==
  ASSUME TypeOK, NEW h \in Handlers,
         \/ \E n \in Names, d \in BOOLEAN : About(h, n, d)
         \/ \E how \in HandlerPC : End(h, how)
         \/ UNCHANGED <<name, deletes>>
  PROVE  name' \in [Handlers -> Names] /\ deletes' \in [Handlers -> BOOLEAN]
<1>1. name \in [Handlers -> Names] /\ deletes \in [Handlers -> BOOLEAN] /\ 1 \in Names
  BY BoundsAreNumbers DEF TypeOK
<1>2. name' \in [Handlers -> Names]
  BY <1>1 DEF About, End
<1>3. \A d \in BOOLEAN : [deletes EXCEPT ![h] = d] \in [Handlers -> BOOLEAN]
  BY <1>1
<1>4. \E d \in BOOLEAN : deletes' = [deletes EXCEPT ![h] = d] \/ deletes' = deletes
  <2>1. FALSE \in BOOLEAN
    OBVIOUS
  <2> QED  BY <2>1 DEF About, End
<1> QED  BY <1>1, <1>2, <1>3, <1>4

LEMMA TableAndRows ==
  ASSUME TypeOK
  PROVE  /\ table \in [Names -> Rows \cup {NoRow}] /\ row \in [Handlers -> Rows \cup {NoRow}]
         /\ \A n \in Names : table[n] # NoRow => table[n] \in Rows
BY DEF TypeOK, Tables

LEMMA RequestChanges ==
  ASSUME TypeOK, Bounded, NEW h \in Handlers, Request(h)
  PROVE  Changes(h) \/ Moves(h)
<1>0. FALSE \in BOOLEAN /\ TRUE \in BOOLEAN /\ Inputs \subseteq Settings /\ Nulls \subseteq Settings
  BY InputsAssumption DEF Settings
<1>1. CASE Create(h)
  <2>1. PICK n \in Names, e \in BOOLEAN, c \in Inputs :
          /\ New(h)
          /\ IF table[n] = NoRow
             THEN /\ table' = [table EXCEPT ![n] = [id |-> nextId, enabled |-> e, settings |-> c]]
                  /\ nextId' = nextId + 1 /\ Go(h, "list") /\ About(h, n, FALSE)
             ELSE End(h, "failed") /\ UNCHANGED tableVars
          /\ UNCHANGED <<liveVars, loadedVars, passVars, historyVars, row, list>>
    BY <1>1 DEF Create
  <2>2. CASE table[n] = NoRow
    <3>1. [id |-> nextId, enabled |-> e, settings |-> c] \in Rows
      BY <1>0, <2>1, IdsSuffice, RowMade DEF New
    <3>2. table' \in Tables
      BY <2>1, <2>2, <3>1, TableAndRows DEF Tables
    <3>3. RequestsTyped'
      BY <1>0, <2>1, <2>2, RequestsHold, TableAndRows DEF RequestsTyped
    <3> QED  BY <2>1, <2>2, <3>2, <3>3 DEF Changes, New, Go
  <2>3. CASE table[n] # NoRow
    <3>1. End(h, "failed")
      BY <2>1, <2>3
    <3>2. RequestsTyped'
      BY <2>1, <3>1, RequestsHold, TableAndRows DEF RequestsTyped, HandlerPC
    <3> QED  BY <2>1, <2>3, <3>1, <3>2 DEF Moves, New, End, Go
  <2> QED  BY <2>2, <2>3
<1>2. CASE ReadForUpdate(h)
  <2>1. PICK n \in Names, e \in BOOLEAN : \E c \in Kept(table[n].settings) \cup (Inputs \ Nulls) :
          /\ New(h)
          /\ IF table[n] = NoRow
             THEN End(h, "failed") /\ UNCHANGED row
             ELSE /\ row' = [row EXCEPT ![h] = [table[n] EXCEPT !.enabled = e, !.settings = c]]
                  /\ Go(h, "update") /\ About(h, n, FALSE)
          /\ UNCHANGED <<tableVars, liveVars, loadedVars, passVars, historyVars, list>>
    BY <1>2 DEF ReadForUpdate
  <2>2. CASE table[n] = NoRow
    <3>1. End(h, "failed") /\ New(h)
      BY <2>1, <2>2
    <3>2. RequestsTyped'
      BY <2>1, <2>2, <3>1, RequestsHold, TableAndRows DEF RequestsTyped, HandlerPC
    <3> QED  BY <2>1, <2>2, <3>1, <3>2 DEF Moves, New, End, Go
  <2>3. CASE table[n] # NoRow
    <3>1. PICK c \in Kept(table[n].settings) \cup (Inputs \ Nulls) :
            /\ row' = [row EXCEPT ![h] = [table[n] EXCEPT !.enabled = e, !.settings = c]]
            /\ Go(h, "update") /\ About(h, n, FALSE)
      BY <2>1, <2>3
    <3>2. table[n] \in Rows /\ c \in Settings
      BY <1>0, <2>3, TableAndRows DEF Rows, Kept
    <3>3. [table[n] EXCEPT !.enabled = e, !.settings = c] \in Rows
      BY <3>2, RowChanged
    <3>4. row' \in [Handlers -> Rows \cup {NoRow}]
      BY <3>1, <3>3, TableAndRows
    <3>5. RequestsTyped'
      BY <1>0, <3>1, <3>4, RequestsHold DEF RequestsTyped
    <3> QED  BY <2>1, <3>1, <3>5 DEF Moves, New, Go
  <2> QED  BY <2>2, <2>3
<1>3. CASE Delete(h)
  <2>1. PICK n \in Names :
          /\ New(h)
          /\ IF table[n] = NoRow
             THEN End(h, "failed") /\ UNCHANGED table
             ELSE /\ table' = [table EXCEPT ![n] = NoRow]
                  /\ Go(h, "list") /\ About(h, n, TRUE)
          /\ UNCHANGED <<nextId, liveVars, loadedVars, passVars, historyVars, row, list>>
    BY <1>3 DEF Delete
  <2>2. RequestsTyped'
    BY <1>0, <2>1, RequestsHold, TableAndRows DEF RequestsTyped, HandlerPC
  <2>3. CASE table[n] = NoRow
    BY <2>1, <2>2, <2>3 DEF Moves, New, End, Go, tableVars
  <2>4. CASE table[n] # NoRow
    <3>1. table' \in Tables
      BY <2>1, <2>4, TableAndRows DEF Tables
    <3> QED  BY <2>1, <2>2, <2>4, <3>1 DEF Changes, New, Go
  <2> QED  BY <2>3, <2>4
<1>4. CASE Toggle(h)
  <2>1. PICK n \in Names :
          /\ New(h)
          /\ IF table[n] = NoRow
             THEN End(h, "failed") /\ UNCHANGED table
             ELSE /\ table' = [table EXCEPT ![n].enabled = ~@]
                  /\ Go(h, "list") /\ About(h, n, FALSE)
          /\ UNCHANGED <<nextId, liveVars, loadedVars, passVars, historyVars, row, list>>
    BY <1>4 DEF Toggle
  <2>2. RequestsTyped'
    BY <1>0, <2>1, RequestsHold, TableAndRows DEF RequestsTyped, HandlerPC
  <2>3. CASE table[n] = NoRow
    BY <2>1, <2>2, <2>3 DEF Moves, New, End, Go, tableVars
  <2>4. CASE table[n] # NoRow
    <3> DEFINE r == [table[n] EXCEPT !.enabled = ~@]
    <3>1. r \in Rows
      BY <2>4, TableAndRows, RowToggled
    <3>2. table' = [table EXCEPT ![n] = r]
      BY <2>1, <2>4
    <3> HIDE DEF r
    <3>3. table' \in Tables
      BY <3>1, <3>2, TableAndRows DEF Tables
    <3> QED  BY <2>1, <2>2, <2>4, <3>3 DEF Changes, New, Go
  <2> QED  BY <2>3, <2>4
<1> QED  BY <1>1, <1>2, <1>3, <1>4 DEF Request

LEMMA OtherMoves ==
  ASSUME TypeOK, Stamped, NEW h \in Handlers, WriteUpdate(h) \/ Announce(h) \/ Acquire(h) \/ Answer(h)
  PROVE  Changes(h) \/ Moves(h)
<1>0. up
  BY DEF Stamped, WriteUpdate, Announce, Acquire, Answer
<1>1. CASE WriteUpdate(h)
  <2>1. NoRow \in Rows \cup {NoRow} /\ row' \in [Handlers -> Rows \cup {NoRow}]
    BY <1>1, TableAndRows DEF WriteUpdate
  <2>2. RequestsTyped'
    BY <1>1, <2>1, RequestsHold DEF WriteUpdate, RequestsTyped, HandlerPC
  <2>3. CASE table[name[h]].id = row[h].id
    <3>1. row[h] \in Rows \cup {NoRow} /\ name[h] \in Names
      BY TableAndRows DEF TypeOK
    <3>2. table' = [table EXCEPT ![name[h]] = row[h]]
      BY <1>1, <2>3 DEF WriteUpdate
    <3>3. table' \in Tables
      BY <3>1, <3>2, TableAndRows DEF Tables
    <3> QED  BY <1>0, <1>1, <2>2, <2>3, <3>3 DEF Changes, WriteUpdate, Go
  <2>4. CASE table[name[h]].id # row[h].id
    BY <1>0, <1>1, <2>2, <2>4 DEF Moves, WriteUpdate, End, Go, tableVars
  <2> QED  BY <2>3, <2>4
<1>2. CASE Announce(h) \/ Acquire(h)
  <2>1. RequestsTyped'
    BY <1>2 DEF Announce, Acquire, requestVars, RequestsTyped, TypeOK
  <2> QED  BY <1>0, <1>2, <2>1 DEF Moves, Announce, Acquire, Go
<1>3. CASE Answer(h)
  <2>1. \E how \in {"failed", "ok"} : End(h, how)
    BY <1>3 DEF Answer
  <2>2. RequestsTyped'
    BY <1>3, <2>1, RequestsHold DEF Answer, RequestsTyped, HandlerPC, TypeOK
  <2> QED  BY <1>0, <1>3, <2>1, <2>2 DEF Moves, Answer, End, Go
<1> QED  BY <1>1, <1>2, <1>3

\* A move of a request alone keeps everything.
LEMMA MovesKeep ==
  ASSUME LoadInv, NEW h \in Handlers, Moves(h)
  PROVE  LoadInv'
<1> USE DEF LoadInv
<1>1. PICK to \in {"update", "failed", "ok", "pending", "build"} :
          /\ pc' = [pc EXCEPT ![h] = to]
          /\ pc[h] \in {"new", "update", "answer", "waiting", "pending"}
          /\ to \in {"pending", "build"} <=> pc[h] \in {"waiting", "pending"}
          /\ to = "update" => pc[h] = "new"
  BY DEF Moves
<1>2. UNCHANGED <<table, nextId, up, crashes, registry, flags, pass, all, todo, at, got, lists, stamp, newest, current, loaded, list>>
  BY DEF Moves, tableVars, liveVars, loadedVars, passVars, historyVars
<1>3. TypeOK'
  BY <1>1, <1>2 DEF TypeOK, Moves, RequestsTyped
<1>4. Bounded'
  <2>1. /\ Cardinality(Begun) \in Nat /\ Cardinality(Begun') \in Nat /\ Cardinality(Begun') >= Cardinality(Begun)
        /\ Cardinality(HasListed) \in Nat /\ Cardinality(HasListed') \in Nat
        /\ Cardinality(HasListed') >= Cardinality(HasListed)
    <3>1. to \in HandlerPC /\ to # "new" /\ to # "list"
      BY DEF HandlerPC
    <3>2. /\ Cardinality(Begun) \in Nat /\ Cardinality(HasListed) \in Nat
          /\ Cardinality(Begun') \in Nat /\ Cardinality(HasListed') \in Nat
          /\ Cardinality(Begun') = IF pc[h] = "new" THEN Cardinality(Begun) + 1 ELSE Cardinality(Begun)
      BY <1>1, <3>1, CountsMove
    <3>3. Cardinality(HasListed') >= Cardinality(HasListed)
      <4>1. CASE to # "update"
        BY <1>1, <3>1, <4>1, CountsMove
      <4>2. CASE to = "update"
        <5>1. HasListed' = HasListed
          BY <1>1, <4>2 DEF HasListed, TypeOK
        <5> QED  BY <3>2, <5>1
      <4> QED  BY <4>1, <4>2
    <3> QED  BY <3>2, <3>3
  <2>2. Starts' = Starts /\ Starts \in Nat
    BY <1>2 DEF Starts, TypeOK
  <2>3. NumNames * Starts \in Nat
    BY <2>2, BoundsAreNumbers
  <2> DEFINE k == NumNames * Starts
  <2>4. k' = k
    BY <2>2
  <2> HIDE DEF k
  <2>5. nextId <= k + Cardinality(Begun) + 1 /\ lists <= Cardinality(HasListed)
    BY DEF Bounded, k
  <2>6. nextId' <= k' + Cardinality(Begun') + 1 /\ lists' <= Cardinality(HasListed')
    BY <1>2, <2>1, <2>3, <2>4, <2>5 DEF TypeOK, k
  <2> QED  BY <2>6 DEF Bounded, k
<1>5. Stamped'
  BY <1>1, <1>2 DEF Stamped, Applying, TypeOK, Moves
<1>6. NobodyLists' = NobodyLists
  BY <1>1 DEF NobodyLists, TypeOK
<1>7. LastListIsTable'
  BY <1>1, <1>2, <1>6 DEF LastListIsTable, Applying, TypeOK
<1>8. OneTable'
  <2>1. \A g \in Handlers : (pc'[g] = "fill" <=> pc[g] = "fill") /\ (pc'[g] = "flags" <=> pc[g] = "flags")
    BY <1>1 DEF TypeOK
  <2>2. (RegistryFollows' <=> RegistryFollows) /\ (FlagsFollow' <=> FlagsFollow)
    BY <1>2 DEF RegistryFollows, FlagsFollow, Registered
  <2> QED  BY <1>2, <2>1, <2>2 DEF OneTable
<1>9. LastListIsLoaded'
  BY <1>2, <1>6 DEF LastListIsLoaded
<1> QED  BY <1>3, <1>4, <1>5, <1>7, <1>8, <1>9

\* Who has changed the table lists it next.
LEMMA ChangesKeep ==
  ASSUME LoadInv, NEW h \in Handlers, Changes(h)
  PROVE  LoadInv'
<1> USE DEF LoadInv
<1>1. pc[h] \in {"new", "update"} /\ pc' = [pc EXCEPT ![h] = "list"]
  BY DEF Changes
<1>2. UNCHANGED <<up, crashes, registry, flags, pass, all, todo, at, got, lists, stamp, newest, current, loaded, list>>
  BY DEF Changes, liveVars, loadedVars, passVars, historyVars
<1>3. ~NobodyLists'
  BY <1>1 DEF NobodyLists, TypeOK
<1>4. nextId' \in 1..MaxRows + 1
  <2>1. pc[h] = "new" => nextId + 1 \in 1..MaxRows + 1
    BY IdsSuffice, BoundsAreNumbers DEF TypeOK
  <2> QED  BY <2>1 DEF Changes, TypeOK
<1>5. TypeOK'
  BY <1>1, <1>2, <1>4 DEF TypeOK, Changes, RequestsTyped
<1>6. Bounded'
  <2>1. /\ Cardinality(Begun) \in Nat /\ Cardinality(Begun') \in Nat
        /\ Cardinality(Begun') = IF pc[h] = "new" THEN Cardinality(Begun) + 1 ELSE Cardinality(Begun)
        /\ Cardinality(HasListed') = Cardinality(HasListed)
    <3>1. \E to \in HandlerPC : to # "new" /\ pc' = [pc EXCEPT ![h] = to]
      BY <1>1 DEF HandlerPC
    <3>2. /\ Cardinality(Begun) \in Nat /\ Cardinality(Begun') \in Nat
          /\ Cardinality(Begun') = IF pc[h] = "new" THEN Cardinality(Begun) + 1 ELSE Cardinality(Begun)
      BY <3>1, CountsMove
    <3>3. HasListed' = HasListed
      BY <1>1 DEF HasListed, TypeOK
    <3> QED  BY <3>2, <3>3
  <2>2. Starts' = Starts /\ Starts \in Nat
    BY <1>2 DEF Starts, TypeOK
  <2> DEFINE k == NumNames * Starts
  <2>3. k' = k /\ k \in Nat
    BY <2>2, BoundsAreNumbers
  <2> HIDE DEF k
  <2>4. nextId <= k + Cardinality(Begun) + 1 /\ lists <= Cardinality(HasListed)
    BY DEF Bounded, k
  <2>5. nextId' <= k' + Cardinality(Begun') + 1 /\ lists' <= Cardinality(HasListed')
    BY <1>2, <2>1, <2>3, <2>4, BoundsAreNumbers DEF TypeOK, Changes
  <2> QED  BY <2>5 DEF Bounded, k
<1>7. Stamped'
  BY <1>1, <1>2 DEF Stamped, Applying, TypeOK, Changes
<1>8. LastListIsTable' /\ LastListIsLoaded'
  BY <1>3 DEF LastListIsTable, LastListIsLoaded
<1>9. OneTable'
  <2>1. \A g \in Handlers : (pc'[g] = "fill" <=> pc[g] = "fill") /\ (pc'[g] = "flags" <=> pc[g] = "flags")
    BY <1>1 DEF TypeOK
  <2>2. (RegistryFollows' <=> RegistryFollows) /\ (FlagsFollow' <=> FlagsFollow)
    BY <1>2 DEF RegistryFollows, FlagsFollow, Registered
  <2> QED  BY <1>2, <2>1, <2>2 DEF OneTable
<1> QED  BY <1>5, <1>6, <1>7, <1>8, <1>9

-----------------------------------------------------------------------------
\* How a handler goes on after its reload.
LEMMA ReloadEnds ==
  ASSUME TypeOK, NEW h \in Handlers,
         AfterReload(h) \/ (\E how \in {"ok", "failed"} : End(h, how))
  PROVE  /\ \E to \in {"answer", "ok", "failed"} : pc' = [pc EXCEPT ![h] = to]
         /\ name' \in [Handlers -> Names] /\ deletes' \in [Handlers -> BOOLEAN]
<1>1. \/ \E how \in {"ok", "failed"} : End(h, how)
      \/ Go(h, "answer") /\ UNCHANGED <<name, deletes>>
  BY DEF AfterReload
<1>2. name' \in [Handlers -> Names] /\ deletes' \in [Handlers -> BOOLEAN]
  BY <1>1, RequestsHold DEF HandlerPC
<1> QED  BY <1>1, <1>2 DEF End, Go

\* The step in which the table is listed, or fails to be.
LEMMA ListKeeps ==
  ASSUME LoadInv, NEW h \in Handlers, ListTable(h)
  PROVE  LoadInv'
<1> USE DEF LoadInv
<1>1. /\ pc[h] = "list" /\ lists' = lists + 1
      /\ UNCHANGED <<table, nextId, up, crashes, registry, flags, row, pass, all, todo, at, got, current, loaded>>
  BY DEF ListTable, tableVars, liveVars, loadedVars, passVars
<1>2. /\ lists \in Nat /\ newest \in Nat /\ current \in Nat /\ current <= newest /\ newest <= lists
  BY BoundsAreNumbers DEF TypeOK, Stamped
<1>3. PICK to \in {"waiting", "answer", "ok", "failed"} : pc' = [pc EXCEPT ![h] = to]
  BY ReloadEnds DEF ListTable, Go
<1>4. name' \in [Handlers -> Names] /\ deletes' \in [Handlers -> BOOLEAN]
  BY ReloadEnds DEF ListTable, TypeOK
<1>5. \/ /\ to = "waiting" /\ list' = [list EXCEPT ![h] = table] /\ stamp' = [stamp EXCEPT ![h] = lists + 1]
         /\ newest' = newest
      \/ /\ to # "waiting" /\ newest' = lists + 1 /\ UNCHANGED <<list, stamp>>
  <2>1. CASE list' = [list EXCEPT ![h] = table] /\ stamp' = [stamp EXCEPT ![h] = lists + 1]
             /\ Go(h, "waiting") /\ UNCHANGED <<name, deletes, newest>>
    BY <1>3, <2>1 DEF Go, TypeOK
  <2>2. CASE newest' = lists + 1 /\ AfterReload(h) /\ UNCHANGED <<list, stamp>>
    <3>1. \E t \in {"answer", "ok", "failed"} : pc' = [pc EXCEPT ![h] = t]
      BY <2>2, ReloadEnds
    <3>2. to # "waiting"
      BY <1>3, <3>1 DEF TypeOK
    <3> QED  BY <2>2, <3>2
  <2> QED  BY <2>1, <2>2 DEF ListTable
<1>6. /\ Cardinality(HasListed') = Cardinality(HasListed) + 1 /\ Cardinality(HasListed') <= Cardinality(Handlers)
      /\ Cardinality(HasListed) \in Nat /\ Cardinality(Begun') = Cardinality(Begun)
  <2>1. to \in HandlerPC /\ to # "new" /\ to \notin {"update", "list"}
    BY DEF HandlerPC
  <2> QED  BY <1>1, <1>3, <2>1, CountsMove
<1>7. Bounded'
  <2>1. Starts' = Starts
    BY <1>1 DEF Starts
  <2>2. lists' <= Cardinality(HasListed')
    BY <1>1, <1>2, <1>6 DEF Bounded
  <2> QED  BY <1>1, <1>6, <2>1, <2>2 DEF Bounded
<1>8. lists' \in 0..Cardinality(Handlers) /\ newest' \in 0..Cardinality(Handlers) /\ current' \in 0..newest'
  BY <1>1, <1>2, <1>5, <1>6, <1>7, BoundsAreNumbers DEF Bounded
<1>9. TypeOK'
  <2>1. stamp' \in [Handlers -> 0..Cardinality(Handlers)] /\ list' \in [Handlers -> Tables]
    BY <1>1, <1>2, <1>5, <1>8 DEF TypeOK
  <2> QED  BY <1>1, <1>3, <1>4, <1>8, <2>1 DEF TypeOK
<1>10. Stamped'
  <2>1. up
    BY <1>1 DEF Stamped
  <2>2. \A g \in Handlers : pc'[g] \in Applying => stamp'[g] \in 1..lists'
    BY <1>1, <1>2, <1>3, <1>5 DEF Stamped, TypeOK, Applying
  <2>3. newest' = lists' \/ \E g \in Handlers : pc'[g] \in Applying \ {"flags"} /\ stamp'[g] = lists'
    BY <1>1, <1>3, <1>5 DEF TypeOK, Applying
  <2>4. \A g \in Handlers : pc'[g] = "flags" => stamp'[g] = current'
    BY <1>1, <1>3, <1>5 DEF Stamped, TypeOK
  <2> QED  BY <1>1, <1>2, <1>5, <2>1, <2>2, <2>3, <2>4 DEF Stamped
<1>11. LastListIsTable'
  <2>1. ASSUME NEW g \in Handlers, pc'[g] \in Applying, stamp'[g] = lists' PROVE list'[g] = table'
    <3>1. g = h /\ to = "waiting"
      BY <1>1, <1>2, <1>3, <1>5, <2>1 DEF Stamped, TypeOK, Applying
    <3> QED  BY <1>1, <1>5, <3>1 DEF TypeOK
  <2> QED  BY <2>1 DEF LastListIsTable
<1>12. LastListIsLoaded'
  <2>1. current' # lists'
    BY <1>1, <1>2
  <2> QED  BY <2>1 DEF LastListIsLoaded
<1>13. OneTable'
  <2>1. \A g \in Handlers : (pc'[g] = "fill" <=> pc[g] = "fill") /\ (pc'[g] = "flags" <=> pc[g] = "flags")
    BY <1>1, <1>3 DEF TypeOK
  <2>2. \A g \in Handlers : pc'[g] = "flags" => list'[g] = list[g]
    BY <1>1, <1>5, <2>1 DEF TypeOK
  <2>3. (RegistryFollows' <=> RegistryFollows) /\ (FlagsFollow' <=> FlagsFollow)
    BY <1>1 DEF RegistryFollows, FlagsFollow, Registered
  <2> QED  BY <1>1, <2>1, <2>2, <2>3 DEF OneTable
<1> QED  BY <1>7, <1>9, <1>10, <1>11, <1>12, <1>13

\* The three steps inside the lock.
LEMMA ClearKeeps ==
  ASSUME LoadInv, NEW h \in Handlers, Clear(h)
  PROVE  LoadInv'
<1> USE DEF LoadInv
<1>1. /\ pc[h] = "build" /\ pc' = [pc EXCEPT ![h] = "fill"] /\ registry' = [n \in Names |-> NoProvider]
      /\ UNCHANGED <<table, nextId, up, crashes, flags, deletes, name, row, list, pass, all, todo, at, got, lists, stamp,
                     newest, current, loaded>>
  BY DEF Clear, Go, tableVars, liveVars, requestVars, passVars, historyVars
<1>2. TypeOK'
  BY <1>1 DEF TypeOK
<1>3. Bounded'
  <2>1. Begun' = Begun /\ HasListed' = HasListed /\ Starts' = Starts
    BY <1>1 DEF Begun, HasListed, Starts, TypeOK
  <2> QED  BY <1>1, <2>1 DEF Bounded
<1>4. Stamped'
  BY <1>1 DEF Stamped, Applying, TypeOK
<1>5. NobodyLists' = NobodyLists
  BY <1>1 DEF NobodyLists, TypeOK
<1>6. LastListIsTable'
  BY <1>1, <1>5 DEF LastListIsTable, Applying, TypeOK
<1>7. LastListIsLoaded'
  BY <1>1, <1>5 DEF LastListIsLoaded
<1>8. OneTable'
  <2>1. pc'[h] = "fill" /\ \A g \in Handlers : pc'[g] = "flags" <=> pc[g] = "flags"
    BY <1>1 DEF TypeOK
  <2>2. FlagsFollow' <=> FlagsFollow
    BY <1>1 DEF FlagsFollow
  <2> QED  BY <1>1, <2>1, <2>2 DEF OneTable
<1> QED  BY <1>2, <1>3, <1>4, <1>6, <1>7, <1>8

LEMMA FillKeeps ==
  ASSUME LoadInv, LockInv, NEW h \in Handlers, Fill(h)
  PROVE  LoadInv'
<1> USE DEF LoadInv
<1>1. /\ pc[h] = "fill" /\ pc' = [pc EXCEPT ![h] = "flags"] /\ registry' = Built(list[h], stamp[h])
      /\ flags' = [n \in Names |-> "absent"] /\ newest' = Later(newest, stamp[h]) /\ current' = stamp[h]
      /\ loaded' = list[h]
      /\ UNCHANGED <<table, nextId, up, crashes, deletes, name, row, list, pass, all, todo, at, got, lists, stamp>>
  BY DEF Fill, Go, tableVars, liveVars, requestVars, passVars
<1>2. /\ lists \in Nat /\ newest \in Nat /\ newest <= lists /\ lists <= Cardinality(Handlers)
      /\ stamp[h] \in 1..lists /\ list[h] \in Tables
  BY <1>1, BoundsAreNumbers DEF TypeOK, Stamped, Applying
<1>3. newest' \in Nat /\ newest' <= lists /\ stamp[h] <= newest' /\ (newest = lists => newest' = lists)
  BY <1>1, <1>2 DEF Later
<1>4. \A n \in Names : /\ list[h][n] \in Rows \cup {NoRow}
                       /\ Loadable(list[h][n]) => [settings |-> list[h][n].settings, list |-> stamp[h]] \in Provider
  <2>1. \A n \in Names : list[h][n] \in Rows \cup {NoRow}
    BY <1>2 DEF Tables
  <2>2. \A n \in Names : Loadable(list[h][n]) => list[h][n].settings \in Settings
    BY DEF Loadable, Settings, Given, Nulls
  <2>3. stamp[h] \in 0..Cardinality(Handlers)
    BY DEF TypeOK
  <2> QED  BY <2>1, <2>2, <2>3 DEF Provider
<1>5. TypeOK'
  <2>1. registry' \in [Names -> Provider \cup {NoProvider}]
    BY <1>1, <1>4 DEF Built
  <2>2. newest' \in 0..Cardinality(Handlers) /\ current' \in 0..newest'
    BY <1>1, <1>2, <1>3, BoundsAreNumbers
  <2> QED  BY <1>1, <2>1, <2>2 DEF TypeOK
<1>6. Bounded'
  <2>1. Begun' = Begun /\ HasListed' = HasListed /\ Starts' = Starts
    BY <1>1 DEF Begun, HasListed, Starts, TypeOK
  <2> QED  BY <1>1, <2>1 DEF Bounded
<1>7. Stamped'
  <2>1. newest' = lists' \/ \E g \in Handlers : pc'[g] \in Applying \ {"flags"} /\ stamp'[g] = lists'
    <3>1. CASE newest = lists \/ stamp[h] = lists
      BY <1>1, <1>2, <1>3, <3>1
    <3>2. CASE ~(newest = lists \/ stamp[h] = lists)
      BY <1>1, <3>2 DEF Stamped, TypeOK
    <3> QED  BY <3>1, <3>2
  <2>2. \A g \in Handlers : pc'[g] = "flags" => g = h
    BY <1>1 DEF LockInv, OneWriter, WriterPC, TypeOK
  <2>3. \A g \in Handlers : pc'[g] \in Applying => stamp'[g] \in 1..lists'
    BY <1>1 DEF Stamped, Applying, TypeOK
  <2>4. up
    BY <1>1 DEF Stamped
  <2> QED  BY <1>1, <1>2, <1>3, <2>1, <2>2, <2>3, <2>4 DEF Stamped
<1>8. NobodyLists' = NobodyLists
  BY <1>1 DEF NobodyLists, TypeOK
<1>9. LastListIsTable'
  BY <1>1, <1>8 DEF LastListIsTable, Applying, TypeOK
<1>10. LastListIsLoaded'
  BY <1>1, <1>8 DEF LastListIsLoaded, LastListIsTable, Applying
<1>11. RegistryFollows'
  <2>1. \A n \in Names : Loadable(loaded'[n]) => registry'[n] = [settings |-> loaded'[n].settings, list |-> stamp[h]]
    BY <1>1 DEF Built
  <2>2. ASSUME NEW n \in Names, Loadable(loaded'[n])
        PROVE  registry'[n] # NoProvider /\ registry'[n].settings = loaded'[n].settings
    <3> DEFINE c == loaded'[n].settings
    <3>1. registry'[n] = [settings |-> c, list |-> stamp[h]] /\ c # "none"
      BY <2>1, <2>2 DEF Loadable
    <3> HIDE DEF c
    <3>2. registry'[n].settings = c /\ registry'[n] # NoProvider
      BY <3>1 DEF NoProvider
    <3> QED  BY <3>2 DEF c
  <2>3. \A n \in Names : ~Loadable(loaded'[n]) => registry'[n] = NoProvider
    BY <1>1 DEF Built
  <2>4. \A n \in Names : Loadable(loaded'[n]) => loaded'[n].enabled
    BY DEF Loadable
  <2>5. ASSUME NEW n \in Names, registry'[n] # NoProvider
        PROVE  loaded'[n].enabled /\ loaded'[n].settings = registry'[n].settings
    BY <2>2, <2>3, <2>4, <2>5
  <2> QED  BY <2>2, <2>5 DEF RegistryFollows, Registered
<1>12. OneTable'
  <2>1. pc'[h] = "flags"
    BY <1>1 DEF TypeOK
  <2>2. \A g \in Handlers : pc'[g] = "flags" => g = h
    BY <1>1 DEF LockInv, OneWriter, WriterPC, TypeOK
  <2> QED  BY <1>1, <1>11, <2>1, <2>2 DEF OneTable
<1> QED  BY <1>5, <1>6, <1>7, <1>9, <1>10, <1>12

LEMMA SetFlagsKeeps ==
  ASSUME LoadInv, LockInv, NEW h \in Handlers, SetFlags(h)
  PROVE  LoadInv'
<1> USE DEF LoadInv
<1>1. /\ pc[h] = "flags" /\ flags' = FlagsOf(list[h])
      /\ list' = [list EXCEPT ![h] = EmptyTable] /\ stamp' = [stamp EXCEPT ![h] = 0]
      /\ UNCHANGED <<table, nextId, up, crashes, registry, row, pass, all, todo, at, got, lists, newest, current, loaded>>
  BY DEF SetFlags, tableVars, liveVars, passVars
<1>2. PICK to \in {"answer", "ok", "failed"} : pc' = [pc EXCEPT ![h] = to]
  BY ReloadEnds DEF SetFlags
<1>3. name' \in [Handlers -> Names] /\ deletes' \in [Handlers -> BOOLEAN]
  BY ReloadEnds DEF SetFlags
<1>4. TypeOK'
  <2>1. EmptyTable \in Tables
    BY DEF EmptyTable, Tables
  <2>2. list' \in [Handlers -> Tables] /\ stamp' \in [Handlers -> 0..Cardinality(Handlers)]
    BY <1>1, <2>1, BoundsAreNumbers DEF TypeOK
  <2>3. flags' \in [Names -> {"absent", "enabled", "disabled"}]
    BY <1>1 DEF FlagsOf
  <2> QED  BY <1>1, <1>2, <1>3, <2>2, <2>3 DEF TypeOK
<1>5. Bounded'
  <2>1. Begun' = Begun /\ HasListed' = HasListed /\ Starts' = Starts
    BY <1>1, <1>2 DEF Begun, HasListed, Starts, TypeOK
  <2> QED  BY <1>1, <2>1 DEF Bounded
<1>6. Stamped'
  BY <1>1, <1>2 DEF Stamped, Applying, TypeOK
<1>7. NobodyLists' = NobodyLists
  BY <1>1, <1>2 DEF NobodyLists, TypeOK
<1>8. LastListIsTable'
  BY <1>1, <1>2, <1>7 DEF LastListIsTable, Applying, TypeOK
<1>9. LastListIsLoaded'
  BY <1>1, <1>7 DEF LastListIsLoaded
<1>10. OneTable'
  <2> SUFFICES ASSUME up PROVE OneTable'
    BY <1>1 DEF OneTable
  <2>1. \A g \in Handlers : (pc[g] = "fill" => pc'[g] = "fill") /\ pc'[g] # "flags"
    BY <1>1, <1>2 DEF LockInv, OneWriter, WriterPC, TypeOK
  <2>2. RegistryFollows' <=> RegistryFollows
    BY <1>1 DEF RegistryFollows, Registered
  <2>3. FlagsFollow'
    BY <1>1 DEF OneTable, FlagsFollow
  <2> QED  BY <2>1, <2>2, <2>3 DEF OneTable
<1> QED  BY <1>4, <1>5, <1>6, <1>8, <1>9, <1>10

-----------------------------------------------------------------------------
\* The syncs change nothing but their own places.
PassesTyped ==
    /\ pass \in [Passes -> {"idle", "next", "rlock", "syncing"}]
    /\ all \in [Passes -> BOOLEAN] /\ todo \in [Passes -> SUBSET Names]
    /\ at \in [Passes -> Names] /\ got \in [Passes -> Provider \cup {NoProvider}]

LEMMA PassesMove ==
  ASSUME TypeOK, NEW p \in Passes, StartAll(p) \/ StartOne(p) \/ SyncStep(p)
  PROVE  PassesTyped' /\ UNCHANGED <<tableVars, liveVars, loadedVars, requestVars, historyVars, pc, list>>
<1>1. PassesTyped /\ registry \in [Names -> Provider \cup {NoProvider}]
  BY DEF TypeOK, PassesTyped
<1>2. TRUE \in BOOLEAN /\ FALSE \in BOOLEAN
  OBVIOUS
<1>3. \A b \in BOOLEAN : [all EXCEPT ![p] = b] \in [Passes -> BOOLEAN]
  BY <1>1 DEF PassesTyped
<1>4. CASE StartAll(p)
  <2>1. \A seen \in Visible : seen \subseteq Names
    <3>1. Registered \subseteq Names
      BY DEF Registered
    <3> QED  BY <3>1 DEF Visible
  <2>2. all' \in [Passes -> BOOLEAN]
    BY <1>2, <1>3, <1>4 DEF StartAll
  <2>3. todo' \in [Passes -> SUBSET Names]
    BY <1>1, <1>4, <2>1 DEF StartAll, PassesTyped
  <2> QED  BY <1>1, <1>4, <2>2, <2>3 DEF StartAll, PassesTyped
<1>5. CASE StartOne(p)
  <2>1. Registered \subseteq Names
    BY DEF Registered
  <2>2. all' \in [Passes -> BOOLEAN]
    BY <1>2, <1>3, <1>5 DEF StartOne
  <2>3. todo' \in [Passes -> SUBSET Names]
    BY <1>1, <1>5, <2>1 DEF StartOne, PassesTyped
  <2> QED  BY <1>1, <1>5, <2>2, <2>3 DEF StartOne, PassesTyped
<1>6. CASE SkipDisabled(p)
  BY <1>1, <1>6 DEF SkipDisabled, PassesTyped
<1>7. CASE CallSync(p)
  <2>1. at' \in [Passes -> Names] /\ todo' \in [Passes -> SUBSET Names]
    BY <1>1, <1>7 DEF CallSync, PassesTyped
  <2> QED  BY <1>1, <1>7, <2>1 DEF CallSync, PassesTyped
<1>8. CASE Lookup(p)
  <2>1. registry[at[p]] \in Provider \cup {NoProvider}
    BY <1>1 DEF PassesTyped
  <2> QED  BY <1>1, <1>8, <2>1 DEF Lookup, PassesTyped
<1>9. CASE EndSync(p)
  <2>1. todo' \in [Passes -> SUBSET Names]
    BY <1>1, <1>9 DEF EndSync, PassesTyped
  <2> QED  BY <1>1, <1>9, <2>1 DEF EndSync, PassesTyped
<1>10. CASE EndPass(p)
  <2>1. all' \in [Passes -> BOOLEAN]
    BY <1>2, <1>3, <1>10 DEF EndPass
  <2>2. at' \in [Passes -> Names]
    BY <1>1, <1>10, BoundsAreNumbers DEF EndPass, PassesTyped
  <2> QED  BY <1>1, <1>10, <2>1, <2>2 DEF EndPass, PassesTyped
<1> QED  BY <1>4, <1>5, <1>6, <1>7, <1>8, <1>9, <1>10 DEF SyncStep

\* A step that leaves the table, what is loaded, the requests and the numbers
\* of the lists alone keeps what is loaded.
LEMMA RestKeeps ==
  ASSUME LoadInv, PassesTyped', UNCHANGED <<tableVars, liveVars, loadedVars, requestVars, historyVars, pc, list>>
  PROVE  LoadInv'
<1> USE DEF LoadInv, tableVars, liveVars, loadedVars, requestVars, historyVars
<1>1. TypeOK'
  BY DEF TypeOK, PassesTyped
<1>2. Bounded' /\ Stamped' /\ LastListIsTable'
  BY DEF Bounded, Starts, Begun, HasListed, Stamped, LastListIsTable, NobodyLists
<1>3. LastListIsLoaded' /\ OneTable'
  BY DEF LastListIsLoaded, OneTable, NobodyLists, RegistryFollows, FlagsFollow, Registered
<1> QED  BY <1>1, <1>2, <1>3

\* A crash forgets everything but the table, and the requests it cut off.
LEMMA CrashKeeps ==
  ASSUME LoadInv, Crash
  PROVE  LoadInv'
<1> USE DEF LoadInv
<1>1. /\ up /\ crashes < MaxCrashes /\ crashes' = crashes + 1 /\ ~up'
      /\ table' = table /\ nextId' = nextId
      /\ pc' = [h \in Handlers |-> IF pc[h] \in {"new", "ok"} THEN pc[h] ELSE "failed"]
      /\ lists' = 0 /\ stamp' = [h \in Handlers |-> 0] /\ newest' = 0 /\ current' = 0
      /\ loaded' = EmptyTable
  BY DEF Crash, tableVars
<1>2. \A h \in Handlers : pc'[h] \in {"new", "ok", "failed"} /\ (pc'[h] = "new" <=> pc[h] = "new")
  BY <1>1
<1>3. TypeOK'
  <2>1. FALSE \in BOOLEAN
    OBVIOUS
  <2>2. up' \in BOOLEAN /\ deletes' \in [Handlers -> BOOLEAN] /\ all' \in [Passes -> BOOLEAN]
    BY <2>1 DEF Crash
  <2>3. EmptyTable \in Tables
    BY DEF EmptyTable, Tables
  <2>4. /\ name' \in [Handlers -> Names] /\ row' \in [Handlers -> Rows \cup {NoRow}]
        /\ list' \in [Handlers -> Tables] /\ at' \in [Passes -> Names]
    BY <2>3, BoundsAreNumbers DEF Crash
  <2>5. /\ registry' \in [Names -> Provider \cup {NoProvider}]
        /\ flags' \in [Names -> {"absent", "enabled", "disabled"}]
        /\ pass' \in [Passes -> {"idle", "next", "rlock", "syncing"}]
        /\ todo' \in [Passes -> SUBSET Names]
        /\ got' \in [Passes -> Provider \cup {NoProvider}]
    BY DEF Crash
  <2>6. /\ pc' \in [Handlers -> HandlerPC] /\ crashes' \in 0..MaxCrashes
    BY <1>1, MaxCrashesAssumption DEF TypeOK, HandlerPC
  <2>7. /\ lists' \in 0..Cardinality(Handlers) /\ stamp' \in [Handlers -> 0..Cardinality(Handlers)]
        /\ newest' \in 0..Cardinality(Handlers) /\ current' \in 0..newest'
    BY <1>1, BoundsAreNumbers
  <2> QED  BY <1>1, <2>2, <2>3, <2>4, <2>5, <2>6, <2>7 DEF TypeOK, HandlerPC
<1>4. Bounded'
  <2>1. Begun' = Begun
    BY <1>2 DEF Begun
  <2>2. Starts = crashes + 1
    BY <1>1 DEF Starts
  <2>3. Starts' = crashes + 1
    BY <1>1 DEF Starts
  <2>4. Cardinality(HasListed') \in Nat
    <3>1. HasListed' \subseteq Handlers
      BY DEF HasListed
    <3> QED  BY <3>1, HandlersAssumption, FS_Subset, FS_CardinalityType
  <2> QED  BY <1>1, <2>1, <2>2, <2>3, <2>4 DEF Bounded
<1>5. Stamped'
  BY <1>1, <1>2 DEF Stamped, Applying
<1>6. LastListIsTable' /\ OneTable' /\ LastListIsLoaded'
  BY <1>1, <1>2 DEF LastListIsTable, OneTable, LastListIsLoaded, Applying
<1> QED  BY <1>3, <1>4, <1>5, <1>6

\* What a table is loaded to at the start of the process.
LEMMA StartTypes ==
  ASSUME NEW t \in Tables
  PROVE  /\ \A n \in Names : t[n].settings \in Settings
         /\ BuiltAtStart(t) \in [Names -> Provider \cup {NoProvider}]
         /\ FlagsOf(t) \in [Names -> {"absent", "enabled", "disabled"}]
<1>1. \A n \in Names : t[n].settings \in Settings
  <2>1. NoRow.settings \in Settings
    BY DEF NoRow, Settings, Nulls
  <2>2. \A r \in Rows : r.settings \in Settings
    BY DEF Rows
  <2> QED  BY <2>1, <2>2 DEF Tables
<1>2. BuiltAtStart(t) \in [Names -> Provider \cup {NoProvider}]
  <2>1. \A n \in Names : [settings |-> t[n].settings, list |-> 0] \in Provider
    BY <1>1, BoundsAreNumbers DEF Provider
  <2> QED  BY <2>1 DEF BuiltAtStart
<1>3. FlagsOf(t) \in [Names -> {"absent", "enabled", "disabled"}]
  BY DEF FlagsOf
<1> QED  BY <1>1, <1>2, <1>3

Fresh == loaded = table /\ table \in Tables /\ registry = BuiltAtStart(table) /\ flags = FlagsOf(table)
LEMMA StartLoads == Fresh => RegistryFollows /\ FlagsFollow
<1> SUFFICES ASSUME Fresh PROVE RegistryFollows
  BY DEF Fresh, FlagsFollow
<1>1. \A n \in Names : loaded[n].settings \in Settings
  BY StartTypes DEF Fresh
<1> DEFINE Taken(n) == loaded[n].enabled /\ loaded[n].settings \notin {"custom_files", "null custom_files"}
<1>2. ASSUME NEW n \in Names, Taken(n)
      PROVE  registry[n].settings = loaded[n].settings /\ registry[n] # NoProvider
  <2> DEFINE c == loaded[n].settings
  <2>1. registry[n] = [settings |-> c, list |-> 0]
    BY <1>2 DEF Fresh, BuiltAtStart
  <2>2. c # "none"
    BY <1>1 DEF Settings, Given, Nulls
  <2> HIDE DEF c
  <2>3. registry[n].settings = c /\ registry[n] # NoProvider
    BY <2>1, <2>2 DEF NoProvider
  <2> QED  BY <2>3 DEF c
<1>3. \A n \in Names : ~Taken(n) => registry[n] = NoProvider
  BY DEF Fresh, BuiltAtStart
<1>4. \A n \in Names : Loadable(loaded[n]) => Taken(n)
  BY DEF Loadable
<1>5. \A n \in Names : Taken(n) => loaded[n].enabled
  OBVIOUS
<1> HIDE DEF Taken
<1> QED  BY <1>2, <1>3, <1>4, <1>5 DEF RegistryFollows, Registered

\* The rows that the YAML file seeds.
LEMMA SeededIsATable ==
  ASSUME NEW yaml \in YamlFiles, NEW first \in 1..MaxRows, first + NumNames \in 1..(MaxRows + 1)
  PROVE  Seeded(yaml, first) \in Tables
<1>1. ASSUME NEW n \in Names, n \in DOMAIN yaml
      PROVE  [id |-> first + n - 1, enabled |-> yaml[n].enabled, settings |-> yaml[n].settings] \in Rows
  <2>1. first + n - 1 \in 1..MaxRows
    BY BoundsAreNumbers DEF Names
  <2>2. yaml[n].enabled \in BOOLEAN /\ yaml[n].settings \in Settings
    BY <1>1, YamlAssumption DEF Settings, Given
  <2> QED  BY <2>1, <2>2, RowMade
<1> QED  BY <1>1 DEF Seeded, Tables

\* A start loads the table, seeded if it was empty.
LEMMA StartUpKeeps ==
  ASSUME LoadInv, StartUp
  PROVE  LoadInv'
<1> USE DEF LoadInv
<1>1. /\ ~up /\ up' /\ crashes' = crashes
      /\ registry' = BuiltAtStart(table') /\ flags' = FlagsOf(table') /\ loaded' = table'
      /\ UNCHANGED <<deletes, name, row, pass, all, todo, at, got, lists, stamp, newest, current, pc, list>>
  BY DEF StartUp, Start, requestVars, passVars, historyVars
<1>2. nextId + NumNames \in 1..(MaxRows + 1) /\ nextId \in 1..MaxRows
  BY <1>1, IdsSuffice, BoundsAreNumbers DEF TypeOK
<1>3. table' \in Tables /\ nextId' \in 1..MaxRows + 1 /\ nextId' <= nextId + NumNames
  <2>1. CASE Present(table) = {}
    BY <1>2, <2>1, SeededIsATable, BoundsAreNumbers DEF StartUp
  <2>2. CASE Present(table) # {}
    BY <1>2, <2>2, BoundsAreNumbers DEF StartUp, tableVars, TypeOK
  <2> QED  BY <2>1, <2>2
<1>4. TypeOK'
  <2>1. up' \in BOOLEAN
    <3>1. up' = TRUE /\ TRUE \in BOOLEAN
      BY DEF StartUp, Start
    <3> QED  BY <3>1
  <2>2. /\ registry' \in [Names -> Provider \cup {NoProvider}]
        /\ flags' \in [Names -> {"absent", "enabled", "disabled"}]
    BY <1>1, <1>3, StartTypes
  <2> QED  BY <1>1, <1>3, <2>1, <2>2 DEF TypeOK
<1>5. Bounded'
  <2>1. Begun' = Begun /\ HasListed' = HasListed /\ Starts = crashes /\ Starts' = crashes + 1
    BY <1>1 DEF Begun, HasListed, Starts
  <2>2. crashes \in Nat /\ NumNames \in Nat
    BY BoundsAreNumbers DEF TypeOK
  <2>3. NumNames * (crashes + 1) = NumNames * crashes + NumNames /\ NumNames * crashes \in Nat
    BY <2>2
  <2>4. Cardinality(Begun) \in Nat
    <3>1. Begun \subseteq Handlers
      BY DEF Begun
    <3> QED  BY <3>1, HandlersAssumption, FS_Subset, FS_CardinalityType
  <2> DEFINE k == NumNames * crashes
  <2>5. nextId <= k + Cardinality(Begun) + 1
    BY <2>1 DEF Bounded
  <2>6. k \in Nat /\ NumNames * (crashes + 1) = k + NumNames
    BY <2>3
  <2> HIDE DEF k
  <2>7. nextId' <= (k + NumNames) + Cardinality(Begun) + 1
    BY <1>2, <1>3, <2>2, <2>4, <2>5, <2>6
  <2>8. nextId' <= NumNames * Starts' + Cardinality(Begun') + 1
    BY <2>1, <2>6, <2>7
  <2> QED  BY <1>1, <2>1, <2>8 DEF Bounded
<1>6. \A h \in Handlers : pc[h] \in {"new", "ok", "failed"}
  BY <1>1 DEF Stamped
<1>7. Stamped' /\ LastListIsTable'
  BY <1>1, <1>6 DEF Stamped, LastListIsTable, Applying
<1>8. OneTable' /\ LastListIsLoaded'
  <2>1. Fresh'
    BY <1>1, <1>3 DEF Fresh
  <2>2. (Fresh => RegistryFollows /\ FlagsFollow)'
    BY StartLoads, PTL
  <2> QED  BY <1>1, <1>6, <2>1, <2>2 DEF OneTable, LastListIsLoaded
<1> QED  BY <1>4, <1>5, <1>7, <1>8

LEMMA LoadInit == Init => LoadInv
<1> SUFFICES ASSUME Init PROVE LoadInv
  OBVIOUS
<1>1. PICK yaml \in YamlFiles : table = Seeded(yaml, 1)
  BY DEF Init
<1>2. table \in Tables
  BY <1>1, SeededIsATable, BoundsAreNumbers
<1>3. nextId = NumNames + 1 /\ up /\ crashes = 0 /\ lists = 0 /\ newest = 0 /\ current = 0
  BY DEF Init
<1>4. pc = [h \in Handlers |-> "new"] /\ Fresh
  BY <1>2 DEF Init, Fresh
<1>5. TypeOK
  <2>1. FALSE \in BOOLEAN /\ TRUE \in BOOLEAN
    OBVIOUS
  <2>2. up \in BOOLEAN /\ deletes \in [Handlers -> BOOLEAN] /\ all \in [Passes -> BOOLEAN]
    BY <2>1 DEF Init
  <2>3. EmptyTable \in Tables
    BY DEF EmptyTable, Tables
  <2>4. /\ name \in [Handlers -> Names] /\ row \in [Handlers -> Rows \cup {NoRow}]
        /\ list \in [Handlers -> Tables] /\ at \in [Passes -> Names]
    BY <2>3, BoundsAreNumbers DEF Init
  <2>5. /\ pc \in [Handlers -> HandlerPC]
        /\ pass \in [Passes -> {"idle", "next", "rlock", "syncing"}]
        /\ todo \in [Passes -> SUBSET Names] /\ got \in [Passes -> Provider \cup {NoProvider}]
        /\ stamp \in [Handlers -> 0..Cardinality(Handlers)]
    BY BoundsAreNumbers DEF Init, HandlerPC
  <2>6. nextId \in 1..MaxRows + 1 /\ crashes \in 0..MaxCrashes
    BY <1>3, BoundsAreNumbers
  <2>7. lists \in 0..Cardinality(Handlers) /\ newest \in 0..Cardinality(Handlers) /\ current \in 0..newest
    BY <1>3, BoundsAreNumbers
  <2>8. /\ registry \in [Names -> Provider \cup {NoProvider}]
        /\ flags \in [Names -> {"absent", "enabled", "disabled"}]
    BY <1>2, <1>4, StartTypes DEF Fresh
  <2> QED  BY <1>2, <1>4, <2>2, <2>4, <2>5, <2>6, <2>7, <2>8 DEF TypeOK, HandlerPC, Fresh
<1>6. Bounded
  <2>1. Begun = {} /\ HasListed = {}
    BY <1>4 DEF Begun, HasListed
  <2>2. Starts = 1
    BY <1>3 DEF Starts
  <2> QED  BY <1>3, <2>1, <2>2, FS_EmptySet, BoundsAreNumbers DEF Bounded
<1>7. Stamped /\ LastListIsTable
  BY <1>3, <1>4 DEF Stamped, LastListIsTable, Applying
<1>8. OneTable /\ LastListIsLoaded
  BY <1>4, StartLoads DEF OneTable, LastListIsLoaded, Fresh
<1> QED  BY <1>5, <1>6, <1>7, <1>8 DEF LoadInv

\* Outside of the moments in which a reload sets them, the registry and the
\* flags belong to one table, that of the list applied last; and the last list
\* made, once everybody who has changed the table has made one, is the table.
THEOREM ReloadLoadInvariant == Spec => []LoadInv
<1>1. Init => LoadInv
  BY LoadInit
<1>2. LoadInv /\ LockInv /\ [Next]_vars => LoadInv'
  <2> SUFFICES ASSUME LoadInv, LockInv, [Next]_vars PROVE LoadInv'
    OBVIOUS
  <2>1. ASSUME NEW h \in Handlers, Request(h) \/ ReloadStep(h) PROVE LoadInv'
    <3>1. CASE Request(h)
      BY <3>1, RequestChanges, MovesKeep, ChangesKeep DEF LoadInv
    <3>2. CASE WriteUpdate(h) \/ Announce(h) \/ Acquire(h) \/ Answer(h)
      BY <3>2, OtherMoves, MovesKeep, ChangesKeep DEF LoadInv
    <3>3. CASE ListTable(h)
      BY <3>3, ListKeeps
    <3>4. CASE Clear(h)
      BY <3>4, ClearKeeps
    <3>5. CASE Fill(h)
      BY <3>5, FillKeeps
    <3>6. CASE SetFlags(h)
      BY <3>6, SetFlagsKeeps
    <3> QED  BY <2>1, <3>1, <3>2, <3>3, <3>4, <3>5, <3>6 DEF ReloadStep
  <2>2. ASSUME NEW p \in Passes, StartAll(p) \/ StartOne(p) \/ SyncStep(p) PROVE LoadInv'
    BY <2>2, PassesMove, RestKeeps DEF LoadInv
  <2>3. CASE Crash
    BY <2>3, CrashKeeps
  <2>4. CASE StartUp
    BY <2>4, StartUpKeeps
  <2>5. CASE StartPanics \/ UNCHANGED vars
    <3>1. UNCHANGED <<tableVars, liveVars, loadedVars, requestVars, passVars, historyVars, pc, list>>
      BY <2>5 DEF StartPanics, vars
    <3>2. PassesTyped'
      BY <3>1 DEF LoadInv, TypeOK, PassesTyped, passVars
    <3> QED  BY <3>1, <3>2, RestKeeps
  <2> QED  BY <2>1, <2>2, <2>3, <2>4, <2>5 DEF Next
<1> QED  BY <1>1, <1>2, ReloadInvariant, PTL DEF Spec

\* The types hold in every state of every execution.
THEOREM ReloadTypeOK == Spec => []TypeOK
<1>1. LoadInv => TypeOK
  BY DEF LoadInv
<1> QED  BY <1>1, ReloadLoadInvariant, PTL

\* When no request is under way, the registry and the flags belong to one
\* table that some reload has listed, whichever way round the reloads got the
\* lock; and unless a later list was applied before it or failed, that is the
\* table as it is, with all that the requests have done to it in any order.
THEOREM ReloadLoadedFollowsTable == Spec => []LoadedFollowsTable
<1>1. LoadInv => LoadedFollowsTable
  <2> SUFFICES ASSUME LoadInv, up, \A h \in Handlers : ~InFlight(h) \/ pc[h] = "answer"
               PROVE  RegistryFollows /\ FlagsFollow /\ (current = newest => loaded = table)
    BY DEF LoadedFollowsTable, RegistryFollows, FlagsFollow
  <2>1. \A h \in Handlers : pc[h] \notin Applying /\ pc[h] # "list"
    BY DEF InFlight, Applying
  <2>2. newest = lists /\ NobodyLists
    BY <2>1 DEF LoadInv, Stamped, NobodyLists
  <2>3. \A h \in Handlers : pc[h] \notin {"fill", "flags"}
    BY <2>1 DEF Applying
  <2> QED  BY <2>2, <2>3 DEF LoadInv, OneTable, LastListIsLoaded
<1> QED  BY <1>1, ReloadLoadInvariant, PTL
=============================================================================

---------------------------- MODULE ConfigReload ----------------------------
(***************************************************************************)
(* The table of provider configurations, the four request handlers that    *)
(* change it (internal/server/provider_config_handlers.go), the registry   *)
(* of providers rebuilt after each change (SyncManager.ReconfigureProviders*)
(* of internal/engine/sync.go) and the sync passes that use the registry   *)
(* meanwhile.  The engine's mu is a Go RWMutex: a sync of one provider     *)
(* holds it for reading from end to end, a reload for writing; the loop    *)
(* over all providers reads the registry and the enabled flags without it. *)
(*                                                                         *)
(* Names are numbers in the order of ListProviderConfigs.  The settings of *)
(* a row, its type and config_json together, are accepted by the provider  *)
(* ("x", "y"), refused by its Configure ("refused"), or of a type that has *)
(* no constructor ("custom_files").  A request without a config has the    *)
(* JSON null stored, which the same three things can befall ("null",       *)
(* "null refused", "null custom_files"): most providers read it as no      *)
(* settings, a registry wants an endpoint.                                 *)
(***************************************************************************)
EXTENDS Naturals, FiniteSets

CONSTANTS
    NumNames,     \* provider names in play
    Handlers,     \* requests that change the table, each made at most once
    Passes,       \* goroutines that sync, again and again
    Inputs,       \* settings that a request may ask for
    YamlFiles,    \* contents the YAML file may have: name -> [enabled, settings]
    MaxCrashes    \* bound: times the process is killed

ASSUME NumNamesAssumption == NumNames \in Nat \ {0}
ASSUME HandlersAssumption == IsFiniteSet(Handlers)
ASSUME MaxCrashesAssumption == MaxCrashes \in Nat
ASSUME YamlAssumption ==
    \A yaml \in YamlFiles :
        /\ DOMAIN yaml \subseteq 1..NumNames
        /\ \A n \in DOMAIN yaml : /\ yaml[n].enabled \in BOOLEAN
                                  /\ yaml[n].settings \in {"x", "y", "refused", "custom_files"}

Given == {"x", "y", "refused", "custom_files"}
Nulls == {"null", "null refused", "null custom_files"}
Settings == Given \cup Nulls
ASSUME InputsAssumption == Inputs \subseteq Settings

VARIABLES
    table,        \* provider_configs: table[n], NoRow if there is none
    nextId,       \* the AUTOINCREMENT id of the next row
    up,           \* the process runs
    crashes,      \* times it was killed
    registry,     \* registry[n]: what the registered provider was built from
    flags,        \* config.Providers[n]["enabled"]
    pc,           \* pc[h]: where the request is
    deletes,      \* deletes[h]: it is a delete
    name,         \* name[h]: the provider it is about
    row,          \* row[h]: an update's copy of the row, to be written back
    list,         \* list[h]: the table as its reload has listed it
    pass,         \* pass[p]: where the sync is
    all,          \* all[p]: it goes over all providers (SyncAll)
    todo,         \* todo[p]: names it has still to sync
    at,           \* at[p]: the name being synced
    got,          \* got[p]: the provider it found
    lists,        \* lists made since the process started (history)
    stamp,        \* stamp[h]: the number of its list (history)
    newest,       \* the highest number of a list applied or failed (history)
    current,      \* the number of the list the registry was last built from (history)
    loaded        \* that list, or the table the process started with (history)

tableVars == <<table, nextId>>
liveVars == <<up, crashes>>
loadedVars == <<registry, flags>>
requestVars == <<deletes, name, row>>
passVars == <<pass, all, todo, at, got>>
historyVars == <<lists, stamp, newest, current, loaded>>
vars == <<tableVars, liveVars, loadedVars, requestVars, passVars, historyVars, pc, list>>

Names == 1..NumNames
MaxRows == NumNames * (MaxCrashes + 1) + Cardinality(Handlers)

Rows == [id : 1..MaxRows, enabled : BOOLEAN, settings : Settings]
NoRow == [id |-> 0, enabled |-> FALSE, settings |-> "null"]
Tables == [Names -> Rows \cup {NoRow}]
EmptyTable == [n \in Names |-> NoRow]

Provider == [settings : Settings, list : 0..Cardinality(Handlers)]
NoProvider == [settings |-> "none", list |-> 0]

TypeOK ==
    /\ table \in Tables /\ nextId \in 1..MaxRows + 1
    /\ up \in BOOLEAN /\ crashes \in 0..MaxCrashes
    /\ registry \in [Names -> Provider \cup {NoProvider}]
    /\ flags \in [Names -> {"absent", "enabled", "disabled"}]
    /\ pc \in [Handlers -> {"new", "update", "list", "waiting", "pending", "build", "fill",
                            "flags", "answer", "ok", "failed"}]
    /\ deletes \in [Handlers -> BOOLEAN]
    /\ name \in [Handlers -> Names]
    /\ row \in [Handlers -> Rows \cup {NoRow}]
    /\ list \in [Handlers -> Tables]
    /\ pass \in [Passes -> {"idle", "next", "rlock", "syncing"}]
    /\ all \in [Passes -> BOOLEAN]
    /\ todo \in [Passes -> SUBSET Names]
    /\ at \in [Passes -> Names]
    /\ got \in [Passes -> Provider \cup {NoProvider}]
    /\ lists \in 0..Cardinality(Handlers)
    /\ stamp \in [Handlers -> 0..Cardinality(Handlers)]
    /\ newest \in 0..Cardinality(Handlers) /\ current \in 0..newest
    /\ loaded \in Tables

-----------------------------------------------------------------------------
(* What is built from a table *)

Present(t) == {n \in Names : t[n] # NoRow}
NullNames(t) == {n \in Present(t) : t[n].settings \in Nulls}
Registered == {n \in Names : registry[n] # NoProvider}

\* ReconfigureProviders registers the enabled rows whose type has a
\* constructor and whose settings the provider accepts.
Loadable(r) == r.enabled /\ r.settings \in {"x", "y", "null"}

Built(t, k) ==
    [n \in Names |-> IF Loadable(t[n]) THEN [settings |-> t[n].settings, list |-> k] ELSE NoProvider]

\* The start of the process differs: a provider that refuses its settings is
\* registered all the same (initializeComponents).
BuiltAtStart(t) ==
    [n \in Names |-> IF t[n].enabled /\ t[n].settings \notin {"custom_files", "null custom_files"}
                     THEN [settings |-> t[n].settings, list |-> 0] ELSE NoProvider]

\* The flags are set in the order of the names; writing into the nil map of a
\* null configuration panics, and the names from there on have no flag.
FlagsOf(t) ==
    [n \in Names |-> IF n \notin Present(t) \/ (\E m \in NullNames(t) : m <= n) THEN "absent"
                     ELSE IF t[n].enabled THEN "enabled" ELSE "disabled"]

\* SeedProviderConfigs: a row for each provider of the YAML file.
Seeded(yaml, first) ==
    [n \in Names |-> IF n \in DOMAIN yaml
                     THEN [id |-> first + n - 1, enabled |-> yaml[n].enabled,
                           settings |-> yaml[n].settings]
                     ELSE NoRow]

Start(t) ==
    /\ up' = TRUE /\ registry' = BuiltAtStart(t) /\ flags' = FlagsOf(t) /\ loaded' = t

Init ==
    /\ \E yaml \in YamlFiles :
          /\ table = Seeded(yaml, 1)
          /\ registry = BuiltAtStart(table) /\ flags = FlagsOf(table) /\ loaded = table
    /\ nextId = NumNames + 1 /\ up = TRUE /\ crashes = 0
    /\ pc = [h \in Handlers |-> "new"] /\ deletes = [h \in Handlers |-> FALSE]
    /\ name = [h \in Handlers |-> 1]
    /\ row = [h \in Handlers |-> NoRow] /\ list = [h \in Handlers |-> EmptyTable]
    /\ pass = [p \in Passes |-> "idle"] /\ all = [p \in Passes |-> FALSE]
    /\ todo = [p \in Passes |-> {}] /\ at = [p \in Passes |-> 1]
    /\ got = [p \in Passes |-> NoProvider]
    /\ lists = 0 /\ stamp = [h \in Handlers |-> 0] /\ newest = 0 /\ current = 0

-----------------------------------------------------------------------------
(* The requests up to their write to the table *)

Go(h, where) == pc' = [pc EXCEPT ![h] = where]

\* What a request that ends has held no longer matters.
End(h, how) ==
    /\ Go(h, how)
    /\ name' = [name EXCEPT ![h] = 1] /\ deletes' = [deletes EXCEPT ![h] = FALSE]

New(h) == pc[h] = "new" /\ up
About(h, n, delete) ==
    name' = [name EXCEPT ![h] = n] /\ deletes' = [deletes EXCEPT ![h] = delete]

\* The handler of a create looks at the name and the type alone.
Create(h) ==
    \E n \in Names, e \in BOOLEAN, c \in Inputs :
        /\ New(h)
        /\ IF table[n] = NoRow
           THEN /\ table' = [table EXCEPT ![n] = [id |-> nextId, enabled |-> e, settings |-> c]]
                /\ nextId' = nextId + 1 /\ Go(h, "list") /\ About(h, n, FALSE)
           ELSE End(h, "failed") /\ UNCHANGED tableVars
        /\ UNCHANGED <<liveVars, loadedVars, passVars, historyVars, row, list>>

\* The handler of an update reads the row, puts the fields of the request over
\* it, and writes the whole row back.  Without a config the stored one stays,
\* under another type maybe: a null one stays a null one.
Kept(c) == IF c \in Nulls THEN Nulls ELSE {c}
ReadForUpdate(h) ==
    \E n \in Names, e \in BOOLEAN :
      \E c \in Kept(table[n].settings) \cup (Inputs \ Nulls) :
        /\ New(h)
        /\ IF table[n] = NoRow
           THEN End(h, "failed") /\ UNCHANGED row
           ELSE /\ row' = [row EXCEPT ![h] = [table[n] EXCEPT !.enabled = e, !.settings = c]]
                /\ Go(h, "update") /\ About(h, n, FALSE)
        /\ UNCHANGED <<tableVars, liveVars, loadedVars, passVars, historyVars, list>>

\* Mutant: the update is answered without a reload.
WriteWithoutReload(h) ==
    /\ pc[h] = "update"
    /\ IF table[name[h]].id = row[h].id
       THEN /\ table' = [table EXCEPT ![name[h]] = row[h]]
            /\ Go(h, "answer") /\ UNCHANGED <<name, deletes>>
       ELSE End(h, "failed") /\ UNCHANGED table
    /\ row' = [row EXCEPT ![h] = NoRow]
    /\ UNCHANGED <<nextId, liveVars, loadedVars, passVars, historyVars, list>>

\* UPDATE ... WHERE id = ?: no row has the id any more if it was deleted
\* meanwhile, even if the name is taken again.
WriteUpdate(h) ==
    /\ pc[h] = "update"
    /\ IF table[name[h]].id = row[h].id
       THEN /\ table' = [table EXCEPT ![name[h]] = row[h]]
            /\ Go(h, "list") /\ UNCHANGED <<name, deletes>>
       ELSE End(h, "failed") /\ UNCHANGED table
    /\ row' = [row EXCEPT ![h] = NoRow]
    /\ UNCHANGED <<nextId, liveVars, loadedVars, passVars, historyVars, list>>

Delete(h) ==
    \E n \in Names :
        /\ New(h)
        /\ IF table[n] = NoRow
           THEN End(h, "failed") /\ UNCHANGED table
           ELSE /\ table' = [table EXCEPT ![n] = NoRow]
                /\ Go(h, "list") /\ About(h, n, TRUE)
        /\ UNCHANGED <<nextId, liveVars, loadedVars, passVars, historyVars, row, list>>

\* Mutant: a toggle that met no row is not noticed, and makes one.
ToggleMakesRow(h) ==
    \E n \in Names :
        /\ New(h)
        /\ table' = [table EXCEPT ![n].enabled = ~@]
        /\ Go(h, "list") /\ About(h, n, FALSE)
        /\ UNCHANGED <<nextId, liveVars, loadedVars, passVars, historyVars, row, list>>

Toggle(h) ==
    \E n \in Names :
        /\ New(h)
        /\ IF table[n] = NoRow
           THEN End(h, "failed") /\ UNCHANGED table
           ELSE /\ table' = [table EXCEPT ![n].enabled = ~@]
                /\ Go(h, "list") /\ About(h, n, FALSE)
        /\ UNCHANGED <<nextId, liveVars, loadedVars, passVars, historyVars, row, list>>

-----------------------------------------------------------------------------
(* The reload *)

\* A delete answers at once; the others read the row again for their answer.
AfterReload(h) ==
    IF deletes[h] THEN End(h, "ok") ELSE Go(h, "answer") /\ UNCHANGED <<name, deletes>>

Later(i, j) == IF i < j THEN j ELSE i

\* reloadProviders: a failed list is logged and the registry stays.
ListTable(h) ==
    /\ pc[h] = "list"
    /\ lists' = lists + 1
    /\ \/ /\ list' = [list EXCEPT ![h] = table]
          /\ stamp' = [stamp EXCEPT ![h] = lists + 1]
          /\ Go(h, "waiting") /\ UNCHANGED <<name, deletes, newest>>
       \/ newest' = lists + 1 /\ AfterReload(h) /\ UNCHANGED <<list, stamp>>
    /\ UNCHANGED <<tableVars, liveVars, loadedVars, row, passVars, current, loaded>>

\* Lock of the RWMutex: one writer at a time announces itself, which keeps
\* new readers out, and then waits for the readers inside to leave.
Writers == {h \in Handlers : pc[h] \in {"pending", "build", "fill", "flags"}}
Readers == {p \in Passes : pass[p] = "syncing"}

Announce(h) ==
    /\ pc[h] = "waiting" /\ Writers = {}
    /\ Go(h, "pending")
    /\ UNCHANGED <<tableVars, liveVars, loadedVars, requestVars, passVars, historyVars, list>>

\* Mutant: the registry is rebuilt without waiting for the syncs.
AcquireAtOnce(h) ==
    /\ pc[h] = "pending"
    /\ Go(h, "build")
    /\ UNCHANGED <<tableVars, liveVars, loadedVars, requestVars, passVars, historyVars, list>>

Acquire(h) ==
    /\ pc[h] = "pending" /\ Readers = {}
    /\ Go(h, "build")
    /\ UNCHANGED <<tableVars, liveVars, loadedVars, requestVars, passVars, historyVars, list>>

\* ReconfigureProviders takes every old provider out ...
Clear(h) ==
    /\ pc[h] = "build"
    /\ registry' = [n \in Names |-> NoProvider]
    /\ Go(h, "fill")
    /\ UNCHANGED <<tableVars, liveVars, flags, requestVars, passVars, historyVars, list>>

\* ... registers the new ones and empties the map of the flags ...
Fill(h) ==
    /\ pc[h] = "fill"
    /\ registry' = Built(list[h], stamp[h])
    /\ flags' = [n \in Names |-> "absent"]
    /\ newest' = Later(newest, stamp[h]) /\ current' = stamp[h] /\ loaded' = list[h]
    /\ Go(h, "flags")
    /\ UNCHANGED <<tableVars, liveVars, requestVars, passVars, lists, stamp, list>>

\* Mutant: the panic leaves the lock held.
PanicKeepsLock(h) ==
    /\ pc[h] = "flags" /\ NullNames(list[h]) = {}
    /\ flags' = FlagsOf(list[h])
    /\ AfterReload(h)
    /\ list' = [list EXCEPT ![h] = EmptyTable] /\ stamp' = [stamp EXCEPT ![h] = 0]
    /\ UNCHANGED <<tableVars, liveVars, registry, row, passVars, lists, newest, current, loaded>>

\* ... and sets the flags, up to the first null configuration, where it
\* panics; the lock is released either way.
SetFlags(h) ==
    /\ pc[h] = "flags"
    /\ flags' = FlagsOf(list[h])
    /\ IF NullNames(list[h]) # {} THEN End(h, "failed") ELSE AfterReload(h)
    /\ list' = [list EXCEPT ![h] = EmptyTable] /\ stamp' = [stamp EXCEPT ![h] = 0]
    /\ UNCHANGED <<tableVars, liveVars, registry, row, passVars, lists, newest, current, loaded>>

\* The answer dereferences the row without looking whether it was found.
Answer(h) ==
    /\ pc[h] = "answer"
    /\ End(h, IF table[name[h]] = NoRow THEN "failed" ELSE "ok")
    /\ UNCHANGED <<tableVars, liveVars, loadedVars, row, passVars, historyVars, list>>

-----------------------------------------------------------------------------
(* The syncs *)

\* Names() takes no lock: beside a reload it can meet any part of what is
\* taken out and put in (or end the process, which Crash covers).
Visible ==
    LET rebuilt == {h \in Writers : pc[h] \in {"build", "fill"}}
        coming == {n \in Names : \E h \in rebuilt : Loadable(list[h][n])}
    IN IF rebuilt = {} THEN {Registered} ELSE SUBSET (Registered \cup coming)

StartAll(p) ==
    /\ pass[p] = "idle" /\ up
    /\ \E seen \in Visible : todo' = [todo EXCEPT ![p] = seen]
    /\ pass' = [pass EXCEPT ![p] = "next"] /\ all' = [all EXCEPT ![p] = TRUE]
    /\ UNCHANGED <<tableVars, liveVars, loadedVars, requestVars, historyVars, pc, list, at, got>>

\* The handler has looked the one provider up before it starts the sync.
StartOne(p) ==
    /\ pass[p] = "idle" /\ up
    /\ \E n \in Registered : todo' = [todo EXCEPT ![p] = {n}]
    /\ pass' = [pass EXCEPT ![p] = "next"] /\ all' = [all EXCEPT ![p] = FALSE]
    /\ UNCHANGED <<tableVars, liveVars, loadedVars, requestVars, historyVars, pc, list, at, got>>

\* SyncAll skips a provider without the flag.
SkipDisabled(p) ==
    /\ pass[p] = "next" /\ all[p]
    /\ \E n \in todo[p] :
          flags[n] # "enabled" /\ todo' = [todo EXCEPT ![p] = @ \ {n}]
    /\ UNCHANGED <<tableVars, liveVars, loadedVars, requestVars, historyVars, pc, list, pass,
                   all, at, got>>

CallSync(p) ==
    /\ pass[p] = "next"
    /\ \E n \in todo[p] :
          /\ all[p] => flags[n] = "enabled"
          /\ todo' = [todo EXCEPT ![p] = @ \ {n}] /\ at' = [at EXCEPT ![p] = n]
    /\ pass' = [pass EXCEPT ![p] = "rlock"]
    /\ UNCHANGED <<tableVars, liveVars, loadedVars, requestVars, historyVars, pc, list, all, got>>

\* SyncProvider takes the lock for reading and looks the provider up; it may
\* be gone by now, which is an error.
Lookup(p) ==
    /\ pass[p] = "rlock" /\ Writers = {}
    /\ got' = [got EXCEPT ![p] = registry[at[p]]]
    /\ pass' = [pass EXCEPT ![p] = IF registry[at[p]] = NoProvider THEN "next" ELSE "syncing"]
    /\ UNCHANGED <<tableVars, liveVars, loadedVars, requestVars, historyVars, pc, list, all,
                   todo, at>>

\* The sync of the provider ends; a cancelled SyncAll goes no further.
EndSync(p) ==
    /\ pass[p] = "syncing"
    /\ pass' = [pass EXCEPT ![p] = "next"]
    /\ \E cancelled \in BOOLEAN : todo' = [todo EXCEPT ![p] = IF cancelled THEN {} ELSE @]
    /\ got' = [got EXCEPT ![p] = NoProvider]
    /\ UNCHANGED <<tableVars, liveVars, loadedVars, requestVars, historyVars, pc, list, all, at>>

EndPass(p) ==
    /\ pass[p] = "next" /\ todo[p] = {}
    /\ pass' = [pass EXCEPT ![p] = "idle"]
    /\ all' = [all EXCEPT ![p] = FALSE] /\ at' = [at EXCEPT ![p] = 1]
    /\ UNCHANGED <<tableVars, liveVars, loadedVars, requestVars, historyVars, pc, list, todo, got>>

-----------------------------------------------------------------------------
(* The process *)

\* Only the table outlives the process; requests under way get no answer.
Crash ==
    /\ up /\ crashes < MaxCrashes
    /\ up' = FALSE /\ crashes' = crashes + 1
    /\ registry' = [n \in Names |-> NoProvider] /\ flags' = [n \in Names |-> "absent"]
    /\ pc' = [h \in Handlers |-> IF pc[h] \in {"new", "ok"} THEN pc[h] ELSE "failed"]
    /\ name' = [h \in Handlers |-> 1] /\ deletes' = [h \in Handlers |-> FALSE]
    /\ row' = [h \in Handlers |-> NoRow] /\ list' = [h \in Handlers |-> EmptyTable]
    /\ pass' = [p \in Passes |-> "idle"] /\ todo' = [p \in Passes |-> {}]
    /\ all' = [p \in Passes |-> FALSE] /\ at' = [p \in Passes |-> 1]
    /\ got' = [p \in Passes |-> NoProvider]
    /\ lists' = 0 /\ stamp' = [h \in Handlers |-> 0] /\ newest' = 0 /\ current' = 0
    /\ loaded' = EmptyTable
    /\ UNCHANGED tableVars

\* initializeComponents: an empty table is seeded from the YAML file again,
\* whether or not its rows have been deleted on purpose.
StartUp ==
    /\ ~up /\ NullNames(table) = {}
    /\ IF Present(table) = {}
       THEN /\ \E yaml \in YamlFiles : table' = Seeded(yaml, nextId)
            /\ nextId' = nextId + NumNames
       ELSE UNCHANGED tableVars
    /\ Start(table')
    /\ UNCHANGED <<crashes, requestVars, passVars, lists, stamp, newest, current, pc, list>>

\* A null configuration in the table ends every start with a panic.
StartPanics ==
    /\ ~up /\ NullNames(table) # {}
    /\ UNCHANGED vars

ReloadStep(h) ==
    \/ WriteUpdate(h) \/ ListTable(h) \/ Announce(h) \/ Acquire(h)
    \/ Clear(h) \/ Fill(h) \/ SetFlags(h) \/ Answer(h)
Request(h) == Create(h) \/ ReadForUpdate(h) \/ Delete(h) \/ Toggle(h)
SyncStep(p) == SkipDisabled(p) \/ CallSync(p) \/ Lookup(p) \/ EndSync(p) \/ EndPass(p)

Next ==
    \/ \E h \in Handlers : Request(h) \/ ReloadStep(h)
    \/ \E p \in Passes : StartAll(p) \/ StartOne(p) \/ SyncStep(p)
    \/ Crash \/ StartUp \/ StartPanics

\* The scheduler runs a request that can go on.  A sync need neither go on nor
\* end: its downloads have no overall timeout, and one that gets no more bytes
\* waits for them until it is cancelled.
Spec ==
    /\ Init /\ [][Next]_vars
    /\ \A h \in Handlers : WF_vars(ReloadStep(h))

-----------------------------------------------------------------------------
(* Properties *)

\* The provider a sync has looked up is the registered one until the sync
\* ends: no reload takes it away or replaces it (what the comment of
\* ReconfigureProviders promises of the lock).
SyncKeepsProvider ==
    \A p \in Passes : pass[p] = "syncing" => registry[at[p]] = got[p]

\* Once no request is under way the registry and SyncAll's flags belong to one
\* table that there has been: every enabled provider whose settings are good is
\* there, none that is disabled or has other settings is, and the flags are
\* that table's, whichever way round the reloads got the lock.  It is the table
\* as it is, unless a later list than the one applied last was applied before
\* it or has failed.
InFlight(h) == pc[h] \notin {"new", "update", "ok", "failed"}
LoadedFollowsTable ==
    (up /\ \A h \in Handlers : ~InFlight(h) \/ pc[h] = "answer") =>
        /\ \A n \in Names : Loadable(loaded[n]) => registry[n] # NoProvider
        /\ \A n \in Registered : /\ loaded[n].enabled
                                 /\ loaded[n].settings = registry[n].settings
        /\ flags = FlagsOf(loaded)
        /\ current = newest => loaded = table

\* A reload that has its list gets the engine's lock and lets it go again,
\* however many syncs come and go, unless one of them never ends or the process
\* is killed.
ReloadHappens ==
    (\A p \in Passes : []<>(pass[p] # "syncing")) =>
        \A h \in Handlers :
            (pc[h] = "waiting") ~> (pc[h] \in {"answer", "ok", "failed"})
=============================================================================

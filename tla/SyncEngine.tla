----------------------------- MODULE SyncEngine -----------------------------
(***************************************************************************)
(* What the operations on one provider do to the files on disk, to the     *)
(* cached metadata and to the store: SyncProvider, with the plans of the   *)
(* EPEL provider and of the providers that compare checksums               *)
(* (internal/engine/sync.go, internal/provider/epel/epel.go), the retry of *)
(* failed files and the validation (internal/server/handlers.go), and the  *)
(* tables sync_runs, file_records and failed_files of                      *)
(* internal/store/sqlite.go.                                               *)
(*                                                                         *)
(* A provider mirrors parts: repositories, or versions.  A part whose      *)
(* listing cannot be had is logged and left out of the plan.  EPEL lists a *)
(* part from repomd.xml, asked for with If-Modified-Since the time of the  *)
(* cached copy, and from the primary metadata repomd.xml names, which it   *)
(* takes from its cache when repomd.xml was not modified.                  *)
(*                                                                         *)
(* The operations exclude each other (OneOperation of SyncServer).  Users  *)
(* may dismiss failed-file records at any time, the context may be         *)
(* cancelled, writes to the store and to the caches may fail, and the      *)
(* process may crash.  The download pool is taken at what BatchDownload    *)
(* promises, a download at what DownloadClient shows: a success leaves the *)
(* content asked for, a failure leaves the file untouched, partial, or     *)
(* removed.  The upstream changes between operations; a file it no longer  *)
(* lists is gone.                                                          *)
(***************************************************************************)
EXTENDS Naturals, Sequences, FiniteSets

CONSTANTS
    Configs,      \* the kinds of provider and their settings, see ConfigsAssumption
    MaxOps,       \* bound: operations started
    MaxChanges    \* bound: changes of the upstream

\* epel: the listing is cached, otherwise it is always the current one.  cleanup:
\* cleanup_removed_packages.  atRoot: the output_dir is named as the provider, so
\* that the paths of delete actions hit the files.  unique: upstream names the
\* primary metadata by its checksum, otherwise every version has the same name.
\* parts: sets of files.
Disjoint(P) == \A p, q \in P : p # q => p \cap q = {}
ASSUME ConfigsAssumption ==
    \A c \in Configs :
        /\ c.epel \in BOOLEAN /\ c.cleanup \in BOOLEAN /\ c.atRoot \in BOOLEAN /\ c.unique \in BOOLEAN
        /\ Disjoint(c.parts) /\ IsFiniteSet(c.parts) /\ \A p \in c.parts : IsFiniteSet(p)
ASSUME BoundsAssumption == MaxOps \in Nat /\ MaxChanges \in Nat

VARIABLES
    config,       \* the provider that is synced, an element of Configs
    releases,     \* the upstream's listings, oldest first: releases[v][f] is the content of f, 0: not listed
    latest,       \* latest[p]: the release in which part p changed last
    backdated,    \* parts whose last change bears a date earlier than the copies cached before it
    repomd,       \* repomd[p]: the cached repomd.xml, the release it is of and whether it is whole
    primary,      \* primary[p][n]: the primary metadata cached under name n, likewise
    disk,         \* disk[f]: a content, Absent or Partial
    records,      \* files with a row in file_records
    letters,      \* unresolved rows of failed_files: [id, file, want], want being the expected checksum
    run,          \* status of the latest row of sync_runs
    pc,           \* the operation in progress: where it is
    ctxDone,      \* its context is cancelled
    basis,        \* basis[p]: the release part p is planned or validated by (0: none), whether by a fast check
    plan,         \* plan[f]: the action planned
    outcome,      \* outcome[f]: the result of the pool for f
    snapshot,     \* the rows a retry started from
    todo,         \* files whose result is still to be processed
    sweep,        \* parts whose cached metadata is planned for deletion
    tally,        \* counters of the operation: downloaded, failed, skipped, deleted
    faults,       \* a write of this operation to the store failed, or a user dismissed a row (history)
    ops

upstreamVars == <<config, releases, latest, backdated>>
cacheVars == <<repomd, primary>>
storeVars == <<records, letters>>
opVars == <<basis, plan, outcome, snapshot, todo, sweep, tally>>
vars == <<upstreamVars, cacheVars, storeVars, opVars, disk, run, pc, ctxDone, faults, ops>>

Release == 1..(MaxChanges + 1)
Absent == 0
Partial == MaxChanges + 2
Copy == [release : {0} \cup Release, whole : BOOLEAN]
NoCopy == [release |-> 0, whole |-> FALSE]
Parts == config.parts
Files == UNION Parts
PartOf(f) == CHOOSE p \in Parts : f \in p
Current(f) == releases[Len(releases)][f]

Action == {"none", "download", "skip", "delete"}
RunStatus == {"none", "running", "failed", "completed", "success", "partial"}
SyncPC == {"planning", "downloading", "processing"}
RetryPC == {"retrying", "resolving"}
ValidatePC == {"validating", "recording"}
Busy == SyncPC \cup RetryPC \cup ValidatePC
Counter == {"downloaded", "failed", "skipped", "deleted"}

Basis == [release : {0} \cup Release, fast : BOOLEAN]
Letter == [id : Nat, file : Files, want : Release]

TypeOK ==
    /\ config \in Configs
    /\ releases \in Seq([Files -> {0} \cup Release]) /\ Len(releases) \in Release
    /\ latest \in [Parts -> Release] /\ backdated \subseteq Parts
    /\ repomd \in [Parts -> Copy] /\ primary \in [Parts -> [Release -> Copy]]
    /\ disk \in [Files -> {Absent, Partial} \cup Release]
    /\ records \subseteq Files /\ letters \subseteq Letter
    /\ run \in RunStatus /\ pc \in Busy \cup {"idle"}
    /\ ctxDone \in BOOLEAN /\ faults \in BOOLEAN
    /\ basis \in [Parts -> Basis] /\ plan \in [Files -> Action]
    /\ outcome \in [Files -> {"none", "success", "failed"}]
    /\ snapshot \subseteq Letter /\ todo \subseteq Files /\ sweep \subseteq Parts
    /\ tally \in [Counter -> 0..Cardinality(Files)]
    /\ ops \in 0..MaxOps

NoBasis == [p \in Parts |-> [release |-> 0, fast |-> FALSE]]
NoPlan == [f \in Files |-> "none"]
NoOutcome == [f \in Files |-> "none"]
Zero == [c \in Counter |-> 0]

Init ==
    /\ config \in Configs
    /\ \E first \in [Files -> {0, 1}] : releases = <<first>>
    /\ latest = [p \in Parts |-> 1] /\ backdated = {}
    /\ repomd = [p \in Parts |-> NoCopy] /\ primary = [p \in Parts |-> [n \in Release |-> NoCopy]]
    /\ disk = [f \in Files |-> Absent]
    /\ records = {} /\ letters = {} /\ run = "none"
    /\ pc = "idle" /\ ctxDone = FALSE
    /\ basis = NoBasis /\ plan = NoPlan /\ outcome = NoOutcome
    /\ snapshot = {} /\ todo = {} /\ sweep = {} /\ tally = Zero
    /\ faults = FALSE /\ ops = 0

------------------------------------------------------------------------------
(* The world around the operations *)

\* The upstream replaces, removes or brings back a file.  The change may bear a
\* date before the time of the copies that are cached: mirrors lag, clocks differ.
\* Only EPEL caches anything.
Publish(f) ==
    /\ pc = "idle" /\ Len(releases) <= MaxChanges
    /\ \E content \in {0, Len(releases) + 1} \ {Current(f)} :
          releases' = Append(releases, [releases[Len(releases)] EXCEPT ![f] = content])
    /\ latest' = [latest EXCEPT ![PartOf(f)] = Len(releases) + 1]
    /\ \/ config.epel /\ backdated' = backdated \cup {PartOf(f)}
       \/ backdated' = backdated \ {PartOf(f)}
    /\ UNCHANGED <<config, cacheVars, storeVars, opVars, disk, run, pc, ctxDone, faults, ops>>

\* The user or a shutdown cancels the operation.
Cancel ==
    /\ pc \in Busy /\ ~ctxDone
    /\ ctxDone' = TRUE
    /\ UNCHANGED <<upstreamVars, cacheVars, storeVars, opVars, disk, run, pc, faults, ops>>

\* POST /api/sync/failures/resolve, which does not take the guard.
Dismiss(l) ==
    /\ l \in letters
    /\ letters' = letters \ {l}
    /\ faults' = (pc # "idle")
    /\ UNCHANGED <<upstreamVars, cacheVars, records, opVars, disk, run, pc, ctxDone, ops>>

\* The locals of the operation go with it.
Leave == pc' = "idle" /\ ctxDone' = FALSE /\ faults' = FALSE
Forget ==
    /\ basis' = NoBasis /\ plan' = NoPlan /\ outcome' = NoOutcome
    /\ snapshot' = {} /\ todo' = {} /\ sweep' = {} /\ tally' = Zero

Crash ==
    /\ pc \in Busy
    /\ Leave /\ Forget
    /\ UNCHANGED <<upstreamVars, cacheVars, storeVars, disk, run, ops>>

\* The id of a new row; those of resolved rows, which nobody reads, are used again.
FreshId == CHOOSE n \in 1..(Cardinality(letters) + 1) : \A l \in letters : l.id # n
NewLetter(f, want) == [id |-> FreshId, file |-> f, want |-> want]

\* Mutants: the row of the file is not looked for; its expected checksum is kept.
InsertFailedFile(f, want) ==
    /\ letters' = letters \cup {NewLetter(f, want)}
    /\ UNCHANGED faults

KeepFailedFile(f, want) ==
    /\ letters' = letters \cup (IF \E l \in letters : l.file = f THEN {} ELSE {NewLetter(f, want)})
    /\ UNCHANGED faults

\* AddFailedFile: update the unresolved row of the file, its expected checksum
\* included, or insert one.  A write may fail: the error is only logged.
AddFailedFile(f, want) ==
    \/ /\ letters' = IF \E l \in letters : l.file = f
                     THEN {IF l.file = f THEN [l EXCEPT !.want = want] ELSE l : l \in letters}
                     ELSE letters \cup {NewLetter(f, want)}
       /\ UNCHANGED faults
    \/ faults' = TRUE /\ UNCHANGED letters

Count(c) == tally' = [tally EXCEPT ![c] = @ + 1]

\* UpdateSyncRun on the row of this run, whose error is only logged.
LastRun(status) == run' \in {status, run}

Begin(at) ==
    /\ pc = "idle" /\ ops < MaxOps
    /\ pc' = at /\ ops' = ops + 1
    /\ UNCHANGED faults

------------------------------------------------------------------------------
(* The listing of a part: what it may turn out to be, with the caches it leaves *)

NoListing(p, r, m) == [release |-> 0, fast |-> FALSE, repomd |-> r, primary |-> m]

\* os.WriteFile over a cached copy: it is written, cut short, or left as it was.
AfterWrite(old, v) == {[release |-> v, whole |-> TRUE], [release |-> v, whole |-> FALSE], old}

NameOf(v) == IF config.unique THEN v ELSE 1

\* The primary metadata that the repomd.xml of release v names is fetched, and
\* kept by a plan, never by a validation.
FetchPrimary(p, r, v, fast, keep) ==
    LET got == IF config.unique THEN v ELSE latest[p]
        old == primary[p][NameOf(v)]
    IN  {NoListing(p, r, primary[p])} \cup
        {[release |-> got, fast |-> fast, repomd |-> r, primary |-> [primary[p] EXCEPT ![NameOf(v)] = c]]
            : c \in IF keep THEN AfterWrite(old, got) ELSE {old}}

\* 304: the cached repomd.xml is read, and the cached primary metadata if there
\* is any.  A copy that was cut does not parse.
NotModified(p, keep) ==
    LET v == repomd[p].release
        cached == primary[p][NameOf(v)]
    IN  IF ~repomd[p].whole THEN {NoListing(p, repomd[p], primary[p])}
        ELSE IF cached = NoCopy THEN FetchPrimary(p, repomd[p], v, TRUE, keep)
        ELSE IF ~cached.whole THEN {NoListing(p, repomd[p], primary[p])}
        ELSE {[release |-> cached.release, fast |-> TRUE, repomd |-> repomd[p], primary |-> primary[p]]}

\* Mutant: the cached primary metadata is taken although repomd.xml was modified.
ModifiedUnnoticed(p, keep) ==
    LET cached == primary[p][NameOf(latest[p])]
    IN  IF cached.whole
        THEN {[release |-> cached.release, fast |-> FALSE, repomd |-> r, primary |-> primary[p]]
                 : r \in AfterWrite(repomd[p], latest[p])}
        ELSE UNION {FetchPrimary(p, r, latest[p], FALSE, keep) : r \in AfterWrite(repomd[p], latest[p])}

\* 200: repomd.xml is cached before the primary metadata is fetched.
Modified(p, keep) ==
    UNION {FetchPrimary(p, r, latest[p], FALSE, keep) : r \in AfterWrite(repomd[p], latest[p])}

\* The server may answer 304 if the part has not changed since the cached copy,
\* or bears a date before it.
MayAnswerNotModified(p) ==
    repomd[p].release # 0 /\ (repomd[p].release = latest[p] \/ p \in backdated)

\* The others fetch the checksums of a version every time.
ListVersion(p) == {[release |-> latest[p], fast |-> FALSE, repomd |-> repomd[p], primary |-> primary[p]]}

ListRepo(p, keep) ==
    Modified(p, keep) \cup (IF MayAnswerNotModified(p) THEN NotModified(p, keep) ELSE {})

Listings(p, keep) ==
    {NoListing(p, repomd[p], primary[p])} \cup
    IF config.epel THEN ListRepo(p, keep) ELSE ListVersion(p)

\* The parts are listed one after the other, and the caches written.
ListParts(keep, found) ==
    /\ \A p \in Parts : found[p] \in Listings(p, keep)
    /\ repomd' = [p \in Parts |-> found[p].repomd]
    /\ primary' = [p \in Parts |-> found[p].primary]
Founds(keep) == [Parts -> UNION {Listings(p, keep) : p \in Parts}]
BasisOf(found) == [p \in Parts |-> [release |-> found[p].release, fast |-> found[p].fast]]

\* What file f should be by the listing its part was planned by; 0: not listed.
WantedBy(b, f) == IF b.release = 0 THEN 0 ELSE releases[b.release][f]
Wanted(f) == WantedBy(basis[PartOf(f)], f)

------------------------------------------------------------------------------
(* SyncProvider *)

\* CreateSyncRun.
StartSync ==
    /\ Begin("planning")
    /\ run' = "running"
    /\ UNCHANGED <<upstreamVars, cacheVars, storeVars, opVars, disk, ctxDone>>

\* The settings name a version or a directory that is no safe path: Plan refuses.
PlanFails ==
    /\ pc = "planning" /\ ~config.epel
    /\ LastRun("failed")
    /\ Leave
    /\ UNCHANGED <<upstreamVars, cacheVars, storeVars, opVars, disk, ops>>

\* Mutant: a file of any content is taken for the upstream's.
TrustedWhateverItIs(f, b) == disk[f] # Absent

\* buildPackageAction: after a fast check a file need only exist, otherwise its
\* checksum is compared with that of the listing.
Trusted(f, b) == disk[f] = WantedBy(b, f) \/ (b.fast /\ disk[f] # Absent)

\* Mutant: where nothing is listed, everything on disk is surplus.
SurplusIfUnlisted(f, b) == config.cleanup /\ disk[f] # Absent /\ WantedBy(b, f) = 0

\* findDeletedPackages, for a part that could be listed.  The code walks the whole
\* output directory of the part: no other part has files in or below it.
Surplus(f, b) == config.cleanup /\ disk[f] # Absent /\ b.release # 0 /\ WantedBy(b, f) = 0

PlannedAction(f, b) ==
    CASE WantedBy(b, f) # 0 /\ Trusted(f, b) -> "skip"
      [] WantedBy(b, f) # 0 /\ ~Trusted(f, b) -> "download"
      [] Surplus(f, b) -> "delete"
      [] OTHER -> "none"

With(action) == {f \in Files : plan[f] = action}

\* A part that cannot be listed is left out; the plan goes on without it.
PlanSync ==
    /\ pc = "planning"
    /\ \E found \in Founds(TRUE) : ListParts(TRUE, found) /\ basis' = BasisOf(found)
    /\ plan' = [f \in Files |-> PlannedAction(f, basis'[PartOf(f)])]
    /\ pc' = "downloading"
    /\ UNCHANGED <<upstreamVars, storeVars, outcome, snapshot, todo, sweep, tally, disk, run, ctxDone,
                   faults, ops>>

\* A dry run ends here: the plan is counted and not carried out.
DryRun ==
    /\ pc = "planning"
    /\ \E found \in Founds(TRUE) : ListParts(TRUE, found)
    /\ LastRun("completed")
    /\ Leave
    /\ UNCHANGED <<upstreamVars, storeVars, opVars, disk, ops>>

\* A destination outside the provider's directory: SyncProvider returns, the
\* run and the tracker stay as they are.
UnsafePath ==
    /\ pc = "downloading" /\ With("download") # {}
    /\ Leave /\ Forget
    /\ UNCHANGED <<upstreamVars, cacheVars, storeVars, disk, run, ops>>

\* The files the pool downloads, and the contents their jobs expect.
Jobs ==
    IF pc = "retrying" THEN {[file |-> l.file, want |-> l.want] : l \in snapshot}
    ELSE {[file |-> f, want |-> Wanted(f)] : f \in With("download")}
Downloads == {j.file : j \in Jobs}

\* How the job of f may end: only the content the upstream has now can be had; a
\* job is unanswered only if the context was done.
DownloadEnds(f, result, left) ==
    \/ /\ f \notin Downloads \/ ctxDone
       /\ result = "none" /\ left = disk[f]
    \/ /\ result = "success" /\ left = Current(f)
       /\ \E j \in Jobs : j.file = f /\ j.want = Current(f)
    \/ /\ f \in Downloads
       /\ result = "failed" /\ left \in {disk[f], Partial, Absent}

\* Pool.Execute, from the first job to its return.
Execute ==
    /\ outcome' \in [Files -> {"none", "success", "failed"}]
    /\ disk' \in [Files -> {Absent, Partial} \cup Release]
    /\ \A f \in Files : DownloadEnds(f, outcome'[f], disk'[f])

\* Cached metadata is no package either: a clean-up plans its deletion, which
\* hits it, as it hits packages, only at the root.
ExecutePlan ==
    /\ pc = "downloading"
    /\ Execute
    /\ todo' = Files \ With("none")
    /\ sweep' = {p \in Parts : config.cleanup /\ config.atRoot /\ basis[p].release # 0}
    /\ pc' = "processing"
    /\ UNCHANGED <<upstreamVars, cacheVars, storeVars, basis, plan, snapshot, tally, run, ctxDone,
                   faults, ops>>

\* The loop over the actions of the plan, one disjunct per kind of result.
RecordDownload(f) ==
    /\ plan[f] = "download" /\ outcome[f] = "success"
    /\ Count("downloaded")
    /\ \/ records' = records \cup {f} /\ UNCHANGED faults
       \/ faults' = TRUE /\ UNCHANGED records
    /\ UNCHANGED <<letters, disk>>

\* Mutant: failures of a cancelled sync are not counted.
RecordFailureUnlessCancelled(f) ==
    /\ plan[f] = "download" /\ outcome[f] = "failed"
    /\ IF ctxDone THEN UNCHANGED tally ELSE Count("failed")
    /\ AddFailedFile(f, Wanted(f))
    /\ UNCHANGED <<records, disk>>

RecordFailure(f) ==
    /\ plan[f] = "download" /\ outcome[f] = "failed"
    /\ Count("failed")
    /\ AddFailedFile(f, Wanted(f))
    /\ UNCHANGED <<records, disk>>

\* "missing download result": counted, and nothing else.
CountMissing(f) ==
    /\ plan[f] = "download" /\ outcome[f] = "none"
    /\ Count("failed")
    /\ UNCHANGED <<storeVars, disk, faults>>

\* The path of a delete action is taken from the provider's directory, where
\* the file is only if the part is at the root; there it may resist.  Its row
\* goes all the same, unless the store fails.
Delete(f) ==
    /\ plan[f] = "delete"
    /\ Count("deleted")
    /\ disk' \in {disk} \cup (IF config.atRoot THEN {[disk EXCEPT ![f] = Absent]} ELSE {})
    /\ \/ records' = records \ {f} /\ UNCHANGED faults
       \/ faults' = TRUE /\ UNCHANGED records
    /\ UNCHANGED letters

CountSkip(f) ==
    /\ plan[f] = "skip"
    /\ Count("skipped")
    /\ UNCHANGED <<storeVars, disk, faults>>

\* Mutant: a result may be processed twice.
ProcessAgain(f) ==
    /\ pc = "processing" /\ f \in todo
    /\ todo' \in {todo, todo \ {f}}
    /\ \/ RecordDownload(f) \/ RecordFailure(f) \/ CountMissing(f) \/ Delete(f) \/ CountSkip(f)
    /\ UNCHANGED <<upstreamVars, cacheVars, basis, plan, outcome, snapshot, sweep, run, pc, ctxDone, ops>>

Process(f) ==
    /\ pc = "processing" /\ f \in todo
    /\ todo' = todo \ {f}
    /\ \/ RecordDownload(f) \/ RecordFailure(f) \/ CountMissing(f) \/ Delete(f) \/ CountSkip(f)
    /\ UNCHANGED <<upstreamVars, cacheVars, basis, plan, outcome, snapshot, sweep, run, pc, ctxDone, ops>>

\* The delete actions for cached metadata; each file may resist.
Sweep(p) ==
    /\ pc = "processing" /\ p \in sweep
    /\ sweep' = sweep \ {p}
    /\ repomd' \in {repomd, [repomd EXCEPT ![p] = NoCopy]}
    /\ primary' \in {primary, [primary EXCEPT ![p] = [n \in Release |-> NoCopy]]}
    /\ UNCHANGED <<upstreamVars, storeVars, basis, plan, outcome, snapshot, todo, tally, disk, run,
                   pc, ctxDone, faults, ops>>

Clean == tally["failed"] = 0

FinishSync ==
    /\ pc = "processing" /\ todo = {} /\ sweep = {}
    /\ LastRun(IF Clean THEN "success" ELSE "partial")
    /\ Leave /\ Forget
    /\ UNCHANGED <<upstreamVars, cacheVars, storeVars, disk, ops>>

------------------------------------------------------------------------------
(* Retry of the failed files *)

StartRetry ==
    /\ Begin("retrying")
    /\ letters # {}
    /\ snapshot' = letters
    /\ UNCHANGED <<upstreamVars, cacheVars, storeVars, basis, plan, outcome, todo, sweep, tally, disk,
                   run, ctxDone>>

ExecuteRetry ==
    /\ pc = "retrying"
    /\ Execute
    /\ todo' = {f \in Downloads : outcome'[f] # "none"}
    /\ pc' = "resolving"
    /\ UNCHANGED <<upstreamVars, cacheVars, storeVars, basis, plan, snapshot, sweep, tally, run, ctxDone,
                   faults, ops>>

\* Mutant: the loop skips a failed download without counting it.
ResolveSuccess(f) ==
    /\ pc = "resolving" /\ f \in todo
    /\ todo' = todo \ {f}
    /\ IF outcome[f] = "success"
       THEN Count("downloaded") /\ letters' = {l \in letters : l \notin snapshot \/ l.file # f}
       ELSE UNCHANGED <<tally, letters>>
    /\ UNCHANGED <<upstreamVars, cacheVars, records, basis, plan, outcome, snapshot, sweep, disk, run,
                   pc, ctxDone, faults, ops>>

\* A success resolves the row, and leaves file_records alone; a failure only
\* counts one more retry in its row.
Resolve(f) ==
    /\ pc = "resolving" /\ f \in todo
    /\ todo' = todo \ {f}
    /\ IF outcome[f] = "success"
       THEN /\ Count("downloaded")
            /\ \/ letters' = {l \in letters : l \notin snapshot \/ l.file # f} /\ UNCHANGED faults
               \/ faults' = TRUE /\ UNCHANGED letters
       ELSE Count("failed") /\ UNCHANGED <<letters, faults>>
    /\ UNCHANGED <<upstreamVars, cacheVars, records, basis, plan, outcome, snapshot, sweep, disk, run,
                   pc, ctxDone, ops>>

FinishRetry ==
    /\ pc = "resolving" /\ todo = {}
    /\ Leave /\ Forget
    /\ UNCHANGED <<upstreamVars, cacheVars, storeVars, disk, run, ops>>

------------------------------------------------------------------------------
(* Validation *)

StartValidate ==
    /\ Begin("validating")
    /\ UNCHANGED <<upstreamVars, cacheVars, storeVars, opVars, disk, run, ctxDone>>

Complete(found) == \A p \in Parts : found[p].release # 0

\* EPEL needs the listing of every part, the others pass over a version they
\* cannot list.  A directory that cannot be read, or a context that is done
\* between two files, fails the validation too: nothing is recorded.
ValidateFails ==
    /\ pc = "validating"
    /\ \E found \in Founds(FALSE) :
          /\ ListParts(FALSE, found)
          /\ ctxDone \/ ~config.epel \/ ~Complete(found)
    /\ Leave
    /\ UNCHANGED <<upstreamVars, storeVars, opVars, disk, run, ops>>

\* Every listed file is hashed.
CheckFiles ==
    /\ pc = "validating"
    /\ \E found \in Founds(FALSE) :
          /\ ListParts(FALSE, found)
          /\ config.epel => Complete(found)
          /\ basis' = BasisOf(found)
    /\ todo' = {f \in Files : WantedBy(basis'[PartOf(f)], f) \notin {0, disk[f]}}
    /\ pc' = "recording"
    /\ UNCHANGED <<upstreamVars, storeVars, plan, outcome, snapshot, sweep, tally, disk, run, ctxDone,
                   faults, ops>>

RecordInvalid(f) ==
    /\ pc = "recording" /\ f \in todo
    /\ todo' = todo \ {f}
    /\ AddFailedFile(f, Wanted(f)) /\ Count("failed")
    /\ UNCHANGED <<upstreamVars, cacheVars, records, basis, plan, outcome, snapshot, sweep, disk, run,
                   pc, ctxDone, ops>>

FinishValidate ==
    /\ pc = "recording" /\ todo = {}
    /\ Leave /\ Forget
    /\ UNCHANGED <<upstreamVars, cacheVars, storeVars, disk, run, ops>>

------------------------------------------------------------------------------
NoMoreOps == pc = "idle" /\ ops = MaxOps /\ UNCHANGED vars

SyncStep == StartSync \/ PlanFails \/ PlanSync \/ DryRun \/ UnsafePath \/ ExecutePlan \/ FinishSync
RetryStep == StartRetry \/ ExecuteRetry \/ FinishRetry
ValidateStep == StartValidate \/ ValidateFails \/ CheckFiles \/ FinishValidate

Next ==
    \/ SyncStep \/ RetryStep \/ ValidateStep
    \/ \E f \in Files : Process(f) \/ Resolve(f) \/ RecordInvalid(f) \/ Publish(f)
    \/ \E p \in Parts : Sweep(p)
    \/ \E l \in letters : Dismiss(l)
    \/ Cancel \/ Crash \/ NoMoreOps

Spec == Init /\ [][Next]_vars

------------------------------------------------------------------------------
(* Properties *)

InPlace(f) == disk[f] = Current(f)

\* The part of f could be listed, its files were compared by checksums, and f is
\* in the upstream's listing.
Checked(f) == basis[PartOf(f)].release # 0 /\ ~basis[PartOf(f)].fast /\ Current(f) # 0

\* The part of f was planned by a listing that is not the upstream's of now.
ByOldListing(f) == basis[PartOf(f)].release \notin {0, latest[PartOf(f)]}

\* failed_files holds one unresolved row per file, whatever the order of syncs,
\* validations, retries and dismissals: AddFailedFile updates or inserts.
OneLetterPerFile == \A l1, l2 \in letters : l1.file = l2.file => l1 = l2

\* Every action of the plan is counted once, in one counter, cancelled or not.
TallyAddsUp ==
    pc = "processing" =>
        tally["downloaded"] + tally["failed"] + tally["skipped"] + tally["deleted"]
            = Cardinality(Files \ (With("none") \cup todo))

\* A run is recorded as a success only if every file the upstream lists is in
\* place with the content the upstream has, in each part that could be listed
\* and was compared by checksums: whatever is cached, a full check never goes by
\* an old listing.  (Parts left out and fast checks are the code's exceptions.)
SuccessMeansMirrored ==
    [][run' # run /\ run' = "success"
          => \A f \in Files : Checked(f) => InPlace(f)]_vars

\* No failure is forgotten: when a sync that was not cancelled ends, every file
\* of those parts that is not in place has a row from which a retry can get what
\* the upstream has now.
NothingForgotten ==
    [][FinishSync /\ ~ctxDone /\ ~faults
          => \A f \in Files :
                Checked(f) => InPlace(f) \/ \E l \in letters : l.file = f /\ l.want = Current(f)]_vars

\* A retry that reports all files resolved has resolved the rows it started
\* from, if it was not cancelled and no write failed.
RetryResolves ==
    [][FinishRetry /\ Clean /\ ~ctxDone /\ ~faults
          => snapshot \cap letters = {} /\ \A l \in snapshot : disk[l.file] = l.want]_vars

\* Syncs and validations never harm a file that is what the upstream lists, also
\* where its part could not be listed; only a retry may, which does not look
\* first, and a plan made from an old listing, with the clean-up on.
GoodFileKept ==
    [][\A f \in Files :
          Current(f) # 0 /\ InPlace(f) /\ disk'[f] # disk[f]
              => \/ pc = "retrying"
                 \/ ByOldListing(f) /\ plan[f] = "delete"]_vars

\* "The package list hasn't changed (same repomd), so existing files are from a
\* previous successful sync" (internal/provider/epel/epel.go:270-271): a file that
\* a sync skips is complete.
SkippedIsComplete == pc = "processing" => \A f \in With("skip") : disk[f] # Partial

\* "retryFailedFiles downloads failed files and updates the store"
\* (internal/server/handlers.go:716): once every row is resolved by a retry, a
\* file in place has its row in file_records, from which exports are made.
RetriedIsRecorded ==
    [][FinishRetry /\ Clean /\ ~ctxDone /\ ~faults
          => \A l \in snapshot : l.file \in records]_vars
=============================================================================

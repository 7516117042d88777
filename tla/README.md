# airgap: a TLA+ model of the synchronisation and transfer engine

`airgap` mirrors package repositories, OpenShift clients and container images
into a data directory (download side), packs them into archives on a medium
(export), and unpacks them in a disconnected network (import). It is one Go
process with a SQLite store, a web server and a command line. This directory
holds TLA+ modules translated from the Go code, the TLC configurations that
check them on small instances, and TLAPS proofs of what matters most for every
instance. `PROJECT.json` maps each definition to its lines of `src/`.

## The system

| part | state | operations | interacts with |
|---|---|---|---|
| operation guard (`internal/server/handlers.go`, `registry_push_handlers.go`) | `syncRunning`, `syncCancel` under `syncMu` | start of sync, retry, scan, validate, registry push; cancel; end | goroutines running the engine; the event stream reads the guard |
| progress (`internal/engine/progress.go`, `handleSyncProgress`) | the active tracker; per tracker a phase, counters and a channel closed on each update | install, update, terminal phase; poll, snapshot, wait, heartbeat | engine goroutine writes, event streams read |
| download pool (`internal/download/pool.go`) | two channels, workers, context | `Execute` | engine and retry; the client; the tracker by callback |
| download client (`internal/download/client.go`) | the file at the destination | `Download` with resume, retry, verification | HTTP servers, disk |
| sync engine (`internal/engine/sync.go`) | provider registry under `mu`, active tracker | `SyncProvider`, `SyncAll`, `ValidateProvider`, `ScanLocal`, `ReconfigureProviders` | providers, pool, store, disk |
| failed files (`handlers.go`, `internal/store/sqlite.go`) | table `failed_files` | add, list, resolve, dismiss, retry | sync, validation, retry, users |
| EPEL provider (`internal/provider/epel`) | cached `repomd.xml` and `primary.xml` on disk | list, plan, clean up, validate | upstream, disk |
| OCP providers (`internal/provider/ocp`) | none beyond their configuration | plan by checksum, validate | upstream, disk |
| container image providers (`internal/provider/containerimages`, `registry`) | none; a directory of manifests and blobs per image | plan the closure of an image, validate | registries, disk |
| scan of local files (`ScanLocal`) | none | walk, hash, record | store, disk |
| import (`internal/engine/import.go`) | `transfers`, `transfer_archives`, `file_records`, data directory | validate, extract, record | medium, store, disk |
| export (`internal/engine/export.go`) | archives and manifest in a directory, `transfers` | collect, pack, split, manifest | store, disk |
| provider configuration (`provider_config_handlers.go`) | table `provider_configs`, the registry, the enabled flags | seed, create, update, delete, toggle, reload | engine lock, syncs |
| registry push (`internal/engine/registry_push.go`) | a temporary OCI layout | root choice, manifest order, push | local images, `skopeo` |
| OCP client downloads (`ocp_handlers.go`) | none | up to two downloads at a time, outside the guard | client, disk |
| mirror discovery (`internal/mirror`) | a cache with a time to live | fetch, speed test | network |
| store, configuration, path safety, command line | schema; YAML; none | migrations, parsing, checks | all |

What is hard here: five kinds of background operation behind one guard, with
cancellation read under a lock and performed outside it; event streams that must
neither show a previous operation nor hang on a missed signal; goroutines that
close and drain two channels under cancellation; downloads that resume files
left by earlier calls while the server's contents change; three tables and a
directory tree that are updated one after the other without a transaction, by
operations that may be cancelled or crash in between; imports that trust what
earlier imports recorded; exports made from rows and files that change beneath them;
metadata cached at two levels by three kinds of operation; a registry that is
rebuilt while a loop walks it; a push that has to guess, from a directory of
manifests, which one the image was.

What makes each part correct is stated as the properties below; `PROJECT.json`
lists the hazards by line, with the property that covers each, or the reason
why none does yet.

## Modules

| module | what it models | checked by | proved in |
|---|---|---|---|
| `BatchDownload` | what callers may rely on: each job settled at most once, none left out unless cancelled | as a refinement target of `pool` | `DownloadPoolProofs` (that the pool implements it) |
| `DownloadPool` | `Pool.Execute`, its sender, workers and closer | `MCDownloadPool` | `DownloadPoolProofs` |
| `DownloadClient` | `Client.Download` on one destination over several calls | `MCDownloadClient` | `DownloadClientProofs` |
| `SyncServer` | guard, cancel request, trackers, event streams | `MCSyncServer` | `SyncServerProofs` |
| `SyncEngine` | sync, retry, validation and dismissal against disk, metadata caches and store, for one provider | `MCSyncEngine` | `SyncEngineProofs` |
| `AirgapImport` | `Import`, its rows and files | `MCAirgapImport` | `AirgapImportProofs` |
| `AirgapExport` | `Export` beside other exports, and the syncs and scans whose rows it reads | `MCAirgapExport` | `AirgapExportProofs` |
| `ConfigReload` | the configuration table, the registry, the engine's lock, the loop of `SyncAll` | `MCConfigReload` | `ConfigReloadProofs` |
| `ImageMirror` | plans and downloads of images, their validation and retry, and `PushContainerImages` | `MCImageMirror` | `ImageMirrorProofs` |

The modules meet at stated contracts. `SyncEngine` starts at most one operation
at a time, which is `OneOperation` of `SyncServer`; it lets the pool return with
results missing only after a cancellation, which is `BatchDownload`, and
`DownloadPool` implements that; it lets a download end with the file asked for,
or fail and leave the file untouched, partial or removed, which is what
`DownloadClient` does. `ImageMirror` and `AirgapExport` take downloads at the same
word. `ConfigReload` has what `SyncEngine` takes for granted: that the provider of a
sync stays the registered one. `AirgapImport` starts from a directory whose archives
match its manifest, which is what `ValidatedIsWhole` of `AirgapExport` is about.

### How state and actions correspond to the code

*`DownloadPool`.* A channel is the sequence of everything sent on it with a count
of what was received; jobs are sent in order, so the first channel is two
counters. Every select, send, receive and close is an action, and the check of the
context before a download is a step apart from its start; `ctxDone` may be
set at any step, also between those two or before the call. `completedFiles` and `failedFiles` count the
calls of `OnComplete`, `onDisk` the downloads that ended well; `takenBefore` is a history variable, the
number of jobs taken from the channel when the context was done.

*`DownloadClient`.* A file is a sequence of chunks, each with the version it was
served from and its position there, which is enough to tell a spliced, shifted
or truncated file. One action per step of an attempt: open and resume, the
request and its answers (200, 206 and every other 2xx with a body from any chunk on, refusal,
transient failure, a timeout), each chunk, the end of the body, its cut without notice, verification,
back-off. The file is opened for appending or written over from its start, as the flags of the code
have it, and each removal or truncation whose error the code ignores may fail (`EmptyFile`). `clean` and
`unnoticed` are history variables: nothing went wrong in this call except what lay on disk before; and
which of the faults that the code lets pass (`Kinds`) have been met since the file was last empty.

*`SyncServer`.* An operation has one pass, or, for a sync of all, one per enabled
provider; every pass installs a tracker. Only whether a tracker is terminal is
kept of its contents. A stream goes through the polls of `handleSyncProgress`, takes
its snapshot and only then its wait channel, as the code does, so that a signal
may be missed in between. `op`, `passes` and `mine` are what each goroutine holds.

*`SyncEngine`.* One provider that mirrors *parts*: EPEL's repositories, or versions.
`releases` is the history of the upstream; a listing, a file, a cached copy and the expected
checksum of a row are all numbers of releases, which tells the upstream's content of now from older
ones. `Listings(p, keep)` is the set of ways in which a request for the listing of part `p` may turn
out, with the caches it leaves: no listing, 200 or 304 for `repomd.xml`, the primary metadata from
the cache or fetched anew, and each write to a cache done, cut short, or not done. A server may
answer 304 to a copy of the current release, and, if the change bears an older date than the copy
(`backdated`), to an older one, because the request carries the local time of the copy. For the
other providers a listing is the current one or none. `basis` is what the plan or validation goes
by. The plan is made in one step, `Execute` settles all downloads in one (their interleaving is
`DownloadPool`'s), and each result is processed in a step of its own, so that a crash, a
cancellation or a dismissal may fall anywhere. Writes to the store may fail, which the code only
logs; `faults` remembers that. `config` is one of `Configs`: provider kind, clean-up, whether the
output directory is the one delete actions look in (`atRoot`), and how primary metadata is named.

*`AirgapImport`.* An archive holds one file; an edition is an export to the same
directory, with the same names and other checksums. Every iteration of the three
loops is a step; extraction truncates in one step and ends in another.

*`AirgapExport`.* Paths are sequences of names below the data directory, because what an
export finds depends on three places agreeing: where a sync puts a file, under which path a sync
or a scan records it, and where the export looks. A file has a version, and a row the version it
was written for. Collection of a provider, opening, packing and closing of an archive, manifest
and transfer row are steps of their own; a second export may write the same directory meanwhile. The list of requested
providers is the user's and may name one twice, whose files are then packed twice; `Numbers` bounds the
archive files by what any list of that length can fill.
`disturbed` and `unrecorded` are history variables: files touched since an export began, and files
whose row a crash has lost.

*`ConfigReload`.* The table, the handlers with their reads, writes and answers, the reload as its
parts (wait for the lock, empty and fill the registry, set the flags), and syncs that read names and
flags without the lock and hold it for reading while they work. A waiting writer keeps new readers
out, as Go's `RWMutex` does. `settings` are kinds of content: accepted, refused, of a type without a
constructor, or the JSON `null` that a request without a config stores, which a provider may accept
or refuse (a registry wants an endpoint) or which may have no constructor either. The handlers look at none of
this: `Inputs` is what requests may ask for. `loaded` is a history variable, the list that the registry
was last built from.

*`ImageMirror`.* Images are given by the graph of their manifests and blobs. A sync plans the closure
of each image's root and downloads what is missing or wrong into the image's directory. A manifest that the
plan cannot parse, or that comes under another media type (`Unparsed`), is planned by itself (`Seen`, `PlannedOf`); a
file whose digest is no sha256 (`Unchecked`) may be skipped for its size or because it is there (`Passed`), and
whatever comes is taken for it. `had`, `wanted` and `settled` are history variables (the roots a
reference has named, what syncs have planned, and that nothing was outstanding as a push looked). The push
lists the manifests it finds, chooses a root, collects what is below it, writes a layout and calls
`skopeo`, of which only what it must refuse is modelled (`Acceptable`, external).

## Checks

| run | instance | what it shows |
|---|---|---|
| `pool` | 2 workers, 3 jobs | safety, what a cancellation stops, termination of `Execute`, refinement of `BatchDownload` |
| `client` | 2 versions of 1 and 3 chunks, 2 attempts, 2 calls | what is accepted, alignment, healing, cancellation, whatever the server answers |
| `server` | 2 operations, up to 2 passes, 1 stream, 2 polls | exclusion, the right tracker, streams end, cancel frees the guard |
| `server_terminal` | the same | finding: a tracker left without a terminal phase |
| `engine` | 2 versions of a file each, or a repository of 1 file in two settings; 4 operations, 1 upstream change | run status, counters, failed-file rows, files kept, whatever the caches hold |
| `engine_fast_check` | a repository, 3 operations | finding: a partial file skipped as complete |
| `engine_retried` | 2 versions, 3 operations | finding: a retried file without a row |
| `import` | 2 imports, 2 archives, 2 editions, 1 failure of the medium | nothing before everything is validated; completed means extracted |
| `import_skip` | the same | finding: skipping on the word of a transfer that did not complete |
| `reload` | 2 providers, 2 requests, 1 goroutine that syncs, 1 kill | a sync keeps its provider, what is loaded is of one table, reloads get the lock unless a sync never ends |
| `export` | 2 exports into one directory, 2 files, 3 steps beneath them | what validates is one whole package, split, completeness |
| `images` | 2 images sharing a manifest and a blob, a manifest that does not parse, a digest that is no sha256, 3 syncs, validations or retries, 1 fault, 1 push | clean syncs leave whole what they can see and compare, the image pushed is one the reference has named |

Each property of a passing run has a mutant in its module, a version of one
definition with a plausible bug, under which TLC finds the property violated.

*Bounds.* Two workers and three jobs make one worker take a second job while the
other is anywhere, and leave one job unsent at a cancellation. Two calls of two attempts let one
leave a file and the other extend, reject or accept it, with an attempt left to start over; sizes of one and three
chunks let the upstream shrink below a resume position, and a body be resumed, cut and skipped into. Two operations give a stream both an old and a new
tracker; two passes give a cancelled sync of all something to skip; two polls
give a stream a second look, and `MaxPolls` stands for the 20 of the code. Four
operations of the engine are one that fills the caches, one that reads them across the
change of the upstream, a retry, and a sync that sees the result; two files in two parts let one
fail or go unlisted while the other succeeds. Any files may be missing from the first listing. The two
repositories are EPEL as the example configuration has it (names with checksums, output directory
below the provider's name), and one at the provider's root with fixed names, where deletions take
effect and old primary metadata can be read under a new `repomd.xml`; both with the clean-up on.
Two imports are enough for one to rely on what the other left. Two requests let one write
between another's list and its turn at the lock, and the older of two lists be applied last; they ask for
settings that are refused or null, beside the accepted ones and the type without a constructor of the YAML files. Three steps beneath the exports are enough for a file
to change and be recorded anew, or to be left half way; sizes 0, 2 and 3 against a split size of 2 give an
exact fit, an overflow, a file too large by itself and one that never counts. One image is an index whose
children are the other image, so that a file is root here and child there, and a manifest that does not parse; the
tag may move to a plain manifest whose blob cannot be checked. One fault moves the tag, fails a
download or cuts a sync off, and three operations let a later one find what that has left. The import, export and engine runs use symmetry, over safety properties only.

*Fairness.* `DownloadPool` assumes that the Go scheduler runs every goroutine that can
go on, and that a download ends once its context is done (`CancelReturns` of `DownloadClient`). It does not
assume that an uncancelled download ends: `ExecuteTerminates` says that `Execute` returns after a cancellation, and
otherwise unless some worker stays in a download for ever. `DownloadClient` assumes only that the program's own
steps are taken: an answer or the next part of a body may never come, because the
HTTP client sets no overall timeout, but a cancelled context ends both.
`SyncServer` assumes that goroutines and timers run and that a pass ends if its
context is cancelled; nothing is assumed of users, and a pass that is not
cancelled may go on for ever. `ConfigReload` assumes only that a reload takes its
steps. Nothing is assumed of syncs, which may start again for ever or never end; `ReloadHappens` says that a reload
gets its turn unless some sync never ends, because the lock gives a waiting writer
precedence over readers that come later (`sync.RWMutex`). The other modules are checked for safety only.

### Findings

1. *A tracker without an end* (`server_terminal`). `SyncProvider` and `ScanLocal`
   return some errors after installing their tracker and before a terminal phase
   (`sync.go:123`, `139`, `213`, `223`, `677`, `701`). The comment at `sync.go:112` relies on a
   terminal snapshot; the progress page of such an operation stays live until
   the next operation.
2. *A partial file taken for a complete one* (`engine_fast_check`). The EPEL plan caches
   `repomd.xml` before anything is downloaded. If a download then fails and leaves
   a partial file, the next sync sees an unchanged `repomd.xml`, skips the file
   (`epel.go:268`) and reports success.
3. *A retried file without a row* (`engine_retried`). `retryFailedFiles` resolves the
   row of `failed_files` and writes none in `file_records` (`handlers.go:770`); later
   syncs skip the file, and exports, made from `file_records`, leave it out.
4. *Skipping archives on the word of a failed import* (`import_skip`). `IsArchiveValidated`
   does not ask for a completed transfer (`sqlite.go:738`), as its comment says. After an import that
   fails on one archive, or only verifies, an import with "skip validated" completes
   without extracting the others.

### Behaviour the models show beside the findings

These are consequences of the code that no document contradicts; the properties are stated so that
they say what does hold.

- *Parts left out.* A repository or version that cannot be listed is logged and left out, also when
  the sync was cancelled while planning; the run is a success (`epel.go:115`). `SuccessMeansMirrored` speaks of
  parts that were listed and compared in full.
- *Caches.* A validation caches `repomd.xml` and never the primary metadata, so that, with fixed names, the
  next plan may go by the old primary metadata; with the clean-up on at the provider's root it then
  deletes files the upstream has (the exception in `GoodFileKept`). A cached copy that was cut short keeps a
  repository unlisted as long as the server answers 304. A change dated before the cached copy may never
  be seen.
- *Clean-up.* Delete actions carry no local path and are looked up under the provider's name
  (`sync.go:356`): with the example's `epel/9` nothing is removed but rows. At the root the cached metadata goes too.
- *Downloads.* A body without a Content-Length that is cut ends like a complete one; with neither checksum nor size it is
  accepted (`client.go:256`). A file that cannot be removed is written over from its start without `O_TRUNC` and keeps its old
  tail (`client.go:108`, `122`). Another 2xx than 200 to a range request, or one whose truncation fails, is
  appended whatever it holds (`client.go:223`). In all three a checksum catches it, and the next attempt starts over.
  A timeout of the dialer counts as a cancellation and is not retried (`client.go:156`). A body
  that stalls holds its worker, and with it `Execute`, until somebody cancels (`client.go:69`).
- *Retries.* A retry removes a complete file before it asks for it again (`client.go:105`), asks without
  the plan's headers, and, for rows a validation has written for images, without a URL; a row stays
  unresolved after a later sync has put its file in place.
- *Exports.* An export finds synced files only if the output directory is the provider's name; rows of a scan
  are keyed from the data directory and never found; a file whose row was lost is skipped by syncs and
  never exported; the inventory carries the checksum of the row, not of what was packed; two
  exports that write one archive file cannot be told by checksums.
- *Configuration.* A stored `null` makes every reload and every later start panic (`sync.go:644`, `root.go`), with
  the flags from that name on lost, whether or not the provider accepts it; the handlers store settings a provider refuses and
  types without a constructor, whose rows a reload then passes over; an update writes back a row it read earlier; two reloads may apply
  the older list last; a provider that refuses its settings is registered at start and not by a
  reload; a sync that never ends keeps a reload waiting, and, behind the reload, every later sync; deleting all rows has them seeded again from YAML at the next start.
- *Images.* A manifest that the plan cannot parse is mirrored without what it refers to, and a file under a digest that is no sha256 is
  neither compared nor validated: it is skipped if it has the size, or is there at all, so that a partial one may stay
  (`containerimages/provider.go:497`, `804`, `885`). The sync ends clean either way; `CleanSyncIsWhole` promises no more of such files than that they are there. After a tag has moved, a push finds several roots and refuses for good, or pushes the old index over a newer
  plain manifest; with the root missing a lone manifest below it is pushed as the tag. Missing child
  manifests are left out of the layout in silence; a crash leaves its temporary directory.

## Proofs

Every invariant and every action property of a passing run is proved for every value of
the constants, and so is the refinement of `BatchDownload`; the liveness properties are
model-checked only. Each proof module has an inductive invariant made of named
parts, a lemma per action (or per group of actions with the same effect), and, where many actions leave
a part alone, one lemma that says what leaving it alone takes.

*`DownloadPoolProofs`.* That an answer is the only one needs to know that a job held
by a worker is below the receive counter and held by nobody else, and that the batch
may return needs to know that a pool with a worker gone and no cancellation is
drained, with every received job held or posted: `PoolInv`. From it follow
`ChannelsSafe`, `OneResultPerJob` and, step by step, `ImplementsBatch`. `CancelStopsWork` needs `CancelInv`: a worker
that holds a job taken after the cancellation has not passed its check and will give it up, and each such
job belongs to a worker of its own, one that is about to leave or has left, so that there are no more of them than
workers. `OutcomeInv` says
what is on disk and what is counted, by results and by workers between the end of a download
and their send; a job given up belongs to a worker that has left, so there is at most one per
worker (`OutcomesAgree`). `ResultsAnswerJobs` rests on `SortByIndex`: that a sort exists for
every finite sequence, and that what it gives with distinct indexes is strictly ordered, so that
position *i* cannot hold less than *i*.

*`DownloadClientProofs`.* `ClientInv` says how the open file relates to what the attempt counts, each part as long as the fault that would
break it has not passed unnoticed (`Placed`): a file appended to has the size counted unless a truncation
failed, one written from its start has nothing else in it unless a removal failed, and a body begins where the size counted
ends unless the server answered something else. It adds that, if nothing has passed unnoticed, a body ends with the last chunk of
what was served and that without an expected size nothing is resumed and so nothing spliced, and
what holds at each step of a call in which nothing fails: what an earlier call left is found bad by the first attempt at the
latest. `AlignedBytes`, `AcceptedFile` and `Heals` follow.

*`SyncServerProofs`.* `ServerInv` adds to `OneOperation` and `OwnTrackerShown` that an
operation in progress has passes left exactly where its next step uses one. `StreamInv` is the argument for
`NoStaleDone`: for a stream opened for the operation in progress and past its polls, the active tracker is
not terminal or is the operation's own; a tracker of an earlier operation cannot become terminal any more,
because only the operation that runs writes, and to its own.

*`SyncEngineProofs`.* `EngineInv` says what each listing, cache and plan is of (`UpstreamInv`,
`BasisInv`: only a fast check goes by a listing that is not the current one), that the plan says of each
file what its listing says, what the processed results have left (counted, recorded, or a row, unless a write
failed), and the same of a retry and the rows it started from. The four action properties, `SuccessMeansMirrored`,
`NothingForgotten`, `RetryResolves` and `GoodFileKept`, are read off it, action by action. `TallyAddsUp` is
not inductive without a bound for the loops that do not start from a plan (`TallyInv`).

*`AirgapImportProofs`.* `ImportInv` says, by the place of each import, what its loops have been through:
`AllOrNothing` and `TransferSettled`. `ExtractionInv` adds what an import that runs alone finds of what it
wrote: `CompletedIsExtracted`.

*`AirgapExportProofs`.* `ExportInv` is how far an export has come and that the medium never runs out
of archive numbers, by counting: a provider is asked once per mention, and every archive
holds at least one file. `PackageInv` says that an archive nobody else wrote into holds what
its export lists of it, and that the closed archives list the collected files up to the open one;
`ValidatedIsWhole` is then a fact about the concatenation of lists of equal length.
`SplitInv` carries what is known of the sizes of the open archive (`SplitRespected`); `CompleteInv` follows a file
that nothing disturbs from its row to the list, the open archive and the closed ones
(`ExportIsComplete`).

*`ConfigReloadProofs`.* `LockInv` is the argument of a readers-writer lock: at most one request is
between its announcement and the release, no sync holds its provider while a writer is inside, and
a process that is down has no syncs (`SyncKeepsProvider`). `LoadInv` adds that whoever has changed the
table has still to list it, that a list which is neither applied nor failed is held by a request under its own
number, that registry and flags are those of the list applied last, except where a reload is in the middle of
changing them (`OneTable`), and that this list is the table if it is the last one made and nobody has still to list
(`LoadedFollowsTable`); counting lists and rows per request bounds them for `TypeOK`.

*`ImageMirrorProofs`.* `Closure` is shown to be closed, to contain no more than what every closed set
contains, and to be complete after as many steps as there are manifests (by counting).
`MirrorInv` says that what was planned of an image is there, whole if it can be compared, or to come until a download fails
(`CleanSyncIsWhole`; if all manifests parse, the closure that was planned is the whole one), and that all
in a directory belongs to manifests its reference has named. `PushInv` says that the manifests of an image
that was settled when the push looked are closures of such manifests, whole; since a manifest is never below
itself, the choice of the root finds the one that no other names (`PushedIsTheImage`).

*Assumptions.* Those stated with the constants: workers are a finite set that is not empty; sizes,
attempts, calls, jobs and bounds are natural numbers, those that cannot be zero in the code not zero;
`None` is not an operation; the parts of a provider are disjoint finite sets of files; requests are
finitely many, and what they ask for are among the kinds of settings; an image list is not empty, manifests are finitely many and none is below itself (they
name each other by digest), any of them may not parse and any digest may be no sha256; exports know a scan root for every requested provider, files and layouts are
finitely many, and every version of a file has a size. TLC evaluates all of them on the instances of the runs.

*Induction.* The library's induction theorems take a predicate as a parameter, which the installed
provers cannot instantiate. Where a proof is by induction on a number (sums, concatenations, sorts, closures,
recursive functions), `SetInduction` is used, with the set of numbers of which the statement holds in
place of the predicate; it is proved in each module from the well-foundedness of the order on
the natural numbers.

*Only model-checked.* The liveness properties `ExecuteTerminates`, `StreamsEnd`, `CancelFrees`, `CancelReturns` and
`ReloadHappens`, which need fairness and so `ENABLED`, which the prover does not handle; and the four
statements of the findings, which TLC refutes.

## Not modelled

- the counters, rates and event list inside a tracker; page rendering; logging;
- XML, JSON, tar and zstd formats, path cleaning, HTTP details other than status, range and
  conditional requests; parsing of image references, media types, tokens and tag patterns;
- two calls of `Download` on one destination at a time, which the OCP download handler and
  a command line beside a server can make: what each call does to a file it believes its own is `DownloadClient`,
  and nothing in the code says what should hold of both together;
- mirror discovery and the speed test: network reads behind a cache with a time to live, on which no other
  part's state depends;
- repositories of one provider whose output directories contain one another: the clean-up walks the whole
  output directory of a repository and would delete what another has below it (`SyncEngine` takes its parts to be disjoint);
- inside `AirgapExport`: the steps of a scan, and the writing of one file into an archive, which are one step each;
- schema and migrations of the store, web pages, YAML: sequential, or text;
- inside `SyncEngine`: an upstream that changes in the middle of an operation, files that stay available
  after the upstream has unlisted them, and rows of two repositories that share a relative path.

## Plan

- Lemmas on which several modules rest are stated in each (`SetInduction`, those about appending to and
  concatenating sequences); they could be shared.
- The contracts between modules, now stated in words (`SyncEngine` on `OneOperation`, `BatchDownload` and
  `DownloadClient`; `AirgapImport` on `ValidatedIsWhole`), as abstract specifications that the detailed
  modules are proved to implement: a download that puts the file asked for in place or reports a
  failure, for `DownloadClient`; a lock that is held by one operation at a time, for `SyncServer`.
- The safety half of the liveness properties: the invariants from which progress follows under the stated
  fairness (that an operation whose context is done always has a step left, that a stream
  which has stopped is one to be woken or to time out).

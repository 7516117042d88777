---------------------------- MODULE AirgapExport ----------------------------
(***************************************************************************)
(* SyncManager.Export (internal/engine/export.go): the files recorded for  *)
(* the requested providers are collected, packed into archives of bounded  *)
(* size in one output directory, and a manifest is written.  Nothing keeps *)
(* exports, syncs and scans apart, so the files and rows change beneath an *)
(* export, and two exports may write the same directory.                   *)
(*                                                                         *)
(* Paths are sequences of names below the data directory.  A file is at    *)
(* its provider's output directory; a sync records it under its path in    *)
(* that directory, a scan under its path from the data directory, and an   *)
(* export looks for it under the provider's name and the recorded path.    *)
(***************************************************************************)
EXTENDS Naturals, FiniteSets, FiniteSetsExt, Sequences, SequencesExt

CONSTANTS
    Exports,      \* calls of Export on the one output directory, each made at most once
    Requested,    \* the providers they ask for, in this order, one perhaps twice
    Files,        \* the content upstream has
    Owner,        \* Owner[f]: the provider of file f
    Layouts,      \* the configured output directories a system may have: file -> path
    ScanRoot,     \* ScanRoot[p]: where a scan of provider p starts to walk
    Size,         \* Size[f][v]: size of version v of file f; its length bounds the versions
    SplitSize,    \* SplitSize of the options
    MaxChanges    \* bound: steps of syncs, scans, upstream and crashes

ASSUME ProvidersAssumption ==
    /\ Requested \in Seq(ToSet(Requested))
    /\ Owner \in [Files -> ToSet(Requested)]
    /\ ToSet(Requested) \subseteq DOMAIN ScanRoot
ASSUME FilesAssumption ==
    /\ IsFiniteSet(Files) /\ IsFiniteSet(Layouts)
    /\ \A layout \in Layouts :
          DOMAIN layout = Files /\ \A f \in Files : layout[f] \in Seq(ToSet(layout[f]))
ASSUME MaxChangesAssumption == MaxChanges \in Nat
ASSUME SizeAssumption ==
    SplitSize \in Nat \ {0} /\ DOMAIN Size = Files /\ \A f \in Files : Size[f] \in Seq(Nat)

VARIABLES
    outputDir,    \* outputDir[f]: the path of the directory a sync puts file f in
    upstream,     \* upstream[f]: the version upstream has
    content,      \* content[f]: the version of the file on disk, 0 if there is none
    partial,      \* files of which only a part is on disk
    sync,         \* sync[f]: what the sync is doing with it
    rows,         \* file_records: rows[k]: the version recorded, 0 if there is no row
    pc,           \* pc[e]: where export e is
    collected,    \* collected[e]: allFiles, as [key, version]
    asked,        \* asked[e]: providers already collected
    first,        \* first[e]: position in allFiles of the first file of the open archive
    next,         \* next[e]: position in allFiles of the file to pack
    closed,       \* closed[e]: archives, as [files, hash]
    dir,          \* dir[k]: archive k of the output directory
    manifest,     \* the manifest in the output directory
    changes,      \* steps so far that are not the exports'
    disturbed,    \* disturbed[e]: files changed since e began (history)
    unlisted,     \* unlisted[e]: providers whose rows e could not list (history)
    unrecorded    \* files put in place whose row was not written (history)

fileVars == <<outputDir, upstream, content, partial, sync, rows, changes>>
localVars == <<collected, asked, first, next, closed>>
mediumVars == <<dir, manifest>>
historyVars == <<disturbed, unlisted, unrecorded>>
vars == <<fileVars, localVars, mediumVars, historyVars, pc>>

Providers == ToSet(Requested)
Place(f) == outputDir[f] \o <<f>>

\* SyncProvider refuses a directory outside that of the provider's name.
UnderRoot(f) == IsPrefix(<<Owner[f]>>, outputDir[f])

\* A row is keyed by its provider and its path.
SyncKey(f) == <<Owner[f], <<f>>>>
ScanKey(p, f) == <<p, Place(f)>>
Scanned(p) == {f \in Files : IsPrefix(ScanRoot[p], Place(f))}
Keys == {SyncKey(f) : f \in Files}
          \cup {<<p, layout[f] \o <<f>>>> : p \in Providers, f \in Files, layout \in Layouts}

\* The file a row is about, and the one the export finds for it, if any.
FileOf(k) == k[2][Len(k[2])]
Found(k) == {f \in Files : content[f] # 0 /\ Place(f) = <<k[1]>> \o k[2]}

Versions(f) == 1..Len(Size[f])
MaxVersions == Max({Len(Size[f]) : f \in Files})
Entries == UNION {[key : {k}, version : Versions(FileOf(k))] : k \in Keys}
EntrySize(x) == Size[FileOf(x.key)][x.version]
TotalSize(s) ==
    LET total[n \in 0..Len(s)] == IF n = 0 THEN 0 ELSE total[n - 1] + EntrySize(s[n])
    IN total[Len(s)]

\* What an archive file holds: who created it, the files packed, and whether
\* another export has written into it.
Packed == [key : Keys, version : Nat, whole : BOOLEAN]
ArchiveFiles == [by : Exports \cup {"none"}, files : Seq(Packed), mixed : BOOLEAN]
ClosedArchives == [files : Seq(Entries), hash : ArchiveFiles]
NoArchive == [by |-> "none", files |-> <<>>, mixed |-> FALSE]
NoManifest == [archives |-> <<>>, inventory |-> <<>>]
Numbers == 1..(Len(Requested) * Cardinality(Keys))

Running == {"collect", "open", "pack", "close", "manifest", "record"}

TypeOK ==
    /\ outputDir \in Layouts
    /\ upstream \in [Files -> Nat] /\ content \in [Files -> Nat] /\ rows \in [Keys -> Nat]
    /\ \A f \in Files : upstream[f] \in Versions(f) /\ content[f] \in {0} \cup Versions(f)
    /\ \A k \in Keys : rows[k] \in {0} \cup Versions(FileOf(k))
    /\ partial \subseteq {f \in Files : content[f] # 0}
    /\ sync \in [Files -> {"idle", "writing", "written"}]
    /\ changes \in 0..MaxChanges
    /\ pc \in [Exports -> Running \cup {"new", "failed", "completed"}]
    /\ collected \in [Exports -> Seq(Entries)] /\ closed \in [Exports -> Seq(ClosedArchives)]
    /\ asked \in [Exports -> 0..Len(Requested)]
    /\ first \in [Exports -> Nat] /\ next \in [Exports -> Nat]
    /\ \A e \in Exports :
          /\ first[e] \in 1..next[e] /\ next[e] \in 1..Len(collected[e]) + 1
          /\ Len(collected[e]) \in {0} \cup Numbers
    /\ dir \in [Numbers -> ArchiveFiles]
    /\ manifest \in [archives : Seq(ClosedArchives), inventory : Seq(Entries)]
    /\ disturbed \in [Exports -> SUBSET Files]
    /\ unlisted \in [Exports -> SUBSET Providers]
    /\ unrecorded \subseteq Files

Init ==
    /\ outputDir \in Layouts
    /\ upstream \in {u \in [Files -> 1..MaxVersions] : \A f \in Files : u[f] \in Versions(f)}
    /\ \E synced \in SUBSET {f \in Files : UnderRoot(f)} :
          /\ content = [f \in Files |-> IF f \in synced THEN upstream[f] ELSE 0]
          /\ rows = [k \in Keys |-> IF \E f \in synced : k = SyncKey(f)
                                    THEN upstream[FileOf(k)] ELSE 0]
    /\ partial = {} /\ sync = [f \in Files |-> "idle"] /\ changes = 0
    /\ pc = [e \in Exports |-> "new"]
    /\ collected = [e \in Exports |-> <<>>] /\ asked = [e \in Exports |-> 0]
    /\ first = [e \in Exports |-> 1] /\ next = [e \in Exports |-> 1]
    /\ closed = [e \in Exports |-> <<>>]
    /\ dir = [k \in Numbers |-> NoArchive] /\ manifest = NoManifest
    /\ disturbed = [e \in Exports |-> {}] /\ unlisted = [e \in Exports |-> {}]
    /\ unrecorded = {}

-----------------------------------------------------------------------------
(* Syncs and scans, as far as an export sees them *)

Change == changes < MaxChanges /\ changes' = changes + 1

Disturb(fs) ==
    disturbed' = [e \in Exports |-> IF pc[e] \in Running THEN disturbed[e] \cup fs ELSE disturbed[e]]

Untouched == <<outputDir, localVars, mediumVars, pc, unlisted>>

UpstreamMoves(f) ==
    /\ Change
    /\ \E v \in Versions(f) : v > upstream[f] /\ upstream' = [upstream EXCEPT ![f] = v]
    /\ UNCHANGED <<content, partial, sync, rows, disturbed, unrecorded, Untouched>>

\* The plan skips a file whose checksum on disk is upstream's, recorded or
\* not.
Download(f) ==
    /\ Change /\ sync[f] = "idle"
    /\ content[f] # upstream[f] \/ f \in partial
    /\ UnderRoot(f)
    /\ sync' = [sync EXCEPT ![f] = "writing"]
    /\ content' = [content EXCEPT ![f] = upstream[f]]
    /\ partial' = partial \cup {f}
    /\ Disturb({f})
    /\ UNCHANGED <<upstream, rows, unrecorded, Untouched>>

\* Mutant: a file that is taken away again still counts as there in part.
EndDownloadKeepsPart(f) ==
    /\ Change /\ sync[f] = "writing"
    /\ content' = [content EXCEPT ![f] = 0] /\ sync' = [sync EXCEPT ![f] = "idle"]
    /\ Disturb({f})
    /\ UNCHANGED <<upstream, partial, rows, unrecorded, Untouched>>

EndDownload(f) ==
    /\ Change /\ sync[f] = "writing"
    /\ \/ partial' = partial \ {f} /\ sync' = [sync EXCEPT ![f] = "written"] /\ UNCHANGED content
       \/ sync' = [sync EXCEPT ![f] = "idle"] /\ UNCHANGED <<content, partial>>
       \/ /\ content' = [content EXCEPT ![f] = 0] /\ partial' = partial \ {f}
          /\ sync' = [sync EXCEPT ![f] = "idle"]
    /\ Disturb({f})
    /\ UNCHANGED <<upstream, rows, unrecorded, Untouched>>

\* A row that cannot be written is only logged.
Record(f) ==
    /\ Change /\ sync[f] = "written"
    /\ sync' = [sync EXCEPT ![f] = "idle"]
    /\ \/ rows' = [rows EXCEPT ![SyncKey(f)] = content[f]] /\ unrecorded' = unrecorded \ {f}
       \/ unrecorded' = unrecorded \cup {f} /\ UNCHANGED rows
    /\ Disturb({f})
    /\ UNCHANGED <<upstream, content, partial, Untouched>>

\* ScanLocal records what it meets below its root under the provider scanned,
\* with the path from the data directory (the row of a part of a file differs
\* from that of the whole, but nothing here reads it).
Scan(p) ==
    /\ Change
    /\ LET met == {f \in Scanned(p) : content[f] # 0}
       IN /\ \E f \in met : rows[ScanKey(p, f)] # content[f]
          /\ rows' = [k \in Keys |-> IF \E f \in met : k = ScanKey(p, f)
                                     THEN content[FileOf(k)] ELSE rows[k]]
          /\ Disturb(met)
    /\ UNCHANGED <<upstream, content, partial, sync, unrecorded, Untouched>>

\* What an export that ends has held no longer matters.
Forget(es) ==
    /\ collected' = [e \in Exports |-> IF e \in es THEN <<>> ELSE collected[e]]
    /\ asked' = [e \in Exports |-> IF e \in es THEN 0 ELSE asked[e]]
    /\ first' = [e \in Exports |-> IF e \in es THEN 1 ELSE first[e]]
    /\ next' = [e \in Exports |-> IF e \in es THEN 1 ELSE next[e]]
    /\ closed' = [e \in Exports |-> IF e \in es THEN <<>> ELSE closed[e]]
    /\ disturbed' = [e \in Exports |-> IF e \in es THEN {} ELSE disturbed[e]]
    /\ unlisted' = [e \in Exports |-> IF e \in es THEN {} ELSE unlisted[e]]

\* The process dies: downloads end where they are, exports are gone, and what
\* has been put in place is not recorded any more.
Crash ==
    /\ Change
    /\ sync' = [f \in Files |-> "idle"]
    /\ unrecorded' = unrecorded \cup {f \in Files : sync[f] = "written"}
    /\ pc' = [e \in Exports |-> IF pc[e] \in Running THEN "failed" ELSE pc[e]]
    /\ Forget(Exports)
    /\ UNCHANGED <<outputDir, upstream, content, partial, rows, mediumVars>>

-----------------------------------------------------------------------------
(* The export *)

Step(e, from, to) == pc[e] = from /\ pc' = [pc EXCEPT ![e] = to]

\* Mutant: a provider's files take the place of those collected before.
CollectLast(e) ==
    LET p == Requested[asked[e] + 1]
        there == {k \in Keys : k[1] = p /\ rows[k] # 0 /\ Found(k) # {}}
        entries == {[key |-> k, version |-> rows[k]] : k \in there}
    IN
    /\ pc[e] \in {"new", "collect"} /\ asked[e] < Len(Requested)
    /\ pc' = [pc EXCEPT ![e] = "collect"]
    /\ asked' = [asked EXCEPT ![e] = @ + 1]
    /\ \/ collected' = [collected EXCEPT ![e] = SetToSeq(entries)] /\ UNCHANGED unlisted
       \/ unlisted' = [unlisted EXCEPT ![e] = @ \cup {p}] /\ UNCHANGED collected
    /\ UNCHANGED <<fileVars, first, next, closed, mediumVars, disturbed, unrecorded>>

\* One provider: its rows, less those whose file is not where the export
\* looks.  If they cannot be listed the provider is left out.
Collect(e) ==
    LET p == Requested[asked[e] + 1]
        there == {k \in Keys : k[1] = p /\ rows[k] # 0 /\ Found(k) # {}}
        entries == {[key |-> k, version |-> rows[k]] : k \in there}
    IN
    /\ pc[e] \in {"new", "collect"} /\ asked[e] < Len(Requested)
    /\ pc' = [pc EXCEPT ![e] = "collect"]
    /\ asked' = [asked EXCEPT ![e] = @ + 1]
    /\ \/ collected' = [collected EXCEPT ![e] = @ \o SetToSeq(entries)] /\ UNCHANGED unlisted
       \/ unlisted' = [unlisted EXCEPT ![e] = @ \cup {p}] /\ UNCHANGED collected
    /\ UNCHANGED <<fileVars, first, next, closed, mediumVars, disturbed, unrecorded>>

Collected(e) ==
    /\ asked[e] = Len(Requested)
    /\ IF collected[e] = <<>>
       THEN Step(e, "collect", "failed") /\ Forget({e})
       ELSE Step(e, "collect", "open") /\ UNCHANGED <<localVars, disturbed, unlisted>>
    /\ UNCHANGED <<fileVars, mediumVars, unrecorded>>

Current(e) == Len(closed[e]) + 1
InUse(n) == \E e \in Exports : pc[e] \in {"pack", "close"} /\ Current(e) = n

\* Mutant: the file that did not fit is passed over when the archive is rolled.
OpenSkips(e) ==
    /\ Step(e, "open", "pack")
    /\ dir' = [dir EXCEPT ![Current(e)] = [by |-> e, files |-> <<>>, mixed |-> InUse(Current(e))]]
    /\ next' = [next EXCEPT ![e] = IF closed[e] = <<>> THEN @ ELSE @ + 1]
    /\ first' = [first EXCEPT ![e] = next'[e]]
    /\ UNCHANGED <<fileVars, collected, asked, closed, manifest, historyVars>>

\* The archive file is created, or truncated if there is one of that number.
Open(e) ==
    /\ Step(e, "open", "pack")
    /\ dir' = [dir EXCEPT ![Current(e)] = [by |-> e, files |-> <<>>, mixed |-> InUse(Current(e))]]
    /\ first' = [first EXCEPT ![e] = next[e]]
    /\ UNCHANGED <<fileVars, collected, asked, next, closed, manifest, historyVars>>

InArchive(e) == SubSeq(collected[e], first[e], next[e] - 1)
CurrentSize(e) == TotalSize(InArchive(e))

\* Mutant: the size of the file to come is not counted.
FullTooLate(e) ==
    /\ next[e] <= Len(collected[e])
    /\ CurrentSize(e) > SplitSize

\* The archive is rolled before a file that would exceed the split size,
\* unless it holds nothing (or nothing but empty files).
Full(e) ==
    /\ next[e] <= Len(collected[e])
    /\ CurrentSize(e) > 0
    /\ CurrentSize(e) + EntrySize(collected[e][next[e]]) > SplitSize

\* Writing into an archive file that another export has created since.
Written(archive, e, files) ==
    [archive EXCEPT !.files = @ \o files, !.mixed = @ \/ archive.by # e]

\* addFileToTar packs what is on disk now; no check against the row.
Pack(e) ==
    /\ pc[e] = "pack" /\ next[e] <= Len(collected[e]) /\ ~Full(e)
    /\ LET k == collected[e][next[e]].key
       IN \E f \in Found(k) :
             dir' = [dir EXCEPT ![Current(e)] = Written(@, e, <<[key |-> k, version |-> content[f],
                                                        whole |-> f \notin partial]>>)]
    /\ next' = [next EXCEPT ![e] = @ + 1]
    /\ UNCHANGED <<fileVars, collected, asked, first, closed, manifest, historyVars, pc>>

\* The archive is flushed and closed, then hashed.
EndArchive(e) ==
    /\ pc[e] = "pack"
    /\ next[e] > Len(collected[e]) \/ Full(e)
    /\ dir' = [dir EXCEPT ![Current(e)] = Written(@, e, <<>>)]
    /\ pc' = [pc EXCEPT ![e] = "close"]
    /\ UNCHANGED <<fileVars, localVars, manifest, historyVars>>

HashArchive(e) ==
    /\ Step(e, "close", IF next[e] <= Len(collected[e]) THEN "open" ELSE "manifest")
    /\ closed' = [closed EXCEPT ![e] =
                    Append(@, [files |-> InArchive(e), hash |-> dir[Current(e)]])]
    /\ UNCHANGED <<fileVars, collected, asked, first, next, mediumVars, historyVars>>

\* The inventory has the sizes and checksums of the rows.
WriteManifest(e) ==
    /\ Step(e, "manifest", "record")
    /\ manifest' = [archives |-> closed[e], inventory |-> collected[e]]
    /\ UNCHANGED <<fileVars, localVars, dir, historyVars>>

\* The row in transfers, which only the history page reads, is left out; if
\* it cannot be written that is only logged.
RecordTransfer(e) ==
    /\ Step(e, "record", "completed")
    /\ Forget({e})
    /\ UNCHANGED <<fileVars, mediumVars, unrecorded>>

\* The timeout of the request, a file that cannot be read, or an archive, the
\* manifest or the files written beside it that cannot be written: what is in
\* the output directory stays, also a manifest.
Abort(e) ==
    /\ pc[e] \in Running
    /\ pc' = [pc EXCEPT ![e] = "failed"]
    /\ Forget({e})
    /\ UNCHANGED <<fileVars, mediumVars, unrecorded>>

ExportStep(e) ==
    \/ Collect(e) \/ Collected(e) \/ Open(e) \/ Pack(e) \/ EndArchive(e)
    \/ HashArchive(e) \/ WriteManifest(e) \/ RecordTransfer(e) \/ Abort(e)
FileStep(f) ==
    \/ UpstreamMoves(f) \/ Download(f) \/ EndDownload(f) \/ Record(f)

AllEnded == (\A e \in Exports : pc[e] \in {"failed", "completed"}) /\ UNCHANGED vars

Next ==
    \/ \E e \in Exports : ExportStep(e)
    \/ \E f \in Files : FileStep(f)
    \/ \E p \in Providers : Scan(p)
    \/ Crash
    \/ AllEnded

Spec == Init /\ [][Next]_vars

-----------------------------------------------------------------------------
(* Properties *)

Validates == \A i \in DOMAIN manifest.archives : manifest.archives[i].hash = dir[i]

\* A directory whose archives all have the checksums of its manifest, which is
\* what an import looks at, is one whole package: its archives hold the files
\* of the inventory, each once and in order, as the manifest lists them, even
\* after exports that were cut off or wrote the same directory.  The one thing
\* the checksums cannot show is two exports writing into one archive file.
ValidatedIsWhole ==
    LET archives == manifest.archives
        packed == FlattenSeq([i \in DOMAIN archives |-> dir[i].files])
        listed == FlattenSeq([i \in DOMAIN archives |-> archives[i].files])
    IN (Validates /\ \A i \in DOMAIN archives : ~dir[i].mixed) =>
          /\ listed = manifest.inventory
          /\ [i \in DOMAIN packed |-> packed[i].key] = [i \in DOMAIN listed |-> listed[i].key]

\* Going by the sizes of the rows, an archive exceeds the split size only for
\* one file that does so alone, and the first file of an archive did not fit
\* into the one before.
SplitRespected ==
    \A e \in Exports : \A i \in DOMAIN closed[e] :
        LET files == closed[e][i].files
            sized == {j \in DOMAIN files : EntrySize(files[j]) > 0}
        IN /\ files # <<>>
           /\ TotalSize(files) > SplitSize => Cardinality(sized) = 1
           /\ i > 1 => TotalSize(closed[e][i - 1].files) + EntrySize(files[1]) > SplitSize

\* A completed export has every file that a sync put into the directory of the
\* provider's name before it began and nothing has touched since, with the
\* version its row states.  Left out are files whose row was lost (their
\* download is skipped from then on), and the files of an output directory
\* below the provider's name: no export finds those.
ExportIsComplete ==
    \A e \in Exports : pc[e] = "record" =>
        \A f \in Files :
            LET entry == [key |-> SyncKey(f), version |-> content[f]]
            IN ( /\ content[f] # 0 /\ f \notin partial /\ sync[f] = "idle"
                 /\ f \notin disturbed[e] \cup unrecorded
                 /\ Owner[f] \notin unlisted[e] /\ outputDir[f] = <<Owner[f]>> )
               => /\ entry \in ToSet(collected[e])
                  /\ \E i \in DOMAIN closed[e] :
                        [key |-> SyncKey(f), version |-> content[f], whole |-> TRUE]
                           \in ToSet(closed[e][i].hash.files)
                        \/ closed[e][i].hash.mixed
=============================================================================

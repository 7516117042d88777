---------------------------- MODULE ImageMirror ----------------------------
(***************************************************************************)
(* Mirroring container images and pushing them to a registry.  The image   *)
(* providers (internal/provider/containerimages and registry) plan the     *)
(* manifests and blobs below each image's root manifest, the engine        *)
(* downloads them into a directory of the image, and PushContainerImages   *)
(* (internal/engine/registry_push.go) rebuilds each image from what it     *)
(* finds in that directory: nothing there says which manifest is the root. *)
(*                                                                         *)
(* The server runs one operation at a time; a push from the command        *)
(* line is another process and runs beside it.                             *)
(***************************************************************************)
EXTENDS Naturals, FiniteSets, Sequences, SequencesExt

CONSTANTS
    Images,       \* the references, in the order of the configuration
    Pinned,       \* those of them that name a digest
    Roots,        \* Roots[i]: the manifests reference i may name upstream
    Manifests,    \* digests of manifests
    Blobs,        \* digests of blobs
    Children,     \* Children[m]: the manifests m refers to
    Refs,         \* Refs[m]: the blobs m refers to
    Indexes,      \* manifests whose media type is that of an index or a list
    Unparsed,     \* manifests in which the plan sees no reference: it cannot parse them,
                  \* or they come under a media type that is not theirs
    Unchecked,    \* digests that are no sha256, which nothing computes
    Unlisted,     \* stands for no manifest
    Workers,      \* downloads at a time
    MaxFaults,    \* bound: moved tags, failed downloads and syncs that are cut off
    MaxSyncs,     \* bound: syncs, validations and retries of failed files
    MaxPushes     \* bound: pushes

Refers == ToSet(Images)
Position(i) == CHOOSE n \in DOMAIN Images : Images[n] = i
Digests == Manifests \cup Blobs

\* An image list is not empty: the push refuses an empty one.
ASSUME ImagesAssumption ==
    /\ Images \in Seq(Refers) /\ Images # <<>>
    /\ Pinned \subseteq Refers /\ Roots \in [Refers -> SUBSET Manifests]
    /\ \A i \in Refers : Roots[i] # {}
    /\ \A i \in Pinned : Cardinality(Roots[i]) = 1
ASSUME ContentAssumption ==
    /\ Children \in [Manifests -> SUBSET Manifests] /\ Refs \in [Manifests -> SUBSET Blobs]
    /\ Indexes \subseteq Manifests /\ Unparsed \subseteq Manifests /\ Unchecked \subseteq Digests
    /\ Manifests \cap Blobs = {}
    /\ Unlisted \notin Manifests /\ IsFiniteSet(Manifests)
ASSUME BoundsAssumption ==
    Workers \in Nat \ {0} /\ MaxFaults \in Nat /\ MaxSyncs \in Nat /\ MaxPushes \in Nat

VARIABLES
    kind,         \* the provider's type: references are configured, or tags are listed
    current,      \* current[i]: the manifest i names upstream
    faults, syncs, pushes,
    whole,        \* whole[i]: the files of i's directory that have the digest of their name
    part,         \* part[i]: those of which a part is there
    sync,         \* what the server does: idle, plan, download, retry, done
    todo,         \* images still to plan
    root,         \* root[i]: the manifest this sync planned i from
    pending,      \* files still to download, as <<image, digest>>
    writing,      \* files being downloaded
    lost,         \* whether a download of this sync failed
    failed,       \* unresolved rows of failed_files, with the URL of a plan
    nameless,     \* those that a validation made, without a URL
    push,         \* what the push does: idle, next, read, load, layout, copy
    at,           \* position in Images of the image being pushed
    names,        \* manifest files the push found
    good,         \* those it read as a manifest
    toRead,       \* those still to read
    chosen,       \* the root it chose
    broken,       \* blobs that were not whole when put into the layout
    target,       \* target[i]: the manifest the reference names in the target registry
    had,          \* had[i]: what i has named upstream (history)
    wanted,       \* wanted[i]: files any sync planned for i (history)
    settled       \* at the glob, nothing planned for the image was outstanding (history)

upstreamVars == <<kind, current, faults, had>>
diskVars == <<whole, part>>
rowVars == <<failed, nameless>>
syncVars == <<syncs, sync, todo, root, pending, writing, lost, rowVars, wanted>>
bundleVars == <<names, good, toRead, chosen, broken, settled>>
pushVars == <<pushes, push, at, bundleVars, target>>
vars == <<upstreamVars, diskVars, syncVars, pushVars>>

\* What a manifest leads to over the given references.
Steps(m, kids) ==
    LET step[n \in 0..Cardinality(Manifests)] ==
            IF n = 0 THEN {m} ELSE step[n - 1] \cup UNION {kids[x] : x \in step[n - 1]}
    IN step
Closure(m, kids) == Steps(m, kids)[Cardinality(Manifests)]

\* A manifest names those below it by their digests, so that none is below itself.
ASSUME AcyclicAssumption ==
    \A m \in Manifests : \A x \in Closure(m, Children) : m \notin Children[x]

\* The image that the push is at.
Image == IF at = 0 THEN Unlisted ELSE Images[at]

WithBlobs(ms, refs) == ms \cup UNION {refs[x] : x \in ms}
FilesOf(m) == WithBlobs(Closure(m, Children), Refs)

\* What the plan sees of an image: a manifest that does not parse is planned by
\* itself, and the sync goes on without what it refers to.
Seen(refs) == [m \in Manifests |-> IF m \in Unparsed THEN {} ELSE refs[m]]
PlannedOf(m) == WithBlobs(Closure(m, Seen(Children)), Seen(Refs))

Files == {<<i, d>> : i \in Refers, d \in Digests}
OnDisk(i) == whole[i] \cup part[i]

TypeOK ==
    /\ kind \in {"container_images", "registry"}
    /\ current \in [Refers -> Manifests \cup {Unlisted}] /\ had \in [Refers -> SUBSET Manifests]
    /\ \A i \in Refers : current[i] \in Roots[i] \cup {Unlisted} /\ had[i] \subseteq Roots[i]
    /\ whole \in [Refers -> SUBSET Digests] /\ part \in [Refers -> SUBSET Digests]
    /\ \A i \in Refers : part[i] \cap whole[i] = {}
    /\ faults \in 0..MaxFaults /\ syncs \in 0..MaxSyncs /\ pushes \in 0..MaxPushes
    /\ sync \in {"idle", "plan", "download", "retry", "done"}
    /\ todo \subseteq Refers /\ lost \in BOOLEAN
    /\ root \in [Refers -> Manifests \cup {Unlisted}]
    /\ pending \subseteq Files /\ writing \subseteq Files \ pending /\ failed \subseteq Files /\ nameless \subseteq Files
    /\ Cardinality(writing) <= Workers
    /\ \A f \in writing : f[2] \in part[f[1]]
    /\ push \in {"idle", "next", "read", "load", "layout", "copy"}
    /\ at \in 0..Len(Images) /\ settled \in BOOLEAN
    /\ toRead \subseteq names /\ good \subseteq names /\ names \subseteq Manifests
    /\ chosen \in Manifests \cup {Unlisted} /\ broken \subseteq Blobs
    /\ target \in [Refers -> Manifests \cup {Unlisted}]
    /\ wanted \in [Refers -> SUBSET Digests]

Init ==
    /\ kind \in {"container_images", "registry"}
    /\ current \in {c \in [Refers -> Manifests] : \A i \in Refers : c[i] \in Roots[i]}
    /\ had = [i \in Refers |-> {current[i]}]
    /\ faults = 0 /\ syncs = 0 /\ pushes = 0
    /\ whole = [i \in Refers |-> {}] /\ part = [i \in Refers |-> {}]
    /\ sync = "idle" /\ todo = {} /\ root = [i \in Refers |-> Unlisted]
    /\ pending = {} /\ writing = {} /\ lost = FALSE /\ failed = {} /\ nameless = {}
    /\ wanted = [i \in Refers |-> {}]
    /\ push = "idle" /\ at = 0
    /\ names = {} /\ good = {} /\ toRead = {} /\ chosen = Unlisted /\ broken = {}
    /\ settled = FALSE
    /\ target = [i \in Refers |-> Unlisted]

-----------------------------------------------------------------------------
(* Upstream and the sync *)

Fault == faults < MaxFaults /\ faults' = faults + 1

\* A tag is moved, or removed.
TagMoves(i) ==
    /\ Fault
    /\ i \notin Pinned
    /\ \E m \in (Roots[i] \cup {Unlisted}) \ {current[i]} :
          /\ current' = [current EXCEPT ![i] = m]
          /\ had' = [had EXCEPT ![i] = @ \cup ({m} \ {Unlisted})]
    /\ UNCHANGED <<kind, diskVars, syncVars, pushVars>>

\* The tags that a registry lists.
Listable == {i \in Refers \ Pinned : current[i] # Unlisted}

\* The registry provider lists tags and leaves out a repository it cannot
\* list; the other has its references from the configuration.
Listed == IF kind = "registry" THEN SUBSET Listable ELSE {Refers}

StartSync ==
    /\ sync \in {"idle", "done"} /\ syncs < MaxSyncs /\ syncs' = syncs + 1
    /\ todo' \in Listed
    /\ sync' = "plan"
    /\ root' = [i \in Refers |-> Unlisted] /\ pending' = {} /\ lost' = FALSE
    /\ UNCHANGED <<upstreamVars, diskVars, writing, rowVars, wanted, pushVars>>

\* Mutant: an artifact seen in one image is not planned for another.
NeededOnce(i, m) == {d \in PlannedOf(m) : d \notin whole[i] /\ \A f \in pending : f[2] # d}

\* A file whose checksum is right is skipped.
Needed(i, m) == PlannedOf(m) \ whole[i]

\* Without a checksum a file may be skipped though it is not whole: by its size,
\* or because it is there if the reference to it gives no size.
Passed(i) == SUBSET (part[i] \cap Unchecked)

\* The manifest the reference names is fetched, then those below it by their
\* digests; if one cannot be fetched, the image is left out and the sync goes
\* on without it.
PlanImage(i) ==
    /\ sync = "plan" /\ i \in todo /\ \A j \in todo : Position(i) <= Position(j)
    /\ todo' = todo \ {i}
    /\ \/ /\ current[i] # Unlisted
          /\ root' = [root EXCEPT ![i] = current[i]]
          /\ \E passed \in Passed(i) :
                pending' = pending \cup {<<i, d>> : d \in Needed(i, current[i]) \ passed}
          /\ wanted' = [wanted EXCEPT ![i] = @ \cup PlannedOf(current[i])]
       \/ UNCHANGED <<root, pending, wanted>>
    /\ UNCHANGED <<upstreamVars, diskVars, syncs, sync, writing, lost, rowVars, pushVars>>

StartDownloads ==
    /\ sync = "plan" /\ todo = {}
    /\ sync' = "download"
    /\ UNCHANGED <<upstreamVars, diskVars, syncs, todo, root, pending, writing, lost, rowVars,
                   wanted, pushVars>>

\* A validation hashes every file that is named by a sha256.  A file that is
\* wrong gets a row without a URL, unless it has one.
Wrong == {f \in Files : f[2] \in part[f[1]] \ Unchecked}
Validate ==
    /\ sync \in {"idle", "done"} /\ syncs < MaxSyncs /\ syncs' = syncs + 1
    /\ Wrong # {}
    /\ sync' = "idle"
    /\ nameless' = nameless \cup (Wrong \ failed)
    /\ UNCHANGED <<upstreamVars, diskVars, todo, root, pending, writing, lost, failed, wanted,
                   pushVars>>

\* Every row that nobody has resolved is downloaded again, from the URL of the
\* row, whatever has become of the file since: a sync that puts a file in place
\* leaves its row.
Retry ==
    /\ sync \in {"idle", "done"} /\ syncs < MaxSyncs /\ syncs' = syncs + 1
    /\ failed \cup nameless # {}
    /\ sync' = "retry"
    /\ pending' = failed \cup nameless /\ root' = [i \in Refers |-> Unlisted] /\ lost' = FALSE
    /\ UNCHANGED <<upstreamVars, diskVars, todo, writing, rowVars, wanted, pushVars>>

\* A retry of a file that is whole removes it first.
Download(f) ==
    /\ sync \in {"download", "retry"} /\ f \in pending /\ Cardinality(writing) < Workers
    /\ pending' = pending \ {f} /\ writing' = writing \cup {f}
    /\ whole' = [whole EXCEPT ![f[1]] = @ \ {f[2]}]
    /\ part' = [part EXCEPT ![f[1]] = @ \cup {f[2]}]
    /\ settled' = (settled /\ f[1] # Image)
    /\ UNCHANGED <<upstreamVars, syncs, sync, todo, root, lost, rowVars, wanted, pushes, push, at,
                   names, good, toRead, chosen, broken, target>>

\* Mutant: a file that has been verified still counts as there in part.
EndDownloadKeepsPart(f) ==
    /\ f \in writing /\ writing' = writing \ {f}
    /\ whole' = [whole EXCEPT ![f[1]] = @ \cup {f[2]}]
    /\ UNCHANGED <<upstreamVars, part, rowVars, lost, syncs, sync, todo, root, pending, wanted,
                   pushVars>>

\* The file has the checksum of its digest, or there is none to compare with and
\* what has come is taken for the file; or the download has failed for good, with
\* or without what it has written.  A retry sends no Authorization header, so
\* that a registry that wants a token refuses them all, and without a URL there
\* is nothing to ask; a retry that succeeds resolves the row.
EndDownload(f) ==
    /\ f \in writing /\ writing' = writing \ {f}
    /\ \/ /\ sync = "retry" => f \in failed
          /\ \/ /\ whole' = [whole EXCEPT ![f[1]] = @ \cup {f[2]}]
                /\ part' = [part EXCEPT ![f[1]] = @ \ {f[2]}]
             \/ f[2] \in Unchecked /\ UNCHANGED diskVars
          /\ failed' = IF sync = "retry" THEN failed \ {f} ELSE failed
          /\ UNCHANGED <<faults, lost, nameless>>
       \/ /\ IF sync = "retry" /\ f \in nameless THEN UNCHANGED faults ELSE Fault
          /\ part' \in {part, [part EXCEPT ![f[1]] = @ \ {f[2]}]}
          /\ lost' = TRUE
          /\ IF sync = "retry" THEN UNCHANGED rowVars
             ELSE failed' = failed \cup {f} /\ nameless' = nameless \ {f}
          /\ UNCHANGED whole
    /\ UNCHANGED <<kind, current, had, syncs, sync, todo, root, pending, wanted, pushVars>>

EndSync ==
    /\ sync \in {"download", "retry"} /\ pending = {} /\ writing = {}
    /\ sync' = "done"
    /\ UNCHANGED <<upstreamVars, diskVars, syncs, todo, root, pending, writing, lost, rowVars,
                   wanted, pushVars>>

\* The process dies, or the operation is cancelled: downloads stop where they
\* are, and after a cancellation those of a sync have rows.  (So has a job that a
\* worker takes and gives up unstarted, as if it had failed.)
Stop ==
    /\ sync \in {"plan", "download", "retry"} /\ Fault
    /\ sync' = "idle" /\ todo' = {} /\ pending' = {} /\ writing' = {} /\ lost' = FALSE
    /\ root' = [i \in Refers |-> Unlisted]
    /\ \E given \in {{}, IF sync = "download" THEN writing ELSE {}} :
          /\ failed' = failed \cup given /\ nameless' = nameless \ given
    /\ UNCHANGED <<kind, current, had, diskVars, syncs, wanted, pushVars>>

-----------------------------------------------------------------------------
(* The push *)

\* Only images of a container_images provider can be pushed.
StartPush ==
    /\ push = "idle" /\ pushes < MaxPushes /\ pushes' = pushes + 1
    /\ kind = "container_images"
    /\ push' = "next" /\ at' = 1
    /\ UNCHANGED <<upstreamVars, diskVars, syncVars, bundleVars, target>>

\* What is held of an image is dropped, and the next one is taken.
Conclude ==
    /\ IF at = Len(Images) THEN push' = "idle" /\ at' = 0 ELSE push' = "next" /\ at' = at + 1
    /\ names' = {} /\ good' = {} /\ toRead' = {} /\ chosen' = Unlisted /\ broken' = {}
    /\ settled' = FALSE

GlobManifests ==
    /\ push = "next"
    /\ LET found == OnDisk(Image) \cap Manifests
       IN IF found = {}
          THEN Conclude
          ELSE /\ push' = "read" /\ names' = found /\ toRead' = found
               /\ settled' = (wanted[Image] \subseteq whole[Image])
               /\ UNCHANGED <<at, good, chosen, broken>>
    /\ UNCHANGED <<upstreamVars, diskVars, syncVars, pushes, target>>

\* A part of a manifest does not parse and counts as one without references.
\* The push looks at fewer fields than the plan and at no media type, and may
\* parse what the plan did not.
ReadManifest(m) ==
    /\ push = "read" /\ m \in toRead
    /\ IF m \in OnDisk(Image)
       THEN /\ toRead' = toRead \ {m}
            /\ \/ m \in whole[Image] /\ good' = good \cup {m}
               \/ m \notin whole[Image] \ Unparsed /\ good' = good
            /\ push' = IF toRead' = {} THEN "load" ELSE "read"
            /\ UNCHANGED <<at, names, chosen, broken, settled>>
       ELSE Conclude
    /\ UNCHANGED <<upstreamVars, diskVars, syncVars, pushes, target>>

\* What the push has read of the references between manifests and to blobs.
Kids == [m \in Manifests |-> IF m \in good THEN Children[m] \cap names ELSE {}]
Layers == [m \in Manifests |-> IF m \in good THEN Refs[m] ELSE {}]

\* chooseRootDigest: the digest asked for, or the one manifest no other refers
\* to, or the one index among several such.
RootChoice ==
    LET candidates == {m \in names : \A x \in names : m \notin Kids[x]}
        indexes == candidates \cap good \cap Indexes
    IN IF Image \in Pinned /\ Roots[Image] \subseteq names THEN Roots[Image]
       ELSE IF Cardinality(candidates) = 1 THEN candidates
       ELSE IF Cardinality(indexes) = 1 THEN indexes
       ELSE {}

LayoutManifests == Closure(chosen, Kids)
LayoutBlobs == UNION {Layers[m] : m \in LayoutManifests}

\* The blobs of the manifests reachable from the root must be there; a manifest
\* that is not is left out of the layout without a word.  A dry
\* run ends here and counts the image as pushed.
Load ==
    /\ push = "load"
    /\ \/ /\ RootChoice = {} /\ Conclude
       \/ \E m \in RootChoice :
             IF UNION {Layers[x] : x \in Closure(m, Kids)} \subseteq OnDisk(Image)
             THEN \/ Conclude
                  \/ /\ push' = "layout" /\ chosen' = m
                     /\ UNCHANGED <<at, names, good, toRead, broken, settled>>
             ELSE Conclude
    /\ UNCHANGED <<upstreamVars, diskVars, syncVars, pushes, target>>

\* Mutant: only the blobs of the root itself are put into the layout.
WriteLayoutOfRoot ==
    /\ push = "layout"
    /\ push' = "copy"
    /\ broken' = (LayoutBlobs \ Layers[chosen]) \cup (LayoutBlobs \ whole[Image])
    /\ UNCHANGED <<upstreamVars, diskVars, syncVars, pushes, at, names, good, toRead, chosen,
                   settled, target>>

\* writeOCILayout: manifests from what was read, blobs as links or copies.
WriteLayout ==
    /\ push = "layout"
    /\ IF LayoutBlobs \subseteq OnDisk(Image)
       THEN /\ push' = "copy" /\ broken' = LayoutBlobs \ whole[Image]
            /\ UNCHANGED <<at, names, good, toRead, chosen, settled>>
       ELSE Conclude
    /\ UNCHANGED <<upstreamVars, diskVars, syncVars, pushes, target>>

\* skopeo copy --all refuses a layout in which a manifest is cut off, or one
\* that is referred to is missing, or a blob has not the digest of its name,
\* and a root that has not the digest of the destination.  A blob that was
\* linked while it was being downloaded may be whole by now.
Acceptable ==
    /\ LayoutManifests \subseteq good
    /\ UNION {Children[m] : m \in LayoutManifests} \subseteq LayoutManifests
    /\ Image \in Pinned => chosen \in Roots[Image]

Skopeo ==
    /\ push = "copy"
    /\ \/ /\ Acceptable /\ broken \subseteq whole[Image]
          /\ target' = [target EXCEPT ![Image] = chosen]
          /\ Conclude
       \/ /\ ~Acceptable \/ broken # {}
          /\ Conclude /\ UNCHANGED target
       \/ Conclude /\ UNCHANGED target
    /\ UNCHANGED <<upstreamVars, diskVars, syncVars, pushes>>

\* The push is cancelled between two images, or its process dies.
StopPush ==
    /\ push # "idle"
    /\ push' = "idle" /\ at' = 0
    /\ names' = {} /\ good' = {} /\ toRead' = {} /\ chosen' = Unlisted /\ broken' = {}
    /\ settled' = FALSE
    /\ UNCHANGED <<upstreamVars, diskVars, syncVars, pushes, target>>

Rest == sync \in {"idle", "done"} /\ push = "idle" /\ UNCHANGED vars

SyncStep ==
    \/ StartSync \/ StartDownloads \/ Validate \/ Retry \/ EndSync \/ Stop
    \/ \E i \in Refers : PlanImage(i)
    \/ \E f \in Files : Download(f) \/ EndDownload(f)
PushStep ==
    \/ StartPush \/ GlobManifests \/ Load \/ WriteLayout \/ Skopeo \/ StopPush
    \/ \E m \in Manifests : ReadManifest(m)

Next == (\E i \in Refers : TagMoves(i)) \/ SyncStep \/ PushStep \/ Rest

Spec == Init /\ [][Next]_vars

-----------------------------------------------------------------------------
(* Properties *)

\* A sync that ends without a failed download leaves in the directory of every
\* image it planned all that it saw of the image: the root, every manifest
\* below it and all their blobs, also when images share them, and after syncs
\* that were cut off.  What has a sha256 is whole, the rest is there; so the image
\* is whole if all its manifests parse and all its digests are sha256.
CleanSyncIsWhole ==
    (sync = "done" /\ ~lost) =>
        \A i \in Refers : root[i] # Unlisted =>
            /\ PlannedOf(root[i]) \ Unchecked \subseteq whole[i]
            /\ PlannedOf(root[i]) \subseteq OnDisk(i)
            /\ FilesOf(root[i]) \cap (Unparsed \cup Unchecked) = {} =>
                  FilesOf(root[i]) \subseteq whole[i]

\* When all that was ever planned for an image is in place, whole, as the push
\* looks, and no retry takes it away again meanwhile,
\* what is pushed is a manifest that the reference has named, never one below
\* it, and no blob of it is broken.  If it has named only one, the push takes
\* that one and does not refuse it; if also all its manifests parse, it goes with
\* everything below it, and skopeo has no reason to refuse it either.  (If
\* the tag has moved, the push may be refused for good, or push the older.)
PushedIsTheImage ==
    (push # "idle" /\ settled) =>
        /\ push \in {"layout", "copy"} => chosen \in had[Image] /\ broken = {}
        /\ Cardinality(had[Image]) = 1 =>
              /\ push = "load" => RootChoice = had[Image]
              /\ push \in {"layout", "copy"} /\ FilesOf(chosen) \cap Unparsed = {} =>
                    /\ Acceptable
                    /\ LayoutManifests \cup LayoutBlobs = FilesOf(chosen)
=============================================================================

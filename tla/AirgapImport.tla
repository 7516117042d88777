---------------------------- MODULE AirgapImport ----------------------------
(***************************************************************************)
(* SyncManager.Import (internal/engine/import.go) on one source directory: *)
(* validation of the archives against the manifest, extraction into the    *)
(* data directory, rows of file_records, transfers and transfer_archives   *)
(* (internal/store/sqlite.go).  Nothing keeps two imports apart; each may  *)
(* be cancelled or hit by a crash, an archive of the medium may go bad and *)
(* be copied again, and a new export may replace the whole package.        *)
(*                                                                         *)
(* Every archive holds one file, named like it.  An edition is an export:  *)
(* the same archive and file names with other contents and checksums.      *)
(***************************************************************************)
EXTENDS Naturals, FiniteSets

CONSTANTS
    Imports,      \* calls of Import, each made at most once
    NumArchives,  \* archives of a package
    MaxEditions,  \* bound: exports copied to the source directory
    MaxDamage     \* bound: times an archive goes bad

ASSUME NumArchivesAssumption == NumArchives \in Nat \ {0}
ASSUME BoundsAssumption == MaxEditions \in Nat \ {0} /\ MaxDamage \in Nat

VARIABLES
    edition,      \* the edition of the manifest in the source directory
    medium,       \* medium[a]: archive a is "good", "damaged" or "missing"
    damages,      \* times an archive went bad
    disk,         \* disk[a]: the edition the extracted file comes from, 0 if there is none
    whole,        \* files extracted to their end
    records,      \* records[a]: the edition whose checksum file_records has, 0 if no row
    transfer,     \* transfer[i]: status of the row of import i, "none" if it has no row
    validated,    \* rows of transfer_archives: [by, archive, edition]
    pc,           \* pc[i]: where import i is
    opts,         \* opts[i]: Force, SkipValidated, VerifyOnly
    source,       \* source[i]: the edition of the manifest it has read
    at,           \* at[i]: position in the loop over the archives
    skipped,      \* skipped[i]: skippedArchives
    bad,          \* bad[i]: archives that failed validation
    matched,      \* matched[i]: archives whose hash it has compared and found right (history)
    shared,       \* running imports that have run beside another (history)
    excused       \* imports cancelled, crashed, or with a store write that failed (history)

mediumVars == <<edition, medium, damages>>
fileVars == <<disk, whole, records>>
storeVars == <<transfer, validated>>
localVars == <<opts, source, skipped, bad, matched>>
historyVars == <<shared, excused>>
vars == <<mediumVars, fileVars, storeVars, localVars, historyVars, pc, at>>

Archives == 1..NumArchives
Editions == 1..MaxEditions
Options == [force : BOOLEAN, skip : BOOLEAN, verify : BOOLEAN]
Running == {"validate", "extract", "writing", "record"}

TypeOK ==
    /\ edition \in Editions /\ damages \in 0..MaxDamage
    /\ medium \in [Archives -> {"good", "damaged", "missing"}]
    /\ disk \in [Archives -> 0..MaxEditions] /\ records \in [Archives -> 0..MaxEditions]
    /\ whole \subseteq Archives
    /\ transfer \in [Imports -> {"none", "running", "failed", "completed"}]
    /\ validated \subseteq [by : Imports, archive : Archives, edition : Editions]
    /\ pc \in [Imports -> Running \cup {"new", "done"}]
    /\ opts \in [Imports -> Options]
    /\ source \in [Imports -> Editions]
    /\ at \in [Imports -> 1..NumArchives + 1]
    /\ skipped \in [Imports -> SUBSET Archives] /\ bad \in [Imports -> SUBSET Archives]
    /\ matched \in [Imports -> SUBSET Archives]
    /\ shared \subseteq Imports /\ excused \subseteq Imports

NoOptions == [force |-> FALSE, skip |-> FALSE, verify |-> FALSE]

Init ==
    /\ edition = 1 /\ medium = [a \in Archives |-> "good"] /\ damages = 0
    /\ disk = [a \in Archives |-> 0] /\ whole = {}
    /\ records = [a \in Archives |-> 0]
    /\ transfer = [i \in Imports |-> "none"] /\ validated = {}
    /\ pc = [i \in Imports |-> "new"]
    /\ opts = [i \in Imports |-> NoOptions]
    /\ source = [i \in Imports |-> 1] /\ at = [i \in Imports |-> 1]
    /\ skipped = [i \in Imports |-> {}] /\ bad = [i \in Imports |-> {}]
    /\ matched = [i \in Imports |-> {}]
    /\ shared = {} /\ excused = {}

Active == {i \in Imports : pc[i] \in Running}

------------------------------------------------------------------------------
(* The medium *)

GoesBad(a) ==
    /\ damages < MaxDamage /\ medium[a] = "good"
    /\ damages' = damages + 1
    /\ medium' \in {[medium EXCEPT ![a] = m] : m \in {"damaged", "missing"}}
    /\ UNCHANGED <<edition, fileVars, storeVars, localVars, historyVars, pc, at>>

CopyAgain(a) ==
    /\ medium[a] # "good"
    /\ medium' = [medium EXCEPT ![a] = "good"]
    /\ UNCHANGED <<edition, damages, fileVars, storeVars, localVars, historyVars, pc, at>>

NewExport ==
    /\ Active = {} /\ edition < MaxEditions
    /\ edition' = edition + 1 /\ medium' = [a \in Archives |-> "good"]
    /\ UNCHANGED <<damages, fileVars, storeVars, localVars, historyVars, pc, at>>

------------------------------------------------------------------------------
(* The beginning and the ends of an import *)

Goto(i, where) == pc' = [pc EXCEPT ![i] = where]
Advance(i) == at' = [at EXCEPT ![i] = @ + 1]
Restart(i) == at' = [at EXCEPT ![i] = 1]

\* The imports is return: their locals are gone.
Return(is) ==
    /\ pc' = [i \in Imports |-> IF i \in is THEN "done" ELSE pc[i]]
    /\ opts' = [i \in Imports |-> IF i \in is THEN NoOptions ELSE opts[i]]
    /\ source' = [i \in Imports |-> IF i \in is THEN 1 ELSE source[i]]
    /\ at' = [i \in Imports |-> IF i \in is THEN 1 ELSE at[i]]
    /\ skipped' = [i \in Imports |-> IF i \in is THEN {} ELSE skipped[i]]
    /\ bad' = [i \in Imports |-> IF i \in is THEN {} ELSE bad[i]]
    /\ matched' = [i \in Imports |-> IF i \in is THEN {} ELSE matched[i]]
    /\ shared' = shared \ is

\* CreateTransfer may fail, which is only logged: the import goes on without a row.
Begin(i) ==
    /\ pc[i] = "new"
    /\ \A a \in Archives : medium[a] # "missing"
    /\ \E o \in Options : opts' = [opts EXCEPT ![i] = o]
    /\ source' = [source EXCEPT ![i] = edition]
    /\ \/ transfer' = [transfer EXCEPT ![i] = "running"] /\ UNCHANGED excused
       \/ excused' = excused \cup {i} /\ UNCHANGED transfer
    /\ shared' = IF Active = {} THEN shared ELSE shared \cup Active \cup {i}
    /\ Goto(i, "validate")
    /\ UNCHANGED <<mediumVars, fileVars, validated, skipped, bad, matched, at>>

\* An archive of the manifest is not there: an error, and no row.
RefuseIncomplete(i) ==
    /\ pc[i] = "new"
    /\ \E a \in Archives : medium[a] = "missing"
    /\ Return({i})
    /\ UNCHANGED <<mediumVars, fileVars, storeVars, excused>>

\* The row, if there is one, gets its last status; UpdateTransfer may fail.
Settle(i, status) ==
    /\ Return({i})
    /\ IF transfer[i] = "none" THEN UNCHANGED <<transfer, excused>>
       ELSE \/ transfer' = [transfer EXCEPT ![i] = status] /\ UNCHANGED excused
            \/ excused' = excused \cup {i} /\ UNCHANGED transfer

\* The context is looked at before every archive; the row stays as it is.
ReturnCancelled(i) ==
    /\ pc[i] \in {"validate", "extract"} /\ at[i] \in Archives
    /\ Return({i}) /\ excused' = excused \cup {i}
    /\ UNCHANGED <<mediumVars, fileVars, storeVars>>

Crash ==
    /\ Active # {}
    /\ Return(Active) /\ excused' = excused \cup Active
    /\ UNCHANGED <<mediumVars, fileVars, storeVars>>

------------------------------------------------------------------------------
(* Validation *)

\* CreateTransferArchive, for an import that has a row; it may fail.
RecordValidated(i, a) ==
    IF transfer[i] = "none" THEN UNCHANGED <<validated, excused>>
    ELSE \/ /\ validated' = validated \cup {[by |-> i, archive |-> a, edition |-> source[i]]}
            /\ UNCHANGED excused
         \/ excused' = excused \cup {i} /\ UNCHANGED validated

\* The query asks for a validated row of this path, name and checksum, and not
\* for the status of its transfer.
IsArchiveValidated(i, a) == \E r \in validated : r.archive = a /\ r.edition = source[i]

MaySkip(i, a) == ~opts[i].force /\ opts[i].skip /\ IsArchiveValidated(i, a)

SkipValidated(i) ==
    /\ pc[i] = "validate" /\ at[i] \in Archives
    /\ MaySkip(i, at[i])
    /\ skipped' = [skipped EXCEPT ![i] = @ \cup {at[i]}]
    /\ Advance(i)
    /\ UNCHANGED <<mediumVars, fileVars, storeVars, opts, source, bad, matched, historyVars, pc>>

\* Mutant: the loop goes one too far.
ForceOneMore(i) ==
    /\ pc[i] = "validate"
    /\ opts[i].force
    /\ RecordValidated(i, at[i])
    /\ Advance(i)
    /\ UNCHANGED <<mediumVars, fileVars, transfer, localVars, shared, pc>>

\* With Force the archive counts as validated, and is recorded so, unread.
ForceArchive(i) ==
    /\ pc[i] = "validate" /\ at[i] \in Archives
    /\ opts[i].force
    /\ RecordValidated(i, at[i])
    /\ Advance(i)
    /\ UNCHANGED <<mediumVars, fileVars, transfer, localVars, shared, pc>>

\* A read may fail on a good archive too.
HashArchive(i) ==
    /\ pc[i] = "validate" /\ at[i] \in Archives
    /\ ~opts[i].force /\ ~MaySkip(i, at[i])
    /\ \/ /\ medium[at[i]] = "good"
          /\ RecordValidated(i, at[i])
          /\ matched' = [matched EXCEPT ![i] = @ \cup {at[i]}]
          /\ UNCHANGED bad
       \/ /\ bad' = [bad EXCEPT ![i] = @ \cup {at[i]}]
          /\ UNCHANGED <<validated, excused, matched>>
    /\ Advance(i)
    /\ UNCHANGED <<mediumVars, fileVars, transfer, opts, source, skipped, shared, pc>>

StopFailed(i) ==
    /\ pc[i] = "validate" /\ at[i] \notin Archives
    /\ bad[i] # {}
    /\ Settle(i, "failed")
    /\ UNCHANGED <<mediumVars, fileVars, validated>>

\* Mutant: the row of a verification stays "running".
StopVerifiedUnsettled(i) ==
    /\ pc[i] = "validate" /\ at[i] \notin Archives
    /\ bad[i] = {} /\ opts[i].verify
    /\ Return({i})
    /\ UNCHANGED <<mediumVars, fileVars, storeVars, excused>>

StopVerified(i) ==
    /\ pc[i] = "validate" /\ at[i] \notin Archives
    /\ bad[i] = {} /\ opts[i].verify
    /\ Settle(i, "completed")
    /\ UNCHANGED <<mediumVars, fileVars, validated>>

\* Mutant: the good archives are extracted, whatever the others are.
StartExtractionAnyway(i) ==
    /\ pc[i] = "validate" /\ at[i] \notin Archives
    /\ ~opts[i].verify
    /\ Goto(i, "extract") /\ Restart(i)
    /\ UNCHANGED <<mediumVars, fileVars, storeVars, localVars, historyVars>>

StartExtraction(i) ==
    /\ pc[i] = "validate" /\ at[i] \notin Archives
    /\ bad[i] = {} /\ ~opts[i].verify
    /\ Goto(i, "extract") /\ Restart(i)
    /\ UNCHANGED <<mediumVars, fileVars, storeVars, localVars, historyVars>>

------------------------------------------------------------------------------
(* Extraction *)

PassOver(i) ==
    /\ pc[i] = "extract" /\ at[i] \in skipped[i]
    /\ Advance(i)
    /\ UNCHANGED <<mediumVars, fileVars, storeVars, localVars, historyVars, pc>>

\* os.Create truncates the file that is there.
OpenFile(i) ==
    /\ pc[i] = "extract" /\ at[i] \in Archives \ skipped[i]
    /\ disk' = [disk EXCEPT ![at[i]] = source[i]]
    /\ whole' = whole \ {at[i]}
    /\ Goto(i, "writing")
    /\ UNCHANGED <<mediumVars, records, storeVars, localVars, historyVars, at>>

WrittenByOther(i) == \E k \in Active \ {i} : pc[k] = "writing" /\ at[k] = at[i]

\* Two imports that write the same file may leave holes in it.
ExtractFile(i) ==
    /\ pc[i] = "writing" /\ medium[at[i]] = "good"
    /\ whole' \in IF WrittenByOther(i) THEN {whole, whole \cup {at[i]}} ELSE {whole \cup {at[i]}}
    /\ Goto(i, "extract") /\ Advance(i)
    /\ UNCHANGED <<mediumVars, disk, records, storeVars, localVars, historyVars>>

\* Mutant: an archive that cannot be extracted is passed over.
PassOverFailure(i) ==
    /\ pc[i] = "writing"
    /\ Goto(i, "extract") /\ Advance(i)
    /\ UNCHANGED <<mediumVars, fileVars, storeVars, localVars, historyVars>>

\* A damaged archive does not decompress to its end; a disk may be full.
ExtractionFails(i) ==
    /\ pc[i] = "writing"
    /\ Settle(i, "failed")
    /\ UNCHANGED <<mediumVars, fileVars, validated>>

\* createrepo_c runs here; its failure changes nothing.
StartRecording(i) ==
    /\ pc[i] = "extract" /\ at[i] \notin Archives
    /\ Goto(i, "record") /\ Restart(i)
    /\ UNCHANGED <<mediumVars, fileVars, storeVars, localVars, historyVars>>

\* Every file of the inventory that is on disk gets a row, whoever put it there.
RecordFile(i) ==
    /\ pc[i] = "record" /\ at[i] \in Archives
    /\ IF disk[at[i]] = 0 THEN UNCHANGED <<records, excused>>
       ELSE \/ records' = [records EXCEPT ![at[i]] = source[i]] /\ UNCHANGED excused
            \/ excused' = excused \cup {i} /\ UNCHANGED records
    /\ Advance(i)
    /\ UNCHANGED <<mediumVars, disk, whole, storeVars, localVars, shared, pc>>

Complete(i) ==
    /\ pc[i] = "record" /\ at[i] \notin Archives
    /\ Settle(i, "completed")
    /\ UNCHANGED <<mediumVars, fileVars, validated>>

------------------------------------------------------------------------------
ImportStep(i) ==
    \/ Begin(i) \/ RefuseIncomplete(i) \/ ReturnCancelled(i)
    \/ SkipValidated(i) \/ ForceArchive(i) \/ HashArchive(i)
    \/ StopFailed(i) \/ StopVerified(i) \/ StartExtraction(i)
    \/ PassOver(i) \/ OpenFile(i) \/ ExtractFile(i) \/ ExtractionFails(i)
    \/ StartRecording(i) \/ RecordFile(i) \/ Complete(i)

AllDone == (\A i \in Imports : pc[i] = "done") /\ UNCHANGED vars

Next ==
    \/ \E i \in Imports : ImportStep(i)
    \/ \E a \in Archives : GoesBad(a) \/ CopyAgain(a)
    \/ NewExport \/ Crash \/ AllDone

Spec == Init /\ [][Next]_vars

------------------------------------------------------------------------------
(* Properties *)

\* "If any archives failed, stop": an import writes into the data directory
\* only when every archive was forced, was found right by itself, or was
\* skipped on the word of an earlier import about the same contents.
AllOrNothing ==
    \A i \in Imports :
        pc[i] \in {"extract", "writing", "record"} =>
            /\ bad[i] = {}
            /\ opts[i].force \/ Archives = matched[i] \cup skipped[i]
            /\ \A a \in skipped[i] : \E r \in validated : r.archive = a /\ r.edition = source[i]

\* An import that did not skip archives, ran by itself and completed has every
\* file in place, whole, of the edition it read, and recorded as such, even if
\* the medium went bad between the validation and the extraction.
CompletedIsExtracted ==
    [][\A i \in Imports :
          /\ transfer[i] = "running" /\ transfer'[i] = "completed"
          /\ ~opts[i].verify /\ skipped[i] = {} /\ i \notin shared \cup excused
          => whole = Archives /\ \A a \in Archives : disk[a] = source[i] /\ records[a] = source[i]]_vars

\* Whichever way an import ends by itself, its row says so: only a
\* cancellation, a crash or a failed write leaves a transfer "running".
TransferSettled ==
    \A i \in Imports : pc[i] = "done" /\ i \notin excused => transfer[i] # "running"

\* "previously validated in a completed transfer" (internal/store/sqlite.go:736):
\* an archive is skipped only after a transfer that completed.
SkippedWasCompleted ==
    \A i \in Imports : \A a \in skipped[i] :
        \E r \in validated :
            r.archive = a /\ r.edition = source[i] /\ transfer[r.by] = "completed"
=============================================================================

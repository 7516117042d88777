------------------------- MODULE AirgapImportProofs -------------------------
(***************************************************************************)
(* Proofs about AirgapImport for any number of imports, archives, editions *)
(* and damages: an import extracts only what it may, one that ran by       *)
(* itself and completed has put every file in place, and every import that *)
(* ends by itself settles its row.                                         *)
(***************************************************************************)
EXTENDS AirgapImport, TLAPS

\* An import that has not begun has no row and has done nothing.
NewIsFresh(i) ==
    pc[i] = "new" => /\ transfer[i] = "none" /\ at[i] = 1
                     /\ skipped[i] = {} /\ bad[i] = {} /\ matched[i] = {}

\* The loop of the extraction is at an archive while it writes.
WritesArchive(i) == pc[i] = "writing" => at[i] \in Archives

\* The validation loop has dealt with every archive before its position.
Before(i) == {a \in Archives : a < at[i]}
Validated(i) ==
    pc[i] = "validate" => opts[i].force \/ Before(i) \subseteq matched[i] \cup skipped[i] \cup bad[i]

\* It goes on to the extraction only if there was nothing bad (AllOrNothing).
MayExtract(i) ==
    pc[i] \in {"extract", "writing", "record"} =>
        bad[i] = {} /\ (opts[i].force \/ Archives = matched[i] \cup skipped[i])

\* What was skipped has been validated, for the contents the import has read.
SkipsJustified(i) ==
    \A a \in skipped[i] : \E r \in validated : r.archive = a /\ r.edition = source[i]

\* The row of an import that ended by itself says so (TransferSettled).
Settled(i) == pc[i] = "done" /\ i \notin excused => transfer[i] # "running"

Sound(i) ==
    /\ NewIsFresh(i) /\ WritesArchive(i) /\ Validated(i) /\ MayExtract(i) /\ SkipsJustified(i)
    /\ Settled(i)

ImportInv == TypeOK /\ \A i \in Imports : Sound(i)

\* An import that has not run beside another runs by itself ...
Alone == \A i \in Active \ shared : Active = {i}

\* ... and finds what it has written and recorded as it left it.
Good(i, a) == a \in whole /\ disk[a] = source[i]
KeptBy(i) ==
    skipped[i] = {} =>
        /\ pc[i] \in {"extract", "writing"} => \A a \in Before(i) : Good(i, a)
        /\ pc[i] = "writing" => disk[at[i]] = source[i]
        /\ pc[i] = "record" => /\ \A a \in Archives : Good(i, a)
                               /\ i \notin excused => \A a \in Before(i) : records[a] = source[i]
Kept == \A i \in Active \ shared : KeptBy(i)

ExtractionInv == ImportInv /\ shared \subseteq Active /\ Alone /\ Kept

------------------------------------------------------------------------------
\* The steps of an import between its beginning and its end.
Loop(i) ==
    \/ SkipValidated(i) \/ ForceArchive(i) \/ HashArchive(i) \/ StartExtraction(i)
    \/ PassOver(i) \/ OpenFile(i) \/ ExtractFile(i) \/ StartRecording(i) \/ RecordFile(i)

\* The steps that end it by itself.
Ends(i) == StopFailed(i) \/ StopVerified(i) \/ ExtractionFails(i) \/ Complete(i)

\* The steps that end imports otherwise.
Broken(is) ==
    /\ Return(is) /\ excused' = excused \cup is
    /\ is \subseteq Active
    /\ UNCHANGED <<mediumVars, fileVars, storeVars>>

\* Every step is one of these.
LEMMA StepKinds ==
    ASSUME Next
    PROVE  \/ \E i \in Imports : Begin(i) \/ RefuseIncomplete(i) \/ Loop(i) \/ Ends(i)
           \/ \E is \in SUBSET Imports : Broken(is)
           \/ /\ UNCHANGED <<fileVars, storeVars, localVars, historyVars, pc, at>>
              /\ edition' \in {edition, edition + 1} /\ (edition' # edition => edition < MaxEditions)
              /\ damages' \in {damages, damages + 1} /\ (damages' # damages => damages < MaxDamage)
              /\ \/ UNCHANGED medium
                 \/ medium' = [a \in Archives |-> "good"]
                 \/ \E a \in Archives, m \in {"good", "damaged", "missing"} : medium' = [medium EXCEPT ![a] = m]
<1>1. ASSUME NEW i \in Imports, ImportStep(i)
      PROVE  Begin(i) \/ RefuseIncomplete(i) \/ Loop(i) \/ Ends(i) \/ Broken({i})
  BY <1>1 DEF ImportStep, Loop, Ends, Broken, ReturnCancelled, Active, Running
<1>2. CASE Crash
  BY <1>2 DEF Crash, Broken, Active
<1>3. CASE \E a \in Archives : GoesBad(a) \/ CopyAgain(a)
  BY <1>3 DEF GoesBad, CopyAgain
<1>4. CASE NewExport \/ AllDone
  BY <1>4 DEF NewExport, AllDone, vars, mediumVars
<1> QED  BY <1>1, <1>2, <1>3, <1>4 DEF Next

\* What returning does to the locals, of the imports that return and of the others.
LEMMA ReturnLocals ==
    ASSUME TypeOK, NEW is \in SUBSET Imports, Return(is)
    PROVE  /\ pc' \in [Imports -> Running \cup {"new", "done"}]
           /\ opts' \in [Imports -> Options] /\ source' \in [Imports -> Editions]
           /\ at' \in [Imports -> 1..NumArchives + 1]
           /\ skipped' \in [Imports -> SUBSET Archives] /\ bad' \in [Imports -> SUBSET Archives]
           /\ matched' \in [Imports -> SUBSET Archives]
           /\ shared' \subseteq Imports
           /\ \A i \in is : pc'[i] = "done" /\ skipped'[i] = {}
           /\ \A i \in Imports \ is :
                 /\ pc'[i] = pc[i] /\ opts'[i] = opts[i] /\ source'[i] = source[i] /\ at'[i] = at[i]
                 /\ skipped'[i] = skipped[i] /\ bad'[i] = bad[i] /\ matched'[i] = matched[i]
<1> USE NumArchivesAssumption, BoundsAssumption DEF TypeOK, Return
<1>1. NoOptions \in Options
  BY DEF NoOptions, Options
<1>2. 1 \in Editions /\ 1 \in 1..NumArchives + 1
  BY DEF Editions
<1>3. opts' \in [Imports -> Options]
  BY <1>1
<1>4. source' \in [Imports -> Editions] /\ at' \in [Imports -> 1..NumArchives + 1]
  BY <1>2
<1>5. /\ pc' \in [Imports -> Running \cup {"new", "done"}]
      /\ skipped' \in [Imports -> SUBSET Archives] /\ bad' \in [Imports -> SUBSET Archives]
      /\ matched' \in [Imports -> SUBSET Archives] /\ shared' \subseteq Imports
  OBVIOUS
<1>6. /\ \A i \in is : pc'[i] = "done" /\ skipped'[i] = {}
      /\ \A i \in Imports \ is :
            /\ pc'[i] = pc[i] /\ opts'[i] = opts[i] /\ source'[i] = source[i] /\ at'[i] = at[i]
            /\ skipped'[i] = skipped[i] /\ bad'[i] = bad[i] /\ matched'[i] = matched[i]
  OBVIOUS
<1> QED  BY <1>3, <1>4, <1>5, <1>6

LEMMA ImportInit == Init => ExtractionInv
<1> SUFFICES ASSUME Init PROVE ExtractionInv
  OBVIOUS
<1>1. NoOptions \in Options
  BY DEF NoOptions, Options
<1>2. TypeOK
  BY <1>1, NumArchivesAssumption, BoundsAssumption DEF Init, TypeOK, Editions, Archives
<1>3. Active = {}
  BY DEF Init, Active, Running
<1>4. ASSUME NEW i \in Imports PROVE Sound(i)
  BY DEF Init, Sound, NewIsFresh, WritesArchive, Validated, MayExtract, SkipsJustified, Settled
<1> QED
  BY <1>2, <1>3, <1>4 DEF Init, ExtractionInv, ImportInv, Alone, Kept

\* One more element of one of the sets.
LEMMA AddToOne ==
    ASSUME NEW S, NEW T, NEW f \in [S -> SUBSET T], NEW s \in S, NEW x \in T
    PROVE  [f EXCEPT ![s] = f[s] \cup {x}] \in [S -> SUBSET T]
OBVIOUS

\* Types.
LEMMA TypeStep ==
    ASSUME ImportInv, Next
    PROVE  TypeOK'
<1> USE NumArchivesAssumption, BoundsAssumption DEF ImportInv, TypeOK, Goto, Advance, Restart, Archives, Editions
<1>1. ASSUME NEW i \in Imports, Begin(i) PROVE TypeOK'
  <2>1. shared' \subseteq Imports
    BY <1>1 DEF Begin, Active
  <2>2. opts' \in [Imports -> Options]
    BY <1>1 DEF Begin
  <2>3. /\ pc' \in [Imports -> Running \cup {"new", "done"}] /\ source' \in [Imports -> Editions]
        /\ transfer' \in [Imports -> {"none", "running", "failed", "completed"}] /\ excused' \subseteq Imports
    BY <1>1 DEF Begin, Running
  <2> QED
    BY <1>1, <2>1, <2>2, <2>3 DEF Begin, mediumVars, fileVars
<1>2. ASSUME NEW i \in Imports, RefuseIncomplete(i) PROVE TypeOK'
  BY <1>2, ReturnLocals DEF RefuseIncomplete, mediumVars, fileVars, storeVars
<1>3. ASSUME NEW i \in Imports, Ends(i) PROVE TypeOK'
  <2>1. Return({i}) /\ UNCHANGED <<mediumVars, fileVars, validated>>
    BY <1>3 DEF Ends, Settle, StopFailed, StopVerified, ExtractionFails, Complete
  <2>2. /\ transfer' \in [Imports -> {"none", "running", "failed", "completed"}]
        /\ excused' \subseteq Imports
    BY <1>3 DEF Ends, Settle, StopFailed, StopVerified, ExtractionFails, Complete
  <2> QED  BY <2>1, <2>2, ReturnLocals DEF mediumVars, fileVars
<1>4. ASSUME NEW is \in SUBSET Imports, Broken(is) PROVE TypeOK'
  <2>1. excused' \subseteq Imports
    BY <1>4 DEF Broken
  <2> QED  BY <1>4, <2>1, ReturnLocals DEF Broken, mediumVars, fileVars, storeVars
<1>5. ASSUME NEW i \in Imports, SkipValidated(i) \/ ForceArchive(i) \/ HashArchive(i) PROVE TypeOK'
  <2>1. at'[i] \in 1..NumArchives + 1 /\ at' = [at EXCEPT ![i] = at[i] + 1]
    BY <1>5 DEF SkipValidated, ForceArchive, HashArchive
  <2>2. /\ skipped' \in [Imports -> SUBSET Archives] /\ bad' \in [Imports -> SUBSET Archives]
        /\ matched' \in [Imports -> SUBSET Archives]
    <3>1. CASE SkipValidated(i)
      BY <3>1 DEF SkipValidated
    <3>2. CASE ForceArchive(i)
      <4>1. UNCHANGED localVars
        BY <3>2 DEF ForceArchive
      <4> QED  BY <4>1 DEF localVars
    <3>3. CASE HashArchive(i)
      <4>1. /\ bad' \in {bad, [bad EXCEPT ![i] = bad[i] \cup {at[i]}]} /\ skipped' = skipped
            /\ matched' \in {matched, [matched EXCEPT ![i] = matched[i] \cup {at[i]}]}
            /\ at[i] \in Archives
        BY <3>3 DEF HashArchive
      <4>2. /\ bad \in [Imports -> SUBSET Archives] /\ matched \in [Imports -> SUBSET Archives]
            /\ skipped \in [Imports -> SUBSET Archives]
        OBVIOUS
      <4>3. /\ [bad EXCEPT ![i] = bad[i] \cup {at[i]}] \in [Imports -> SUBSET Archives]
            /\ [matched EXCEPT ![i] = matched[i] \cup {at[i]}] \in [Imports -> SUBSET Archives]
        <5> HIDE DEF TypeOK, Archives
        <5> QED  BY <4>1, <4>2, AddToOne
      <4> HIDE DEF TypeOK, Archives
      <4> QED  BY <4>1, <4>2, <4>3
    <3> QED  BY <1>5, <3>1, <3>2, <3>3
  <2>3. /\ validated' \subseteq [by : Imports, archive : Archives, edition : Editions]
        /\ excused' \subseteq Imports
    BY <1>5 DEF SkipValidated, ForceArchive, HashArchive, RecordValidated, storeVars, historyVars
  <2>4. UNCHANGED <<mediumVars, fileVars, transfer, opts, source, shared, pc>>
    BY <1>5 DEF SkipValidated, ForceArchive, HashArchive, storeVars, localVars, historyVars
  <2> QED  BY <2>1, <2>2, <2>3, <2>4 DEF mediumVars, fileVars
<1>6. ASSUME NEW i \in Imports, PassOver(i) \/ OpenFile(i) \/ ExtractFile(i) \/ RecordFile(i) PROVE TypeOK'
  <2>1. at' \in [Imports -> 1..NumArchives + 1]
    <3>1. at[i] \in Archives \/ UNCHANGED at
      BY <1>6 DEF PassOver, OpenFile, ExtractFile, RecordFile, WritesArchive, Sound
    <3>2. CASE UNCHANGED at
      BY <3>2
    <3>3. CASE at' = [at EXCEPT ![i] = at[i] + 1] /\ at[i] \in Archives
      <4>1. at[i] + 1 \in 1..NumArchives + 1
        BY <3>3
      <4>2. at \in [Imports -> 1..NumArchives + 1]
        OBVIOUS
      <4> QED  BY <3>3, <4>1, <4>2
    <3> QED  BY <1>6, <3>1, <3>2, <3>3 DEF PassOver, OpenFile, ExtractFile, RecordFile
  <2>2. /\ disk' \in [Archives -> 0..MaxEditions] /\ whole' \subseteq Archives
        /\ records' \in [Archives -> 0..MaxEditions] /\ excused' \subseteq Imports
    <3>1. CASE PassOver(i)
      BY <3>1 DEF PassOver, fileVars, historyVars
    <3>2. CASE OpenFile(i)
      <4>1. UNCHANGED <<records, excused>> /\ whole' = whole \ {at[i]}
            /\ disk' = [disk EXCEPT ![at[i]] = source[i]]
        BY <3>2 DEF OpenFile, historyVars
      <4>2. source[i] \in 0..MaxEditions
        OBVIOUS
      <4> QED  BY <4>1, <4>2
    <3>3. CASE ExtractFile(i)
      <4>1. UNCHANGED <<records, excused, disk>> /\ whole' \in {whole, whole \cup {at[i]}}
        BY <3>3 DEF ExtractFile, historyVars
      <4>2. at[i] \in Archives
        BY <3>3 DEF ExtractFile, WritesArchive, Sound
      <4> QED  BY <4>1, <4>2
    <3>4. CASE RecordFile(i)
      <4>1. /\ records' \in {records, [records EXCEPT ![at[i]] = source[i]]} /\ excused' \subseteq excused \cup {i}
            /\ UNCHANGED <<disk, whole>>
        BY <3>4 DEF RecordFile
      <4>2. source[i] \in 0..MaxEditions
        OBVIOUS
      <4> QED  BY <4>1, <4>2
    <3> QED  BY <1>6, <3>1, <3>2, <3>3, <3>4
  <2>3. pc' \in [Imports -> Running \cup {"new", "done"}]
    BY <1>6 DEF PassOver, OpenFile, ExtractFile, RecordFile, Running
  <2>4. UNCHANGED <<mediumVars, storeVars, localVars, shared>>
    BY <1>6 DEF PassOver, OpenFile, ExtractFile, RecordFile, historyVars
  <2> QED  BY <2>1, <2>2, <2>3, <2>4 DEF mediumVars, storeVars, localVars
<1>7. ASSUME NEW i \in Imports, StartExtraction(i) \/ StartRecording(i) PROVE TypeOK'
  <2>1. \E where \in Running : pc' = [pc EXCEPT ![i] = where]
    BY <1>7 DEF StartExtraction, StartRecording, Running
  <2>2. at' = [at EXCEPT ![i] = 1]
    BY <1>7 DEF StartExtraction, StartRecording
  <2>3. UNCHANGED <<mediumVars, fileVars, storeVars, localVars, historyVars>>
    BY <1>7 DEF StartExtraction, StartRecording
  <2>4. /\ pc' \in [Imports -> Running \cup {"new", "done"}]
        /\ at' \in [Imports -> 1..NumArchives + 1]
    BY <2>1, <2>2
  <2> QED  BY <2>3, <2>4 DEF mediumVars, fileVars, storeVars, localVars, historyVars
<1>8. CASE /\ UNCHANGED <<fileVars, storeVars, localVars, historyVars, pc, at>>
           /\ edition' \in {edition, edition + 1} /\ (edition' # edition => edition < MaxEditions)
           /\ damages' \in {damages, damages + 1} /\ (damages' # damages => damages < MaxDamage)
           /\ \/ UNCHANGED medium
              \/ medium' = [a \in Archives |-> "good"]
              \/ \E a \in Archives, m \in {"good", "damaged", "missing"} : medium' = [medium EXCEPT ![a] = m]
  <2>1. medium' \in [Archives -> {"good", "damaged", "missing"}]
    BY <1>8
  <2> QED  BY SMTT(30), <1>8, <2>1 DEF fileVars, storeVars, localVars, historyVars
<1> QED
  BY <1>1, <1>2, <1>3, <1>4, <1>5, <1>6, <1>7, <1>8, StepKinds DEF Loop

------------------------------------------------------------------------------
\* A step of import i leaves the locals and the row of the others alone, and
\* takes nothing out of the table of validated archives.
LEMMA OthersKeep ==
    ASSUME TypeOK, NEW i \in Imports, Begin(i) \/ RefuseIncomplete(i) \/ Loop(i) \/ Ends(i)
    PROVE  /\ validated \subseteq validated' /\ excused \subseteq excused'
           /\ \A k \in Imports \ {i} :
                 /\ pc'[k] = pc[k] /\ opts'[k] = opts[k] /\ source'[k] = source[k] /\ at'[k] = at[k]
                 /\ skipped'[k] = skipped[k] /\ bad'[k] = bad[k] /\ matched'[k] = matched[k]
                 /\ transfer'[k] = transfer[k]
                 /\ k \in excused' <=> k \in excused
<1>1. CASE Begin(i)
  BY <1>1 DEF TypeOK, Begin, Goto
<1>2. CASE RefuseIncomplete(i)
  BY <1>2, ReturnLocals DEF RefuseIncomplete, storeVars
<1>3. CASE Ends(i)
  <2>1. Return({i}) /\ UNCHANGED validated
    BY <1>3 DEF Ends, Settle, StopFailed, StopVerified, ExtractionFails, Complete
  <2>2. /\ transfer' = transfer \/ \E status \in {"failed", "completed"} : transfer' = [transfer EXCEPT ![i] = status]
        /\ excused' = excused \/ excused' = excused \cup {i}
    BY <1>3 DEF Ends, Settle, StopFailed, StopVerified, ExtractionFails, Complete
  <2> QED  BY <2>1, <2>2, ReturnLocals DEF TypeOK
<1>4. CASE SkipValidated(i) \/ ForceArchive(i) \/ HashArchive(i)
  <2>1. /\ validated \subseteq validated'
        /\ excused' = excused \/ excused' = excused \cup {i}
    BY <1>4 DEF SkipValidated, ForceArchive, HashArchive, RecordValidated, storeVars, historyVars
  <2>2. UNCHANGED <<transfer, opts, source, pc>>
    BY <1>4 DEF SkipValidated, ForceArchive, HashArchive, storeVars, localVars
  <2>3. \A k \in Imports \ {i} : /\ at'[k] = at[k] /\ skipped'[k] = skipped[k]
                                 /\ bad'[k] = bad[k] /\ matched'[k] = matched[k]
    <3>1. CASE SkipValidated(i)
      BY <3>1 DEF SkipValidated, Advance, TypeOK
    <3>2. CASE ForceArchive(i)
      BY <3>2 DEF ForceArchive, localVars, Advance, TypeOK
    <3>3. CASE HashArchive(i)
      BY <3>3 DEF HashArchive, Advance, TypeOK
    <3> QED  BY <1>4, <3>1, <3>2, <3>3
  <2> QED  BY <2>1, <2>2, <2>3 DEF TypeOK
<1>5. CASE StartExtraction(i) \/ PassOver(i) \/ OpenFile(i) \/ ExtractFile(i) \/ StartRecording(i) \/ RecordFile(i)
  <2>1. UNCHANGED <<storeVars, localVars>> /\ (excused' = excused \/ excused' = excused \cup {i})
    BY <1>5 DEF StartExtraction, PassOver, OpenFile, ExtractFile, StartRecording, RecordFile, historyVars
  <2>2. \A k \in Imports \ {i} : pc'[k] = pc[k] /\ at'[k] = at[k]
    BY <1>5 DEF TypeOK, StartExtraction, PassOver, OpenFile, ExtractFile, StartRecording, RecordFile, Goto,
                Advance, Restart
  <2> QED  BY <2>1, <2>2 DEF storeVars, localVars
<1> QED  BY <1>1, <1>2, <1>3, <1>4, <1>5 DEF Loop

LEMMA OthersSound ==
    ASSUME ImportInv, NEW i \in Imports, Begin(i) \/ RefuseIncomplete(i) \/ Loop(i) \/ Ends(i),
           NEW k \in Imports \ {i}
    PROVE  Sound(k)'
<1>1. /\ pc'[k] = pc[k] /\ opts'[k] = opts[k] /\ source'[k] = source[k] /\ at'[k] = at[k]
      /\ skipped'[k] = skipped[k] /\ bad'[k] = bad[k] /\ matched'[k] = matched[k]
      /\ transfer'[k] = transfer[k] /\ (k \in excused' <=> k \in excused)
      /\ validated \subseteq validated'
  BY OthersKeep DEF ImportInv
<1>2. Sound(k)
  BY DEF ImportInv
<1>3. SkipsJustified(k)'
  BY <1>1, <1>2 DEF Sound, SkipsJustified
<1> QED
  BY <1>1, <1>2, <1>3 DEF Sound, NewIsFresh, WritesArchive, Validated, Before, MayExtract, Settled

\* An import that returns is sound if its row, or its excuse, is.
LEMMA ReturnSound ==
    ASSUME TypeOK, NEW is \in SUBSET Imports, Return(is), NEW i \in is,
           i \in excused' \/ transfer'[i] # "running"
    PROVE  Sound(i)'
<1>1. pc'[i] = "done" /\ skipped'[i] = {}
  BY ReturnLocals
<1> QED
  BY <1>1 DEF Sound, NewIsFresh, WritesArchive, Validated, MayExtract, SkipsJustified, Settled

\* The steps of the validation loop: one more archive is dealt with.
LEMMA ValidationSound ==
    ASSUME ImportInv, NEW i \in Imports, SkipValidated(i) \/ ForceArchive(i) \/ HashArchive(i)
    PROVE  Sound(i)'
<1>1. /\ pc[i] = "validate" /\ pc' = pc /\ at[i] \in Archives /\ at' = [at EXCEPT ![i] = at[i] + 1]
      /\ UNCHANGED <<opts, source>>
  BY DEF SkipValidated, ForceArchive, HashArchive, Advance, localVars
<1>2. Sound(i) /\ TypeOK
  BY DEF ImportInv
<1>3. Before(i)' \subseteq Before(i) \cup {at[i]}
  <2>1. at'[i] = at[i] + 1 /\ at[i] \in Nat
    BY <1>1, <1>2 DEF TypeOK, Archives
  <2> QED  BY <2>1 DEF Before, Archives
<1>4. Validated(i)'
  <2>1. CASE SkipValidated(i)
    BY <1>1, <1>2, <1>3, <2>1 DEF SkipValidated, Validated, Sound, TypeOK
  <2>2. CASE ForceArchive(i)
    BY <1>1, <2>2 DEF ForceArchive, Validated
  <2>3. CASE HashArchive(i)
    <3>1. skipped' = skipped
      BY <2>3 DEF HashArchive
    <3>2. matched'[i] \cup bad'[i] = matched[i] \cup bad[i] \cup {at[i]}
      BY <1>2, <2>3 DEF HashArchive, TypeOK
    <3> QED  BY <1>1, <1>2, <1>3, <3>1, <3>2 DEF Validated, Sound
  <2> QED  BY <2>1, <2>2, <2>3
<1>5. SkipsJustified(i)'
  <2>1. CASE SkipValidated(i)
    <3>1. \E r \in validated : r.archive = at[i] /\ r.edition = source[i]
      BY <2>1 DEF SkipValidated, MaySkip, IsArchiveValidated
    <3>2. skipped'[i] = skipped[i] \cup {at[i]} /\ UNCHANGED <<validated, source>>
      BY <1>2, <2>1 DEF SkipValidated, TypeOK, storeVars
    <3> QED  BY <1>2, <3>1, <3>2 DEF SkipsJustified, Sound
  <2>2. CASE ForceArchive(i) \/ HashArchive(i)
    <3>1. UNCHANGED <<skipped, source>> /\ validated \subseteq validated'
      BY <2>2 DEF ForceArchive, HashArchive, RecordValidated, localVars
    <3> QED  BY <1>2, <3>1 DEF SkipsJustified, Sound
  <2> QED  BY <2>1, <2>2
<1> QED
  BY <1>1, <1>4, <1>5 DEF Sound, NewIsFresh, WritesArchive, MayExtract, Settled

\* The steps of the extraction and of the recording.
LEMMA ExtractionSound ==
    ASSUME ImportInv, NEW i \in Imports,
           StartExtraction(i) \/ PassOver(i) \/ OpenFile(i) \/ ExtractFile(i) \/ StartRecording(i) \/ RecordFile(i)
    PROVE  Sound(i)'
<1>1. Sound(i) /\ TypeOK
  BY DEF ImportInv
<1>2. UNCHANGED <<storeVars, localVars>>
  BY DEF StartExtraction, PassOver, OpenFile, ExtractFile, StartRecording, RecordFile
<1>3. pc'[i] \in {"extract", "writing", "record"} /\ (pc'[i] = "writing" => at'[i] \in Archives)
  BY <1>1 DEF TypeOK, StartExtraction, PassOver, OpenFile, ExtractFile, StartRecording, RecordFile, Goto
<1>4. bad[i] = {} /\ (opts[i].force \/ Archives = matched[i] \cup skipped[i])
  <2>1. CASE StartExtraction(i)
    <3>1. pc[i] = "validate" /\ bad[i] = {} /\ at[i] \notin Archives
      BY <2>1 DEF StartExtraction
    <3>2. Before(i) = Archives
      BY <1>1, <3>1, NumArchivesAssumption DEF TypeOK, Archives, Before
    <3>3. matched[i] \cup skipped[i] \subseteq Archives
      BY <1>1 DEF TypeOK
    <3> QED  BY <1>1, <3>1, <3>2, <3>3 DEF Sound, Validated
  <2>2. CASE pc[i] \in {"extract", "writing", "record"}
    BY <1>1, <2>2 DEF Sound, MayExtract
  <2> QED
    BY <2>1, <2>2 DEF PassOver, OpenFile, ExtractFile, StartRecording, RecordFile
<1> QED
  BY <1>1, <1>2, <1>3, <1>4 DEF Sound, NewIsFresh, WritesArchive, Validated, MayExtract, SkipsJustified, Settled,
                               storeVars, localVars

\* Every import is sound after every step.
LEMMA SoundStep ==
    ASSUME ImportInv, Next
    PROVE  \A k \in Imports : Sound(k)'
<1> USE DEF ImportInv
<1>1. ASSUME NEW i \in Imports, Begin(i) PROVE Sound(i)'
  <2>1. pc[i] = "new" /\ pc'[i] = "validate" /\ UNCHANGED <<skipped, bad, matched, at>>
    BY <1>1 DEF Begin, Goto, TypeOK
  <2>2. at[i] = 1 /\ skipped[i] = {}
    BY <2>1 DEF Sound, NewIsFresh
  <2>3. Before(i)' = {}
    BY <2>1, <2>2 DEF Before, Archives
  <2> QED
    BY <2>1, <2>2, <2>3 DEF Sound, NewIsFresh, WritesArchive, Validated, MayExtract, SkipsJustified, Settled
<1>2. ASSUME NEW i \in Imports, RefuseIncomplete(i) PROVE Sound(i)'
  <2>1. Return({i}) /\ UNCHANGED transfer /\ transfer[i] = "none"
    BY <1>2 DEF RefuseIncomplete, storeVars, Sound, NewIsFresh
  <2> QED  BY <2>1, ReturnSound
<1>3. ASSUME NEW i \in Imports, Ends(i) PROVE Sound(i)'
  <2>1. Return({i})
    BY <1>3 DEF Ends, Settle, StopFailed, StopVerified, ExtractionFails, Complete
  <2>2. i \in excused' \/ transfer'[i] # "running"
    BY <1>3 DEF Ends, Settle, StopFailed, StopVerified, ExtractionFails, Complete, TypeOK
  <2> QED  BY <2>1, <2>2, ReturnSound
<1>4. ASSUME NEW is \in SUBSET Imports, Broken(is), NEW k \in Imports PROVE Sound(k)'
  <2>1. Return(is) /\ excused' = excused \cup is /\ UNCHANGED <<transfer, validated>>
    BY <1>4 DEF Broken, storeVars
  <2>2. CASE k \in is
    BY <2>1, <2>2, ReturnSound
  <2>3. CASE k \notin is
    <3>1. /\ pc'[k] = pc[k] /\ opts'[k] = opts[k] /\ source'[k] = source[k] /\ at'[k] = at[k]
          /\ skipped'[k] = skipped[k] /\ bad'[k] = bad[k] /\ matched'[k] = matched[k]
          /\ (k \in excused' <=> k \in excused)
      BY <2>1, <2>3, ReturnLocals
    <3> QED
      BY <2>1, <3>1 DEF Sound, NewIsFresh, WritesArchive, Validated, Before, MayExtract, SkipsJustified, Settled
  <2> QED  BY <2>2, <2>3
<1>5. ASSUME NEW k \in Imports, UNCHANGED <<fileVars, storeVars, localVars, historyVars, pc, at>> PROVE Sound(k)'
  BY <1>5 DEF Sound, NewIsFresh, WritesArchive, Validated, Before, MayExtract, SkipsJustified, Settled,
              storeVars, localVars, historyVars
<1>6. ASSUME NEW i \in Imports, Begin(i) \/ RefuseIncomplete(i) \/ Loop(i) \/ Ends(i), NEW k \in Imports
      PROVE  Sound(k)'
  <2>1. Loop(i) => Sound(i)'
    BY ValidationSound, ExtractionSound DEF Loop
  <2> QED  BY <1>1, <1>2, <1>3, <1>6, <2>1, OthersSound
<1> QED  BY <1>4, <1>5, <1>6, StepKinds

\* Wherever an import is, what it has matched, skipped, found bad and recorded
\* is what its loops have been through, for any number of imports and archives.
THEOREM ImportInvariant == Spec => []ImportInv
<1>1. Init => ImportInv
  BY ImportInit DEF ExtractionInv
<1>2. ImportInv /\ [Next]_vars => ImportInv'
  <2> SUFFICES ASSUME ImportInv, [Next]_vars PROVE ImportInv'
    OBVIOUS
  <2>1. CASE Next
    <3>1. TypeOK'
      BY <2>1, TypeStep
    <3>2. \A k \in Imports : Sound(k)'
      BY <2>1, SoundStep
    <3> QED  BY <3>1, <3>2 DEF ImportInv
  <2>2. CASE UNCHANGED vars
    BY <2>2 DEF vars, mediumVars, fileVars, storeVars, localVars, historyVars, ImportInv, TypeOK, Sound, NewIsFresh,
                WritesArchive, Validated, Before, MayExtract, SkipsJustified, Settled
  <2> QED  BY <2>1, <2>2
<1> QED  BY <1>1, <1>2, PTL DEF Spec

------------------------------------------------------------------------------
(* An import that runs by itself *)

\* Who is active after a step, and who has shared its time with another.
LEMMA ActiveStep ==
    ASSUME ImportInv, Next
    PROVE  \/ \E i \in Imports : /\ Begin(i) /\ Active' = Active \cup {i}
                                 /\ shared' = IF Active = {} THEN shared ELSE shared \cup Active \cup {i}
           \/ \E i \in Active : Loop(i) /\ Active' = Active /\ shared' = shared
           \/ \E is \in SUBSET Imports :
                 /\ Return(is) /\ Active' = Active \ is /\ shared' = shared \ is
                 /\ UNCHANGED fileVars
                 /\ is \cap Active = {} => excused' = excused
           \/ /\ UNCHANGED <<fileVars, storeVars, localVars, historyVars, pc, at>>
              /\ Active' = Active
<1> USE DEF ImportInv
<1>1. ASSUME NEW is \in SUBSET Imports, Return(is) PROVE Active' = Active \ is /\ shared' = shared \ is
  <2>1. \A k \in Imports : k \in Active' <=> k \in Active \ is
    BY <1>1, ReturnLocals DEF Active, Running
  <2> QED  BY <1>1, <2>1 DEF Return, Active
<1>2. ASSUME NEW i \in Imports, Begin(i)
      PROVE  /\ Active' = Active \cup {i}
             /\ shared' = IF Active = {} THEN shared ELSE shared \cup Active \cup {i}
  BY <1>2 DEF Begin, Active, Goto, TypeOK, Running
<1>3. ASSUME NEW i \in Imports, Loop(i)
      PROVE  i \in Active /\ Active' = Active /\ shared' = shared
  <2>1. pc[i] \in Running /\ shared' = shared
    BY <1>3 DEF Loop, SkipValidated, ForceArchive, HashArchive, StartExtraction, PassOver, OpenFile, ExtractFile,
                StartRecording, RecordFile, Running, historyVars
  <2>2. \/ UNCHANGED pc
        \/ \E where \in Running : pc' = [pc EXCEPT ![i] = where]
    BY <1>3 DEF Loop, SkipValidated, ForceArchive, HashArchive, StartExtraction, PassOver, OpenFile, ExtractFile,
                StartRecording, RecordFile, Running, Goto
  <2> QED  BY <2>1, <2>2 DEF Active, TypeOK
<1>4. ASSUME NEW i \in Imports, RefuseIncomplete(i)
      PROVE  Return({i}) /\ UNCHANGED fileVars /\ excused' = excused
  BY <1>4 DEF RefuseIncomplete
<1>5. ASSUME NEW i \in Imports, Ends(i)
      PROVE  Return({i}) /\ UNCHANGED fileVars /\ i \in Active
  BY <1>5 DEF Ends, Settle, StopFailed, StopVerified, ExtractionFails, Complete, Active, Running
<1>6. ASSUME NEW is \in SUBSET Imports, Broken(is)
      PROVE  Return(is) /\ UNCHANGED fileVars /\ is \subseteq Active /\ excused' = excused \cup is
  BY <1>6 DEF Broken
<1>7. ASSUME UNCHANGED pc PROVE Active' = Active
  BY <1>7 DEF Active
<1>8. ASSUME NEW i \in Imports, RefuseIncomplete(i) \/ Ends(i)
      PROVE  \E is \in SUBSET Imports :
                 /\ Return(is) /\ Active' = Active \ is /\ shared' = shared \ is
                 /\ UNCHANGED fileVars
                 /\ is \cap Active = {} => excused' = excused
  <2>1. /\ Return({i}) /\ UNCHANGED fileVars /\ {i} \in SUBSET Imports
        /\ {i} \cap Active = {} => excused' = excused
    BY <1>4, <1>5, <1>8
  <2>2. Active' = Active \ {i} /\ shared' = shared \ {i}
    BY <1>1, <2>1
  <2> QED  BY <2>1, <2>2
<1>9. ASSUME NEW is \in SUBSET Imports, Broken(is)
      PROVE  /\ Return(is) /\ Active' = Active \ is /\ shared' = shared \ is
             /\ UNCHANGED fileVars
             /\ is \cap Active = {} => excused' = excused
  <2>1. is \cap Active = {} => excused' = excused
    BY <1>6, <1>9
  <2> QED  BY <1>1, <1>6, <1>9, <2>1
<1> QED
  BY <1>2, <1>3, <1>7, <1>8, <1>9, StepKinds

\* Nobody begins beside an import without both being counted as sharing.
LEMMA AloneStep ==
    ASSUME ImportInv, shared \subseteq Active, Alone, Next
    PROVE  shared' \subseteq Active' /\ Alone'
<1>1. CASE \E i \in Imports : /\ Begin(i) /\ Active' = Active \cup {i}
                             /\ shared' = IF Active = {} THEN shared ELSE shared \cup Active \cup {i}
  BY <1>1 DEF Alone
<1>2. CASE shared' = shared /\ Active' = Active
  BY <1>2 DEF Alone
<1>3. CASE \E is \in SUBSET Imports : Active' = Active \ is /\ shared' = shared \ is
  BY <1>3 DEF Alone
<1> QED  BY <1>1, <1>2, <1>3, ActiveStep DEF historyVars

\* Alone, an import finds its files as it left them, through each of its steps.
LEMMA LoopKeeps ==
    ASSUME ImportInv, NEW i \in Imports, Active = {i}, KeptBy(i), Loop(i)
    PROVE  KeptBy(i)'
<1> SUFFICES ASSUME skipped'[i] = {} PROVE KeptBy(i)'
  BY DEF KeptBy
<1>1. TypeOK /\ Sound(i)
  BY DEF ImportInv
<1> USE NumArchivesAssumption
<1>2. at[i] \in 1..NumArchives + 1 /\ pc \in [Imports -> Running \cup {"new", "done"}]
      /\ at \in [Imports -> 1..NumArchives + 1]
  BY <1>1 DEF TypeOK
<1>3. CASE SkipValidated(i) \/ ForceArchive(i) \/ HashArchive(i)
  <2>1. pc'[i] = "validate"
    BY <1>3 DEF SkipValidated, ForceArchive, HashArchive
  <2> QED  BY <2>1 DEF KeptBy
<1>4. CASE StartExtraction(i) \/ StartRecording(i)
  <2>1. at'[i] = 1
    BY <1>2, <1>4 DEF StartExtraction, StartRecording, Restart
  <2>2. Before(i)' = {}
    BY <2>1 DEF Before, Archives
  <2>3. UNCHANGED <<fileVars, localVars>>
    BY <1>4 DEF StartExtraction, StartRecording
  <2>4. CASE StartExtraction(i)
    <3>1. pc'[i] = "extract"
      BY <1>2, <2>4 DEF StartExtraction, Goto
    <3> QED  BY <2>2, <3>1 DEF KeptBy
  <2>5. CASE StartRecording(i)
    <3>1. pc'[i] = "record" /\ pc[i] = "extract" /\ at[i] \notin Archives
      BY <1>2, <2>5 DEF StartRecording, Goto
    <3>2. Before(i) = Archives
      BY <1>2, <3>1 DEF Before, Archives
    <3>3. \A a \in Archives : Good(i, a)'
      BY <2>3, <3>1, <3>2 DEF KeptBy, Good, fileVars, localVars
    <3> QED  BY <2>2, <3>1, <3>3 DEF KeptBy
  <2> QED  BY <1>4, <2>4, <2>5
<1>5. CASE PassOver(i)
  BY <1>5 DEF PassOver, localVars
<1>6. CASE OpenFile(i)
  <2>1. /\ pc[i] = "extract" /\ pc'[i] = "writing" /\ at[i] \in Archives /\ at' = at
        /\ UNCHANGED <<localVars>> /\ disk' = [disk EXCEPT ![at[i]] = source[i]] /\ whole' = whole \ {at[i]}
    BY <1>2, <1>6 DEF OpenFile, Goto
  <2>2. disk'[at[i]] = source[i] /\ \A a \in Before(i) : disk'[a] = disk[a] /\ a # at[i]
    BY <1>1, <1>2, <2>1 DEF TypeOK, Before, Archives
  <2>3. \A a \in Before(i) : Good(i, a)
    BY <2>1 DEF KeptBy, localVars
  <2> QED  BY <2>1, <2>2, <2>3 DEF KeptBy, Good, Before, localVars
<1>7. CASE ExtractFile(i)
  <2>1. /\ pc[i] = "writing" /\ pc'[i] = "extract" /\ at[i] \in Archives /\ at'[i] = at[i] + 1
        /\ UNCHANGED <<localVars, disk>>
    BY <1>1, <1>2, <1>7 DEF ExtractFile, Goto, Advance, Sound, WritesArchive
  <2>2. whole' = whole \cup {at[i]}
    BY <1>7 DEF ExtractFile, WrittenByOther
  <2>3. Before(i)' \subseteq Before(i) \cup {at[i]}
    BY <1>2, <2>1 DEF Before, Archives
  <2>4. /\ \A a \in Before(i) : Good(i, a)
        /\ disk[at[i]] = source[i]
    BY <2>1 DEF KeptBy, localVars
  <2> QED  BY <2>1, <2>2, <2>3, <2>4 DEF KeptBy, Good, localVars
<1>8. CASE RecordFile(i)
  <2>1. /\ pc[i] = "record" /\ pc' = pc /\ at[i] \in Archives /\ at'[i] = at[i] + 1
        /\ UNCHANGED <<localVars, disk, whole>>
    BY <1>2, <1>8 DEF RecordFile, Advance, storeVars
  <2>2. \A a \in Archives : Good(i, a)
    BY <2>1 DEF KeptBy, localVars
  <2>3. disk[at[i]] # 0
    BY <1>1, <2>1, <2>2, BoundsAssumption DEF Good, TypeOK, Editions
  <2>4. i \in excused' \/ (records' = [records EXCEPT ![at[i]] = source[i]] /\ excused' = excused)
    BY <1>8, <2>3 DEF RecordFile
  <2>5. Before(i)' \subseteq Before(i) \cup {at[i]}
    BY <1>2, <2>1 DEF Before, Archives
  <2>6. ASSUME i \notin excused' PROVE \A a \in Before(i)' : records'[a] = source[i]
    <3>1. \A a \in Before(i) : records[a] = source[i]
      BY <2>1, <2>4, <2>6 DEF KeptBy, localVars
    <3> QED  BY <1>1, <2>1, <2>4, <2>5, <2>6, <3>1 DEF TypeOK, Before
  <2> QED  BY <2>1, <2>2, <2>6 DEF KeptBy, Good, localVars
<1> QED  BY <1>3, <1>4, <1>5, <1>6, <1>7, <1>8 DEF Loop

LEMMA KeptStep ==
    ASSUME ExtractionInv, Next
    PROVE  Kept'
<1> USE DEF ExtractionInv, ImportInv
<1> SUFFICES ASSUME NEW k \in (Active \ shared)' PROVE KeptBy(k)'
  BY DEF Kept
<1>1. k \in Imports
  BY DEF Active
<1>2. ASSUME k \in Active \ shared PROVE Active = {k} /\ KeptBy(k)
  BY <1>2 DEF Alone, Kept
<1>3. CASE \E i \in Imports : /\ Begin(i) /\ Active' = Active \cup {i}
                             /\ shared' = IF Active = {} THEN shared ELSE shared \cup Active \cup {i}
  <2>1. Begin(k)
    BY <1>3
  <2>2. pc'[k] = "validate"
    BY <1>1, <2>1 DEF Begin, Goto, TypeOK
  <2> QED  BY <2>2 DEF KeptBy
<1>4. CASE \E i \in Active : Loop(i) /\ Active' = Active /\ shared' = shared
  BY <1>1, <1>2, <1>4, LoopKeeps
<1>5. ASSUME NEW is \in SUBSET Imports, Return(is), Active' = Active \ is, shared' = shared \ is,
             UNCHANGED fileVars, is \cap Active = {} => excused' = excused
      PROVE  KeptBy(k)'
  <2>1. k \notin is /\ Active = {k} /\ KeptBy(k) /\ is \cap Active = {}
    BY <1>2, <1>5
  <2>2. /\ pc'[k] = pc[k] /\ source'[k] = source[k] /\ at'[k] = at[k] /\ skipped'[k] = skipped[k]
    BY <1>1, <1>5, <2>1, ReturnLocals
  <2> QED  BY <1>5, <2>1, <2>2 DEF KeptBy, Good, Before, fileVars
<1>6. CASE UNCHANGED <<fileVars, storeVars, localVars, historyVars, pc, at>> /\ Active' = Active
  <2>1. KeptBy(k)
    BY <1>2, <1>6 DEF historyVars
  <2> QED  BY <1>6, <2>1 DEF KeptBy, Good, Before, fileVars, localVars, historyVars
<1> QED  BY <1>3, <1>4, <1>5, <1>6, ActiveStep

\* An import that runs by itself and skipped nothing has put in place and
\* recorded every archive its loops have been through, of the edition it read.
THEOREM ExtractionInvariant == Spec => []ExtractionInv
<1>1. ExtractionInv /\ ImportInv' /\ [Next]_vars => ExtractionInv'
  <2> SUFFICES ASSUME ExtractionInv, ImportInv', [Next]_vars PROVE ExtractionInv'
    OBVIOUS
  <2>1. CASE Next
    BY <2>1, AloneStep, KeptStep DEF ExtractionInv
  <2>2. CASE UNCHANGED vars
    BY <2>2 DEF vars, fileVars, localVars, historyVars, ExtractionInv, Alone, Active, Kept, KeptBy, Before, Good
  <2> QED  BY <2>1, <2>2
<1> QED  BY <1>1, ImportInit, ImportInvariant, PTL DEF Spec

------------------------------------------------------------------------------
\* Every variable keeps its type.
THEOREM ImportTypeOK == Spec => []TypeOK
<1>1. ImportInv => TypeOK
  BY DEF ImportInv
<1> QED  BY <1>1, ImportInvariant, PTL

\* An import writes into the data directory only what it may.
THEOREM ImportAllOrNothing == Spec => []AllOrNothing
<1>1. ImportInv => AllOrNothing
  BY DEF ImportInv, Sound, MayExtract, SkipsJustified, AllOrNothing
<1> QED  BY <1>1, ImportInvariant, PTL

\* Only a cancellation, a crash or a failed write leaves a transfer "running".
THEOREM ImportTransferSettled == Spec => []TransferSettled
<1>1. ImportInv => TransferSettled
  BY DEF ImportInv, Sound, Settled, TransferSettled
<1> QED  BY <1>1, ImportInvariant, PTL

\* An import that ran by itself, skipped nothing and completed has every file in
\* place, whole and recorded.
THEOREM ImportCompletedIsExtracted == Spec => CompletedIsExtracted
<1>1. ExtractionInv /\ [Next]_vars =>
        [\A i \in Imports :
            /\ transfer[i] = "running" /\ transfer'[i] = "completed"
            /\ ~opts[i].verify /\ skipped[i] = {} /\ i \notin shared \cup excused
            => whole = Archives /\ \A a \in Archives : disk[a] = source[i] /\ records[a] = source[i]]_vars
  <2> SUFFICES ASSUME ExtractionInv, Next, NEW i \in Imports,
                      transfer[i] = "running", transfer'[i] = "completed",
                      ~opts[i].verify, skipped[i] = {}, i \notin shared \cup excused
               PROVE  whole = Archives /\ \A a \in Archives : disk[a] = source[i] /\ records[a] = source[i]
    BY DEF vars
  <2> USE DEF ExtractionInv, ImportInv
  <2>1. PICK j \in Imports : Begin(j) \/ RefuseIncomplete(j) \/ Loop(j) \/ Ends(j)
    BY StepKinds DEF Broken, storeVars
  <2>2. i = j
    BY <2>1, OthersKeep
  <2>3. Complete(i)
    <3>1. ~Begin(i) /\ ~RefuseIncomplete(i)
      BY DEF Begin, RefuseIncomplete, TypeOK, storeVars
    <3>2. ~Loop(i)
      BY DEF Loop, SkipValidated, ForceArchive, HashArchive, StartExtraction, PassOver, OpenFile, ExtractFile,
             StartRecording, RecordFile, storeVars
    <3>3. ~StopFailed(i) /\ ~StopVerified(i) /\ ~ExtractionFails(i)
      BY DEF StopFailed, StopVerified, ExtractionFails, Settle, TypeOK
    <3> QED  BY <2>1, <2>2, <3>1, <3>2, <3>3 DEF Ends
  <2>4. pc[i] = "record" /\ at[i] \notin Archives /\ i \in Active \ shared
    BY <2>3 DEF Complete, Active, Running
  <2>5. Before(i) = Archives
    BY <2>4, NumArchivesAssumption DEF TypeOK, Archives, Before
  <2>6. \A a \in Archives : Good(i, a) /\ records[a] = source[i]
    BY <2>4, <2>5 DEF Kept, KeptBy
  <2>7. whole \subseteq Archives
    BY DEF TypeOK
  <2> QED  BY <2>6, <2>7 DEF Good
<1> QED
  BY <1>1, ExtractionInvariant, PTL DEF Spec, CompletedIsExtracted
=============================================================================

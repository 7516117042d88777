------------------------ MODULE DownloadClientProofs ------------------------
(***************************************************************************)
(* Proofs about DownloadClient for any number of versions, of any sizes,   *)
(* attempts and calls: where bytes end up in the file, what a success      *)
(* means, and that a file that was bad on disk heals.                      *)
(***************************************************************************)
EXTENDS DownloadClient, SequenceTheorems, TLAPS

\* A wait is followed by an attempt, and a success ends the call.
Control ==
    /\ pc = "backoff" => attempt < RetryCount
    /\ result = "success" => pc = "idle"

\* How the file that is open relates to what the attempt counts: a file that is
\* appended to has the size counted unless Truncate failed, one that is written
\* from its start unless a removal failed, and the body begins where the size
\* counted ends unless the server answered something else.
Placed ==
    /\ pc = "request" =>
          /\ appending => fileSize = Len(file)
          /\ ~appending => fileSize = 0 /\ ("removal" \notin unnoticed => file = <<>>)
    /\ pc \in {"copy", "verify"} =>
          /\ appending /\ "truncation" \notin unnoticed => Len(file) = fileSize + got
          /\ ~appending => fileSize = 0 /\ got <= Len(file)
          /\ ~appending /\ "removal" \notin unnoticed => got = Len(file)
          /\ "answer" \notin unnoticed => skip = fileSize

\* At the end of a body the file ends with the last chunk of what was served:
\* a range that starts past the end is not answered, so at least one chunk came.
BodyReachesEnd ==
    unnoticed = {} =>
        /\ pc = "copy" => skip + got < Size[serving] \/ LastOf(serving)
        /\ pc = "verify" => LastOf(serving)

\* The chunks on disk are all of version v.
Pure(v) == \A i \in DOMAIN file : file[i].version = v

\* Without an expected size nothing is resumed, so that nothing is spliced.
NoSplice ==
    unnoticed = {} /\ want.size = 0 =>
        /\ pc = "request" => file = <<>>
        /\ pc \in {"copy", "verify"} => Pure(serving)

\* A call in which nothing fails asks for what is served; what an earlier call
\* left is found bad by the first attempt at the latest, and the second finds
\* nothing left, of the file or of what passed unnoticed.
CleanCall ==
    clean =>
        /\ pc \in Running =>
              /\ ~ctxDone
              /\ want.version = upstream /\ want.size \in {0, Size[upstream]}
              /\ attempt > 1 \/ pc = "backoff" => Pure(upstream) /\ unnoticed = {}
        /\ pc = "request" => fileSize < Size[upstream]
        /\ pc \in {"copy", "verify"} => serving = upstream
        /\ pc = "backoff" => attempt = 1
        /\ pc = "idle" /\ RetryCount > 1 => result = "success"

ClientInv ==
    /\ TypeOK /\ Control /\ Placed /\ AlignedBytes /\ BodyReachesEnd /\ NoSplice
    /\ AcceptedFile /\ CleanCall

------------------------------------------------------------------------------
\* A file of one version, with every chunk in its place and the last one
\* there, is that version.
LEMMA WholeFile ==
    ASSUME TypeOK, NEW v \in Versions, AlignedBytes, unnoticed = {}, Pure(v), LastOf(v)
    PROVE  file = Complete(v)
<1>1. file \in [1..Len(file) -> Chunk] /\ Len(file) \in Nat /\ DOMAIN file = 1..Len(file)
  BY LenProperties DEF TypeOK
<1>2. Len(file) = Size[v]
  <2>1. Len(file) \in DOMAIN file
    BY <1>1, EmptySeq DEF LastOf, TypeOK
  <2> QED  BY <2>1 DEF LastOf, AlignedBytes
<1>3. ASSUME NEW i \in 1..Len(file)
      PROVE  file[i] = [version |-> v, position |-> i]
  <2>1. file[i] \in Chunk /\ file[i].version = v /\ file[i].position = i
    BY <1>1 DEF Pure, AlignedBytes
  <2> QED  BY <2>1 DEF Chunk
<1>4. file = [i \in 1..Size[v] |-> [version |-> v, position |-> i]]
  BY <1>1, <1>2, <1>3
<1> QED  BY <1>4 DEF Complete

\* What a receive writes, and where.
LEMMA ReceiveFile ==
    ASSUME TypeOK, Receive, ~appending => got <= Len(file)
    PROVE  LET c == [version |-> serving, position |-> skip + got + 1]
               n == Len(file) IN
           /\ c \in Chunk /\ n \in Nat /\ DOMAIN file = 1..n
           /\ file' \in Seq(Chunk) /\ DOMAIN file' = 1..Len(file') /\ file' # <<>>
           /\ AtEnd => /\ Len(file') = n + 1 /\ file'[n + 1] = c
                       /\ \A i \in 1..n : file'[i] = file[i]
           /\ ~AtEnd => /\ Len(file') = n /\ got + 1 \in 1..n /\ file'[got + 1] = c
                        /\ \A i \in 1..n : i # got + 1 => file'[i] = file[i]
<1> DEFINE c == [version |-> serving, position |-> skip + got + 1]
           n == Len(file)
<1>1. c \in Chunk /\ n \in Nat /\ DOMAIN file = 1..n /\ got \in Nat /\ file \in Seq(Chunk)
  BY LenProperties DEF TypeOK, Chunk
<1>2. file' = IF AtEnd THEN Append(file, c) ELSE [file EXCEPT ![got + 1] = c]
  BY DEF Receive
<1> HIDE DEF c
<1>3. CASE AtEnd
  <2>1. /\ file' \in Seq(Chunk) /\ Len(file') = n + 1 /\ file'[n + 1] = c
        /\ \A i \in 1..n : file'[i] = file[i]
    BY <1>1, <1>2, <1>3
  <2>2. DOMAIN file' = 1..Len(file') /\ file' # <<>>
    BY <1>1, <2>1, LenProperties, EmptySeq
  <2> QED  BY <1>1, <1>3, <2>1, <2>2 DEF c
<1>4. CASE ~AtEnd
  <2>1. got + 1 \in 1..n
    BY <1>1, <1>4 DEF AtEnd
  <2>2. file' = [file EXCEPT ![got + 1] = c]
    BY <1>2, <1>4
  <2>3. file' \in Seq(Chunk) /\ Len(file') = n
    BY <1>1, <2>1, <2>2, ExceptSeq
  <2>4. DOMAIN file' = 1..Len(file') /\ file' # <<>>
    BY <1>1, <2>1, <2>3, LenProperties, EmptySeq
  <2>5. file'[got + 1] = c /\ \A i \in 1..n : i # got + 1 => file'[i] = file[i]
    BY <1>1, <2>1, <2>2
  <2> QED  BY <1>1, <1>4, <2>1, <2>3, <2>4, <2>5 DEF c
<1> QED  BY <1>3, <1>4

\* As long as nothing passed unnoticed, a receive puts its chunk at the end.
LEMMA ReceiveAtEnd ==
    ASSUME TypeOK, Placed, Receive, {"removal", "truncation"} \cap unnoticed = {}
    PROVE  /\ AtEnd /\ Len(file) \in Nat /\ Len(file') = Len(file) + 1 /\ file' # <<>>
           /\ file'[Len(file')] = [version |-> serving, position |-> skip + got + 1]
           /\ DOMAIN file' = 1..(Len(file) + 1)
           /\ \A i \in 1..Len(file) : file'[i] = file[i]
<1>1. pc = "copy" /\ got \in Nat /\ Len(file) \in Nat /\ fileSize \in Nat
  BY LenProperties DEF TypeOK, Receive
<1>2. AtEnd /\ (~appending => got <= Len(file))
  BY <1>1 DEF Placed, AtEnd
<1> QED  BY <1>1, <1>2, ReceiveFile

\* Emptying the file works, and with it goes what had passed unnoticed, or it
\* leaves the file and the call is not clean.
LEMMA EmptyFileEffect ==
    ASSUME TypeOK, NEW kind \in Kinds, NEW good \in BOOLEAN, EmptyFile(kind, good)
    PROVE  /\ file' \in Seq(Chunk) /\ unnoticed' \subseteq Kinds
           /\ \/ file' = <<>> /\ unnoticed' = {} /\ (clean' => good)
              \/ file' = file /\ unnoticed' = unnoticed \cup {kind} /\ ~clean'
<1>1. CASE file' = <<>> /\ unnoticed' = {} /\ clean' = good
  BY <1>1, EmptySeq
<1>2. CASE file # <<>> /\ UNCHANGED file /\ LetPass(kind)
  BY <1>2 DEF TypeOK, LetPass
<1> QED  BY <1>1, <1>2 DEF EmptyFile

LEMMA ClientInit == Init => ClientInv
<1> SUFFICES ASSUME Init PROVE ClientInv
  OBVIOUS
<1>1. file = <<>> /\ DOMAIN file = {} /\ file \in Seq(Chunk)
  BY EmptySeq, LenProperties DEF Init
<1>2. ctxDone \in BOOLEAN /\ clean \in BOOLEAN /\ appending \in BOOLEAN /\ want \in Options
  BY DEF Init, Options
<1>3. TypeOK
  BY <1>1, <1>2, RetryAssumption, CallsAssumption DEF Init, TypeOK
<1> QED
  BY <1>1, <1>3 DEF Init, ClientInv, Control, Placed, AlignedBytes, BodyReachesEnd, NoSplice,
                    AcceptedFile, CleanCall, Running

\* The steps that keep the file, its requests, the call's options and what is
\* unnoticed, and stay in the phase or leave it for one that is before a request.
Passive ==
    /\ UNCHANGED <<file, want, requestVars, unnoticed>>
    /\ pc' = pc \/ pc' \in {"attempt", "idle", "backoff"}

LEMMA PassiveStep ==
    ASSUME Next
    PROVE  \/ Passive
           \/ Call \/ Open \/ OpenFails \/ Refused \/ PartialContent \/ Whole
           \/ Receive \/ BodyEnds \/ BodyCut \/ Reject
BY DEF Next, ClientStep, Passive, Publish, Cancel, Crash, NoMoreCalls, ReturnCancelled, RequestFails, TimesOut,
       BodyBreaks, Accept, HashFails, Retry, Fail, Return, vars, envVars

\* What each step of these does to the file and to what is unnoticed.
LEMMA FileStep ==
    ASSUME ClientInv, Next
    PROVE  \/ Receive /\ UNCHANGED unnoticed
           \/ file' = <<>> /\ unnoticed' = {} /\ pc \in Running
           \/ file' = file /\ unnoticed \subseteq unnoticed' /\ unnoticed' \subseteq Kinds
<1> USE DEF ClientInv
<1>1. unnoticed \subseteq Kinds
  BY DEF TypeOK
<1>2. CASE Passive \/ Call
  BY <1>1, <1>2 DEF Passive, Call
<1>3. CASE Open \/ OpenFails
  BY <1>1, <1>3 DEF Open, OpenFails, EmptyFile, LetPass, Kinds, Running
<1>4. CASE Refused \/ Reject \/ Whole
  BY <1>1, <1>4 DEF Refused, Reject, Whole, Answered, EmptyFile, LetPass, Kinds, Running
<1>5. CASE PartialContent \/ BodyEnds \/ BodyCut
  BY <1>1, <1>5 DEF PartialContent, BodyEnds, BodyCut, LetPass, Kinds
<1>6. CASE Receive
  BY <1>6 DEF Receive
<1> QED  BY <1>2, <1>3, <1>4, <1>5, <1>6, PassiveStep

\* The Boolean variables stay Boolean.
LEMMA BooleanStep ==
    ASSUME ClientInv, Next
    PROVE  ctxDone' \in BOOLEAN /\ clean' \in BOOLEAN /\ appending' \in BOOLEAN
<1>1. ctxDone \in BOOLEAN /\ clean \in BOOLEAN /\ appending \in BOOLEAN
  BY DEF ClientInv, TypeOK
<1>2. CASE Call
  BY <1>1, <1>2 DEF Call, requestVars, openVars
<1>3. CASE Publish \/ Cancel \/ Crash \/ NoMoreCalls
  BY <1>1, <1>3 DEF Publish, Cancel, Crash, NoMoreCalls, envVars, requestVars, openVars, vars
<1>4. CASE Open \/ OpenFails
  BY <1>1, <1>4 DEF Open, OpenFails, EmptyFile, LetPass, envVars, requestVars, openVars
<1>5. CASE Refused \/ PartialContent \/ Whole
  BY <1>1, <1>5 DEF Refused, PartialContent, Whole, Answered, EmptyFile, LetPass, envVars, requestVars, openVars
<1>6. CASE Receive \/ BodyEnds \/ BodyCut \/ BodyBreaks
  BY <1>1, <1>6 DEF Receive, BodyEnds, BodyCut, BodyBreaks, LetPass, envVars, requestVars, openVars
<1>7. CASE Accept \/ Reject \/ HashFails \/ Retry
  BY <1>1, <1>7 DEF Accept, Reject, HashFails, Retry, EmptyFile, LetPass, envVars, requestVars, openVars
<1>8. CASE ReturnCancelled \/ RequestFails \/ TimesOut
  BY <1>1, <1>8 DEF ReturnCancelled, RequestFails, TimesOut, envVars, requestVars, openVars
<1> QED
  BY <1>2, <1>3, <1>4, <1>5, <1>6, <1>7, <1>8 DEF Next, ClientStep

\* The file and what is unnoticed keep their types.
LEMMA FileTypeStep ==
    ASSUME ClientInv, Next
    PROVE  file' \in Seq(Chunk) /\ unnoticed' \subseteq Kinds
<1>1. CASE Receive
  <2>1. ~appending => got <= Len(file)
    BY <1>1 DEF ClientInv, Placed, Receive
  <2> QED  BY <1>1, <2>1, ReceiveFile DEF ClientInv, TypeOK, Receive
<1>2. CASE ~Receive
  BY <1>2, FileStep, EmptySeq DEF ClientInv, TypeOK
<1> QED  BY <1>1, <1>2

\* The counters of the request keep their types.
LEMMA CounterStep ==
    ASSUME ClientInv, Next
    PROVE  fileSize' \in Nat /\ skip' \in Nat /\ got' \in Nat /\ serving' \in Versions
<1> USE DEF ClientInv, TypeOK
<1>1. CASE Open
  <2>1. Len(file) \in Nat
    BY LenProperties
  <2>2. fileSize' \in {0, Len(file)} /\ UNCHANGED bodyVars
    BY <1>1 DEF Open
  <2> QED  BY <2>1, <2>2 DEF bodyVars
<1>2. CASE PartialContent
  <2>1. Size[upstream] \in Nat
    BY SizeAssumption
  <2> QED  BY <1>2, <2>1 DEF PartialContent, Answered, openVars
<1>3. CASE Whole \/ Receive
  BY <1>3 DEF Whole, Answered, Receive, openVars
<1>4. CASE UNCHANGED requestVars
  BY <1>4 DEF requestVars, openVars, bodyVars
<1>5. CASE Call \/ OpenFails \/ Refused \/ BodyEnds \/ BodyCut \/ Reject \/ Passive
  BY <1>4, <1>5 DEF Call, OpenFails, Refused, BodyEnds, BodyCut, Reject, Passive
<1> QED  BY <1>1, <1>2, <1>3, <1>5, PassiveStep

\* Types, and what the control alone keeps.
LEMMA TypeStep ==
    ASSUME ClientInv, Next
    PROVE  TypeOK' /\ Control'
<1>0. /\ upstream' \in Versions /\ want' \in Options /\ calls' \in 0..MaxCalls
      /\ pc' \in Running \cup {"idle"} /\ attempt' \in 1..RetryCount
      /\ result' \in {"none", "success", "error", "cancelled", "crashed"}
      /\ Control'
  <2> USE SizeAssumption, RetryAssumption, CallsAssumption DEF ClientInv, TypeOK, Control, Running
  <2>1. CASE Call
    BY <2>1 DEF Call
  <2>2. CASE Publish \/ Cancel \/ Crash \/ NoMoreCalls
    BY <2>2 DEF Publish, Cancel, Crash, NoMoreCalls, Return, envVars, vars
  <2>3. CASE Open \/ OpenFails
    BY <2>3 DEF Open, OpenFails, FailAtOnce, Return, envVars
  <2>4. CASE ReturnCancelled \/ RequestFails \/ TimesOut \/ Refused
    BY <2>4 DEF ReturnCancelled, RequestFails, TimesOut, Refused, Fail, Return, envVars
  <2>5. CASE PartialContent \/ Whole
    BY <2>5 DEF PartialContent, Whole, Answered, envVars
  <2>6. CASE Receive \/ BodyEnds \/ BodyCut \/ BodyBreaks
    BY <2>6 DEF Receive, BodyEnds, BodyCut, BodyBreaks, Fail, Return, envVars
  <2>7. CASE Accept \/ Reject \/ HashFails \/ Retry
    BY <2>7 DEF Accept, Reject, HashFails, Retry, Fail, Return, envVars
  <2> QED
    BY <2>1, <2>2, <2>3, <2>4, <2>5, <2>6, <2>7 DEF Next, ClientStep
<1> QED
  BY <1>0, BooleanStep, FileTypeStep, CounterStep DEF TypeOK

\* An emptied file has no chunk that could be out of place.
LEMMA Emptied == ASSUME file' = <<>>
                 PROVE  Len(file') = 0 /\ DOMAIN file' = {} /\ AlignedBytes'
<1>1. Len(file') = 0 /\ DOMAIN file' = {}
  BY EmptySeq, LenProperties
<1> QED  BY <1>1 DEF AlignedBytes

\* The chunk received is put where its version has it.
LEMMA AlignStep ==
    ASSUME ClientInv, Next
    PROVE  AlignedBytes'
<1> USE DEF ClientInv
<1>1. CASE Receive /\ UNCHANGED unnoticed
  <2> SUFFICES ASSUME unnoticed \subseteq {"cut", "removal"}
               PROVE  \A i \in DOMAIN file' : file'[i].position = i
    BY <1>1 DEF AlignedBytes
  <2> DEFINE c == [version |-> serving, position |-> skip + got + 1]
             n == Len(file)
  <2>1. pc = "copy" /\ got \in Nat /\ skip \in Nat /\ fileSize \in Nat /\ "answer" \notin unnoticed
        /\ "truncation" \notin unnoticed
    BY <1>1 DEF Receive, TypeOK
  <2>2. /\ skip = fileSize /\ (appending => n = fileSize + got)
        /\ ~appending => fileSize = 0 /\ got <= n
    BY <2>1 DEF Placed
  <2>3. /\ n \in Nat /\ DOMAIN file = 1..n /\ DOMAIN file' = 1..Len(file')
        /\ AtEnd => /\ Len(file') = n + 1 /\ file'[n + 1] = c
                    /\ \A i \in 1..n : file'[i] = file[i]
        /\ ~AtEnd => /\ Len(file') = n /\ got + 1 \in 1..n /\ file'[got + 1] = c
                     /\ \A i \in 1..n : i # got + 1 => file'[i] = file[i]
    BY <1>1, <2>2, ReceiveFile
  <2>4. c.position = skip + got + 1
    OBVIOUS
  <2> HIDE DEF c, n
  <2>5. \A i \in 1..n : file[i].position = i
    BY <2>3 DEF AlignedBytes
  <2>6. CASE AtEnd
    <3>1. appending => n = skip + got
      BY <2>2
    <3>2. ~appending => got >= n
      BY <2>6 DEF AtEnd, n
    <3>3. n = skip + got
      <4>1. CASE appending
        BY <3>1, <4>1
      <4>2. CASE ~appending
        <5>1. skip = 0 /\ got <= n /\ got >= n
          BY <2>2, <3>2, <4>2
        <5>2. n \in Nat
          BY <2>3
        <5> QED  BY <2>1, <5>1, <5>2
      <4> QED  BY <4>1, <4>2
    <3> QED  BY <2>3, <2>4, <2>5, <2>6, <3>3
  <2>7. CASE ~AtEnd
    <3>1. skip = 0
      BY <2>2, <2>7 DEF AtEnd
    <3> QED  BY <2>1, <2>3, <2>4, <2>5, <2>7, <3>1
  <2> QED  BY <2>6, <2>7
<1>2. CASE file' = <<>>
  BY <1>2, Emptied
<1>3. CASE file' = file /\ unnoticed \subseteq unnoticed'
  BY <1>3 DEF AlignedBytes
<1> QED  BY <1>1, <1>2, <1>3, FileStep

\* The steps after which no file is open and no request is under way.
LEMMA LeaveStep ==
    ASSUME Call \/ OpenFails \/ Refused \/ Reject
    PROVE  pc' \notin {"request", "copy", "verify"}
BY DEF Call, OpenFails, Refused, Reject, Fail, FailAtOnce, Return

\* The sizes counted stay those of the file.
LEMMA PlaceStep ==
    ASSUME ClientInv, Next
    PROVE  Placed'
<1> USE DEF ClientInv
<1>0. Len(file) \in Nat /\ fileSize \in Nat /\ got \in Nat /\ Len(<<>>) = 0
  BY LenProperties, EmptySeq DEF TypeOK
<1>1. CASE Passive
  BY <1>1 DEF Passive, Placed, requestVars, openVars, bodyVars
<1>2. CASE Call \/ OpenFails \/ Refused \/ Reject
  BY <1>2, LeaveStep DEF Placed
<1>3. CASE Open
  <2>1. pc' = "request"
    BY <1>3 DEF Open
  <2>2. CASE Resumable
    <3>1. fileSize' = Len(file) /\ appending' = (file # <<>>) /\ file' = file
      BY <1>3, <2>2 DEF Open
    <3>2. CASE file = <<>>
      <4>1. ~appending' /\ fileSize' = 0 /\ file' = <<>>
        BY <1>0, <3>1, <3>2
      <4> QED  BY <2>1, <4>1 DEF Placed
    <3>3. CASE file # <<>>
      <4>1. appending' /\ fileSize' = Len(file')
        BY <3>1, <3>3
      <4> QED  BY <2>1, <4>1 DEF Placed
    <3> QED  BY <3>2, <3>3
  <2>3. CASE ~Resumable
    <3>1. fileSize' = 0 /\ ~appending' /\ (file' = <<>> \/ "removal" \in unnoticed')
      BY <1>3, <2>3 DEF Open, EmptyFile, LetPass
    <3> QED  BY <2>1, <3>1 DEF Placed
  <2> QED  BY <2>2, <2>3
<1>4. CASE PartialContent
  <2>1. /\ pc = "request" /\ pc' = "copy" /\ got' = 0
        /\ UNCHANGED <<file, fileSize, appending>> /\ unnoticed \subseteq unnoticed'
        /\ skip' = fileSize \/ "answer" \in unnoticed'
    BY <1>4 DEF PartialContent, Answered, LetPass, openVars
  <2>2. appending' => Len(file') = fileSize' + got'
    BY <1>0, <2>1 DEF Placed
  <2>3. ~appending' => fileSize' = 0 /\ got' <= Len(file') /\ ("removal" \notin unnoticed' => got' = Len(file'))
    BY <1>0, <2>1 DEF Placed
  <2>4. "answer" \notin unnoticed' => skip' = fileSize'
    BY <2>1
  <2> QED  BY <2>1, <2>2, <2>3, <2>4 DEF Placed
<1>5. CASE Whole
  <2>1. pc = "request" /\ pc' = "copy" /\ got' = 0 /\ skip' = 0 /\ fileSize' = 0 /\ appending' = appending
    BY <1>5 DEF Whole, Answered
  <2>2. CASE fileSize > 0
    <3>1. file' = <<>> \/ (file' = file /\ "truncation" \in unnoticed')
      BY <1>5, <2>2 DEF Whole, EmptyFile, LetPass
    <3>2. appending
      BY <2>1, <2>2 DEF Placed
    <3> QED  BY <1>0, <2>1, <3>1, <3>2 DEF Placed
  <2>3. CASE ~(fileSize > 0)
    <3>1. UNCHANGED <<file, unnoticed>> /\ fileSize = 0
      BY <1>0, <1>5, <2>3 DEF Whole
    <3>2. appending' => Len(file') = fileSize' + got'
      BY <1>0, <2>1, <3>1 DEF Placed
    <3>3. ~appending' => got' <= Len(file') /\ ("removal" \notin unnoticed' => got' = Len(file'))
      BY <1>0, <2>1, <3>1 DEF Placed
    <3> QED  BY <2>1, <3>2, <3>3 DEF Placed
  <2> QED  BY <2>2, <2>3
<1>6. CASE Receive
  <2>1. pc = "copy" /\ pc' = "copy" /\ got' = got + 1 /\ UNCHANGED <<fileSize, appending, skip, unnoticed>>
    BY <1>6 DEF Receive, openVars
  <2>2. ~appending => got <= Len(file)
    BY <2>1 DEF Placed
  <2>3. Len(file') = IF AtEnd THEN Len(file) + 1 ELSE Len(file)
    BY <1>6, <2>2, ReceiveFile
  <2>4. appending => AtEnd
    BY DEF AtEnd
  <2>5. ~appending /\ AtEnd => got = Len(file)
    BY <1>0, <2>2 DEF AtEnd
  <2>6. ~AtEnd => got < Len(file)
    BY <1>0 DEF AtEnd
  <2> QED  BY <1>0, <2>1, <2>2, <2>3, <2>4, <2>5, <2>6 DEF Placed
<1>7. CASE BodyEnds \/ BodyCut
  <2>1. pc = "copy" /\ pc' = "verify" /\ UNCHANGED <<file, fileSize, appending, skip, got>>
        /\ unnoticed \subseteq unnoticed'
    BY <1>7 DEF BodyEnds, BodyCut, LetPass, requestVars, openVars, bodyVars
  <2> QED  BY <2>1 DEF Placed
<1> QED
  BY <1>1, <1>2, <1>3, <1>4, <1>5, <1>6, <1>7, PassiveStep

\* A body is complete only with its last chunk in place.
LEMMA BodyStep ==
    ASSUME ClientInv, Next
    PROVE  BodyReachesEnd'
<1> USE DEF ClientInv
<1>1. CASE Passive
  BY <1>1 DEF Passive, BodyReachesEnd, LastOf, requestVars, bodyVars
<1>2. CASE Call \/ OpenFails \/ Refused \/ Reject
  BY <1>2, LeaveStep DEF BodyReachesEnd
<1>3. CASE Open
  BY <1>3 DEF Open, BodyReachesEnd
<1>4. CASE PartialContent
  <2>1. PICK s \in 0..Size[upstream] :
            /\ Answered(s)
            /\ \/ s = fileSize /\ s < Size[upstream] /\ UNCHANGED <<clean, unnoticed>>
               \/ (s # fileSize \/ s = Size[upstream]) /\ LetPass("answer")
    BY <1>4 DEF PartialContent
  <2>2. pc' = "copy" /\ skip' = s /\ got' = 0 /\ serving' = upstream
    BY <2>1 DEF Answered
  <2>3. unnoticed' = {} => s < Size[upstream]
    BY <2>1 DEF LetPass
  <2>4. s \in Nat /\ s + 0 = s
    BY SizeAssumption DEF TypeOK
  <2> QED  BY <2>2, <2>3, <2>4 DEF BodyReachesEnd
<1>5. CASE Whole
  <2>1. pc' = "copy" /\ skip' = 0 /\ got' = 0 /\ serving' = upstream
    BY <1>5 DEF Whole, Answered
  <2>2. 0 + 0 < Size[upstream]
    BY SizeAssumption DEF TypeOK
  <2> QED  BY <2>1, <2>2 DEF BodyReachesEnd
<1>6. CASE Receive
  <2>1. pc' = "copy" /\ serving' = serving /\ skip' = skip /\ got' = got + 1 /\ skip + got < Size[serving]
        /\ unnoticed' = unnoticed
    BY <1>6 DEF Receive
  <2>2. skip \in Nat /\ got \in Nat /\ Size[serving] \in Nat
    BY SizeAssumption DEF TypeOK
  <2> SUFFICES ASSUME unnoticed = {}, ~(skip + (got + 1) < Size[serving]) PROVE LastOf(serving)'
    BY <2>1 DEF BodyReachesEnd
  <2>3. skip + got + 1 = Size[serving]
    BY <2>1, <2>2
  <2>4. file' # <<>> /\ file'[Len(file')] = [version |-> serving, position |-> skip + got + 1]
    BY <1>6, ReceiveAtEnd
  <2> QED  BY <2>1, <2>3, <2>4 DEF LastOf
<1>7. CASE BodyEnds
  <2>1. pc = "copy" /\ ~(skip + got < Size[serving]) /\ UNCHANGED <<file, serving, unnoticed>> /\ pc' = "verify"
    BY <1>7, SizeAssumption DEF BodyEnds, TypeOK, requestVars, bodyVars
  <2> QED  BY <2>1 DEF BodyReachesEnd, LastOf
<1>8. CASE BodyCut
  BY <1>8 DEF BodyCut, LetPass, BodyReachesEnd
<1> QED
  BY <1>1, <1>2, <1>3, <1>4, <1>5, <1>6, <1>7, <1>8, PassiveStep

\* Without an expected size the file is of one version.
LEMMA SpliceStep ==
    ASSUME ClientInv, Next
    PROVE  NoSplice'
<1> USE DEF ClientInv
<1>1. CASE Passive
  BY <1>1 DEF Passive, NoSplice, Pure, requestVars, bodyVars
<1>2. CASE Call \/ OpenFails \/ Refused \/ Reject
  BY <1>2, LeaveStep DEF NoSplice
<1>3. CASE Open
  <2>1. pc' = "request" /\ want' = want
    BY <1>3 DEF Open
  <2>2. want.size = 0 /\ unnoticed' = {} => file' = <<>>
    BY <1>3 DEF Open, Resumable, EmptyFile, LetPass
  <2> QED  BY <2>1, <2>2 DEF NoSplice
<1>4. CASE PartialContent
  <2>1. pc = "request" /\ UNCHANGED <<file, want>> /\ pc' = "copy" /\ unnoticed \subseteq unnoticed'
    BY <1>4 DEF PartialContent, Answered, LetPass
  <2>2. file = <<>> => Pure(serving)'
    BY <2>1, Emptied DEF Pure
  <2>3. unnoticed' = {} => unnoticed = {}
    BY <2>1
  <2> QED  BY <2>1, <2>2, <2>3 DEF NoSplice
<1>5. CASE Whole
  <2>1. pc = "request" /\ pc' = "copy" /\ want' = want
        /\ \/ file' = <<>>
           \/ file' = file /\ unnoticed \subseteq unnoticed'
    BY <1>5 DEF Whole, Answered, EmptyFile, LetPass
  <2>2. file' = <<>> => Pure(serving)'
    BY Emptied DEF Pure
  <2>3. file' = file /\ unnoticed \subseteq unnoticed' /\ unnoticed' = {} /\ want.size = 0 => file' = <<>>
    BY <2>1 DEF NoSplice
  <2> QED  BY <2>1, <2>2, <2>3 DEF NoSplice
<1>6. CASE Receive
  <2>1. pc = "copy" /\ pc' = "copy" /\ want' = want /\ serving' = serving /\ unnoticed' = unnoticed
    BY <1>6 DEF Receive
  <2> SUFFICES ASSUME want.size = 0, unnoticed = {} PROVE Pure(serving)'
    BY <2>1 DEF NoSplice
  <2>2. Pure(serving) /\ DOMAIN file = 1..Len(file) /\ Len(file) \in Nat
    BY <2>1, LenProperties DEF NoSplice, TypeOK
  <2>3. ASSUME NEW i \in DOMAIN file' PROVE file'[i].version = serving
    <3>1. i \in 1..(Len(file) + 1)
      BY <1>6, <2>3, ReceiveAtEnd
    <3>2. CASE i = Len(file) + 1
      BY <1>6, <3>2, ReceiveAtEnd
    <3>3. CASE i \in 1..Len(file)
      BY <1>6, <2>2, <3>3, ReceiveAtEnd DEF Pure
    <3> QED  BY <2>2, <3>1, <3>2, <3>3
  <2> QED  BY <2>1, <2>3 DEF Pure
<1>7. CASE BodyEnds \/ BodyCut
  <2>1. pc = "copy" /\ pc' = "verify" /\ UNCHANGED <<file, want, serving>> /\ unnoticed \subseteq unnoticed'
    BY <1>7 DEF BodyEnds, BodyCut, LetPass, requestVars, bodyVars
  <2>2. unnoticed' = {} => unnoticed = {}
    BY <2>1
  <2> QED  BY <2>1, <2>2 DEF NoSplice, Pure
<1> QED
  BY <1>1, <1>2, <1>3, <1>4, <1>5, <1>6, <1>7, PassiveStep

\* What is accepted has its checksum; its size, if only that was checked and the
\* file is what was counted; and if nothing passed unnoticed it ends where its
\* version ends and is that version unless only its size was checked.
LEMMA AcceptStep ==
    ASSUME ClientInv, Next
    PROVE  AcceptedFile'
<1> USE DEF ClientInv
<1>1. CASE Accept
  <2>1. UNCHANGED <<file, want, unnoticed>> /\ pc = "verify" /\ serving \in Versions /\ Intact
        /\ want.version \in Versions
    BY <1>1 DEF Accept, TypeOK, Options
  <2>2. want.checksum => file = Complete(want.version)
    BY <2>1 DEF Intact
  <2>3. ASSUME ~want.checksum, want.size # 0, {"removal", "truncation"} \cap unnoticed = {}
        PROVE  Len(file) = want.size
    <3>1. want.size \in Nat /\ Len(file) \in Nat /\ fileSize \in Nat /\ got \in Nat
      BY SizeAssumption, LenProperties DEF TypeOK, Options, Known
    <3>2. fileSize + got = want.size
      BY <2>1, <2>3, <3>1 DEF Intact
    <3>3. Len(file) = fileSize + got
      BY <2>1, <2>3, <3>1 DEF Placed
    <3> QED  BY <3>2, <3>3
  <2>4. ASSUME unnoticed = {}
        PROVE  /\ LastOf(serving)
               /\ (\E v \in Versions : file = Complete(v)) \/ (~want.checksum /\ Len(file) = want.size)
    <3>1. LastOf(serving)
      BY <2>1, <2>4 DEF BodyReachesEnd
    <3>2. CASE want.checksum
      BY <2>1, <2>2, <3>1, <3>2
    <3>3. CASE ~want.checksum /\ want.size # 0
      BY <2>3, <2>4, <3>1, <3>3
    <3>4. CASE want.size = 0
      <4>1. Pure(serving)
        BY <2>1, <2>4, <3>4 DEF NoSplice
      <4> QED  BY <2>1, <2>4, <3>1, <4>1, WholeFile
    <3> QED  BY <3>1, <3>2, <3>3, <3>4
  <2>5. want.size > 0 => want.size # 0
    BY SizeAssumption DEF TypeOK, Options, Known
  <2>6. AcceptedFile
    BY <2>1, <2>2, <2>3, <2>4, <2>5 DEF AcceptedFile
  <2> HIDE DEF ClientInv
  <2>7. /\ want'.checksum => file' = Complete(want'.version)
        /\ ~want'.checksum /\ want'.size > 0 /\ unnoticed' \subseteq {"cut", "answer"} => Len(file') = want'.size
    BY <2>1, <2>2, <2>3, <2>5
  <2>8. unnoticed' = {} =>
          /\ \E v \in Versions : LastOf(v)'
          /\ (\E v \in Versions : file' = Complete(v)) \/ (~want'.checksum /\ Len(file') = want'.size)
    <3>1. unnoticed = {} => LastOf(serving)
      BY <2>4
    <3>2. unnoticed = {} => \E v \in Versions : LastOf(v)'
      BY <2>1, <3>1 DEF LastOf
    <3> QED  BY <2>1, <2>4, <3>2
  <2> QED  BY <2>7, <2>8 DEF AcceptedFile
<1>2. CASE ~Accept
  <2>1. result' = "success" => /\ UNCHANGED <<file, want, unnoticed>>
                               /\ result = "success"
    <3>1. pc = "idle" => UNCHANGED <<file, want, unnoticed>> \/ result' = "none"
      BY DEF Next, ClientStep, Call, Publish, Cancel, Crash, NoMoreCalls, Open, OpenFails, ReturnCancelled,
             RequestFails, TimesOut, Refused, PartialContent, Whole, Answered, Receive, BodyEnds, BodyCut,
             BodyBreaks, Accept, Reject, HashFails, Retry, vars, Running
    <3>2. result' \in {result, "none", "error", "cancelled", "crashed"}
      BY <1>2 DEF Next, ClientStep, Call, Publish, Cancel, Crash, NoMoreCalls, Open, OpenFails, ReturnCancelled,
             RequestFails, TimesOut, Refused, PartialContent, Whole, Answered, Receive, BodyEnds, BodyCut,
             BodyBreaks, Reject, HashFails, Retry, Fail, FailAtOnce, Return, vars
    <3> QED  BY <3>1, <3>2 DEF Control
  <2> QED  BY <2>1 DEF AcceptedFile, LastOf
<1> QED  BY <1>1, <1>2

\* A step after which the call is still clean is one in which nothing fails.
LEMMA CleanSteps ==
    ASSUME ClientInv, Next, clean'
    PROVE  \/ Call \/ NoMoreCalls
           \/ clean /\ (Receive \/ BodyEnds \/ Accept \/ Retry \/ ReturnCancelled)
           \/ clean /\ Open /\ (Resumable \/ (file' = <<>> /\ unnoticed' = {}))
           \/ clean /\ PartialContent /\ skip' = fileSize /\ UNCHANGED unnoticed
           \/ clean /\ Whole /\ (UNCHANGED <<file, unnoticed>> \/ (file' = <<>> /\ unnoticed' = {}))
           \/ clean /\ Reject /\ file' = <<>> /\ unnoticed' = {}
           \/ clean /\ Refused /\ fileSize >= Size[upstream]
<1>1. ~(Publish \/ Cancel \/ Crash \/ OpenFails \/ RequestFails \/ TimesOut \/ BodyCut \/ BodyBreaks \/ HashFails)
  BY DEF Publish, Cancel, Crash, OpenFails, RequestFails, TimesOut, BodyCut, LetPass, BodyBreaks, HashFails
<1>2. CASE Open
  BY <1>2 DEF Open, EmptyFile, LetPass
<1>3. CASE Receive \/ BodyEnds \/ Accept \/ Retry \/ ReturnCancelled
  BY <1>3 DEF Receive, BodyEnds, Accept, Retry, ReturnCancelled
<1>4. CASE PartialContent
  BY <1>4 DEF PartialContent, Answered, LetPass
<1>5. CASE Whole
  BY <1>5 DEF Whole, EmptyFile, LetPass
<1>6. CASE Reject
  BY <1>6 DEF Reject, EmptyFile, LetPass
<1>7. CASE Refused
  BY <1>7 DEF Refused, EmptyFile, LetPass
<1> QED  BY <1>1, <1>2, <1>3, <1>4, <1>5, <1>6, <1>7 DEF Next, ClientStep

\* A clean call finds what is wrong with the file at its first attempt, and
\* its second attempt starts from nothing.
LEMMA CleanStep ==
    ASSUME ClientInv, Next
    PROVE  CleanCall'
<1> SUFFICES ASSUME clean' PROVE CleanCall'
  BY DEF CleanCall
<1> USE DEF ClientInv
<1>1. CASE Call
  <2>1. PICK o \in Options : want' = o /\ clean' = (o.version = upstream /\ o.size \in {0, Size[upstream]})
    BY <1>1 DEF Call
  <2>2. want'.version = upstream /\ want'.size \in {0, Size[upstream]}
    BY <2>1
  <2>3. pc' = "attempt" /\ attempt' = 1 /\ ~ctxDone' /\ upstream' = upstream
    BY <1>1 DEF Call
  <2> QED  BY <2>2, <2>3 DEF CleanCall
<1>2. CASE clean /\ Open /\ (Resumable \/ (file' = <<>> /\ unnoticed' = {}))
  <2>1. UNCHANGED <<want, upstream, ctxDone, attempt>> /\ pc = "attempt" /\ pc' = "request"
    BY <1>2 DEF Open, envVars
  <2>2. Len(file) \in Nat /\ Size[upstream] \in Nat \ {0}
    BY LenProperties, SizeAssumption DEF TypeOK
  <2>3. fileSize' < Size[upstream]
    <3>1. CASE Resumable
      <4>1. fileSize' = Len(file) /\ want.size > 0 /\ Len(file) < want.size
        BY <1>2, <3>1 DEF Open, Resumable
      <4>2. want.size \in {0, Size[upstream]}
        BY <1>2, <2>1 DEF CleanCall, Running
      <4> QED  BY <2>2, <4>1, <4>2
    <3>2. CASE ~Resumable
      BY <1>2, <2>2, <3>2 DEF Open
    <3> QED  BY <3>1, <3>2
  <2>4. UNCHANGED <<file, unnoticed>> \/ (file' = <<>> /\ unnoticed' = {})
    BY <1>2 DEF Open
  <2>5. Pure(upstream) => Pure(upstream)'
    BY <2>1, <2>4, Emptied DEF Pure
  <2> QED  BY <1>2, <2>1, <2>3, <2>4, <2>5 DEF CleanCall, Running
<1>3. CASE clean /\ PartialContent /\ skip' = fileSize /\ UNCHANGED unnoticed
  <2>1. UNCHANGED <<want, upstream, ctxDone, file, attempt, unnoticed>> /\ pc = "request" /\ pc' = "copy"
        /\ serving' = upstream
    BY <1>3 DEF PartialContent, Answered, envVars
  <2> QED  BY <1>3, <2>1 DEF CleanCall, Running, Pure
<1>4. CASE clean /\ Whole /\ (UNCHANGED <<file, unnoticed>> \/ (file' = <<>> /\ unnoticed' = {}))
  <2>1. UNCHANGED <<want, upstream, ctxDone, attempt>> /\ pc = "request" /\ pc' = "copy"
        /\ serving' = upstream
    BY <1>4 DEF Whole, Answered, envVars
  <2>2. Pure(upstream) => Pure(upstream)'
    BY <1>4, <2>1, Emptied DEF Pure
  <2> QED  BY <1>4, <2>1, <2>2 DEF CleanCall, Running
<1>5. CASE clean /\ Receive
  <2>1. UNCHANGED <<want, upstream, ctxDone, attempt, serving, pc, unnoticed>> /\ pc = "copy"
    BY <1>5 DEF Receive, envVars
  <2>2. DOMAIN file = 1..Len(file) /\ Len(file) \in Nat
    BY LenProperties DEF TypeOK
  <2>3. serving = upstream
    BY <1>5, <2>1 DEF CleanCall
  <2>4. ASSUME Pure(upstream), unnoticed = {} PROVE Pure(upstream)'
    <3>1. ASSUME NEW i \in DOMAIN file' PROVE file'[i].version = upstream
      <4>1. i \in 1..(Len(file) + 1)
        BY <1>5, <2>4, <3>1, ReceiveAtEnd
      <4>2. CASE i = Len(file) + 1
        BY <1>5, <2>3, <2>4, <4>2, ReceiveAtEnd
      <4>3. CASE i \in 1..Len(file)
        BY <1>5, <2>2, <2>4, <4>3, ReceiveAtEnd DEF Pure
      <4> QED  BY <2>2, <4>1, <4>2, <4>3
    <3> QED  BY <2>1, <3>1 DEF Pure
  <2> QED  BY <1>5, <2>1, <2>3, <2>4 DEF CleanCall, Running
<1>6. CASE clean /\ BodyEnds
  <2>1. UNCHANGED <<want, upstream, ctxDone, file, attempt, serving, unnoticed>> /\ pc = "copy" /\ pc' = "verify"
    BY <1>6 DEF BodyEnds, envVars, requestVars, bodyVars
  <2> QED  BY <1>6, <2>1 DEF CleanCall, Running, Pure
<1>7. CASE clean /\ Accept
  BY <1>7 DEF Accept, Return, CleanCall, Running
<1>8. CASE clean /\ Reject /\ file' = <<>> /\ unnoticed' = {}
  <2>1. UNCHANGED <<want, upstream, ctxDone, attempt>> /\ pc = "verify" /\ ~Intact
    BY <1>8 DEF Reject, Fail, envVars
  <2>2. attempt = 1
    <3> SUFFICES ASSUME attempt # 1 PROVE Intact
      BY <2>1
    <3>1. /\ serving = upstream /\ want.version = upstream /\ want.size \in {0, Size[upstream]}
          /\ Pure(upstream) /\ unnoticed = {} /\ upstream \in Versions
      BY <1>8, <2>1, RetryAssumption DEF CleanCall, Running, TypeOK
    <3>2. LastOf(upstream)
      BY <2>1, <3>1 DEF BodyReachesEnd
    <3>3. file = Complete(upstream)
      BY <3>1, <3>2, WholeFile
    <3>4. Len(file) \in Nat /\ fileSize \in Nat /\ got \in Nat /\ Size[upstream] \in Nat
      BY <3>1, LenProperties, SizeAssumption DEF TypeOK
    <3>5. Len(file) = Size[upstream]
      <4>1. Len(file) \in DOMAIN file
        BY <3>2, LenProperties, EmptySeq DEF TypeOK, LastOf
      <4> QED  BY <3>1, <3>2, <4>1 DEF LastOf, AlignedBytes
    <3>6. Len(file) = fileSize + got
      BY <2>1, <3>1, <3>4 DEF Placed
    <3> QED  BY <3>1, <3>3, <3>5, <3>6 DEF Intact
  <2>3. pc' = "backoff" \/ (pc' = "idle" /\ ~(RetryCount > 1))
    BY <1>8, <2>2, RetryAssumption DEF Reject, Fail, Return
  <2>4. Pure(upstream)'
    BY <1>8, <2>1, Emptied DEF Pure
  <2> QED  BY <1>8, <2>1, <2>2, <2>3, <2>4 DEF CleanCall, Running
<1>9. CASE clean /\ Retry
  <2>1. UNCHANGED <<want, upstream, ctxDone, file, unnoticed>> /\ pc = "backoff" /\ pc' = "attempt"
    BY <1>9 DEF Retry, envVars
  <2> QED  BY <1>9, <2>1 DEF CleanCall, Running, Pure
<1>10. CASE clean /\ (ReturnCancelled \/ (Refused /\ fileSize >= Size[upstream]))
  <2>1. Size[upstream] \in Nat /\ fileSize \in Nat
    BY SizeAssumption DEF TypeOK
  <2>2. ~ReturnCancelled
    BY <1>10 DEF CleanCall, ReturnCancelled, Running
  <2>3. ~(Refused /\ fileSize >= Size[upstream])
    <3>1. Refused => pc = "request"
      BY DEF Refused
    <3>2. clean
      BY <1>10
    <3>3. pc = "request" => fileSize < Size[upstream]
      BY <3>2 DEF CleanCall
    <3> QED  BY <2>1, <3>1, <3>3
  <2> QED  BY <1>10, <2>2, <2>3
<1>11. CASE NoMoreCalls
  BY <1>11 DEF NoMoreCalls, vars, envVars, CleanCall, Running, Pure
<1> QED
  BY <1>1, <1>2, <1>3, <1>4, <1>5, <1>6, <1>7, <1>8, <1>9, <1>10, <1>11, CleanSteps

------------------------------------------------------------------------------
\* The invariant holds in every state of every execution.
THEOREM ClientInvariant == Spec => []ClientInv
<1>1. ClientInv /\ [Next]_vars => ClientInv'
  <2> SUFFICES ASSUME ClientInv, [Next]_vars PROVE ClientInv'
    OBVIOUS
  <2>1. CASE Next
    BY <2>1, TypeStep, AlignStep, PlaceStep, BodyStep, SpliceStep, AcceptStep, CleanStep DEF ClientInv
  <2>2. CASE UNCHANGED vars
    BY <2>2 DEF vars, envVars, requestVars, openVars, bodyVars, ClientInv, TypeOK, Control, Placed, AlignedBytes,
                BodyReachesEnd, NoSplice, AcceptedFile, CleanCall, Pure, LastOf, Options, Known, Running
  <2> QED  BY <2>1, <2>2
<1> QED  BY <1>1, ClientInit, PTL DEF Spec

\* Every variable keeps its type, for any sizes and any number of calls.
THEOREM ClientTypeOK == Spec => []TypeOK
<1>1. ClientInv => TypeOK
  BY DEF ClientInv
<1> QED  BY <1>1, ClientInvariant, PTL

\* No chunk is skipped, repeated or moved, however attempts break, resume, are
\* cut short and start over, unless a 2xx other than 200 had another body than the
\* one asked for or a truncation failed (io.Copy after the switch on the status).
THEOREM ClientAlignedBytes == Spec => []AlignedBytes
<1>1. ClientInv => AlignedBytes
  BY DEF ClientInv
<1> QED  BY <1>1, ClientInvariant, PTL

\* A success is the version asked for if its checksum is known, whatever the server
\* and the file system did; has the size asked for unless an old file stayed; and
\* is never a truncated file unless something passed unnoticed (Download).
THEOREM ClientAcceptedFile == Spec => []AcceptedFile
<1>1. ClientInv => AcceptedFile
  BY DEF ClientInv
<1> QED  BY <1>1, ClientInvariant, PTL

\* A call with up-to-date metadata in which nothing fails succeeds, whatever was on
\* disk and however it got there.
THEOREM ClientHeals == Spec => []Heals
<1>1. ClientInv => Heals
  BY DEF ClientInv, CleanCall, Heals
<1> QED  BY <1>1, ClientInvariant, PTL
=============================================================================

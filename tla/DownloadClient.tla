--------------------------- MODULE DownloadClient ---------------------------
(***************************************************************************)
(* download.Client.Download (internal/download/client.go): resume, retry,  *)
(* cancellation and verification of one destination file, over successive  *)
(* calls, with an upstream that may publish another version, requests and  *)
(* bodies that fail, and crashes.  The server is free in what it answers,  *)
(* and so is the file system: the client lets through every 2xx, bodies    *)
(* that end early without a Content-Length, and errors of os.Remove and    *)
(* Truncate, all of which are steps of the model.                          *)
(*                                                                         *)
(* Data are chunks, each with the version it was served from and its       *)
(* position there.  An absent file and an empty one are both <<>>: the     *)
(* client treats them alike.  Calls are made one after the other.          *)
(***************************************************************************)
EXTENDS Naturals, Sequences

CONSTANTS
    Versions,     \* what the URL may serve over time
    Size,         \* Size[v]: the number of chunks of version v
    RetryCount,   \* DownloadOptions.RetryCount, 3 by default
    MaxCalls      \* bound: calls of Download, one per sync or retry

ASSUME SizeAssumption == Size \in [Versions -> Nat \ {0}]
ASSUME RetryAssumption == RetryCount \in Nat \ {0}
ASSUME CallsAssumption == MaxCalls \in Nat

VARIABLES
    upstream,     \* the version the URL serves now
    file,         \* the chunks at DestPath
    ctxDone,      \* the context of the call is cancelled
    pc,           \* where the call is
    want,         \* its options: the version planned, whether its checksum is known, its size or 0
    attempt,      \* the attempt, 1..RetryCount
    fileSize,     \* the chunks on disk that this attempt counts and asks to go on from
    appending,    \* the file is open with O_APPEND; otherwise it is written from its start
    serving,      \* the version the response body is taken from ...
    skip,         \* ... the chunks of it that come before the body ...
    got,          \* ... and downloadedBytes, the chunks of the body written so far
    result,       \* what the last call returned
    calls,        \* calls made
    clean,        \* nothing went wrong in this call but what was on disk (history)
    unnoticed     \* what the client let pass since the file was last empty (history)

openVars == <<fileSize, appending>>
bodyVars == <<serving, skip, got>>
requestVars == <<openVars, bodyVars>>
envVars == <<upstream, ctxDone, calls>>
vars == <<envVars, file, pc, want, attempt, requestVars, result, clean, unnoticed>>

Chunk == [version : Versions, position : Nat]
Complete(v) == [i \in 1..Size[v] |-> [version |-> v, position |-> i]]
Known == {Size[v] : v \in Versions}
Options == [version : Versions, checksum : BOOLEAN, size : {0} \cup Known]
Running == {"attempt", "request", "copy", "verify", "backoff"}

\* A body cut short that looks complete, a 2xx with another body than the one
\* asked for, a file that could not be removed, one that could not be truncated.
Kinds == {"cut", "answer", "removal", "truncation"}

TypeOK ==
    /\ upstream \in Versions /\ serving \in Versions
    /\ file \in Seq(Chunk)
    /\ ctxDone \in BOOLEAN /\ clean \in BOOLEAN
    /\ pc \in Running \cup {"idle"}
    /\ want \in Options
    /\ attempt \in 1..RetryCount
    /\ fileSize \in Nat /\ appending \in BOOLEAN
    /\ skip \in Nat /\ got \in Nat
    /\ result \in {"none", "success", "error", "cancelled", "crashed"}
    /\ calls \in 0..MaxCalls
    /\ unnoticed \subseteq Kinds

Init ==
    /\ upstream \in Versions /\ serving = upstream
    /\ file = <<>> /\ unnoticed = {}
    /\ fileSize = 0 /\ appending = FALSE /\ skip = 0 /\ got = 0
    /\ ctxDone = FALSE /\ clean = FALSE
    /\ pc = "idle" /\ attempt = 1 /\ calls = 0
    /\ want = [version |-> upstream, checksum |-> FALSE, size |-> 0]
    /\ result = "none"

------------------------------------------------------------------------------
(* Around the call *)

\* A sync or a retry asks for the file; the size in its metadata may be stale.
Call ==
    /\ pc = "idle" /\ calls < MaxCalls
    /\ \E o \in Options :
          /\ want' = o
          /\ clean' = (o.version = upstream /\ o.size \in {0, Size[upstream]})
    /\ pc' = "attempt" /\ attempt' = 1 /\ result' = "none"
    /\ ctxDone' = FALSE
    /\ calls' = calls + 1
    /\ UNCHANGED <<upstream, file, requestVars, unnoticed>>

Publish ==
    /\ \E v \in Versions \ {upstream} : upstream' = v
    /\ clean' = FALSE
    /\ UNCHANGED <<file, ctxDone, pc, want, attempt, requestVars, result, calls, unnoticed>>

Cancel ==
    /\ pc \in Running /\ ~ctxDone
    /\ ctxDone' = TRUE /\ clean' = FALSE
    /\ UNCHANGED <<upstream, file, pc, want, attempt, requestVars, result, calls, unnoticed>>

Return(r) == pc' = "idle" /\ result' = r

Crash ==
    /\ pc \in Running
    /\ Return("crashed") /\ clean' = FALSE
    /\ UNCHANGED <<envVars, file, want, attempt, requestVars, unnoticed>>

------------------------------------------------------------------------------
(* One attempt *)

\* Mutant: one attempt too many.
FailOneMore ==
    /\ IF attempt <= RetryCount
       THEN pc' = "backoff" /\ UNCHANGED result
       ELSE Return("error")
    /\ UNCHANGED attempt

\* An error that may be retried: wait, or give up and keep what is on disk.
Fail ==
    /\ IF attempt < RetryCount
       THEN pc' = "backoff" /\ UNCHANGED result
       ELSE Return("error")
    /\ UNCHANGED attempt

\* A directory or file that cannot be made: the next attempt starts at once.
FailAtOnce ==
    IF attempt < RetryCount
    THEN pc' = "attempt" /\ attempt' = attempt + 1 /\ UNCHANGED result
    ELSE Return("error") /\ UNCHANGED attempt

\* Mutants: a file of the size expected is resumed; one of any size is.
ResumableIfFull == want.size > 0 /\ Len(file) <= want.size
ResumableAlways == file # <<>>

\* Only a file shorter than the size expected is resumed.
Resumable == want.size > 0 /\ Len(file) < want.size

\* An unnoticed fault of this kind.
LetPass(kind) == clean' = FALSE /\ unnoticed' = unnoticed \cup {kind}

\* The file becomes empty, and good is what the call is if this works; or this
\* fails, the error is ignored and what is on disk stays there.
EmptyFile(kind, good) ==
    \/ file' = <<>> /\ unnoticed' = {} /\ clean' = good
    \/ file # <<>> /\ UNCHANGED file /\ LetPass(kind)

\* Look at what is on disk, remove it if it cannot be resumed, open the file:
\* with O_APPEND when it is resumed, never with O_TRUNC.
Open ==
    /\ pc = "attempt" /\ ~ctxDone
    /\ pc' = "request" /\ UNCHANGED <<attempt, result>>
    /\ IF Resumable
       THEN /\ fileSize' = Len(file) /\ appending' = (file # <<>>)
            /\ UNCHANGED <<file, clean, unnoticed>>
       ELSE /\ fileSize' = 0 /\ appending' = FALSE
            /\ EmptyFile("removal", clean)
    /\ UNCHANGED <<envVars, want, bodyVars>>

\* The directory or the file cannot be made, after the removal.
OpenFails ==
    /\ pc = "attempt" /\ ~ctxDone
    /\ FailAtOnce /\ clean' = FALSE
    /\ \/ UNCHANGED <<file, unnoticed>>
       \/ ~Resumable /\ file' = <<>> /\ unnoticed' = {}
    /\ UNCHANGED <<envVars, want, requestVars>>

\* Mutant: a request or a body under way does not look at the context.
ReturnCancelledBetween ==
    /\ pc \in {"attempt", "backoff"} /\ ctxDone
    /\ Return("cancelled")
    /\ UNCHANGED <<envVars, file, want, attempt, requestVars, clean, unnoticed>>

\* The checks of the context: before an attempt, in the request and the body,
\* and in the wait before a retry.  The file is kept for a resume.
ReturnCancelled ==
    /\ pc \in {"attempt", "request", "copy", "backoff"} /\ ctxDone
    /\ Return("cancelled")
    /\ UNCHANGED <<envVars, file, want, attempt, requestVars, clean, unnoticed>>

\* No connection, a 5xx or a 429.
RequestFails ==
    /\ pc = "request"
    /\ Fail /\ clean' = FALSE
    /\ UNCHANGED <<envVars, file, want, requestVars, unnoticed>>

\* An error that is a context.DeadlineExceeded, as the timeouts of the dialer
\* are, is taken for a cancellation: no further attempt.
TimesOut ==
    /\ pc = "request"
    /\ Return("error") /\ clean' = FALSE
    /\ UNCHANGED <<envVars, file, want, attempt, requestVars, unnoticed>>

\* Another 4xx is not retried and the file is removed; a 416 answers a range
\* past the end of what is served.
Refused ==
    /\ pc = "request"
    /\ EmptyFile("removal", clean /\ fileSize >= Size[upstream])
    /\ Return("error")
    /\ UNCHANGED <<envVars, want, attempt, requestVars>>

\* A response begins: its body is what the version served has from chunk s on.
Answered(s) ==
    /\ pc = "request" /\ pc' = "copy"
    /\ serving' = upstream /\ skip' = s /\ got' = 0
    /\ UNCHANGED <<envVars, want, attempt, result>>

\* 206, and every other 2xx but 200: nothing is truncated, and neither the
\* status nor Content-Range is compared with the range asked for.
PartialContent ==
    /\ \E s \in 0..Size[upstream] :
          /\ Answered(s)
          /\ \/ s = fileSize /\ s < Size[upstream] /\ UNCHANGED <<clean, unnoticed>>
             \/ (s # fileSize \/ s = Size[upstream]) /\ LetPass("answer")
    /\ UNCHANGED <<file, openVars>>

\* Mutant: a 200 that answers a range is appended.
WholeAppended ==
    /\ Answered(0)
    /\ fileSize' = 0
    /\ UNCHANGED <<file, appending, clean, unnoticed>>

\* 200: the server sends everything, with or without a range; a file that was
\* to be resumed is truncated.
Whole ==
    /\ Answered(0)
    /\ fileSize' = 0
    /\ IF fileSize > 0 THEN EmptyFile("truncation", clean) ELSE UNCHANGED <<file, clean, unnoticed>>
    /\ UNCHANGED appending

\* io.Copy: the body is written, at the end of the file or over what is there ...
AtEnd == appending \/ got >= Len(file)

Receive ==
    /\ pc = "copy" /\ skip + got < Size[serving]
    /\ LET chunk == [version |-> serving, position |-> skip + got + 1]
       IN  file' = IF AtEnd THEN Append(file, chunk) ELSE [file EXCEPT ![got + 1] = chunk]
    /\ got' = got + 1
    /\ UNCHANGED <<envVars, pc, want, attempt, openVars, serving, skip, result, clean, unnoticed>>

\* ... until it is complete ...
BodyEnds ==
    /\ pc = "copy" /\ skip + got >= Size[serving]
    /\ pc' = "verify"
    /\ UNCHANGED <<envVars, file, want, attempt, requestVars, result, clean, unnoticed>>

\* ... or is cut and, without a Content-Length, ends with a plain EOF ...
BodyCut ==
    /\ pc = "copy" /\ skip + got < Size[serving]
    /\ pc' = "verify" /\ LetPass("cut")
    /\ UNCHANGED <<envVars, file, want, attempt, requestVars, result>>

\* ... or breaks: what was received stays.
BodyBreaks ==
    /\ pc = "copy"
    /\ Fail /\ clean' = FALSE
    /\ UNCHANGED <<envVars, file, want, requestVars, unnoticed>>

------------------------------------------------------------------------------
(* Verification and retry *)

\* The checksum of the whole file is authoritative; the size, counted from the
\* resumed part and the bytes received, is a fallback.
Intact ==
    IF want.checksum THEN file = Complete(want.version)
    ELSE want.size > 0 => fileSize + got = want.size

Accept ==
    /\ pc = "verify" /\ Intact
    /\ Return("success")
    /\ UNCHANGED <<envVars, file, want, attempt, requestVars, clean, unnoticed>>

Reject ==
    /\ pc = "verify" /\ ~Intact
    /\ EmptyFile("removal", clean)
    /\ Fail
    /\ UNCHANGED <<envVars, want, requestVars>>

\* The file cannot be read back or closed.
HashFails ==
    /\ pc = "verify"
    /\ Fail /\ clean' = FALSE
    /\ UNCHANGED <<envVars, file, want, requestVars, unnoticed>>

\* The delay has passed.  The timer may win against a cancellation.
Retry ==
    /\ pc = "backoff"
    /\ pc' = "attempt" /\ attempt' = attempt + 1
    /\ UNCHANGED <<envVars, file, want, requestVars, result, clean, unnoticed>>

------------------------------------------------------------------------------
NoMoreCalls == pc = "idle" /\ calls = MaxCalls /\ UNCHANGED vars

ClientStep ==
    \/ Open \/ OpenFails \/ ReturnCancelled
    \/ RequestFails \/ TimesOut \/ Refused \/ PartialContent \/ Whole
    \/ Receive \/ BodyEnds \/ BodyCut \/ BodyBreaks
    \/ Accept \/ Reject \/ HashFails \/ Retry

Next == Call \/ Publish \/ Cancel \/ Crash \/ ClientStep \/ NoMoreCalls

Spec == Init /\ [][Next]_vars

\* The program's own steps are taken.  A response may never come and a body may
\* stall for ever (the HTTP client has no overall timeout), unless the context
\* is cancelled, which ends both.
OwnStep == Open \/ BodyEnds \/ Accept \/ Reject \/ Retry
Fairness == WF_vars(OwnStep) /\ WF_vars(ReturnCancelled)

FairSpec == Spec /\ Fairness

------------------------------------------------------------------------------
(* Properties *)

\* What Download reports as a success.  With a checksum it is the version asked
\* for, whatever the server and the file system did.  With a size only, it has
\* that size unless an old file could not be removed or truncated.  And as long
\* as nothing passed unnoticed it is never a truncated file and is one version
\* from end to end; only the size check may take pieces of two for one file.
LastOf(v) == file # <<>> /\ file[Len(file)] = [version |-> v, position |-> Size[v]]
AcceptedFile ==
    result = "success" =>
        /\ want.checksum => file = Complete(want.version)
        /\ ~want.checksum /\ want.size > 0 /\ unnoticed \subseteq {"cut", "answer"} =>
               Len(file) = want.size
        /\ unnoticed = {} =>
               /\ \E v \in Versions : LastOf(v)
               /\ (\E v \in Versions : file = Complete(v)) \/ (~want.checksum /\ Len(file) = want.size)

\* However attempts break, resume, are cut short and start over, no chunk is
\* skipped, repeated or moved: every chunk on disk is where its version has it,
\* also in what a file that could not be removed leaves.  It takes a 2xx with
\* another body than the one asked for, or a failed truncation, to change that.
AlignedBytes ==
    unnoticed \subseteq {"cut", "removal"} => \A i \in DOMAIN file : file[i].position = i

\* A bad file on disk heals: a call with up-to-date metadata, in which no request,
\* body, removal or truncation fails, succeeds whatever earlier calls left there,
\* also when it got there unnoticed.
Heals == pc = "idle" /\ clean /\ RetryCount > 1 => result = "success"

\* A cancelled call returns, wherever it was and whatever the server does.
CancelReturns == ctxDone ~> pc = "idle"
=============================================================================

---------------------------- MODULE DownloadPool ----------------------------
(***************************************************************************)
(* download.Pool.Execute (internal/download/pool.go): one goroutine sends  *)
(* the jobs into a buffered channel, a fixed number of workers receive,    *)
(* download and post results into a second buffered channel, one goroutine *)
(* waits for the workers and closes that channel, and the caller collects  *)
(* and sorts the results.  The context may be cancelled at any moment.     *)
(*                                                                         *)
(* A FIFO channel is represented by the sequence of everything ever sent   *)
(* on it and the number of items received: jobs are sent in the order      *)
(* 1..NumJobs, so the job channel is two counters.                         *)
(***************************************************************************)
EXTENDS Naturals, Sequences, FiniteSets, Functions

CONSTANTS
    Workers,        \* the worker goroutines (NewPool makes at least one)
    NumJobs         \* the length of the slice of jobs

ASSUME WorkersAssumption == Workers # {} /\ IsFiniteSet(Workers)
ASSUME NumJobsAssumption == NumJobs \in Nat

Jobs == 1..NumJobs

VARIABLES
    ctxDone,        \* the context passed to Execute is cancelled
    takenBefore,    \* the jobs received when the context was done (for the properties only)
    caller,         \* the goroutine in Execute: "entry", "collecting", "returned"
    sent,           \* jobs 1..sent were sent on jobsChan ...
    jobsClosed,     \* ... and it was closed
    received,       \* jobs 1..received were received from jobsChan
    pc,             \* pc[w]: where worker w is
    job,            \* job[w]: the job worker w holds (jobWithIdx)
    succeeded,      \* succeeded[w]: whether the download of that job returned no error
    posted,         \* every result ever sent on resultsChan, in order
    resultsClosed,  \* resultsChan was closed
    collected,      \* the first collected elements of posted were received by Execute
    results,        \* what Execute returned
    onDisk,         \* jobs whose download ended well: the file is in place
    completedFiles, \* calls of OnComplete with success (SyncTracker.completedFiles)
    failedFiles     \* calls of OnComplete with an error (SyncTracker.failedFiles)

chanVars == <<sent, jobsClosed, received, posted, resultsClosed, collected>>
workerVars == <<pc, job, succeeded>>
effectVars == <<onDisk, completedFiles, failedFiles>>
vars == <<ctxDone, takenBefore, caller, chanVars, workerVars, results, effectVars>>

WorkerPC == {"unborn", "receive", "check", "start", "download", "report", "post", "exited"}
Result == [index : Jobs, status : {"success", "error", "cancelled"}]

TypeOK ==
    /\ ctxDone \in BOOLEAN
    /\ takenBefore \in 0..NumJobs
    /\ caller \in {"entry", "collecting", "returned"}
    /\ sent \in 0..NumJobs
    /\ jobsClosed \in BOOLEAN
    /\ received \in 0..NumJobs
    /\ pc \in [Workers -> WorkerPC]
    /\ job \in [Workers -> 0..NumJobs]
    /\ succeeded \in [Workers -> BOOLEAN]
    /\ posted \in Seq(Result)
    /\ resultsClosed \in BOOLEAN
    /\ collected \in Nat
    /\ onDisk \subseteq Jobs
    /\ completedFiles \in Nat
    /\ failedFiles \in Nat

Init ==
    /\ ctxDone \in BOOLEAN /\ takenBefore = 0
    /\ caller = "entry"
    /\ sent = 0 /\ jobsClosed = FALSE /\ received = 0
    /\ pc = [w \in Workers |-> "unborn"]
    /\ job = [w \in Workers |-> 0]
    /\ succeeded = [w \in Workers |-> FALSE]
    /\ posted = <<>> /\ resultsClosed = FALSE /\ collected = 0
    /\ results = <<>>
    /\ onDisk = {}
    /\ completedFiles = 0 /\ failedFiles = 0

------------------------------------------------------------------------------
\* The user, a server shutdown or a request timeout cancels the context.
Cancel ==
    /\ ~ctxDone
    /\ ctxDone' = TRUE /\ takenBefore' = received
    /\ UNCHANGED <<caller, chanVars, workerVars, results, effectVars>>

\* Execute returns at once when there are no jobs, and starts the goroutines otherwise.
Launch ==
    /\ caller = "entry"
    /\ IF NumJobs = 0
       THEN caller' = "returned" /\ UNCHANGED pc
       ELSE caller' = "collecting" /\ pc' = [w \in Workers |-> "receive"]
    /\ UNCHANGED <<ctxDone, takenBefore, chanVars, job, succeeded, results, effectVars>>

\* The sender: its select may take either ready case, so it may still send
\* after the context is done.  jobsChan has room for every job.
SendJob ==
    /\ caller = "collecting" /\ ~jobsClosed
    /\ sent < NumJobs
    /\ sent' = sent + 1
    /\ UNCHANGED <<ctxDone, takenBefore, caller, jobsClosed, received, posted, resultsClosed, collected,
                   workerVars, results, effectVars>>

CloseJobs ==
    /\ caller = "collecting" /\ ~jobsClosed
    /\ sent = NumJobs \/ ctxDone
    /\ jobsClosed' = TRUE
    /\ UNCHANGED <<ctxDone, takenBefore, caller, sent, received, posted, resultsClosed, collected,
                   workerVars, results, effectVars>>

------------------------------------------------------------------------------
\* Mutant: two workers may take the same job.
PeekJob(w) ==
    /\ pc[w] = "receive"
    /\ received < sent
    /\ received' \in {received, received + 1}
    /\ job' = [job EXCEPT ![w] = received + 1]
    /\ pc' = [pc EXCEPT ![w] = "check"]
    /\ UNCHANGED <<ctxDone, takenBefore, caller, sent, jobsClosed, posted, resultsClosed, collected,
                   succeeded, results, effectVars>>

\* A worker receives the next job, or leaves its loop when the channel is
\* closed and drained.
ReceiveJob(w) ==
    /\ pc[w] = "receive"
    /\ received < sent
    /\ received' = received + 1
    /\ job' = [job EXCEPT ![w] = received + 1]
    /\ pc' = [pc EXCEPT ![w] = "check"]
    /\ UNCHANGED <<ctxDone, takenBefore, caller, sent, jobsClosed, posted, resultsClosed, collected,
                   succeeded, results, effectVars>>

\* Mutant: a worker that finds the channel empty leaves, closed or not.
WorkerLeavesWhenIdle(w) ==
    /\ pc[w] = "receive"
    /\ received = sent
    /\ pc' = [pc EXCEPT ![w] = "exited"]
    /\ UNCHANGED <<ctxDone, takenBefore, caller, chanVars, job, succeeded, results, effectVars>>

WorkerDone(w) ==
    /\ pc[w] = "receive"
    /\ jobsClosed /\ received = sent
    /\ pc' = [pc EXCEPT ![w] = "exited"]
    /\ UNCHANGED <<ctxDone, takenBefore, caller, chanVars, job, succeeded, results, effectVars>>

\* resultsChan has room for one result per job; a send on a full channel waits.
Post(r) ==
    /\ Len(posted) - collected < NumJobs
    /\ posted' = Append(posted, r)

\* The check before a download: with the context done the worker posts a
\* cancelled result, without a call of OnComplete, and returns.
PostCancelled(w) ==
    /\ pc[w] = "check" /\ ctxDone
    /\ Post([index |-> job[w], status |-> "cancelled"])
    /\ pc' = [pc EXCEPT ![w] = "exited"]
    /\ UNCHANGED <<ctxDone, takenBefore, caller, sent, jobsClosed, received, resultsClosed, collected,
                   job, succeeded, results, effectVars>>

\* Mutant: the context is not looked at before a download.
PassAlways(w) ==
    /\ pc[w] = "check"
    /\ pc' = [pc EXCEPT ![w] = "start"]
    /\ UNCHANGED <<ctxDone, takenBefore, caller, chanVars, job, succeeded, results, effectVars>>

\* The default case of the select: the worker goes on to make the options.
PassCheck(w) ==
    /\ pc[w] = "check" /\ ~ctxDone
    /\ pc' = [pc EXCEPT ![w] = "start"]
    /\ UNCHANGED <<ctxDone, takenBefore, caller, chanVars, job, succeeded, results, effectVars>>

\* client.Download is called, also when the context was done since the check.
StartDownload(w) ==
    /\ pc[w] = "start"
    /\ pc' = [pc EXCEPT ![w] = "download"]
    /\ UNCHANGED <<ctxDone, takenBefore, caller, chanVars, job, succeeded, results, effectVars>>

\* Mutant: a failed download is tried again by the worker, for ever.
DownloadAgain(w, ok) ==
    /\ pc[w] = "download"
    /\ succeeded' = [succeeded EXCEPT ![w] = ok]
    /\ onDisk' = IF ok THEN onDisk \cup {job[w]} ELSE onDisk
    /\ pc' = [pc EXCEPT ![w] = IF ok THEN "report" ELSE "check"]
    /\ UNCHANGED <<ctxDone, takenBefore, caller, chanVars, job, results, completedFiles, failedFiles>>

\* client.Download returns, with the file in place or with an error; it may
\* win or lose its race with a cancellation.  It need not return: the client
\* has no overall timeout, and a body may stall until the context is done.
DownloadReturns(w, ok) ==
    /\ pc[w] = "download"
    /\ succeeded' = [succeeded EXCEPT ![w] = ok]
    /\ onDisk' = IF ok THEN onDisk \cup {job[w]} ELSE onDisk
    /\ pc' = [pc EXCEPT ![w] = "report"]
    /\ UNCHANGED <<ctxDone, takenBefore, caller, chanVars, job, results, completedFiles, failedFiles>>

\* OnComplete: FileCompleted or FileFailed of the progress tracker.
ReportCompletion(w) ==
    /\ pc[w] = "report"
    /\ IF succeeded[w]
       THEN completedFiles' = completedFiles + 1 /\ UNCHANGED failedFiles
       ELSE failedFiles' = failedFiles + 1 /\ UNCHANGED completedFiles
    /\ pc' = [pc EXCEPT ![w] = "post"]
    /\ UNCHANGED <<ctxDone, takenBefore, caller, chanVars, job, succeeded, results, onDisk>>

\* Mutant: a download that won its race with a cancellation is reported as lost.
PostUnlessCancelled(w) ==
    /\ pc[w] = "post"
    /\ Post([index |-> job[w], status |-> IF succeeded[w] /\ ~ctxDone THEN "success" ELSE "error"])
    /\ pc' = [pc EXCEPT ![w] = "receive"]
    /\ UNCHANGED <<ctxDone, takenBefore, caller, sent, jobsClosed, received, resultsClosed, collected,
                   job, succeeded, results, effectVars>>

PostResult(w) ==
    /\ pc[w] = "post"
    /\ Post([index |-> job[w], status |-> IF succeeded[w] THEN "success" ELSE "error"])
    /\ pc' = [pc EXCEPT ![w] = "receive"]
    /\ UNCHANGED <<ctxDone, takenBefore, caller, sent, jobsClosed, received, resultsClosed, collected,
                   job, succeeded, results, effectVars>>

------------------------------------------------------------------------------
\* Mutant: the channel is closed when the jobs are sent, workers or no workers.
CloseResultsEarly ==
    /\ caller = "collecting" /\ ~resultsClosed
    /\ jobsClosed
    /\ resultsClosed' = TRUE
    /\ UNCHANGED <<ctxDone, takenBefore, caller, sent, jobsClosed, received, posted, collected,
                   workerVars, results, effectVars>>

\* wg.Wait() and close(resultsChan).
CloseResults ==
    /\ caller = "collecting" /\ ~resultsClosed
    /\ \A w \in Workers : pc[w] = "exited"
    /\ resultsClosed' = TRUE
    /\ UNCHANGED <<ctxDone, takenBefore, caller, sent, jobsClosed, received, posted, collected,
                   workerVars, results, effectVars>>

Collect ==
    /\ caller = "collecting"
    /\ collected < Len(posted)
    /\ collected' = collected + 1
    /\ UNCHANGED <<ctxDone, takenBefore, caller, sent, jobsClosed, received, posted, resultsClosed,
                   workerVars, results, effectVars>>

\* Mutant: the results are returned as they came.
AsTheyCame(rs) == rs

\* The range loop ends and the collected results are put in the
\* order of their indexes (sort.Slice).
SortByIndex(rs) ==
    LET order == CHOOSE p \in Bijection(DOMAIN rs, DOMAIN rs) :
                    \A i, k \in DOMAIN rs : i < k => rs[p[i]].index <= rs[p[k]].index
    IN  [i \in DOMAIN rs |-> rs[order[i]]]

ExecuteReturns ==
    /\ caller = "collecting"
    /\ resultsClosed /\ collected = Len(posted)
    /\ results' = SortByIndex(posted)
    /\ caller' = "returned"
    /\ UNCHANGED <<ctxDone, takenBefore, chanVars, workerVars, effectVars>>

Terminated == caller = "returned" /\ UNCHANGED vars

\* What a worker does by itself, and the return of the call it waits for.
OwnStep(w) ==
    \/ ReceiveJob(w) \/ WorkerDone(w)
    \/ PostCancelled(w) \/ PassCheck(w) \/ StartDownload(w)
    \/ ReportCompletion(w) \/ PostResult(w)

DownloadEnds(w) == \E ok \in BOOLEAN : DownloadReturns(w, ok)

WorkerStep(w) == OwnStep(w) \/ DownloadEnds(w)

SenderStep == SendJob \/ CloseJobs
CallerStep == Launch \/ Collect \/ ExecuteReturns

Next ==
    \/ Cancel
    \/ CallerStep \/ SenderStep \/ CloseResults
    \/ \E w \in Workers : WorkerStep(w)
    \/ Terminated

Spec == Init /\ [][Next]_vars

\* The Go scheduler runs every runnable goroutine.  A call of client.Download
\* is sure to return only when its context is done, which interrupts the
\* request, the body and the waiting between attempts (see CancelReturns of
\* DownloadClient): the http.Client has no overall timeout, so that a server
\* that stops sending holds the worker for as long as it likes.
Fairness ==
    /\ WF_vars(CallerStep) /\ WF_vars(SenderStep) /\ WF_vars(CloseResults)
    /\ \A w \in Workers : WF_vars(OwnStep(w)) /\ WF_vars(ctxDone /\ DownloadEnds(w))

FairSpec == Spec /\ Fairness

------------------------------------------------------------------------------
(* Properties *)

Indexes(rs) == {rs[i].index : i \in DOMAIN rs}
WithStatus(rs, s) == {i \in DOMAIN rs : rs[i].status = s}
Holding == {"check", "start", "download", "report", "post"}

\* No job is handed to two workers and none is answered twice: the job a
\* worker holds has no result yet, and two results are about two jobs.
OneResultPerJob ==
    /\ \A w \in Workers : pc[w] \in Holding => job[w] \notin Indexes(posted)
    /\ \A i, k \in DOMAIN posted : posted[i].index = posted[k].index => i = k

\* Execute's contract ("waits for all to complete", "the same order as the
\* input jobs"): without a cancellation the returned slice answers job i at
\* position i.  With one, it is still strictly ordered, so that the caller
\* may look results up by position in what is left.
ResultsAnswerJobs ==
    caller = "returned" =>
        /\ ~ctxDone => /\ Len(results) = NumJobs
                       /\ \A i \in DOMAIN results : results[i].index = i
        /\ \A i, k \in DOMAIN results : i < k => results[i].index < results[k].index

\* The disk, the returned slice and the progress page agree, also when a
\* cancellation races with a download that ends well: Execute returns a success
\* for exactly the files in place, and OnComplete has counted each result but
\* those of the jobs a worker took and gave up, at most one per worker.
OutcomesAgree ==
    caller = "returned" =>
        /\ onDisk = {results[i].index : i \in WithStatus(results, "success")}
        /\ completedFiles = Cardinality(WithStatus(results, "success"))
        /\ failedFiles = Cardinality(WithStatus(results, "error"))
        /\ Cardinality(WithStatus(results, "cancelled")) <= Cardinality(Workers)

\* No goroutine sends on a closed channel (a panic in Go), none is left
\* behind when Execute returns, and no worker ever waits for room in
\* resultsChan: Execute cannot hang on its own channels.
ChannelsSafe ==
    /\ resultsClosed => \A w \in Workers : pc[w] = "exited"
    /\ caller = "returned" /\ NumJobs > 0 => jobsClosed \/ ctxDone
    /\ \A w \in Workers : pc[w] \in Holding => Len(posted) - collected < NumJobs

\* "If the context is cancelled, all workers stop processing immediately":
\* from then on each worker takes at most one more job from the channel,
\* however many the sender still puts there, and a job taken since then is
\* given up: nothing of it reaches the disk and its result is a cancellation.
\* (A worker that was past its check still makes the call it was about to make.)
CancelStopsWork ==
    ctxDone =>
        /\ received <= takenBefore + Cardinality(Workers)
        /\ \A j \in onDisk : j <= takenBefore
        /\ \A i \in DOMAIN posted :
                posted[i].index > takenBefore => posted[i].status = "cancelled"

\* A cancelled Execute returns, wherever its goroutines and its downloads were
\* when the context was done; one that is not cancelled returns unless one of
\* its workers waits for ever for a download that stalls.
ExecuteTerminates ==
    /\ ctxDone ~> (caller = "returned")
    /\ <>(caller = "returned") \/ \E w \in Workers : <>[](pc[w] = "download")

------------------------------------------------------------------------------
(* Refinement: the pool implements the batch its callers rely on. *)

Answered(j) == \E i \in DOMAIN posted : posted[i].index = j
AnsweredWell(j) == \E i \in DOMAIN posted : posted[i].index = j /\ posted[i].status = "success"

batchOutcome ==
    [j \in Jobs |->
        IF AnsweredWell(j) THEN "success" ELSE IF Answered(j) THEN "failed" ELSE "none"]

Batch == INSTANCE BatchDownload WITH
    outcome <- batchOutcome, cancelled <- ctxDone, returned <- (caller = "returned")

\* Every step of the pool is a step of the batch or leaves it alone.
ImplementsBatch == Batch!BatchSpec
=============================================================================

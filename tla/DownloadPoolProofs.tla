-------------------------- MODULE DownloadPoolProofs --------------------------
(***************************************************************************)
(* Theorems about the download pool, for any number of workers and jobs.   *)
(***************************************************************************)
EXTENDS DownloadPool, FiniteSetTheorems, SequenceTheorems, WellFoundedInduction, TLAPS

(***************************************************************************)
(* Where a job is: not sent, in jobsChan (received < j <= sent), held by   *)
(* one worker, or answered by one result.  PoolInv says that these cases   *)
(* exclude each other and that they cover every job.                       *)
(***************************************************************************)
Counters ==
    /\ received <= sent
    /\ collected <= Len(posted)

HeldJobsReceived ==
    /\ \A w \in Workers : pc[w] \in Holding => job[w] \in 1..received
    /\ \A i \in DOMAIN posted : posted[i].index <= received

HeldOnce ==
    \A v, w \in Workers :
        pc[v] \in Holding /\ pc[w] \in Holding /\ job[v] = job[w] => v = w

NoneDropped ==
    \A j \in 1..received :
        \/ \E w \in Workers : pc[w] \in Holding /\ job[w] = j
        \/ \E i \in DOMAIN posted : posted[i].index = j

Phases ==
    /\ caller = "entry" => received = 0 /\ posted = <<>>
    /\ caller = "collecting" => NumJobs > 0
    /\ caller = "collecting" => \A w \in Workers : pc[w] # "unborn"
    /\ caller = "entry" => \A w \in Workers : pc[w] = "unborn"
    /\ caller = "returned" => \A w \in Workers : pc[w] \in {"unborn", "exited"}
    /\ resultsClosed => \A w \in Workers : pc[w] = "exited"
    /\ caller = "returned" /\ NumJobs > 0 => resultsClosed

\* Without a cancellation a worker leaves only when every job was received.
DrainedUnlessCancelled ==
    /\ ~ctxDone /\ jobsClosed => sent = NumJobs
    /\ ~ctxDone => \A w \in Workers : pc[w] = "exited" => jobsClosed /\ received = sent

PoolInv ==
    /\ TypeOK
    /\ Counters
    /\ HeldJobsReceived
    /\ HeldOnce
    /\ OneResultPerJob
    /\ NoneDropped
    /\ Phases
    /\ DrainedUnlessCancelled

-------------------------------------------------------------------------------
\* The initial states satisfy the invariant.
LEMMA InitPoolInv == Init => PoolInv
<1> SUFFICES ASSUME Init PROVE PoolInv
  OBVIOUS
<1>1. TypeOK
  <2>1. /\ ctxDone \in BOOLEAN /\ jobsClosed \in BOOLEAN /\ resultsClosed \in BOOLEAN
        /\ succeeded \in [Workers -> BOOLEAN]
    BY DEF Init
  <2>2. posted \in Seq(Result)
    BY DEF Init
  <2>3. /\ caller \in {"entry", "collecting", "returned"}
        /\ sent \in 0..NumJobs /\ received \in 0..NumJobs /\ takenBefore \in 0..NumJobs
        /\ pc \in [Workers -> WorkerPC] /\ job \in [Workers -> 0..NumJobs]
        /\ collected \in Nat /\ onDisk \subseteq Jobs
        /\ completedFiles \in Nat /\ failedFiles \in Nat
    BY NumJobsAssumption DEF Init, WorkerPC
  <2> QED
    BY <2>1, <2>2, <2>3 DEF TypeOK
<1>2. Counters /\ HeldJobsReceived /\ HeldOnce /\ OneResultPerJob
  BY DEF Init, Counters, HeldJobsReceived, HeldOnce, OneResultPerJob, Holding, Indexes
<1>3. NoneDropped /\ Phases /\ DrainedUnlessCancelled
  BY DEF Init, NoneDropped, Phases, DrainedUnlessCancelled
<1> QED
  BY <1>1, <1>2, <1>3 DEF PoolInv

Placement == HeldJobsReceived /\ HeldOnce /\ OneResultPerJob /\ NoneDropped

\* A step that receives and posts nothing, and in which every worker keeps or
\* keeps not holding its job, does not move a job.
LEMMA NoJobMoves ==
    ASSUME Placement, UNCHANGED <<received, job, posted>>,
           \A w \in Workers : pc'[w] \in Holding <=> pc[w] \in Holding
    PROVE  Placement'
  BY DEF Placement, HeldJobsReceived, HeldOnce, OneResultPerJob, NoneDropped, Indexes, Holding

\* A worker that receives takes the first job nobody received.
LEMMA ReceiveMovesOne ==
    ASSUME TypeOK, Placement, NEW w \in Workers, ReceiveJob(w)
    PROVE  Placement'
<1> USE DEF ReceiveJob, TypeOK, Placement
<1>1. /\ received' = received + 1 /\ received \in Nat
      /\ posted' = posted
      /\ job'[w] = received + 1 /\ pc'[w] = "check" /\ pc[w] = "receive"
      /\ \A v \in Workers \ {w} : job'[v] = job[v] /\ pc'[v] = pc[v]
  OBVIOUS
<1>2. \A i \in DOMAIN posted : posted[i].index \in Nat /\ posted[i].index <= received
  <2>1. \A i \in DOMAIN posted : posted[i] \in Result
    OBVIOUS
  <2> QED
    BY <2>1, NumJobsAssumption DEF HeldJobsReceived, Result, Jobs
<1>3. \A v \in Workers \ {w} : pc[v] \in Holding => job[v] \in 1..received
  BY DEF HeldJobsReceived
<1>4. HeldJobsReceived'
  BY <1>1, <1>2, <1>3 DEF HeldJobsReceived
<1>5. HeldOnce'
  BY <1>1, <1>3 DEF HeldOnce, Holding
<1>6. OneResultPerJob'
  BY <1>1, <1>2 DEF OneResultPerJob, Indexes, Holding
<1>7. NoneDropped'
  <2> HIDE DEF ReceiveJob, TypeOK, Placement
  <2> SUFFICES ASSUME NEW j \in 1..received'
               PROVE  \/ \E v \in Workers : pc'[v] \in Holding /\ job'[v] = j
                      \/ \E i \in DOMAIN posted' : posted'[i].index = j
    BY DEF NoneDropped
  <2>1. CASE j = received + 1
    BY <2>1, <1>1 DEF Holding
  <2>2. CASE j \in 1..received
    BY <2>2, <1>1 DEF Placement, NoneDropped, Holding
  <2> QED
    BY <2>1, <2>2, <1>1
<1> QED
  BY <1>4, <1>5, <1>6, <1>7

\* A worker that posts answers the job it held and holds it no longer.
LEMMA PostMovesOne ==
    ASSUME TypeOK, Placement, NEW w \in Workers, pc[w] \in Holding,
           NEW r \in Result, r.index = job[w], posted' = Append(posted, r),
           NEW p \in {"receive", "exited"}, pc' = [pc EXCEPT ![w] = p],
           UNCHANGED <<received, job>>
    PROVE  Placement'
<1> USE DEF TypeOK, Placement
<1>1. /\ pc'[w] \notin Holding
      /\ \A v \in Workers \ {w} : pc'[v] = pc[v]
  BY DEF Holding
<1>2. /\ DOMAIN posted = 1..Len(posted) /\ Len(posted) \in Nat
      /\ DOMAIN posted' = 1..(Len(posted) + 1)
      /\ \A i \in DOMAIN posted : posted'[i] = posted[i]
      /\ posted'[Len(posted) + 1] = r
  OBVIOUS
<1>3. \A i \in DOMAIN posted : posted[i].index # job[w]
  BY DEF OneResultPerJob, Indexes
<1>4. HeldJobsReceived'
  BY <1>1, <1>2 DEF HeldJobsReceived
<1>5. HeldOnce'
  BY <1>1 DEF HeldOnce
<1>6. OneResultPerJob'
  <2>1. ASSUME NEW v \in Workers, pc'[v] \in Holding
        PROVE  job[v] \notin Indexes(posted')
    BY <2>1, <1>1, <1>2 DEF OneResultPerJob, HeldOnce, Indexes
  <2>2. ASSUME NEW i \in DOMAIN posted', NEW k \in DOMAIN posted',
               posted'[i].index = posted'[k].index
        PROVE  i = k
    BY <2>2, <1>2, <1>3 DEF OneResultPerJob
  <2> QED
    BY <2>1, <2>2 DEF OneResultPerJob, Indexes
<1>7. NoneDropped'
  <2> SUFFICES ASSUME NEW j \in 1..received
               PROVE  \/ \E v \in Workers : pc'[v] \in Holding /\ job[v] = j
                      \/ \E i \in DOMAIN posted' : posted'[i].index = j
    BY DEF NoneDropped
  <2>1. CASE j = job[w]
    BY <2>1, <1>2
  <2>2. CASE j # job[w]
    BY SMTT(30), <2>2, <1>1, <1>2 DEF NoneDropped
  <2> QED
    BY <2>1, <2>2
<1> QED
  BY <1>4, <1>5, <1>6, <1>7

-------------------------------------------------------------------------------
\* A result for the job a worker holds is a result.
LEMMA HeldResultTyped ==
    ASSUME TypeOK, HeldJobsReceived, NEW w \in Workers, pc[w] \in Holding,
           NEW st \in {"success", "error", "cancelled"}
    PROVE  [index |-> job[w], status |-> st] \in Result
<1>1. job[w] \in Jobs
  BY NumJobsAssumption DEF TypeOK, HeldJobsReceived, Jobs
<1> QED
  BY <1>1 DEF Result

\* Every step of the pool preserves the type invariant.
LEMMA TypeStep == TypeOK /\ HeldJobsReceived /\ [Next]_vars => TypeOK'
<1> SUFFICES ASSUME TypeOK, HeldJobsReceived, [Next]_vars PROVE TypeOK'
  OBVIOUS
<1> USE NumJobsAssumption DEF TypeOK
<1>1. CASE Cancel
  BY <1>1 DEF Cancel, chanVars, workerVars, effectVars
<1>2. CASE Launch
  BY <1>2 DEF Launch, chanVars, effectVars, WorkerPC
<1>3. CASE SendJob
  BY <1>3 DEF SendJob, workerVars, effectVars
<1>4. CASE CloseJobs
  BY <1>4 DEF CloseJobs, workerVars, effectVars
<1>5. CASE CloseResults
  BY <1>5 DEF CloseResults, workerVars, effectVars
<1>6. CASE Collect
  BY <1>6 DEF Collect, workerVars, effectVars
<1>7. CASE ExecuteReturns
  BY <1>7 DEF ExecuteReturns, chanVars, workerVars, effectVars
<1>8. ASSUME NEW w \in Workers, ReceiveJob(w) PROVE TypeOK'
  BY <1>8 DEF ReceiveJob, effectVars, WorkerPC
<1>9. ASSUME NEW w \in Workers, WorkerDone(w) PROVE TypeOK'
  BY <1>9 DEF WorkerDone, chanVars, effectVars, WorkerPC
<1>10. ASSUME NEW w \in Workers, PostCancelled(w) PROVE TypeOK'
  <2>1. [index |-> job[w], status |-> "cancelled"] \in Result
    BY <1>10, HeldResultTyped DEF PostCancelled, Holding
  <2> QED
    BY <1>10, <2>1 DEF PostCancelled, Post, effectVars, WorkerPC
<1>11. ASSUME NEW w \in Workers, PassCheck(w) \/ StartDownload(w) PROVE TypeOK'
  BY <1>11 DEF PassCheck, StartDownload, chanVars, effectVars, WorkerPC
<1>12. ASSUME NEW w \in Workers, NEW ok \in BOOLEAN, DownloadReturns(w, ok) PROVE TypeOK'
  <2>1. job[w] \in Jobs
    BY <1>12 DEF DownloadReturns, HeldJobsReceived, Holding, Jobs
  <2>2. succeeded' \in [Workers -> BOOLEAN]
    BY <1>12 DEF DownloadReturns
  <2> QED
    BY <1>12, <2>1, <2>2 DEF DownloadReturns, chanVars, WorkerPC
<1>13. ASSUME NEW w \in Workers, ReportCompletion(w) PROVE TypeOK'
  BY <1>13 DEF ReportCompletion, chanVars, WorkerPC
<1>14. ASSUME NEW w \in Workers, PostResult(w) PROVE TypeOK'
  <2> DEFINE st == IF succeeded[w] THEN "success" ELSE "error"
  <2>1. [index |-> job[w], status |-> st] \in Result
    BY <1>14, HeldResultTyped DEF PostResult, Holding
  <2> QED
    BY <1>14, <2>1 DEF PostResult, Post, effectVars, WorkerPC
<1>15. CASE UNCHANGED vars
  BY <1>15 DEF vars, chanVars, workerVars, effectVars
<1> QED
  BY <1>1, <1>2, <1>3, <1>4, <1>5, <1>6, <1>7, <1>8, <1>9, <1>10, <1>11, <1>12, <1>13, <1>14,
     <1>15 DEF Next, CallerStep, SenderStep, WorkerStep, OwnStep, DownloadEnds, Terminated

\* Every step preserves the placement of the jobs.
LEMMA PlacementStep == PoolInv /\ [Next]_vars => Placement'
<1> SUFFICES ASSUME PoolInv, [Next]_vars PROVE Placement'
  OBVIOUS
<1>0. TypeOK /\ Placement /\ Phases
  BY DEF PoolInv, Placement
<1>1. CASE Cancel \/ CallerStep \/ SenderStep \/ CloseResults \/ UNCHANGED vars
  <2>1. /\ UNCHANGED <<received, job, posted>>
        /\ \A w \in Workers : pc'[w] \in Holding <=> pc[w] \in Holding
    BY <1>0, <1>1 DEF Cancel, CallerStep, Launch, Collect, ExecuteReturns, SenderStep, SendJob,
       CloseJobs, CloseResults, vars, chanVars, workerVars, effectVars, Holding, Phases
  <2> QED
    BY <1>0, <2>1, NoJobMoves
<1>2. ASSUME NEW w \in Workers,
             \/ WorkerDone(w) \/ PassCheck(w) \/ StartDownload(w) \/ ReportCompletion(w)
             \/ \E ok \in BOOLEAN : DownloadReturns(w, ok)
      PROVE  Placement'
  <2>1. /\ UNCHANGED <<received, job, posted>>
        /\ \A v \in Workers : pc'[v] \in Holding <=> pc[v] \in Holding
    BY <1>0, <1>2 DEF WorkerDone, PassCheck, StartDownload, ReportCompletion, DownloadReturns, chanVars,
       Holding, TypeOK
  <2> QED
    BY <1>0, <2>1, NoJobMoves
<1>3. ASSUME NEW w \in Workers, ReceiveJob(w) PROVE Placement'
  BY <1>0, <1>3, ReceiveMovesOne
<1>4. ASSUME NEW w \in Workers, PostCancelled(w) PROVE Placement'
  <2> DEFINE r == [index |-> job[w], status |-> "cancelled"]
  <2>1. pc[w] \in Holding /\ r \in Result /\ r.index = job[w]
    BY <1>0, <1>4, HeldResultTyped DEF PostCancelled, Holding, Placement
  <2>2. /\ posted' = Append(posted, r) /\ pc' = [pc EXCEPT ![w] = "exited"]
        /\ UNCHANGED <<received, job>>
    BY <1>4 DEF PostCancelled, Post
  <2> HIDE DEF r
  <2> QED
    BY <1>0, <2>1, <2>2, PostMovesOne
<1>5. ASSUME NEW w \in Workers, PostResult(w) PROVE Placement'
  <2> DEFINE r == [index |-> job[w], status |-> IF succeeded[w] THEN "success" ELSE "error"]
  <2>1. pc[w] \in Holding /\ r \in Result /\ r.index = job[w]
    BY <1>0, <1>5, HeldResultTyped DEF PostResult, Holding, Placement
  <2>2. /\ posted' = Append(posted, r) /\ pc' = [pc EXCEPT ![w] = "receive"]
        /\ UNCHANGED <<received, job>>
    BY <1>5 DEF PostResult, Post
  <2> HIDE DEF r
  <2> QED
    BY <1>0, <2>1, <2>2, PostMovesOne
<1> QED
  BY <1>1, <1>2, <1>3, <1>4, <1>5 DEF Next, WorkerStep, OwnStep, DownloadEnds, Terminated

\* Every step preserves the bounds on the counters and the phases of Execute.
LEMMA PhasesStep == PoolInv /\ [Next]_vars => Counters' /\ Phases'
<1> SUFFICES ASSUME PoolInv, [Next]_vars PROVE Counters' /\ Phases'
  OBVIOUS
<1> USE NumJobsAssumption DEF PoolInv, TypeOK, Counters, Phases
<1>1. CASE Cancel
  BY <1>1 DEF Cancel, chanVars, workerVars
<1>2. CASE Launch
  BY <1>2 DEF Launch, chanVars
<1>3. CASE SenderStep
  BY <1>3 DEF SenderStep, SendJob, CloseJobs, workerVars
<1>4. CASE CloseResults
  BY <1>4 DEF CloseResults, workerVars
<1>5. CASE Collect
  BY <1>5 DEF Collect, workerVars
<1>6. CASE ExecuteReturns
  BY <1>6 DEF ExecuteReturns, chanVars, workerVars
<1>7. ASSUME NEW w \in Workers, ReceiveJob(w) PROVE Counters' /\ Phases'
  BY <1>7 DEF ReceiveJob
<1>8. ASSUME NEW w \in Workers,
             \/ WorkerDone(w) \/ PassCheck(w) \/ StartDownload(w) \/ ReportCompletion(w)
             \/ \E ok \in BOOLEAN : DownloadReturns(w, ok)
      PROVE  Counters' /\ Phases'
  BY <1>8 DEF WorkerDone, PassCheck, StartDownload, ReportCompletion, DownloadReturns, chanVars
<1>9. ASSUME NEW w \in Workers, PostCancelled(w) \/ PostResult(w) PROVE Counters' /\ Phases'
  <2>1. Len(posted') = Len(posted) + 1 /\ Len(posted) \in Nat
    BY <1>9 DEF PostCancelled, PostResult, Post
  <2>2. pc[w] \in {"check", "post"} /\ UNCHANGED <<received, sent, caller, collected, resultsClosed>>
    BY <1>9 DEF PostCancelled, PostResult
  <2>3. pc' = [pc EXCEPT ![w] = "exited"] \/ pc' = [pc EXCEPT ![w] = "receive"]
    BY <1>9 DEF PostCancelled, PostResult
  <2>4. Counters'
    BY <2>1, <2>2
  <2>5. Phases'
    BY <2>2, <2>3
  <2> QED
    BY <2>4, <2>5
<1>10. CASE UNCHANGED vars
  BY <1>10 DEF vars, chanVars, workerVars
<1> QED
  BY <1>1, <1>2, <1>3, <1>4, <1>5, <1>6, <1>7, <1>8, <1>9, <1>10
  DEF Next, CallerStep, WorkerStep, OwnStep, DownloadEnds, Terminated

\* Every step preserves: without a cancellation, a worker that left saw every job received.
LEMMA DrainedStep == PoolInv /\ [Next]_vars => DrainedUnlessCancelled'
<1> SUFFICES ASSUME PoolInv, [Next]_vars PROVE DrainedUnlessCancelled'
  OBVIOUS
<1> USE NumJobsAssumption DEF PoolInv, TypeOK, Counters, Phases, DrainedUnlessCancelled
<1>1. CASE Cancel
  BY <1>1 DEF Cancel
<1>2. CASE Launch
  BY <1>2 DEF Launch, chanVars
<1>3. CASE SenderStep
  BY <1>3 DEF SenderStep, SendJob, CloseJobs, workerVars
<1>4. CASE CloseResults \/ Collect \/ ExecuteReturns
  BY <1>4 DEF CloseResults, Collect, ExecuteReturns, chanVars, workerVars
<1>5. ASSUME NEW w \in Workers, ReceiveJob(w) PROVE DrainedUnlessCancelled'
  BY <1>5 DEF ReceiveJob
<1>6. ASSUME NEW w \in Workers, WorkerDone(w) PROVE DrainedUnlessCancelled'
  BY <1>6 DEF WorkerDone, chanVars
<1>7. ASSUME NEW w \in Workers,
             \/ PassCheck(w) \/ StartDownload(w) \/ ReportCompletion(w)
             \/ \E ok \in BOOLEAN : DownloadReturns(w, ok)
      PROVE  DrainedUnlessCancelled'
  BY <1>7 DEF PassCheck, StartDownload, ReportCompletion, DownloadReturns, chanVars
<1>8. ASSUME NEW w \in Workers, PostCancelled(w) \/ PostResult(w)
      PROVE  DrainedUnlessCancelled'
  BY <1>8 DEF PostCancelled, PostResult
<1>9. CASE UNCHANGED vars
  BY <1>9 DEF vars, chanVars, workerVars
<1> QED
  BY <1>1, <1>2, <1>3, <1>4, <1>5, <1>6, <1>7, <1>8, <1>9
  DEF Next, CallerStep, WorkerStep, OwnStep, DownloadEnds, Terminated

-------------------------------------------------------------------------------
\* The inductive invariant holds in every reachable state, for any number of
\* workers and jobs.
THEOREM PoolInvariant == Spec => []PoolInv
<1>1. PoolInv /\ [Next]_vars => PoolInv'
  BY TypeStep, PlacementStep, PhasesStep, DrainedStep DEF PoolInv, Placement
<1> QED
  BY InitPoolInv, <1>1, PTL DEF Spec

\* Every variable of the pool has its type in every reachable state.
THEOREM PoolTypeOK == Spec => []TypeOK
<1>1. PoolInv => TypeOK
  BY DEF PoolInv
<1> QED
  BY PoolInvariant, <1>1, PTL

\* A job that is held has no result yet, so that the results posted are fewer
\* than the jobs.
LEMMA HeldLeavesRoom ==
    ASSUME PoolInv, NEW w \in Workers, pc[w] \in Holding
    PROVE  Len(posted) < NumJobs
<1> DEFINE Answers == Jobs \ {job[w]}
           index == [i \in 1..Len(posted) |-> posted[i].index]
<1>1. job[w] \in Jobs /\ received \in 0..NumJobs
  BY NumJobsAssumption DEF PoolInv, HeldJobsReceived, TypeOK, Jobs
<1>2. posted \in Seq(Result) /\ Len(posted) \in Nat
  BY DEF PoolInv, TypeOK
<1>3. index \in Injection(1..Len(posted), Answers)
  <2>1. \A i \in 1..Len(posted) : posted[i].index \in Jobs
    <3>1. \A i \in 1..Len(posted) : posted[i] \in Result
      BY <1>2, ElementOfSeq
    <3> QED
      BY <3>1 DEF Result
  <2>2. job[w] \notin Indexes(posted) /\ DOMAIN posted = 1..Len(posted)
    BY <1>2 DEF PoolInv, OneResultPerJob
  <2>3. index \in [1..Len(posted) -> Answers]
    BY <2>1, <2>2 DEF Indexes
  <2>4. \A i, k \in 1..Len(posted) : posted[i].index = posted[k].index => i = k
    BY <2>2 DEF PoolInv, OneResultPerJob
  <2> QED
    BY <2>3, <2>4 DEF Injection, IsInjective
<1>4. IsFiniteSet(Jobs) /\ Cardinality(Jobs) = NumJobs
  BY FS_Interval, NumJobsAssumption DEF Jobs
<1>5. IsFiniteSet(Answers) /\ Cardinality(Answers) = NumJobs - 1
  BY <1>1, <1>4, FS_RemoveElement
<1>6. Cardinality(1..Len(posted)) = Len(posted)
  <2>1. Cardinality(1..Len(posted)) = IF 1 > Len(posted) THEN 0 ELSE Len(posted) - 1 + 1
    BY <1>2, FS_Interval
  <2> QED
    BY <1>2, <2>1
<1>7. Cardinality(1..Len(posted)) <= Cardinality(Answers)
  BY <1>3, <1>5, FS_Injection
<1> QED
  BY <1>2, <1>5, <1>6, <1>7, NumJobsAssumption

\* No goroutine sends on a closed or full channel, and none is left behind.
THEOREM PoolChannelsSafe == Spec => []ChannelsSafe
<1>1. PoolInv => ChannelsSafe
  <2> SUFFICES ASSUME PoolInv PROVE ChannelsSafe
    OBVIOUS
  <2>1. resultsClosed => \A w \in Workers : pc[w] = "exited"
    BY DEF PoolInv, Phases
  <2>2. caller = "returned" /\ NumJobs > 0 => jobsClosed \/ ctxDone
    BY <2>1, WorkersAssumption DEF PoolInv, Phases, DrainedUnlessCancelled
  <2>3. ASSUME NEW w \in Workers, pc[w] \in Holding
        PROVE  Len(posted) - collected < NumJobs
    <3>1. Len(posted) < NumJobs
      BY <2>3, HeldLeavesRoom
    <3>2. posted \in Seq(Result) /\ collected \in Nat
      BY DEF PoolInv, TypeOK
    <3>3. Len(posted) \in Nat
      BY <3>2
    <3> QED
      BY <3>1, <3>2, <3>3, NumJobsAssumption
  <2> QED
    BY <2>1, <2>2, <2>3 DEF ChannelsSafe
<1> QED
  BY PoolInvariant, <1>1, PTL

\* No job is handed out twice or answered twice.
THEOREM PoolOneResultPerJob == Spec => []OneResultPerJob
<1>1. PoolInv => OneResultPerJob
  BY DEF PoolInv
<1> QED
  BY PoolInvariant, <1>1, PTL

(***************************************************************************)
(* What a cancellation leaves to do.  A job received since then is held by *)
(* a worker at its check or was given up by a worker that left, so that    *)
(* there are no more of them than workers.                                 *)
(***************************************************************************)
PastCheck == {"start", "download", "report", "post"}

TakenLate ==
    /\ takenBefore <= received
    /\ \A j \in (takenBefore + 1)..received :
            \E w \in Workers : pc[w] \in {"check", "exited"} /\ job[w] = j

GivenUp ==
    /\ \A w \in Workers : pc[w] \in PastCheck => job[w] <= takenBefore
    /\ \A j \in onDisk : j <= takenBefore
    /\ \A i \in DOMAIN posted : posted[i].index > takenBefore => posted[i].status = "cancelled"

CancelInv ==
    /\ \A j \in onDisk : j <= received
    /\ ctxDone => TakenLate /\ GivenUp

\* A step that changes neither what is received, posted and on disk nor how far
\* a worker is past its check leaves the invariant alone.
LEMMA CancelRests ==
    ASSUME CancelInv, UNCHANGED <<ctxDone, takenBefore, received, job, posted, onDisk>>,
           \A w \in Workers : pc[w] \in {"check", "exited"} /\ ctxDone => pc'[w] \in {"check", "exited"},
           \A w \in Workers : pc'[w] \in PastCheck /\ ctxDone => pc[w] \in PastCheck
    PROVE  CancelInv'
<1>1. ctxDone => TakenLate'
  BY DEF CancelInv, TakenLate
<1>2. ctxDone => GivenUp'
  BY DEF CancelInv, GivenUp
<1> QED  BY <1>1, <1>2 DEF CancelInv

\* A worker that takes a job after the cancellation is at its check with it.
LEMMA ReceiveIsLate ==
    ASSUME PoolInv, CancelInv, NEW w \in Workers, ReceiveJob(w)
    PROVE  CancelInv'
<1> USE DEF PoolInv, TypeOK
<1>1. /\ received' = received + 1 /\ received \in Nat /\ takenBefore \in Nat
      /\ UNCHANGED <<ctxDone, takenBefore, posted, onDisk>>
      /\ job'[w] = received + 1 /\ pc'[w] = "check" /\ pc[w] = "receive"
      /\ \A v \in Workers \ {w} : job'[v] = job[v] /\ pc'[v] = pc[v]
  BY NumJobsAssumption DEF ReceiveJob, effectVars
<1>2. \A j \in onDisk : j \in Nat /\ j <= received
  BY NumJobsAssumption DEF CancelInv, Jobs
<1>3. ASSUME ctxDone PROVE TakenLate'
  <2> SUFFICES ASSUME NEW j \in (takenBefore + 1)..(received + 1)
               PROVE  \E v \in Workers : pc'[v] \in {"check", "exited"} /\ job'[v] = j
    BY <1>1, <1>3 DEF CancelInv, TakenLate
  <2>1. CASE j = received + 1
    BY <1>1, <2>1
  <2>2. CASE j # received + 1
    <3>1. j \in (takenBefore + 1)..received
      BY <1>1, <2>2
    <3>2. PICK v \in Workers : pc[v] \in {"check", "exited"} /\ job[v] = j
      BY <1>3, <3>1 DEF CancelInv, TakenLate
    <3> QED  BY <1>1, <3>2
  <2> QED  BY <2>1, <2>2
<1>4. ASSUME ctxDone PROVE GivenUp'
  BY <1>1, <1>4 DEF CancelInv, GivenUp, PastCheck
<1> QED  BY <1>1, <1>2, <1>3, <1>4 DEF CancelInv

\* The result of a job taken after the cancellation is a cancellation.
LEMMA PostIsGivenUp ==
    ASSUME PoolInv, CancelInv, NEW w \in Workers, NEW r \in Result,
           posted' = Append(posted, r), r.index = job[w],
           r.status = "cancelled" \/ pc[w] = "post",
           NEW p \in {"receive", "exited"}, pc' = [pc EXCEPT ![w] = p],
           pc[w] \in {"check", "post"}, pc[w] = "check" => p = "exited",
           UNCHANGED <<ctxDone, takenBefore, received, job, onDisk>>
    PROVE  CancelInv'
<1> USE DEF PoolInv, TypeOK
<1>1. /\ DOMAIN posted = 1..Len(posted) /\ Len(posted) \in Nat
      /\ DOMAIN posted' = 1..(Len(posted) + 1)
      /\ \A i \in DOMAIN posted : posted'[i] = posted[i]
      /\ posted'[Len(posted) + 1] = r
  OBVIOUS
<1>2. /\ pc'[w] = p
      /\ \A v \in Workers \ {w} : pc'[v] = pc[v]
  OBVIOUS
<1>3. ASSUME ctxDone PROVE TakenLate'
  <2> SUFFICES ASSUME NEW j \in (takenBefore + 1)..received
               PROVE  \E v \in Workers : pc'[v] \in {"check", "exited"} /\ job[v] = j
    BY <1>3 DEF CancelInv, TakenLate
  <2>1. PICK v \in Workers : pc[v] \in {"check", "exited"} /\ job[v] = j
    BY <1>3 DEF CancelInv, TakenLate
  <2> QED  BY <1>2, <2>1
<1>4. ASSUME ctxDone PROVE GivenUp'
  <2>1. job[w] \in Nat /\ takenBefore \in Nat /\ (pc[w] = "post" => job[w] <= takenBefore)
    BY <1>4, NumJobsAssumption DEF CancelInv, GivenUp, PastCheck
  <2>2. \A i \in DOMAIN posted' : posted'[i].index > takenBefore => posted'[i].status = "cancelled"
    <3> TAKE i \in DOMAIN posted'
    <3>1. CASE i = Len(posted) + 1
      BY <1>1, <2>1, <3>1
    <3>2. CASE i # Len(posted) + 1
      <4>1. i \in DOMAIN posted
        BY <1>1, <3>2
      <4> QED  BY <1>1, <1>4, <4>1 DEF CancelInv, GivenUp
    <3> QED  BY <3>1, <3>2
  <2>3. \A v \in Workers : pc'[v] \in PastCheck => job[v] <= takenBefore
    BY <1>2, <1>4 DEF CancelInv, GivenUp, PastCheck
  <2> QED  BY <1>4, <2>2, <2>3 DEF CancelInv, GivenUp
<1> QED  BY <1>3, <1>4 DEF CancelInv

\* Every step of the pool preserves it.
LEMMA CancelStep == PoolInv /\ CancelInv /\ [Next]_vars => CancelInv'
<1> SUFFICES ASSUME PoolInv, CancelInv, [Next]_vars PROVE CancelInv'
  OBVIOUS
<1> USE DEF PoolInv, TypeOK
<1>1. CASE Cancel
  <2>1. /\ takenBefore' = received /\ received \in Nat
        /\ UNCHANGED <<received, job, posted, onDisk, pc>>
    BY <1>1, NumJobsAssumption DEF Cancel, chanVars, workerVars, effectVars
  <2>2. \A i \in DOMAIN posted : posted[i].index \in Nat /\ posted[i].index <= received
    <3>1. \A i \in DOMAIN posted : posted[i] \in Result
      OBVIOUS
    <3> QED  BY <3>1, NumJobsAssumption DEF HeldJobsReceived, Result, Jobs
  <2>3. TakenLate'
    BY <2>1 DEF TakenLate
  <2>4. GivenUp'
    BY <2>1, <2>2 DEF GivenUp, CancelInv, HeldJobsReceived, PastCheck, Holding
  <2> QED  BY <2>1, <2>3, <2>4 DEF CancelInv
<1>2. CASE Launch
  <2>1. /\ received = 0 /\ posted = <<>> /\ \A w \in Workers : pc[w] = "unborn"
        /\ UNCHANGED <<ctxDone, takenBefore, received, job, posted, onDisk>>
        /\ \A w \in Workers : pc'[w] \in {"unborn", "receive"}
    BY <1>2 DEF Launch, Phases, chanVars, effectVars
  <2> QED  BY <2>1, CancelRests DEF PastCheck
<1>3. CASE SenderStep \/ CloseResults \/ Collect \/ ExecuteReturns \/ UNCHANGED vars
  <2>1. UNCHANGED <<ctxDone, takenBefore, received, job, posted, onDisk, pc>>
    BY <1>3 DEF SenderStep, SendJob, CloseJobs, CloseResults, Collect, ExecuteReturns, vars, chanVars,
       workerVars, effectVars
  <2> QED  BY <2>1, CancelRests
<1>4. ASSUME NEW w \in Workers,
             WorkerDone(w) \/ PassCheck(w) \/ StartDownload(w) \/ ReportCompletion(w)
      PROVE  CancelInv'
  <2>1. /\ UNCHANGED <<ctxDone, takenBefore, received, job, posted, onDisk>>
        /\ \A v \in Workers \ {w} : pc'[v] = pc[v]
        /\ \/ pc[w] = "receive" /\ pc'[w] = "exited"
           \/ pc[w] = "check" /\ ~ctxDone
           \/ pc[w] \in PastCheck /\ pc'[w] \in PastCheck
    BY <1>4 DEF WorkerDone, PassCheck, StartDownload, ReportCompletion, PastCheck, chanVars, effectVars
  <2> QED  BY <2>1, CancelRests DEF PastCheck
<1>5. ASSUME NEW w \in Workers, NEW ok \in BOOLEAN, DownloadReturns(w, ok) PROVE CancelInv'
  <2>1. /\ UNCHANGED <<ctxDone, takenBefore, received, job, posted>>
        /\ \A v \in Workers \ {w} : pc'[v] = pc[v]
        /\ pc[w] = "download" /\ pc'[w] = "report"
        /\ onDisk' \subseteq onDisk \cup {job[w]}
    BY <1>5 DEF DownloadReturns, chanVars
  <2>2. job[w] <= received /\ (ctxDone => job[w] <= takenBefore)
    BY <2>1, NumJobsAssumption DEF HeldJobsReceived, Holding, CancelInv, GivenUp, PastCheck
  <2>3. ctxDone => TakenLate'
    BY <2>1 DEF CancelInv, TakenLate
  <2>4. ctxDone => GivenUp'
    BY <2>1, <2>2 DEF CancelInv, GivenUp, PastCheck
  <2> QED  BY <2>1, <2>2, <2>3, <2>4 DEF CancelInv
<1>6. ASSUME NEW w \in Workers, PostCancelled(w) PROVE CancelInv'
  <2> DEFINE r == [index |-> job[w], status |-> "cancelled"]
  <2>1. r \in Result /\ r.index = job[w] /\ r.status = "cancelled"
    BY <1>6, HeldResultTyped DEF PostCancelled, Holding
  <2>2. /\ posted' = Append(posted, r) /\ pc' = [pc EXCEPT ![w] = "exited"] /\ pc[w] = "check"
        /\ UNCHANGED <<ctxDone, takenBefore, received, job, onDisk>>
    BY <1>6 DEF PostCancelled, Post, effectVars
  <2> HIDE DEF r
  <2> QED  BY <2>1, <2>2, PostIsGivenUp
<1>7. ASSUME NEW w \in Workers, PostResult(w) PROVE CancelInv'
  <2> DEFINE r == [index |-> job[w], status |-> IF succeeded[w] THEN "success" ELSE "error"]
  <2>1. r \in Result /\ r.index = job[w]
    BY <1>7, HeldResultTyped DEF PostResult, Holding
  <2>2. /\ posted' = Append(posted, r) /\ pc' = [pc EXCEPT ![w] = "receive"] /\ pc[w] = "post"
        /\ UNCHANGED <<ctxDone, takenBefore, received, job, onDisk>>
    BY <1>7 DEF PostResult, Post, effectVars
  <2> HIDE DEF r
  <2> QED  BY <2>1, <2>2, PostIsGivenUp
<1>8. ASSUME NEW w \in Workers, ReceiveJob(w) PROVE CancelInv'
  BY <1>8, ReceiveIsLate
<1> QED
  BY <1>1, <1>2, <1>3, <1>4, <1>5, <1>6, <1>7, <1>8
  DEF Next, CallerStep, WorkerStep, OwnStep, DownloadEnds, Terminated

\* The jobs taken late are no more than the workers.
LEMMA LateIsFew ==
    ASSUME PoolInv, TakenLate
    PROVE  received <= takenBefore + Cardinality(Workers)
<1> DEFINE J == (takenBefore + 1)..received
           holder == [j \in J |-> CHOOSE w \in Workers : pc[w] \in {"check", "exited"} /\ job[w] = j]
<1>1. received \in Nat /\ takenBefore \in Nat /\ takenBefore <= received
  BY NumJobsAssumption DEF PoolInv, TypeOK, TakenLate
<1>2. \A j \in J : holder[j] \in Workers /\ job[holder[j]] = j
  BY DEF TakenLate
<1>3. holder \in [J -> Workers]
  BY <1>2
<1> HIDE DEF holder
<1>4. holder \in Injection(J, Workers)
  BY <1>2, <1>3 DEF Injection, IsInjective
<1>5. Cardinality(J) <= Cardinality(Workers)
  BY <1>4, WorkersAssumption, FS_Injection
<1>6. Cardinality(J) = IF takenBefore + 1 <= received THEN received - (takenBefore + 1) + 1 ELSE 0
  BY <1>1, FS_Interval
<1>7. Cardinality(Workers) \in Nat
  BY WorkersAssumption, FS_CardinalityType
<1> QED  BY <1>1, <1>5, <1>6, <1>7

\* Once the context is done each worker takes at most one more job, and a job
\* taken since then leaves nothing on disk and a cancellation as its result.
THEOREM PoolCancelStopsWork == Spec => []CancelStopsWork
<1>1. Init => CancelInv
  <2> SUFFICES ASSUME Init PROVE CancelInv
    OBVIOUS
  <2>1. /\ takenBefore = 0 /\ received = 0 /\ posted = <<>> /\ onDisk = {}
        /\ \A w \in Workers : pc[w] = "unborn"
    BY DEF Init
  <2>2. TakenLate /\ GivenUp
    BY <2>1 DEF TakenLate, GivenUp, PastCheck
  <2> QED  BY <2>1, <2>2 DEF CancelInv
<1>2. PoolInv /\ CancelInv => CancelStopsWork
  BY LateIsFew DEF CancelInv, GivenUp, CancelStopsWork
<1> QED
  BY <1>1, <1>2, CancelStep, PoolInvariant, PTL DEF Spec

-------------------------------------------------------------------------------
\* A worker that posts settles exactly its job in the abstract batch.
LEMMA PostSettles ==
    ASSUME TypeOK, Placement, NEW w \in Workers, pc[w] \in Holding,
           NEW r \in Result, r.index = job[w], posted' = Append(posted, r)
    PROVE  /\ batchOutcome[job[w]] = "none" /\ job[w] \in Jobs
           /\ \E o \in {"success", "failed"} :
                 batchOutcome' = [batchOutcome EXCEPT ![job[w]] = o]
<1> DEFINE j == job[w]
           o == IF r.status = "success" THEN "success" ELSE "failed"
<1> USE DEF TypeOK, Placement
<1>1. /\ DOMAIN posted = 1..Len(posted) /\ Len(posted) \in Nat
      /\ DOMAIN posted' = 1..(Len(posted) + 1)
      /\ \A i \in DOMAIN posted : posted'[i] = posted[i]
      /\ posted'[Len(posted) + 1] = r
  OBVIOUS
<1>2. \A i \in DOMAIN posted : posted[i].index # j
  BY DEF OneResultPerJob, Indexes
<1>3. j \in Jobs
  BY NumJobsAssumption DEF HeldJobsReceived, Jobs
<1>4. batchOutcome[j] = "none"
  BY <1>2, <1>3 DEF batchOutcome, Answered, AnsweredWell
<1>5. /\ \E i \in DOMAIN posted' : posted'[i].index = j
      /\ (\E i \in DOMAIN posted' : posted'[i].index = j /\ posted'[i].status = "success")
            <=> r.status = "success"
  <2>1. /\ Len(posted) + 1 \in DOMAIN posted' /\ posted'[Len(posted) + 1].index = j
        /\ \A i \in DOMAIN posted' : posted'[i].index = j => i = Len(posted) + 1
    BY <1>1, <1>2
  <2>2. posted'[Len(posted) + 1].status = r.status
    BY <1>1
  <2> HIDE DEF j, TypeOK
  <2> QED
    BY <2>1, <2>2
<1>6. \A k \in Jobs \ {j} : /\ Answered(k)' <=> Answered(k)
                            /\ AnsweredWell(k)' <=> AnsweredWell(k)
  BY <1>1 DEF Answered, AnsweredWell
<1>7. batchOutcome' = [batchOutcome EXCEPT ![j] = o]
  <2>1. batchOutcome'[j] = o
    BY <1>3, <1>5 DEF batchOutcome, Answered, AnsweredWell
  <2>2. \A k \in Jobs \ {j} : batchOutcome'[k] = batchOutcome[k]
    BY <1>6 DEF batchOutcome
  <2>3. batchOutcome \in [Jobs -> Batch!Outcome] /\ batchOutcome' = [k \in Jobs |-> batchOutcome'[k]]
    BY DEF batchOutcome, Batch!Outcome
  <2> QED
    BY <1>3, <2>1, <2>2, <2>3
<1> QED
  BY <1>3, <1>4, <1>7

\* Every step of the pool is a step of the batch or leaves the batch unchanged.
LEMMA BatchStep == PoolInv /\ [Next]_vars => [Batch!BatchNext]_Batch!batchVars
<1> SUFFICES ASSUME PoolInv, [Next]_vars PROVE [Batch!BatchNext]_Batch!batchVars
  OBVIOUS
<1> USE DEF Batch!BatchNext, Batch!batchVars
<1>0. TypeOK /\ Placement /\ Phases /\ DrainedUnlessCancelled
  BY DEF PoolInv, Placement
<1>1. ASSUME UNCHANGED posted PROVE batchOutcome' = batchOutcome
  BY <1>1 DEF batchOutcome, Answered, AnsweredWell
<1>2. CASE Cancel
  <2>1. ~ctxDone /\ ctxDone' = TRUE /\ UNCHANGED <<posted, caller>>
    BY <1>2 DEF Cancel, chanVars
  <2> QED
    BY <1>1, <2>1 DEF Batch!CancelBatch
<1>3. CASE Launch
  <2>1. UNCHANGED <<posted, ctxDone>> /\ caller = "entry"
    BY <1>3 DEF Launch, chanVars
  <2>2. CASE NumJobs = 0
    <3>1. caller' = "returned" /\ Jobs = {}
      BY <1>3, <2>2 DEF Launch, Jobs
    <3> QED
      BY <1>1, <2>1, <3>1 DEF Batch!Return
  <2>3. CASE NumJobs # 0
    BY <1>1, <1>3, <2>1, <2>3 DEF Launch
  <2> QED
    BY <2>2, <2>3
<1>4. CASE SenderStep \/ CloseResults \/ Collect \/ UNCHANGED vars
  <2>1. UNCHANGED <<posted, ctxDone, caller>>
    BY <1>4 DEF SenderStep, SendJob, CloseJobs, CloseResults, Collect, vars, chanVars
  <2> QED
    BY <1>1, <2>1
<1>5. CASE ExecuteReturns
  <2>1. UNCHANGED <<posted, ctxDone>> /\ caller = "collecting" /\ caller' = "returned"
        /\ resultsClosed
    BY <1>5 DEF ExecuteReturns, chanVars
  <2>2. ASSUME ~ctxDone, NEW j \in Jobs PROVE Answered(j)
    <3>1. \A w \in Workers : pc[w] = "exited"
      BY <1>0, <2>1 DEF Phases
    <3>2. received = NumJobs
      BY <1>0, <2>2, <3>1, WorkersAssumption DEF DrainedUnlessCancelled
    <3> QED
      BY <1>0, <3>1, <3>2 DEF Placement, NoneDropped, Answered, Holding, Jobs
  <2>3. ctxDone \/ \A j \in Jobs : batchOutcome[j] # "none"
    BY <2>2 DEF batchOutcome
  <2> QED
    BY <1>1, <2>1, <2>3 DEF Batch!Return
<1>6. ASSUME NEW w \in Workers, PostCancelled(w) \/ PostResult(w)
      PROVE  [Batch!BatchNext]_Batch!batchVars
  <2>1. pc[w] \in Holding /\ UNCHANGED <<ctxDone, caller>>
    BY <1>6 DEF PostCancelled, PostResult, Holding
  <2>2. \E r \in Result : r.index = job[w] /\ posted' = Append(posted, r)
    <3>1. PICK st \in {"success", "error", "cancelled"} :
             posted' = Append(posted, [index |-> job[w], status |-> st])
      BY <1>6 DEF PostCancelled, PostResult, Post
    <3>2. [index |-> job[w], status |-> st] \in Result
      BY <1>0, <2>1, HeldResultTyped DEF Placement
    <3> QED
      BY <3>1, <3>2
  <2>3. caller # "returned"
    BY <1>0, <2>1 DEF Phases, Holding
  <2>4. /\ batchOutcome[job[w]] = "none" /\ job[w] \in Jobs
        /\ \E o \in {"success", "failed"} : batchOutcome' = [batchOutcome EXCEPT ![job[w]] = o]
    BY <1>0, <2>1, <2>2, PostSettles
  <2>5. Batch!Settle(job[w])
    BY <2>1, <2>3, <2>4 DEF Batch!Settle
  <2> QED
    BY <2>4, <2>5
<1>7. ASSUME NEW w \in Workers,
             \/ ReceiveJob(w) \/ WorkerDone(w) \/ PassCheck(w) \/ StartDownload(w) \/ ReportCompletion(w)
             \/ \E ok \in BOOLEAN : DownloadReturns(w, ok)
      PROVE  [Batch!BatchNext]_Batch!batchVars
  <2>1. UNCHANGED <<posted, ctxDone, caller>>
    BY <1>7 DEF ReceiveJob, WorkerDone, PassCheck, StartDownload, ReportCompletion, DownloadReturns, chanVars
  <2> QED
    BY <1>1, <2>1
<1> QED
  BY <1>2, <1>3, <1>4, <1>5, <1>6, <1>7 DEF Next, CallerStep, WorkerStep, OwnStep, DownloadEnds, Terminated

\* The pool implements the batch that SyncProvider and the retry rely on:
\* each job settled at most once, and none left out unless cancelled.
THEOREM PoolImplementsBatch == Spec => ImplementsBatch
<1>1. Init => Batch!BatchInit
  BY DEF Init, Batch!BatchInit, batchOutcome, Answered, AnsweredWell
<1> QED
  BY <1>1, BatchStep, PoolInvariant, PTL DEF Spec, ImplementsBatch, Batch!BatchSpec

-------------------------------------------------------------------------------
(* The results in their order *)

\* Induction over the natural numbers, for a set in place of a predicate.
LEMMA SetInduction ==
  ASSUME NEW S, 0 \in S, \A n \in Nat : n \in S => n + 1 \in S
  PROVE  Nat \subseteq S
<1> SUFFICES ASSUME Nat \ S # {} PROVE FALSE
  OBVIOUS
<1>1. \A n, k \in Nat : <<k, n>> \in OpToRel(<, Nat) <=> k < n
  BY DEF OpToRel
<1> DEFINE R == OpToRel(<, Nat)
<1>2. IsWellFoundedOn(R, Nat)
  BY NatLessThanWellFounded
<1> HIDE DEF R
<1>3. PICK n \in Nat \ S : \A k \in Nat \ S : ~(<<k, n>> \in R)
  <2>1. Nat \ S \subseteq Nat
    OBVIOUS
  <2> QED  BY <1>2, <2>1, WFMin
<1>4. \A k \in Nat \ S : ~(k < n)
  BY <1>1, <1>3 DEF R
<1>5. n # 0 /\ n - 1 \in Nat /\ n - 1 < n /\ (n - 1) + 1 = n
  OBVIOUS
<1>6. n - 1 \in S
  BY <1>4, <1>5
<1> QED  BY <1>5, <1>6

\* A nonempty list of numbers has a greatest one.
LEMMA GreatestExists ==
  ASSUME NEW n \in Nat \ {0}, NEW key \in [1..n -> Nat]
  PROVE  \E m \in 1..n : \A i \in 1..n : key[i] <= key[m]
<1> DEFINE S == {k \in Nat : k + 1 <= n => \E m \in 1..(k + 1) : \A i \in 1..(k + 1) : key[i] <= key[m]}
<1>1. 0 \in S
  OBVIOUS
<1>2. ASSUME NEW k \in Nat, k \in S PROVE k + 1 \in S
  <2> SUFFICES ASSUME (k + 1) + 1 <= n
               PROVE  \E m \in 1..((k + 1) + 1) : \A i \in 1..((k + 1) + 1) : key[i] <= key[m]
    OBVIOUS
  <2>1. PICK m \in 1..(k + 1) : \A i \in 1..(k + 1) : key[i] <= key[m]
    BY <1>2
  <2> DEFINE top == (k + 1) + 1
  <2>2. top \in 1..n /\ m \in 1..n /\ 1..top = 1..(k + 1) \cup {top}
    OBVIOUS
  <2>3. key[m] \in Nat /\ key[top] \in Nat /\ \A i \in 1..(k + 1) : key[i] \in Nat
    BY <2>2
  <2> HIDE DEF top
  <2>4. CASE key[top] <= key[m]
    <3>1. \A i \in 1..top : key[i] <= key[m]
      BY <2>1, <2>2, <2>4
    <3>2. m \in 1..top
      BY DEF top
    <3> QED  BY <3>1, <3>2 DEF top
  <2>5. CASE key[m] <= key[top]
    <3>1. \A i \in 1..(k + 1) : key[i] <= key[top]
      BY <2>1, <2>3, <2>5
    <3>2. \A i \in 1..top : key[i] <= key[top]
      <4>1. \A i \in 1..top : i \in 1..(k + 1) \/ i = top
        BY <2>2
      <4>2. key[top] <= key[top]
        BY <2>3
      <4> QED  BY <3>1, <4>1, <4>2
    <3>3. top \in 1..top
      BY DEF top
    <3> QED  BY <3>2, <3>3 DEF top
  <2> QED  BY <2>3, <2>4, <2>5
<1> HIDE DEF S
<1>3. n - 1 \in S /\ n - 1 \in Nat /\ (n - 1) + 1 = n
  BY <1>1, <1>2, SetInduction
<1> QED  BY <1>3 DEF S

\* Any finite list can be put in order.
LEMMA OrderExists ==
  ASSUME NEW n \in Nat, NEW key \in [1..n -> Nat]
  PROVE  \E p \in Bijection(1..n, 1..n) : \A i, k \in 1..n : i < k => key[p[i]] <= key[p[k]]
<1> DEFINE Ordered(p, m, f) == p \in Bijection(1..m, 1..m) /\ \A i, k \in 1..m : i < k => f[p[i]] <= f[p[k]]
           S == {m \in Nat : \A f \in [1..m -> Nat] : \E p : Ordered(p, m, f)}
<1> HIDE DEF Ordered
<1>1. 0 \in S
  <2>1. ASSUME NEW f \in [1..0 -> Nat] PROVE Ordered([i \in 1..0 |-> i], 0, f)
    BY DEF Ordered, Bijection, Injection, Surjection, IsInjective
  <2> QED  BY <2>1
<1>2. ASSUME NEW m \in Nat, m \in S PROVE m + 1 \in S
  <2> SUFFICES ASSUME NEW f \in [1..(m + 1) -> Nat] PROVE \E p : Ordered(p, m + 1, f)
    OBVIOUS
  <2>0. m + 1 \in 1..(m + 1) /\ \A i \in 1..(m + 1) : i # m + 1 => i \in 1..m
    OBVIOUS
  <2>1. PICK t \in 1..(m + 1) : \A i \in 1..(m + 1) : f[i] <= f[t]
    <3>1. m + 1 \in Nat \ {0}
      OBVIOUS
    <3> QED  BY <3>1, GreatestExists
  <2> DEFINE g == [i \in 1..m |-> IF i = t THEN f[m + 1] ELSE f[i]]
  <2>2. g \in [1..m -> Nat]
    OBVIOUS
  <2>3. PICK q : Ordered(q, m, g)
    BY <1>2, <2>2
  <2> DEFINE p == [i \in 1..(m + 1) |-> IF i = m + 1 THEN t ELSE IF q[i] = t THEN m + 1 ELSE q[i]]
  <2>4. q \in [1..m -> 1..m] /\ (\A a, b \in 1..m : q[a] = q[b] => a = b) /\ (\A a \in 1..m : \E b \in 1..m : q[b] = a)
        /\ \A i, k \in 1..m : i < k => g[q[i]] <= g[q[k]]
    BY <2>3 DEF Ordered, Bijection, Injection, Surjection, IsInjective
  <2>5. p[m + 1] = t /\ \A i \in 1..m : i \in 1..(m + 1) /\ i # m + 1 /\ p[i] = IF q[i] = t THEN m + 1 ELSE q[i]
    BY <2>0
  <2>6. \A i \in 1..m : q[i] \in 1..m /\ q[i] \in 1..(m + 1) /\ q[i] # m + 1
    <3>1. \A i \in 1..m : q[i] \in 1..m
      BY <2>4
    <3> QED  BY <3>1
  <2>7. DOMAIN p = 1..(m + 1) /\ p = [i \in 1..(m + 1) |-> p[i]]
    OBVIOUS
  <2> HIDE DEF p
  <2>8. p \in [1..(m + 1) -> 1..(m + 1)]
    <3>1. \A i \in 1..(m + 1) : p[i] \in 1..(m + 1)
      BY <2>0, <2>5, <2>6
    <3> QED  BY <2>7, <3>1
  <2>9. ASSUME NEW a \in 1..(m + 1), NEW b \in 1..(m + 1), p[a] = p[b] PROVE a = b
    <3>1. CASE a \in 1..m /\ b \in 1..m
      <4>1. q[a] = q[b]
        BY <2>5, <2>6, <2>9, <3>1
      <4> QED  BY <2>4, <3>1, <4>1
    <3>2. CASE a = m + 1 /\ b \in 1..m
      BY <2>5, <2>6, <2>9, <3>2
    <3>3. CASE b = m + 1 /\ a \in 1..m
      BY <2>5, <2>6, <2>9, <3>3
    <3> QED  BY <2>0, <3>1, <3>2, <3>3
  <2>10. ASSUME NEW a \in 1..(m + 1) PROVE \E b \in 1..(m + 1) : p[b] = a
    <3>1. CASE a = t
      BY <2>0, <2>5, <3>1
    <3>2. CASE a # t /\ a \in 1..m
      <4>1. PICK b \in 1..m : q[b] = a
        BY <2>4, <3>2
      <4> QED  BY <2>5, <3>2, <4>1
    <3>3. CASE a # t /\ a = m + 1
      <4>1. t \in 1..m
        BY <2>0, <3>3
      <4>2. PICK b \in 1..m : q[b] = t
        BY <2>4, <4>1
      <4> QED  BY <2>5, <3>3, <4>2
    <3> QED  BY <2>0, <3>1, <3>2, <3>3
  <2>11. \A i \in 1..m : f[p[i]] = g[q[i]]
    <3> TAKE i \in 1..m
    <3>1. g[q[i]] = IF q[i] = t THEN f[m + 1] ELSE f[q[i]]
      BY <2>6
    <3> QED  BY <2>5, <3>1
  <2> HIDE DEF g
  <2>12. ASSUME NEW i \in 1..(m + 1), NEW k \in 1..(m + 1), i < k PROVE f[p[i]] <= f[p[k]]
    <3>1. CASE k = m + 1
      <4>1. p[i] \in 1..(m + 1)
        BY <2>8
      <4> QED  BY <2>1, <2>5, <3>1, <4>1
    <3>2. CASE k # m + 1
      <4>1. i \in 1..m /\ k \in 1..m
        BY <2>12, <3>2
      <4> QED  BY <2>4, <2>11, <2>12, <4>1
    <3> QED  BY <3>1, <3>2
  <2>13. Ordered(p, m + 1, f)
    BY <2>8, <2>9, <2>10, <2>12 DEF Ordered, Bijection, Injection, Surjection, IsInjective
  <2> QED  BY <2>13
<1> HIDE DEF S
<1>3. n \in S
  BY <1>1, <1>2, SetInduction
<1> QED  BY <1>3 DEF S, Ordered

\* Execute's sort returns the results that were posted, each once, in order.
LEMMA SortedResults ==
  ASSUME NEW rs \in Seq(Result)
  PROVE  \E p \in Bijection(DOMAIN rs, DOMAIN rs) :
            /\ SortByIndex(rs) = [i \in DOMAIN rs |-> rs[p[i]]]
            /\ \A i, k \in DOMAIN rs : i < k => rs[p[i]].index <= rs[p[k]].index
<1> DEFINE key == [i \in 1..Len(rs) |-> rs[i].index]
<1>1. Len(rs) \in Nat /\ DOMAIN rs = 1..Len(rs)
  OBVIOUS
<1>2. \A i \in DOMAIN rs : rs[i].index \in Nat
  <2>1. \A i \in DOMAIN rs : rs[i] \in Result
    BY ElementOfSeq, <1>1
  <2> QED  BY <2>1, NumJobsAssumption DEF Result, Jobs
<1>3. key \in [1..Len(rs) -> Nat]
  BY <1>1, <1>2
<1> HIDE DEF key
<1>4. \E p \in Bijection(1..Len(rs), 1..Len(rs)) : \A i, k \in 1..Len(rs) : i < k => key[p[i]] <= key[p[k]]
  BY <1>1, <1>3, OrderExists
<1>5. PICK p \in Bijection(1..Len(rs), 1..Len(rs)) : \A i, k \in 1..Len(rs) : i < k => key[p[i]] <= key[p[k]]
  BY <1>4
<1>6. \A i \in 1..Len(rs) : p[i] \in 1..Len(rs)
  BY <1>5 DEF Bijection, Injection
<1>7. \A i, k \in DOMAIN rs : i < k => rs[p[i]].index <= rs[p[k]].index
  BY <1>1, <1>5, <1>6 DEF key
<1> DEFINE Orders(q) == \A i, k \in DOMAIN rs : i < k => rs[q[i]].index <= rs[q[k]].index
           order == CHOOSE q \in Bijection(DOMAIN rs, DOMAIN rs) : Orders(q)
<1>8. p \in Bijection(DOMAIN rs, DOMAIN rs) /\ Orders(p)
  BY <1>1, <1>5, <1>7
<1>9. SortByIndex(rs) = [i \in DOMAIN rs |-> rs[order[i]]]
  BY DEF SortByIndex
<1> HIDE DEF Orders
<1>10. order \in Bijection(DOMAIN rs, DOMAIN rs) /\ Orders(order)
  BY <1>8
<1> HIDE DEF order
<1> QED  BY <1>9, <1>10 DEF Orders

-------------------------------------------------------------------------------
(* What the disk and the progress page count *)

\* The jobs that some result answers so, and those that a worker in one of the
\* given places holds after a download that ended well, or did not.
AnsweredAs(s) == {j \in Jobs : \E i \in DOMAIN posted : posted[i].index = j /\ posted[i].status = s}
HeldWell(at) == {j \in Jobs : \E w \in Workers : pc[w] \in at /\ job[w] = j /\ succeeded[w]}
HeldBadly(at) == {j \in Jobs : \E w \in Workers : pc[w] \in at /\ job[w] = j /\ ~succeeded[w]}

\* A file is in place, and a download counted, from the moment it ends and is
\* reported until its result is posted, and from then on; a result that says
\* that its job was given up is the last of its worker.
OutcomeInv ==
    /\ onDisk = AnsweredAs("success") \cup HeldWell({"report", "post"})
    /\ completedFiles = Cardinality(AnsweredAs("success") \cup HeldWell({"post"}))
    /\ failedFiles = Cardinality(AnsweredAs("error") \cup HeldBadly({"post"}))
    /\ \A i \in DOMAIN posted : posted[i].status = "cancelled" =>
          \E w \in Workers : pc[w] = "exited" /\ job[w] = posted[i].index
    /\ caller = "returned" => results = SortByIndex(posted)
    /\ caller = "entry" => results = <<>>

\* Where a worker is: which of its steps change what is counted.
LEMMA OutcomeRests ==
  ASSUME OutcomeInv, UNCHANGED <<posted, onDisk, completedFiles, failedFiles>>,
         \A w \in Workers : pc[w] \in {"report", "post", "exited"} =>
            pc'[w] = pc[w] /\ job'[w] = job[w] /\ (succeeded'[w] <=> succeeded[w]),
         \A w \in Workers : pc'[w] \in {"report", "post"} => pc[w] \in {"report", "post"},
         caller' = "returned" => results' = SortByIndex(posted),
         caller' = "entry" => results' = <<>>
  PROVE  OutcomeInv'
<1>1. AnsweredAs("success")' = AnsweredAs("success") /\ AnsweredAs("error")' = AnsweredAs("error")
  BY DEF AnsweredAs
<1>2. /\ HeldWell({"report", "post"})' = HeldWell({"report", "post"})
      /\ HeldWell({"post"})' = HeldWell({"post"}) /\ HeldBadly({"post"})' = HeldBadly({"post"})
  <2>1. \A w \in Workers : (pc'[w] = "report" <=> pc[w] = "report") /\ (pc'[w] = "post" <=> pc[w] = "post")
    OBVIOUS
  <2>2. HeldWell({"report", "post"})' = HeldWell({"report", "post"})
    BY <2>1 DEF HeldWell
  <2>3. HeldWell({"post"})' = HeldWell({"post"})
    BY <2>1 DEF HeldWell
  <2>4. HeldBadly({"post"})' = HeldBadly({"post"})
    BY <2>1 DEF HeldBadly
  <2> QED  BY <2>2, <2>3, <2>4
<1>3. \A i \in DOMAIN posted : posted[i].status = "cancelled" =>
          \E w \in Workers : pc'[w] = "exited" /\ job'[w] = posted[i].index
  BY DEF OutcomeInv
<1> QED  BY <1>1, <1>2, <1>3 DEF OutcomeInv

\* A download that ends well puts its file in place.
LEMMA DownloadPlaces ==
  ASSUME PoolInv, OutcomeInv, NEW w \in Workers, NEW ok \in BOOLEAN, DownloadReturns(w, ok)
  PROVE  OutcomeInv'
<1>1. /\ pc[w] = "download" /\ pc'[w] = "report" /\ (succeeded'[w] <=> ok)
      /\ onDisk' = IF ok THEN onDisk \cup {job[w]} ELSE onDisk
      /\ \A v \in Workers \ {w} : pc'[v] = pc[v] /\ succeeded'[v] = succeeded[v]
      /\ UNCHANGED <<caller, results, posted, job, completedFiles, failedFiles>>
  BY DEF DownloadReturns, PoolInv, TypeOK, chanVars
<1>2. job[w] \in Jobs
  BY <1>1, NumJobsAssumption DEF PoolInv, HeldJobsReceived, TypeOK, Holding, Jobs
<1>3. AnsweredAs("success")' = AnsweredAs("success") /\ AnsweredAs("error")' = AnsweredAs("error")
  BY <1>1 DEF AnsweredAs
<1>4. \A v \in Workers : (pc'[v] = "post" <=> pc[v] = "post") /\ (pc[v] = "post" => v # w)
  BY <1>1
<1>5. HeldWell({"post"})' = HeldWell({"post"})
  BY <1>1, <1>4 DEF HeldWell
<1>6. HeldBadly({"post"})' = HeldBadly({"post"})
  BY <1>1, <1>4 DEF HeldBadly
<1>7. HeldWell({"report", "post"})' = IF ok THEN HeldWell({"report", "post"}) \cup {job[w]}
                                      ELSE HeldWell({"report", "post"})
  <2>1. CASE ok
    BY <1>1, <1>2, <2>1 DEF HeldWell
  <2>2. CASE ~ok
    BY <1>1, <1>2, <2>2 DEF HeldWell
  <2> QED  BY <2>1, <2>2
<1>8. \A i \in DOMAIN posted : posted[i].status = "cancelled" =>
          \E v \in Workers : pc'[v] = "exited" /\ job'[v] = posted[i].index
  <2>1. \A v \in Workers : pc[v] = "exited" => pc'[v] = "exited" /\ job'[v] = job[v]
    BY <1>1
  <2> QED  BY <2>1 DEF OutcomeInv
<1>9. onDisk' = AnsweredAs("success")' \cup HeldWell({"report", "post"})'
  BY <1>1, <1>3, <1>7 DEF OutcomeInv
<1> QED  BY <1>1, <1>3, <1>5, <1>6, <1>8, <1>9 DEF OutcomeInv

\* The jobs are finitely many.
LEMMA CountsAreFinite ==
  /\ \A s, t : IsFiniteSet(AnsweredAs(s) \cup HeldWell(t)) /\ IsFiniteSet(AnsweredAs(s) \cup HeldBadly(t))
<1>1. IsFiniteSet(Jobs)
  BY FS_Interval, NumJobsAssumption DEF Jobs
<1>2. \A s, t : AnsweredAs(s) \cup HeldWell(t) \in SUBSET Jobs /\ AnsweredAs(s) \cup HeldBadly(t) \in SUBSET Jobs
  BY DEF AnsweredAs, HeldWell, HeldBadly
<1> QED  BY <1>1, <1>2, FS_Subset

\* OnComplete counts a download that was not counted before.
LEMMA ReportCounts ==
  ASSUME PoolInv, OutcomeInv, NEW w \in Workers, ReportCompletion(w)
  PROVE  OutcomeInv'
<1>1. /\ pc[w] = "report" /\ pc'[w] = "post"
      /\ IF succeeded[w] THEN completedFiles' = completedFiles + 1 /\ failedFiles' = failedFiles
         ELSE failedFiles' = failedFiles + 1 /\ completedFiles' = completedFiles
      /\ \A v \in Workers \ {w} : pc'[v] = pc[v]
      /\ UNCHANGED <<caller, results, posted, job, succeeded, onDisk>>
  BY DEF ReportCompletion, PoolInv, TypeOK, chanVars
<1>2. job[w] \in Jobs
  BY <1>1, NumJobsAssumption DEF PoolInv, HeldJobsReceived, TypeOK, Holding, Jobs
<1>3. AnsweredAs("success")' = AnsweredAs("success") /\ AnsweredAs("error")' = AnsweredAs("error")
  BY <1>1 DEF AnsweredAs
<1>4. \A s : job[w] \notin AnsweredAs(s)
  BY <1>1 DEF AnsweredAs, PoolInv, OneResultPerJob, Indexes, Holding
<1>5. \A v \in Workers : pc[v] = "post" => job[v] # job[w]
  BY <1>1 DEF PoolInv, HeldOnce, Holding
<1>6. job[w] \notin HeldWell({"post"}) /\ job[w] \notin HeldBadly({"post"})
  BY <1>5 DEF HeldWell, HeldBadly
<1>7. HeldWell({"report", "post"})' = HeldWell({"report", "post"})
  <2>1. \A v \in Workers : pc'[v] \in {"report", "post"} <=> pc[v] \in {"report", "post"}
    BY <1>1
  <2> QED  BY <1>1, <2>1 DEF HeldWell
<1>8. CASE succeeded[w]
  <2>1. HeldWell({"post"})' = HeldWell({"post"}) \cup {job[w]}
    BY <1>1, <1>2, <1>8 DEF HeldWell
  <2>2. HeldBadly({"post"})' = HeldBadly({"post"})
    BY <1>1, <1>8 DEF HeldBadly
  <2> DEFINE S == AnsweredAs("success") \cup HeldWell({"post"})
  <2>3. Cardinality(S \cup {job[w]}) = Cardinality(S) + 1
    <3>1. job[w] \notin S /\ IsFiniteSet(S)
      BY <1>4, <1>6, CountsAreFinite
    <3> HIDE DEF S
    <3> QED  BY <3>1, FS_AddElement
  <2>4. (AnsweredAs("success") \cup HeldWell({"post"}))' = S \cup {job[w]}
    BY <1>3, <2>1
  <2>5. completedFiles' = Cardinality(AnsweredAs("success") \cup HeldWell({"post"}))'
    BY <1>1, <1>8, <2>3, <2>4 DEF OutcomeInv
  <2>6. failedFiles' = Cardinality(AnsweredAs("error") \cup HeldBadly({"post"}))'
    BY <1>1, <1>3, <1>8, <2>2 DEF OutcomeInv
  <2> QED  BY <1>1, <1>3, <1>7, <2>5, <2>6 DEF OutcomeInv
<1>9. CASE ~succeeded[w]
  <2>1. HeldBadly({"post"})' = HeldBadly({"post"}) \cup {job[w]}
    BY <1>1, <1>2, <1>9 DEF HeldBadly
  <2>2. HeldWell({"post"})' = HeldWell({"post"})
    BY <1>1, <1>9 DEF HeldWell
  <2> DEFINE S == AnsweredAs("error") \cup HeldBadly({"post"})
  <2>3. Cardinality(S \cup {job[w]}) = Cardinality(S) + 1
    <3>1. job[w] \notin S /\ IsFiniteSet(S)
      BY <1>4, <1>6, CountsAreFinite
    <3> HIDE DEF S
    <3> QED  BY <3>1, FS_AddElement
  <2>4. (AnsweredAs("error") \cup HeldBadly({"post"}))' = S \cup {job[w]}
    BY <1>3, <2>1
  <2>5. failedFiles' = Cardinality(AnsweredAs("error") \cup HeldBadly({"post"}))'
    BY <1>1, <1>9, <2>3, <2>4 DEF OutcomeInv
  <2>6. completedFiles' = Cardinality(AnsweredAs("success") \cup HeldWell({"post"}))'
    BY <1>1, <1>3, <1>9, <2>2 DEF OutcomeInv
  <2> QED  BY <1>1, <1>3, <1>7, <2>5, <2>6 DEF OutcomeInv
<1> QED  BY <1>8, <1>9

\* A result is posted for the job that was held.
LEMMA PostAnswers ==
  ASSUME PoolInv, NEW w \in Workers, pc[w] \in Holding,
         NEW st \in {"success", "error", "cancelled"},
         posted' = Append(posted, [index |-> job[w], status |-> st])
  PROVE  /\ job[w] \in Jobs
         /\ AnsweredAs(st)' = AnsweredAs(st) \cup {job[w]}
         /\ \A s : s # st => AnsweredAs(s)' = AnsweredAs(s)
         /\ \A i \in DOMAIN posted' : (i \in DOMAIN posted /\ posted'[i] = posted[i])
                                     \/ posted'[i] = [index |-> job[w], status |-> st]
<1> DEFINE r == [index |-> job[w], status |-> st]
<1>1. job[w] \in Jobs
  BY NumJobsAssumption DEF PoolInv, HeldJobsReceived, TypeOK, Jobs
<1>2. r.index = job[w] /\ r.status = st
  OBVIOUS
<1>3. posted' = Append(posted, r) /\ posted \in Seq(Result)
  BY DEF PoolInv, TypeOK
<1> HIDE DEF r
<1>4. /\ DOMAIN posted' = DOMAIN posted \cup {Len(posted) + 1} /\ posted'[Len(posted) + 1] = r
      /\ \A i \in DOMAIN posted : posted'[i] = posted[i]
  BY <1>3
<1>5. \A s : AnsweredAs(s)' = IF s = st THEN AnsweredAs(s) \cup {job[w]} ELSE AnsweredAs(s)
  BY <1>1, <1>2, <1>4 DEF AnsweredAs
<1> QED  BY <1>1, <1>4, <1>5 DEF r

LEMMA PostKeepsCounts ==
  ASSUME PoolInv, OutcomeInv, NEW w \in Workers, PostResult(w)
  PROVE  OutcomeInv'
<1>0. PICK st \in {"success", "error"} : /\ (succeeded[w] => st = "success") /\ (~succeeded[w] => st = "error")
                                           /\ posted' = Append(posted, [index |-> job[w], status |-> st])
  <2>1. posted' = Append(posted, [index |-> job[w], status |-> IF succeeded[w] THEN "success" ELSE "error"])
    BY DEF PostResult, Post
  <2>2. CASE succeeded[w]
    BY <2>1, <2>2
  <2>3. CASE ~succeeded[w]
    BY <2>1, <2>3
  <2> QED  BY <2>2, <2>3
<1>1. /\ pc[w] = "post" /\ pc'[w] = "receive"
      /\ \A v \in Workers \ {w} : pc'[v] = pc[v]
      /\ UNCHANGED <<caller, results, job, succeeded, onDisk, completedFiles, failedFiles>>
  BY DEF PostResult, PoolInv, TypeOK, effectVars
<1>2. st \in {"success", "error", "cancelled"} /\ pc[w] \in Holding
  BY <1>1 DEF Holding
<1>3. /\ succeeded[w] => st = "success" /\ st # "error"
      /\ ~succeeded[w] => st = "error" /\ st # "success"
      /\ st # "cancelled"
  BY <1>0
<1>4. /\ job[w] \in Jobs
      /\ AnsweredAs(st)' = AnsweredAs(st) \cup {job[w]}
      /\ \A s : s # st => AnsweredAs(s)' = AnsweredAs(s)
      /\ \A i \in DOMAIN posted' : (i \in DOMAIN posted /\ posted'[i] = posted[i])
                                  \/ posted'[i] = [index |-> job[w], status |-> st]
  BY <1>0, <1>2, PostAnswers
<1>5. \A v \in Workers \ {w} : pc[v] \in {"report", "post"} => job[v] # job[w]
  BY <1>1 DEF PoolInv, HeldOnce, Holding
<1>6. /\ HeldWell({"post"})' = HeldWell({"post"}) \ {job[w]}
      /\ HeldWell({"report", "post"})' = HeldWell({"report", "post"}) \ {job[w]}
      /\ HeldBadly({"post"})' = HeldBadly({"post"}) \ {job[w]}
  <2>1. HeldWell({"post"})' = HeldWell({"post"}) \ {job[w]}
    BY <1>1, <1>5 DEF HeldWell
  <2>2. HeldWell({"report", "post"})' = HeldWell({"report", "post"}) \ {job[w]}
    BY <1>1, <1>5 DEF HeldWell
  <2>3. HeldBadly({"post"})' = HeldBadly({"post"}) \ {job[w]}
    BY <1>1, <1>5 DEF HeldBadly
  <2> QED  BY <2>1, <2>2, <2>3
<1>7. /\ succeeded[w] => job[w] \in HeldWell({"post"}) /\ job[w] \in HeldWell({"report", "post"}) /\ job[w] \notin HeldBadly({"post"})
      /\ ~succeeded[w] => job[w] \in HeldBadly({"post"}) /\ job[w] \notin HeldWell({"post"}) /\ job[w] \notin HeldWell({"report", "post"})
  <2>1. CASE succeeded[w]
    BY <1>1, <1>4, <1>5, <2>1 DEF HeldWell, HeldBadly
  <2>2. CASE ~succeeded[w]
    BY <1>1, <1>4, <1>5, <2>2 DEF HeldWell, HeldBadly
  <2> QED  BY <2>1, <2>2
<1>8. /\ (AnsweredAs("success") \cup HeldWell({"report", "post"}))' = AnsweredAs("success") \cup HeldWell({"report", "post"})
      /\ (AnsweredAs("success") \cup HeldWell({"post"}))' = AnsweredAs("success") \cup HeldWell({"post"})
      /\ (AnsweredAs("error") \cup HeldBadly({"post"}))' = AnsweredAs("error") \cup HeldBadly({"post"})
  <2>1. CASE succeeded[w]
    <3>1. AnsweredAs("success")' = AnsweredAs("success") \cup {job[w]} /\ AnsweredAs("error")' = AnsweredAs("error")
      BY <1>3, <1>4, <2>1
    <3> QED  BY <1>6, <1>7, <2>1, <3>1
  <2>2. CASE ~succeeded[w]
    <3>1. AnsweredAs("error")' = AnsweredAs("error") \cup {job[w]} /\ AnsweredAs("success")' = AnsweredAs("success")
      BY <1>3, <1>4, <2>2
    <3> QED  BY <1>6, <1>7, <2>2, <3>1
  <2> QED  BY <2>1, <2>2
<1>9. \A i \in DOMAIN posted' : posted'[i].status = "cancelled" =>
          \E v \in Workers : pc'[v] = "exited" /\ job'[v] = posted'[i].index
  <2>1. \A v \in Workers : pc[v] = "exited" => pc'[v] = "exited" /\ job'[v] = job[v]
    BY <1>1
  <2>2. st # "cancelled"
    BY <1>3
  <2> QED  BY <1>4, <2>1, <2>2 DEF OutcomeInv
<1>10. caller # "returned"
  BY <1>1 DEF PoolInv, Phases
<1> QED  BY <1>1, <1>8, <1>9, <1>10 DEF OutcomeInv

\* A worker that gives its job up leaves with it.
LEMMA GivesUpOnce ==
  ASSUME PoolInv, OutcomeInv, NEW w \in Workers, PostCancelled(w)
  PROVE  OutcomeInv'
<1>1. /\ pc[w] = "check" /\ pc'[w] = "exited" /\ posted' = Append(posted, [index |-> job[w], status |-> "cancelled"])
      /\ \A v \in Workers \ {w} : pc'[v] = pc[v]
      /\ UNCHANGED <<caller, results, job, succeeded, onDisk, completedFiles, failedFiles>>
  BY DEF PostCancelled, Post, PoolInv, TypeOK, effectVars
<1>2. pc[w] \in Holding
  BY <1>1 DEF Holding
<1>3. /\ \A s : s # "cancelled" => AnsweredAs(s)' = AnsweredAs(s)
      /\ \A i \in DOMAIN posted' : (i \in DOMAIN posted /\ posted'[i] = posted[i])
                                  \/ posted'[i] = [index |-> job[w], status |-> "cancelled"]
  BY <1>1, <1>2, PostAnswers
<1>4. \A v \in Workers : (pc'[v] = "report" <=> pc[v] = "report") /\ (pc'[v] = "post" <=> pc[v] = "post")
  BY <1>1
<1>5. HeldWell({"report", "post"})' = HeldWell({"report", "post"})
  BY <1>1, <1>4 DEF HeldWell
<1>6. HeldWell({"post"})' = HeldWell({"post"})
  BY <1>1, <1>4 DEF HeldWell
<1>7. HeldBadly({"post"})' = HeldBadly({"post"})
  BY <1>1, <1>4 DEF HeldBadly
<1>8. \A i \in DOMAIN posted' : posted'[i].status = "cancelled" =>
          \E v \in Workers : pc'[v] = "exited" /\ job'[v] = posted'[i].index
  <2>1. \A v \in Workers : pc[v] = "exited" => pc'[v] = "exited" /\ job'[v] = job[v]
    BY <1>1
  <2> QED  BY <1>1, <1>3, <2>1 DEF OutcomeInv
<1>9. caller # "returned"
  BY <1>1 DEF PoolInv, Phases
<1> QED  BY <1>1, <1>3, <1>5, <1>6, <1>7, <1>8, <1>9 DEF OutcomeInv

LEMMA OutcomeInit == Init => OutcomeInv
<1> SUFFICES ASSUME Init PROVE OutcomeInv
  OBVIOUS
<1>1. /\ posted = <<>> /\ results = <<>> /\ onDisk = {} /\ completedFiles = 0 /\ failedFiles = 0
      /\ caller = "entry" /\ \A w \in Workers : pc[w] = "unborn"
  BY DEF Init
<1>2. /\ AnsweredAs("success") = {} /\ AnsweredAs("error") = {}
      /\ HeldWell({"report", "post"}) = {} /\ HeldWell({"post"}) = {} /\ HeldBadly({"post"}) = {}
  BY <1>1 DEF AnsweredAs, HeldWell, HeldBadly
<1>3. {} \cup {} = {} /\ Cardinality({}) = 0
  BY FS_EmptySet
<1>4. DOMAIN posted = {}
  BY <1>1
<1>5. completedFiles = Cardinality(AnsweredAs("success") \cup HeldWell({"post"}))
  BY <1>1, <1>2, <1>3
<1>6. failedFiles = Cardinality(AnsweredAs("error") \cup HeldBadly({"post"}))
  BY <1>1, <1>2, <1>3
<1>7. onDisk = AnsweredAs("success") \cup HeldWell({"report", "post"})
  BY <1>1, <1>2, <1>3
<1> QED  BY <1>1, <1>4, <1>5, <1>6, <1>7 DEF OutcomeInv

LEMMA OutcomeStep == PoolInv /\ OutcomeInv /\ [Next]_vars => OutcomeInv'
<1> SUFFICES ASSUME PoolInv, OutcomeInv, [Next]_vars PROVE OutcomeInv'
  OBVIOUS
<1>1. CASE Launch
  <2>1. /\ caller = "entry" /\ posted = <<>> /\ results = <<>> /\ \A w \in Workers : pc[w] = "unborn"
        /\ UNCHANGED <<posted, results, onDisk, completedFiles, failedFiles, job, succeeded>>
    BY <1>1 DEF Launch, PoolInv, Phases, OutcomeInv, chanVars, effectVars
  <2>2. \A w \in Workers : pc'[w] \in {"unborn", "receive"}
    BY <1>1, <2>1 DEF Launch, PoolInv, TypeOK
  <2>3. SortByIndex(<<>>) = <<>>
    <3>1. <<>> \in Seq(Result) /\ DOMAIN <<>> = {}
      OBVIOUS
    <3>2. PICK p : SortByIndex(<<>>) = [i \in DOMAIN <<>> |-> <<>>[p[i]]]
      BY <3>1, SortedResults
    <3> QED  BY <3>2
  <2>4. results' = <<>> /\ SortByIndex(posted) = <<>>
    BY <2>1, <2>3
  <2> QED  BY <2>1, <2>2, <2>4, OutcomeRests
<1>2. CASE Cancel \/ SenderStep \/ CloseResults \/ Collect \/ UNCHANGED vars
  <2>1. UNCHANGED <<caller, posted, results, onDisk, completedFiles, failedFiles, pc, job, succeeded>>
    BY <1>2 DEF Cancel, SenderStep, SendJob, CloseJobs, CloseResults, Collect, vars, chanVars, workerVars, effectVars
  <2>2. (caller' = "returned" => results' = SortByIndex(posted)) /\ (caller' = "entry" => results' = <<>>)
    BY <2>1 DEF OutcomeInv
  <2> QED  BY <2>1, <2>2, OutcomeRests
<1>3. CASE ExecuteReturns
  <2>1. /\ UNCHANGED <<posted, onDisk, completedFiles, failedFiles, pc, job, succeeded>>
        /\ results' = SortByIndex(posted) /\ caller' = "returned"
    BY <1>3 DEF ExecuteReturns, chanVars, workerVars, effectVars
  <2> QED  BY <2>1, OutcomeRests
<1>4. ASSUME NEW w \in Workers, ReceiveJob(w) \/ WorkerDone(w) \/ PassCheck(w) \/ StartDownload(w) PROVE OutcomeInv'
  <2>1. /\ UNCHANGED <<caller, posted, results, onDisk, completedFiles, failedFiles, succeeded>>
        /\ pc[w] \in {"receive", "check", "start"} /\ pc'[w] \in {"check", "exited", "start", "download"}
        /\ \A v \in Workers \ {w} : pc'[v] = pc[v] /\ job'[v] = job[v]
    BY <1>4 DEF ReceiveJob, WorkerDone, PassCheck, StartDownload, PoolInv, TypeOK, chanVars, effectVars
  <2>2. (caller' = "returned" => results' = SortByIndex(posted)) /\ (caller' = "entry" => results' = <<>>)
    BY <2>1 DEF OutcomeInv
  <2>3. \A v \in Workers : pc[v] \in {"report", "post", "exited"} => pc'[v] = pc[v] /\ job'[v] = job[v]
    BY <2>1
  <2>4. \A v \in Workers : pc'[v] \in {"report", "post"} => pc[v] \in {"report", "post"}
    BY <2>1
  <2> QED  BY <2>1, <2>2, <2>3, <2>4, OutcomeRests
<1>5. ASSUME NEW w \in Workers, ReportCompletion(w) \/ PostResult(w) \/ PostCancelled(w)
                                \/ \E ok \in BOOLEAN : DownloadReturns(w, ok)
      PROVE  OutcomeInv'
  BY <1>5, ReportCounts, PostKeepsCounts, GivesUpOnce, DownloadPlaces
<1> QED  BY <1>1, <1>2, <1>3, <1>4, <1>5 DEF Next, CallerStep, WorkerStep, OwnStep, DownloadEnds, Terminated

\* What is on disk and what is counted is what results say and what workers
\* are about to say, in every reachable state.
THEOREM PoolOutcomeInvariant == Spec => []OutcomeInv
BY OutcomeInit, OutcomeStep, PoolInvariant, PTL DEF Spec

\* The results in a given state are as many as the jobs that they answer.
LEMMA SortedAnswers ==
  ASSUME PoolInv, NEW p \in Bijection(DOMAIN posted, DOMAIN posted),
         results = [i \in DOMAIN posted |-> posted[p[i]]], NEW s
  PROVE  /\ {results[i].index : i \in WithStatus(results, s)} = AnsweredAs(s)
         /\ IsFiniteSet(WithStatus(results, s))
         /\ Cardinality(WithStatus(results, s)) = Cardinality(AnsweredAs(s))
<1>1. posted \in Seq(Result) /\ Len(posted) \in Nat /\ DOMAIN posted = 1..Len(posted)
  BY DEF PoolInv, TypeOK
<1>2. \A i \in DOMAIN posted : posted[i].index \in Jobs
  <2>1. \A i \in DOMAIN posted : posted[i] \in Result
    BY <1>1, ElementOfSeq
  <2> QED  BY <2>1 DEF Result
<1>3. /\ p \in [DOMAIN posted -> DOMAIN posted]
      /\ \A a, b \in DOMAIN posted : p[a] = p[b] => a = b
      /\ \A b \in DOMAIN posted : \E a \in DOMAIN posted : p[a] = b
  BY DEF Bijection, Injection, Surjection, IsInjective
<1>4. DOMAIN results = DOMAIN posted /\ \A i \in DOMAIN posted : results[i] = posted[p[i]]
  OBVIOUS
<1> DEFINE W == WithStatus(results, s)
           index == [i \in W |-> results[i].index]
<1>5. W = {i \in DOMAIN posted : posted[p[i]].status = s}
  BY <1>4 DEF WithStatus
<1> HIDE DEF W
<1>6. {results[i].index : i \in W} = AnsweredAs(s)
  <2>1. ASSUME NEW i \in W PROVE results[i].index \in AnsweredAs(s)
    BY <1>2, <1>3, <1>4, <1>5 DEF AnsweredAs
  <2>2. ASSUME NEW j \in AnsweredAs(s) PROVE \E i \in W : results[i].index = j
    <3>1. PICK k \in DOMAIN posted : posted[k].index = j /\ posted[k].status = s
      BY DEF AnsweredAs
    <3>2. PICK i \in DOMAIN posted : p[i] = k
      BY <1>3
    <3> QED  BY <1>4, <1>5, <3>1, <3>2
  <2> QED  BY <2>1, <2>2
<1>7. IsFiniteSet(W)
  <2>1. IsFiniteSet(DOMAIN posted)
    BY <1>1, FS_Interval
  <2> QED  BY <1>5, <2>1, FS_Subset
<1>8. index \in Bijection(W, AnsweredAs(s))
  <2>1. index \in [W -> AnsweredAs(s)]
    BY <1>6
  <2>2. ASSUME NEW a \in W, NEW b \in W, index[a] = index[b] PROVE a = b
    <3>1. posted[p[a]].index = posted[p[b]].index /\ a \in DOMAIN posted /\ b \in DOMAIN posted
      BY <1>4, <1>5, <2>2
    <3>2. p[a] = p[b]
      BY <1>3, <3>1 DEF PoolInv, OneResultPerJob
    <3> QED  BY <1>3, <3>1, <3>2
  <2>3. ASSUME NEW j \in AnsweredAs(s) PROVE \E a \in W : index[a] = j
    BY <1>6
  <2> HIDE DEF index
  <2> QED  BY <2>1, <2>2, <2>3 DEF Bijection, Injection, Surjection, IsInjective
<1>9. Cardinality(W) = Cardinality(AnsweredAs(s))
  BY <1>7, <1>8, FS_Bijection DEF ExistsBijection
<1> QED  BY <1>6, <1>7, <1>9 DEF W

\* A worker gives up at most one job.
LEMMA OneGivenUpEach ==
  ASSUME PoolInv, OutcomeInv
  PROVE  Cardinality(AnsweredAs("cancelled")) <= Cardinality(Workers)
<1> DEFINE C == AnsweredAs("cancelled")
           last == [j \in C |-> CHOOSE w \in Workers : pc[w] = "exited" /\ job[w] = j]
<1>1. \A j \in C : \E w \in Workers : pc[w] = "exited" /\ job[w] = j
  BY DEF OutcomeInv, AnsweredAs
<1>2. \A j \in C : last[j] \in Workers /\ job[last[j]] = j
  BY <1>1
<1> HIDE DEF C
<1>3. last \in [C -> Workers] /\ \A a, b \in C : last[a] = last[b] => a = b
  <2>1. last = [j \in C |-> last[j]]
    OBVIOUS
  <2> HIDE DEF last
  <2> QED  BY <1>2, <2>1
<1> HIDE DEF last
<1>4. last \in Injection(C, Workers)
  BY <1>3 DEF Injection, IsInjective
<1> QED  BY <1>4, WorkersAssumption, FS_Injection DEF C

\* Execute returns a success for exactly the files in place, and the progress
\* page has counted each of its results but those of jobs that were given up,
\* at most one per worker (Pool.Execute, SyncTracker).
THEOREM PoolOutcomesAgree == Spec => []OutcomesAgree
<1>1. PoolInv /\ OutcomeInv => OutcomesAgree
  <2> SUFFICES ASSUME PoolInv, OutcomeInv, caller = "returned"
               PROVE  /\ onDisk = {results[i].index : i \in WithStatus(results, "success")}
                      /\ completedFiles = Cardinality(WithStatus(results, "success"))
                      /\ failedFiles = Cardinality(WithStatus(results, "error"))
                      /\ Cardinality(WithStatus(results, "cancelled")) <= Cardinality(Workers)
    BY DEF OutcomesAgree
  <2>1. PICK p \in Bijection(DOMAIN posted, DOMAIN posted) : results = [i \in DOMAIN posted |-> posted[p[i]]]
    <3>1. posted \in Seq(Result) /\ results = SortByIndex(posted)
      BY DEF PoolInv, TypeOK, OutcomeInv
    <3> QED  BY <3>1, SortedResults
  <2>2. \A w \in Workers : pc[w] \in {"unborn", "exited"}
    BY DEF PoolInv, Phases
  <2>3. HeldWell({"report", "post"}) = {} /\ HeldWell({"post"}) = {} /\ HeldBadly({"post"}) = {}
    BY <2>2 DEF HeldWell, HeldBadly
  <2>4. /\ onDisk = AnsweredAs("success") /\ completedFiles = Cardinality(AnsweredAs("success"))
        /\ failedFiles = Cardinality(AnsweredAs("error"))
    <3>1. AnsweredAs("success") \cup {} = AnsweredAs("success") /\ AnsweredAs("error") \cup {} = AnsweredAs("error")
      OBVIOUS
    <3> QED  BY <2>3, <3>1 DEF OutcomeInv
  <2>5. /\ {results[i].index : i \in WithStatus(results, "success")} = AnsweredAs("success")
        /\ Cardinality(WithStatus(results, "success")) = Cardinality(AnsweredAs("success"))
        /\ Cardinality(WithStatus(results, "error")) = Cardinality(AnsweredAs("error"))
        /\ Cardinality(WithStatus(results, "cancelled")) = Cardinality(AnsweredAs("cancelled"))
    BY <2>1, SortedAnswers
  <2> QED  BY <2>4, <2>5, OneGivenUpEach
<1> QED  BY <1>1, PoolInvariant, PoolOutcomeInvariant, PTL

\* Numbers between 1 and n in strictly increasing order are 1 to n.
LEMMA IncreasingIsIdentity ==
  ASSUME NEW n \in Nat, NEW key \in [1..n -> 1..n], \A i, k \in 1..n : i < k => key[i] < key[k]
  PROVE  \A i \in 1..n : key[i] = i
<1>0. \A i \in 1..n : key[i] \in 1..n /\ key[i] \in Nat
  OBVIOUS
<1> DEFINE S == {k \in Nat : k + 1 <= n => key[k + 1] >= k + 1}
           T == {k \in Nat : k + 1 <= n => key[n - k] <= n - k}
<1>1. 0 \in S
  <2> SUFFICES ASSUME 1 <= n PROVE key[1] >= 1
    OBVIOUS
  <2> QED  BY <1>0
<1>2. ASSUME NEW k \in Nat, k \in S PROVE k + 1 \in S
  <2> SUFFICES ASSUME (k + 1) + 1 <= n PROVE key[(k + 1) + 1] >= (k + 1) + 1
    OBVIOUS
  <2>1. k + 1 \in 1..n /\ (k + 1) + 1 \in 1..n /\ k + 1 < (k + 1) + 1 /\ k + 1 <= n
    OBVIOUS
  <2>2. key[k + 1] < key[(k + 1) + 1] /\ key[k + 1] >= k + 1 /\ key[k + 1] \in Nat /\ key[(k + 1) + 1] \in Nat
    BY <1>0, <1>2, <2>1
  <2> QED  BY <2>2
<1>3. 0 \in T
  <2> SUFFICES ASSUME 1 <= n PROVE key[n] <= n
    OBVIOUS
  <2>1. n \in 1..n
    OBVIOUS
  <2> QED  BY <1>0, <2>1
<1>4. ASSUME NEW k \in Nat, k \in T PROVE k + 1 \in T
  <2> SUFFICES ASSUME (k + 1) + 1 <= n PROVE key[n - (k + 1)] <= n - (k + 1)
    OBVIOUS
  <2>1. n - k \in 1..n /\ n - (k + 1) \in 1..n /\ n - (k + 1) < n - k /\ k + 1 <= n
    OBVIOUS
  <2>2. key[n - (k + 1)] < key[n - k] /\ key[n - k] <= n - k /\ key[n - k] \in Nat /\ key[n - (k + 1)] \in Nat
    BY <1>0, <1>4, <2>1
  <2> QED  BY <2>2
<1> HIDE DEF S, T
<1>5. Nat \subseteq S /\ Nat \subseteq T
  BY <1>1, <1>2, <1>3, <1>4, SetInduction
<1> TAKE i \in 1..n
<1>6. i - 1 \in Nat /\ (i - 1) + 1 = i /\ n - i \in Nat /\ n - (n - i) = i /\ (n - i) + 1 <= n /\ i <= n
  OBVIOUS
<1>7. key[i] >= i
  BY <1>5, <1>6 DEF S
<1>8. key[i] <= i
  BY <1>5, <1>6 DEF T
<1> QED  BY <1>0, <1>7, <1>8

\* Without a cancellation Execute answers job i at position i; with one, what
\* it returns is still in strict order ("the same order as the input jobs").
THEOREM PoolResultsAnswerJobs == Spec => []ResultsAnswerJobs
<1>1. PoolInv /\ OutcomeInv => ResultsAnswerJobs
  <2> SUFFICES ASSUME PoolInv, OutcomeInv, caller = "returned"
               PROVE  /\ ~ctxDone => Len(results) = NumJobs /\ \A i \in DOMAIN results : results[i].index = i
                      /\ \A i, k \in DOMAIN results : i < k => results[i].index < results[k].index
    BY DEF ResultsAnswerJobs
  <2>1. posted \in Seq(Result) /\ Len(posted) \in Nat /\ DOMAIN posted = 1..Len(posted) /\ results = SortByIndex(posted)
    BY DEF PoolInv, TypeOK, OutcomeInv
  <2>2. PICK p \in Bijection(DOMAIN posted, DOMAIN posted) :
            /\ results = [i \in DOMAIN posted |-> posted[p[i]]]
            /\ \A i, k \in DOMAIN posted : i < k => posted[p[i]].index <= posted[p[k]].index
    BY <2>1, SortedResults
  <2>3. DOMAIN results = DOMAIN posted /\ \A i \in DOMAIN posted : results[i] = posted[p[i]]
    BY <2>2
  <2>4. \A i \in DOMAIN posted : posted[i].index \in Jobs
    <3>1. \A i \in DOMAIN posted : posted[i] \in Result
      BY <2>1, ElementOfSeq
    <3> QED  BY <3>1 DEF Result
  <2>5. /\ p \in [DOMAIN posted -> DOMAIN posted]
        /\ \A a, b \in DOMAIN posted : p[a] = p[b] => a = b
        /\ \A b \in DOMAIN posted : \E a \in DOMAIN posted : p[a] = b
    BY DEF Bijection, Injection, Surjection, IsInjective
  <2>6. ASSUME NEW i \in DOMAIN results, NEW k \in DOMAIN results, i < k PROVE results[i].index < results[k].index
    <3>1. i \in DOMAIN posted /\ k \in DOMAIN posted /\ i # k
      BY <2>1, <2>3, <2>6
    <3>2. p[i] # p[k] /\ p[i] \in DOMAIN posted /\ p[k] \in DOMAIN posted
      BY <2>5, <3>1
    <3>3. posted[p[i]].index # posted[p[k]].index
      BY <3>2 DEF PoolInv, OneResultPerJob
    <3>4. posted[p[i]].index \in Nat /\ posted[p[k]].index \in Nat
      BY <2>4, <3>2, NumJobsAssumption DEF Jobs
    <3>5. posted[p[i]].index <= posted[p[k]].index
      BY <2>2, <2>6, <3>1
    <3>6. results[i].index = posted[p[i]].index /\ results[k].index = posted[p[k]].index
      BY <2>3, <3>1
    <3> QED  BY <3>3, <3>4, <3>5, <3>6
  <2>7. ASSUME ~ctxDone PROVE Len(results) = NumJobs /\ \A i \in DOMAIN results : results[i].index = i
    <3> DEFINE index == [i \in DOMAIN posted |-> results[i].index]
    <3>1. \A j \in Jobs : \E i \in DOMAIN posted : posted[i].index = j
      <4>1. CASE NumJobs = 0
        BY <4>1 DEF Jobs
      <4>2. CASE NumJobs # 0
        <5>1. \A w \in Workers : pc[w] = "exited"
          BY <4>2, NumJobsAssumption DEF PoolInv, Phases
        <5>2. received = NumJobs
          BY <2>7, <5>1, WorkersAssumption DEF PoolInv, DrainedUnlessCancelled
        <5> QED  BY <5>1, <5>2 DEF PoolInv, NoneDropped, Holding, Jobs
      <4> QED  BY <4>1, <4>2
    <3>2. index \in [DOMAIN posted -> Jobs]
      BY <2>3, <2>4, <2>5
    <3>3. \A j \in Jobs : \E i \in DOMAIN posted : index[i] = j
      BY <2>3, <2>5, <3>1
    <3>4. \A a, b \in DOMAIN posted : index[a] = index[b] => a = b
      <4> TAKE a, b \in DOMAIN posted
      <4>1. index[a] = index[b] => posted[p[a]].index = posted[p[b]].index
        BY <2>3
      <4>2. p[a] \in DOMAIN posted /\ p[b] \in DOMAIN posted
        BY <2>5
      <4>3. index[a] = index[b] => p[a] = p[b]
        BY <4>1, <4>2 DEF PoolInv, OneResultPerJob
      <4> QED  BY <2>5, <4>3
    <3> HIDE DEF index
    <3>5. index \in Bijection(DOMAIN posted, Jobs)
      BY <3>2, <3>3, <3>4 DEF Bijection, Injection, Surjection, IsInjective
    <3>6. Len(posted) = NumJobs
      <4>1. IsFiniteSet(DOMAIN posted) /\ Cardinality(DOMAIN posted) = Len(posted)
        BY <2>1, FS_Interval
      <4>2. Cardinality(Jobs) = NumJobs
        BY NumJobsAssumption, FS_Interval DEF Jobs
      <4> QED  BY <3>5, <4>1, <4>2, FS_Bijection DEF ExistsBijection
    <3>7. index \in [1..NumJobs -> 1..NumJobs]
      BY <2>1, <3>2, <3>6 DEF Jobs
    <3>8. \A i, k \in 1..NumJobs : i < k => index[i] < index[k]
      BY <2>1, <2>3, <2>6, <3>6 DEF index
    <3>9. \A i \in 1..NumJobs : index[i] = i
      BY <3>7, <3>8, IncreasingIsIdentity, NumJobsAssumption
    <3>10. results \in Seq(Result) /\ Len(results) = Len(posted)
      <4>1. results \in [1..Len(posted) -> Result]
        BY <2>1, <2>2, <2>5, ElementOfSeq
      <4> QED  BY <2>1, <4>1
    <3> QED  BY <2>1, <2>3, <3>6, <3>9, <3>10 DEF index
  <2> QED  BY <2>6, <2>7
<1> QED  BY <1>1, PoolInvariant, PoolOutcomeInvariant, PTL
=============================================================================

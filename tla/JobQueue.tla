------------------------------- MODULE JobQueue -------------------------------
(***************************************************************************)
(* The job queue of modules/cloud/job-queue-scheduler.mjs.                 *)
(*                                                                         *)
(* The scheduler is passive: submitJob, startNextJob, updateJobProgress,   *)
(* completeJob, failJob, scheduleJob and clearHistory are called from      *)
(* outside, in any order and with any job id; a step is one call.  Events  *)
(* are emitted synchronously after the last change of a call, so a         *)
(* listener that calls back is a later step.  A call that throws before it *)
(* changes anything, as a refused submission does, is not a step.  No code *)
(* reads a job's timeout.                                                  *)
(***************************************************************************)
EXTENDS Integers, Sequences, FiniteSets

CONSTANTS
  MaxQueueSize,       \* options.maxQueueSize
  MaxConcurrentJobs,  \* options.maxConcurrentJobs
  RetryAttempts,      \* options.retryAttempts
  MaxJobs,            \* bound on the number of accepted jobs
  MaxSchedules,       \* bound on the number of scheduleJob() calls
  Percentages,        \* progress values that workers report
  Statuses,           \* what callers of completeJob() give as the status
  Priorities          \* what callers pass as a priority: a level's name, or not

ASSUME Assumption ==
  /\ {MaxQueueSize, MaxConcurrentJobs, RetryAttempts, MaxJobs} \subseteq Nat
  /\ Percentages \subseteq 0 .. 100

Jobs == 1 .. MaxJobs  \* numbered in the order of their submission

VARIABLES
  submitted,      \* jobs accepted so far
  queue,          \* waiting jobs, next one first
  executingJobs,  \* keys of the Map
  completedJobs, failedJobs,
  forgotten,      \* history: what clearHistory() took out of the two
  scheduledJobs,  \* number of entries of the Map: nothing ever reads them
  priorityValue, status, retryCount, progress  \* fields of each job

vars == <<submitted, queue, executingJobs, completedJobs, failedJobs, forgotten, scheduledJobs,
          priorityValue, status, retryCount, progress>>

Init ==
  /\ submitted = 0
  /\ queue = << >>
  /\ executingJobs = {} /\ completedJobs = {} /\ failedJobs = {} /\ forgotten = {}
  /\ scheduledJobs = 0
  /\ priorityValue = [j \in Jobs |-> 0]
  /\ status = [j \in Jobs |-> "none"]
  /\ retryCount = [j \in Jobs |-> 0]
  /\ progress = [j \in Jobs |-> 0]

priorityLevels == [CRITICAL |-> 0, HIGH |-> 1, NORMAL |-> 2, LOW |-> 3]

(* `if (!priorityLevels[priority]) throw': unknown names are refused, and  *)
(* so is the level 0.                                                      *)
ValidPriority(p) == p \in DOMAIN priorityLevels /\ priorityLevels[p] # 0

(* Mutant of the next operator: <= for <.                                  *)
InsertedBeforeEquals(job, value) ==
  LET after(i) == value <= priorityValue[queue[i]]
      n == IF \E i \in DOMAIN queue : after(i)
           THEN CHOOSE i \in DOMAIN queue : after(i) /\ \A k \in 1 .. i - 1 : ~after(k)
           ELSE Len(queue) + 1
  IN SubSeq(queue, 1, n - 1) \o <<job>> \o SubSeq(queue, n, Len(queue))

(* The queue with the job spliced in before the first that is less urgent. *)
Inserted(job, value) ==
  LET after(i) == value < priorityValue[queue[i]]
      n == IF \E i \in DOMAIN queue : after(i)
           THEN CHOOSE i \in DOMAIN queue : after(i) /\ \A k \in 1 .. i - 1 : ~after(k)
           ELSE Len(queue) + 1
  IN SubSeq(queue, 1, n - 1) \o <<job>> \o SubSeq(queue, n, Len(queue))

(* submitJob(), accepted.  With the queue full, or with a priority that is *)
(* not valid, it throws and nothing changes.                               *)
SubmitJob ==
  LET job == submitted + 1 IN
  /\ job \in Jobs
  /\ Len(queue) < MaxQueueSize
  /\ \E p \in Priorities :
       /\ ValidPriority(p)
       /\ priorityValue' = [priorityValue EXCEPT ![job] = priorityLevels[p]]
       /\ queue' = Inserted(job, priorityLevels[p])
  /\ submitted' = job
  /\ status' = [status EXCEPT ![job] = "QUEUED"]
  /\ UNCHANGED <<executingJobs, completedJobs, failedJobs, forgotten, scheduledJobs, retryCount, progress>>

(* Mutants of the next action: the concurrency limit is off by one; the    *)
(* job is taken from the queue before the limit is looked at.              *)
StartNextJobOneMore ==
  /\ Cardinality(executingJobs) <= MaxConcurrentJobs
  /\ queue # << >>
  /\ queue' = Tail(queue)
  /\ executingJobs' = executingJobs \cup {Head(queue)}
  /\ status' = [status EXCEPT ![Head(queue)] = "RUNNING"]
  /\ UNCHANGED <<submitted, completedJobs, failedJobs, forgotten, scheduledJobs, priorityValue, retryCount,
                 progress>>

StartNextJobShiftFirst ==
  /\ queue # << >>
  /\ queue' = Tail(queue)
  /\ IF Cardinality(executingJobs) < MaxConcurrentJobs
     THEN /\ executingJobs' = executingJobs \cup {Head(queue)}
          /\ status' = [status EXCEPT ![Head(queue)] = "RUNNING"]
     ELSE UNCHANGED <<executingJobs, status>>
  /\ UNCHANGED <<submitted, completedJobs, failedJobs, forgotten, scheduledJobs, priorityValue, retryCount,
                 progress>>

StartNextJob ==
  /\ Cardinality(executingJobs) < MaxConcurrentJobs
  /\ queue # << >>
  /\ queue' = Tail(queue)
  /\ executingJobs' = executingJobs \cup {Head(queue)}
  /\ status' = [status EXCEPT ![Head(queue)] = "RUNNING"]
  /\ UNCHANGED <<submitted, completedJobs, failedJobs, forgotten, scheduledJobs, priorityValue, retryCount,
                 progress>>

UpdateJobProgress(job) ==
  /\ job \in executingJobs
  /\ \E p \in Percentages : progress' = [progress EXCEPT ![job] = p]
  /\ UNCHANGED <<submitted, queue, executingJobs, completedJobs, failedJobs, forgotten, scheduledJobs,
                 priorityValue, status, retryCount>>

(* completeJob() sets whatever status its caller gives: "COMPLETED" is     *)
(* only the default, and another one sends the job nowhere else.           *)
CompleteJob(job) ==
  /\ job \in executingJobs
  /\ \E given \in Statuses : status' = [status EXCEPT ![job] = given]
  /\ progress' = [progress EXCEPT ![job] = 100]
  /\ executingJobs' = executingJobs \ {job}
  /\ completedJobs' = completedJobs \cup {job}
  /\ UNCHANGED <<submitted, queue, failedJobs, forgotten, scheduledJobs, priorityValue, retryCount>>

(* Mutants of the next action: the job stays in executingJobs; it is       *)
(* retried once too often.                                                 *)
RetryJobKeptRunning(job) ==
  /\ job \in executingJobs
  /\ retryCount[job] < RetryAttempts
  /\ retryCount' = [retryCount EXCEPT ![job] = @ + 1]
  /\ status' = [status EXCEPT ![job] = "RETRY_QUEUED"]
  /\ queue' = <<job>> \o queue
  /\ UNCHANGED <<submitted, executingJobs, completedJobs, failedJobs, forgotten, scheduledJobs, priorityValue,
                 progress>>

RetryJobOnceMore(job) ==
  /\ job \in executingJobs
  /\ retryCount[job] <= RetryAttempts
  /\ retryCount' = [retryCount EXCEPT ![job] = @ + 1]
  /\ status' = [status EXCEPT ![job] = "RETRY_QUEUED"]
  /\ queue' = <<job>> \o queue
  /\ executingJobs' = executingJobs \ {job}
  /\ UNCHANGED <<submitted, completedJobs, failedJobs, forgotten, scheduledJobs, priorityValue, progress>>

(* failJob(), with a retry left: the job goes to the front of the queue,   *)
(* whatever its priority and however full the queue is.                    *)
RetryJob(job) ==
  /\ job \in executingJobs
  /\ retryCount[job] < RetryAttempts
  /\ retryCount' = [retryCount EXCEPT ![job] = @ + 1]
  /\ status' = [status EXCEPT ![job] = "RETRY_QUEUED"]
  /\ queue' = <<job>> \o queue
  /\ executingJobs' = executingJobs \ {job}
  /\ UNCHANGED <<submitted, completedJobs, failedJobs, forgotten, scheduledJobs, priorityValue, progress>>

(* failJob(), without: no retry is left, or the caller's shouldRetry is    *)
(* false, which it may be at any time.                                     *)
FailJob(job) ==
  /\ job \in executingJobs
  /\ status' = [status EXCEPT ![job] = "FAILED"]
  /\ executingJobs' = executingJobs \ {job}
  /\ failedJobs' = failedJobs \cup {job}
  /\ UNCHANGED <<submitted, queue, completedJobs, forgotten, scheduledJobs, priorityValue, retryCount,
                 progress>>

ScheduleJob ==
  /\ scheduledJobs < MaxSchedules
  /\ scheduledJobs' = scheduledJobs + 1
  /\ UNCHANGED <<submitted, queue, executingJobs, completedJobs, failedJobs, forgotten,
                 priorityValue, status, retryCount, progress>>

ClearHistory ==
  /\ completedJobs' = {} /\ failedJobs' = {}
  /\ forgotten' = forgotten \cup completedJobs \cup failedJobs
  /\ UNCHANGED <<submitted, queue, executingJobs, scheduledJobs,
                 priorityValue, status, retryCount, progress>>

Next ==
  \/ SubmitJob
  \/ StartNextJob
  \/ \E job \in Jobs : UpdateJobProgress(job) \/ CompleteJob(job) \/ RetryJob(job) \/ FailJob(job)
  \/ ScheduleJob
  \/ ClearHistory

Reports(job) == CompleteJob(job) \/ RetryJob(job) \/ FailJob(job)

(* What the scheduler needs of its environment: somebody keeps calling     *)
(* startNextJob(), and every job that was started is reported on.          *)
Dispatched == WF_vars(StartNextJob)
Reported   == \A job \in Jobs : WF_vars(Reports(job))

Spec     == Init /\ [][Next]_vars
FairSpec == Spec /\ Dispatched /\ Reported

-----------------------------------------------------------------------------
Queued == {queue[i] : i \in DOMAIN queue}
Ended  == completedJobs \cup failedJobs \cup forgotten

(* The type of every variable of the scheduler.                            *)
TypeOK ==
  /\ submitted \in 0 .. MaxJobs
  /\ queue \in Seq(Jobs)
  /\ executingJobs \subseteq Jobs
  /\ completedJobs \subseteq Jobs /\ failedJobs \subseteq Jobs /\ forgotten \subseteq Jobs
  /\ scheduledJobs \in Nat
  /\ priorityValue \in [Jobs -> 0 .. 3]
  /\ status \in [Jobs -> {"none", "QUEUED", "RUNNING", "RETRY_QUEUED", "FAILED"} \cup Statuses]
  /\ retryCount \in [Jobs -> 0 .. RetryAttempts]
  /\ progress \in [Jobs -> 0 .. 100]

(* Each accepted job is in one place, once, where getJobDetails() finds it: *)
(* the queue, executingJobs, one of the two histories, or forgotten by     *)
(* clearHistory().  The status of a job that waits, runs or has failed is  *)
(* the one of its place; that of a completed job is its caller's, and says *)
(* nothing.                                                                *)
OnePlace ==
  /\ \A i, k \in DOMAIN queue : i # k => queue[i] # queue[k]
  /\ Queued \cap executingJobs = {} /\ (Queued \cup executingJobs) \cap Ended = {}
  /\ completedJobs \cap failedJobs = {} /\ forgotten \cap (completedJobs \cup failedJobs) = {}
  /\ Queued \cup executingJobs \cup Ended = 1 .. submitted
  /\ \A j \in Queued : status[j] = IF retryCount[j] = 0 THEN "QUEUED" ELSE "RETRY_QUEUED"
  /\ \A j \in executingJobs : status[j] = "RUNNING"
  /\ \A j \in failedJobs : status[j] = "FAILED"

(* Retries bypass the capacity check of submitJob(): the queue may exceed  *)
(* maxQueueSize, but never by more than the jobs that were executing.      *)
BacklogBounded ==
  /\ Cardinality(executingJobs) <= MaxConcurrentJobs
  /\ Len(queue) + Cardinality(executingJobs) <= MaxQueueSize + MaxConcurrentJobs

(* Until a first job is retried, the most urgent job is first, and jobs of *)
(* one priority are in the order of their submission.  A retry is put in   *)
(* front of more urgent jobs, and disturbs the place of later ones.        *)
QueueByPriority ==
  (\A j \in Jobs : retryCount[j] = 0) =>
    \A i, k \in DOMAIN queue :
      i < k => \/ priorityValue[queue[i]] < priorityValue[queue[k]]
               \/ priorityValue[queue[i]] = priorityValue[queue[k]] /\ queue[i] < queue[k]

(* With a dispatcher and workers that report, every accepted job ends if   *)
(* callers ever stop submitting: no job is lost, and none is retried for   *)
(* ever.  While they go on, nothing is promised: urgent jobs may overtake  *)
(* another one without end.                                                *)
EveryJobEnds == <>[][~SubmitJob]_vars => <>[](Ended = 1 .. submitted)
=============================================================================

------------------------------ MODULE WorkerPool ------------------------------
(***************************************************************************)
(* The pool of Web Workers of modules/backend/workers/worker-pool.mjs.     *)
(*                                                                         *)
(* One step is one callback of the page's event loop: a call of execute()  *)
(* or terminate(), a worker's 'message' or 'error' event, or the expiry of *)
(* a task's timeout.  The worker threads run concurrently; of them only    *)
(* the request each one holds is visible to the pool.                      *)
(*                                                                         *)
(* A call of execute() is identified with its taskId.  A payload that the  *)
(* structured-clone algorithm rejects makes worker.postMessage throw: the  *)
(* ids of those calls are the constant Unclonable.                         *)
(***************************************************************************)
EXTENDS Integers, Sequences

CONSTANTS
  PoolSize,    \* poolSize of the constructor
  MaxTasks,    \* bound on the number of execute() calls (taskIdCounter)
  Unclonable,  \* calls whose payload postMessage refuses to clone
  NoTask         \* no task

Tasks   == 1 .. MaxTasks
Workers == 0 .. PoolSize - 1

ASSUME PoolSizeAssumption   == PoolSize \in Nat
ASSUME MaxTasksAssumption   == MaxTasks \in Nat
ASSUME UnclonableAssumption == Unclonable \subseteq Tasks
ASSUME NoTaskAssumption       == NoTask \notin Tasks

VARIABLES
  taskIdCounter,  \* calls of execute() so far
  taskQueue,      \* tasks waiting for a worker
  activeWorkers,  \* indices the pool believes busy
  listener,       \* worker -> task whose handleMessage/handleError it carries
  mailbox,        \* worker -> request the worker thread holds, unanswered
  timers,         \* tasks whose timeoutHandle is armed
  promise         \* task -> state of the promise execute() returned

vars == <<taskIdCounter, taskQueue, activeWorkers, listener, mailbox, timers, promise>>

PromiseStates == {"none", "pending", "resolved", "failed", "timedout"}

Init ==
  /\ taskIdCounter = 0
  /\ taskQueue = << >>
  /\ activeWorkers = {}
  /\ listener = [w \in Workers |-> NoTask]
  /\ mailbox = [w \in Workers |-> NoTask]
  /\ timers = {}
  /\ promise = [t \in Tasks |-> "none"]

(* The indices findAvailableWorker may return; it takes the lowest one.    *)
FreeIndicesOffByOne == (0 .. PoolSize) \ activeWorkers

FreeIndices == Workers \ activeWorkers

(* A promise keeps its first settlement: later calls of its resolve or     *)
(* reject do nothing.                                                      *)
Settle(t, state) ==
  [promise EXCEPT ![t] = IF @ = "pending" THEN state ELSE @]

(* executeOnWorker: the index becomes active and the listeners are added   *)
(* before postMessage, which may throw and then leaves both behind.        *)
ExecuteOnWorker(w, t) ==
  /\ activeWorkers' = activeWorkers \cup {w}
  /\ listener' = [listener EXCEPT ![w] = t]
  /\ mailbox' = [mailbox EXCEPT ![w] = IF t \in Unclonable THEN NoTask ELSE t]

(* The branch of execute() that finds a free worker.  An exception of      *)
(* postMessage leaves through the promise's executor and rejects it.       *)
ExecuteNow ==
  \E w \in FreeIndices :
    LET t == taskIdCounter + 1 IN
    /\ t \in Tasks
    /\ \A v \in FreeIndices : w <= v
    /\ ExecuteOnWorker(w, t)
    /\ taskIdCounter' = t
    /\ timers' = timers \cup {t}
    /\ promise' = [promise EXCEPT ![t] = IF t \in Unclonable THEN "failed" ELSE "pending"]
    /\ UNCHANGED taskQueue

(* Mutants of the next action: unshift for push; a timeout armed only when *)
(* the task starts.                                                        *)
ExecuteQueuedFirst ==
  LET t == taskIdCounter + 1 IN
  /\ t \in Tasks
  /\ FreeIndices = {}
  /\ taskQueue' = <<t>> \o taskQueue
  /\ taskIdCounter' = t
  /\ timers' = timers \cup {t}
  /\ promise' = [promise EXCEPT ![t] = "pending"]
  /\ UNCHANGED <<activeWorkers, listener, mailbox>>

ExecuteQueuedUnarmed ==
  LET t == taskIdCounter + 1 IN
  /\ t \in Tasks
  /\ FreeIndices = {}
  /\ taskQueue' = Append(taskQueue, t)
  /\ taskIdCounter' = t
  /\ promise' = [promise EXCEPT ![t] = "pending"]
  /\ UNCHANGED <<activeWorkers, listener, mailbox, timers>>

(* The branch of execute() that finds every worker busy.                   *)
ExecuteQueued ==
  LET t == taskIdCounter + 1 IN
  /\ t \in Tasks
  /\ FreeIndices = {}
  /\ taskQueue' = Append(taskQueue, t)
  /\ taskIdCounter' = t
  /\ timers' = timers \cup {t}
  /\ promise' = [promise EXCEPT ![t] = "pending"]
  /\ UNCHANGED <<activeWorkers, listener, mailbox>>

(* Mutants of the next action: the queue is forgotten; its head is started *)
(* but not removed; an empty queue is not noticed.                         *)
ReleaseWorkerOnly(w) ==
  /\ activeWorkers' = activeWorkers \ {w}
  /\ listener' = [listener EXCEPT ![w] = NoTask]
  /\ mailbox' = [mailbox EXCEPT ![w] = NoTask]
  /\ UNCHANGED taskQueue

ReleaseWorkerPeek(w) ==
  \/ taskQueue = << >> /\ ReleaseWorkerOnly(w)
  \/ taskQueue # << >> /\ ExecuteOnWorker(w, Head(taskQueue)) /\ UNCHANGED taskQueue

ReleaseWorkerBlind(w) ==
  \/ taskQueue = << >> /\ ExecuteOnWorker(w, NoTask) /\ UNCHANGED taskQueue
  \/ taskQueue # << >> /\ ExecuteOnWorker(w, Head(taskQueue)) /\ taskQueue' = Tail(taskQueue)

(* What both handlers do after settling: the worker is released, and taken *)
(* again at once when a task waits.  An exception of postMessage here      *)
(* leaves through the event handler: nobody rejects the dequeued task.     *)
ReleaseWorker(w) ==
  \/ /\ taskQueue = << >>
     /\ activeWorkers' = activeWorkers \ {w}
     /\ listener' = [listener EXCEPT ![w] = NoTask]
     /\ mailbox' = [mailbox EXCEPT ![w] = NoTask]
     /\ UNCHANGED taskQueue
  \/ /\ taskQueue # << >>
     /\ ExecuteOnWorker(w, Head(taskQueue))
     /\ taskQueue' = Tail(taskQueue)

(* handleMessage: worker w answers the request it holds, with success or   *)
(* with the error it caught.  The event carries no task id: the answer     *)
(* goes to the task whose listener is on the worker.                       *)
HandleMessage(w) ==
  /\ mailbox[w] # NoTask
  /\ timers' = timers \ {listener[w]}
  /\ \E state \in {"resolved", "failed"} : promise' = Settle(listener[w], state)
  /\ ReleaseWorker(w)
  /\ UNCHANGED taskIdCounter

(* handleError: the worker's script could not be loaded, or threw an       *)
(* exception it did not catch.  The event needs no request: it also frees  *)
(* a slot that postMessage lost.                                           *)
HandleError(w) ==
  /\ listener[w] # NoTask
  /\ timers' = timers \ {listener[w]}
  /\ promise' = Settle(listener[w], "failed")
  /\ ReleaseWorker(w)
  /\ UNCHANGED taskIdCounter

(* The timeout of execute() fires: the promise is rejected, and nothing    *)
(* else; the task stays where it is.                                       *)
Timeout(t) ==
  /\ t \in timers
  /\ timers' = timers \ {t}
  /\ promise' = Settle(t, "timedout")
  /\ UNCHANGED <<taskIdCounter, taskQueue, activeWorkers, listener, mailbox>>

(* terminate(): the workers are gone with the requests they hold; timers   *)
(* and promises are not touched.  The pool may be used again: getWorker    *)
(* creates new workers.                                                    *)
Terminate ==
  /\ taskQueue' = << >>
  /\ activeWorkers' = {}
  /\ listener' = [w \in Workers |-> NoTask]
  /\ mailbox' = [w \in Workers |-> NoTask]
  /\ UNCHANGED <<taskIdCounter, timers, promise>>

Next ==
  \/ ExecuteNow
  \/ ExecuteQueued
  \/ \E w \in Workers : HandleMessage(w) \/ HandleError(w)
  \/ \E t \in Tasks : Timeout(t)
  \/ Terminate

(* setTimeout callbacks run; callers and worker threads promise nothing:   *)
(* a worker may compute forever.                                           *)
TimersFire == \A t \in Tasks : WF_vars(Timeout(t))

Spec     == Init /\ [][Next]_vars
FairSpec == Spec /\ TimersFire

-----------------------------------------------------------------------------
(* The type of every variable of the pool.                                 *)
TypeOK ==
  /\ taskIdCounter \in 0 .. MaxTasks
  /\ taskQueue \in Seq(Tasks)
  /\ activeWorkers \subseteq Workers
  /\ listener \in [Workers -> Tasks \cup {NoTask}]
  /\ mailbox \in [Workers -> Tasks \cup {NoTask}]
  /\ timers \subseteq Tasks
  /\ promise \in [Tasks -> PromiseStates]

(* No task waits while a worker is free: the queue grows only when every   *)
(* index is active, and the handlers re-take the worker they release.      *)
WorkConserving == taskQueue # << >> => activeWorkers = Workers

(* Tasks start in the order of the execute() calls: whatever runs was      *)
(* submitted before whatever waits, and the queue is ordered.              *)
NoOvertaking ==
  /\ \A i, j \in DOMAIN taskQueue : i < j => taskQueue[i] < taskQueue[j]
  /\ \A w \in Workers, i \in DOMAIN taskQueue :
       listener[w] # NoTask => listener[w] < taskQueue[i]

(* A worker works on the task whose listeners it carries, so an answer,    *)
(* which names no task, reaches the caller that asked; and no task is on   *)
(* two workers.                                                            *)
AnswersReachTheirCaller ==
  /\ \A w \in Workers : mailbox[w] # NoTask => mailbox[w] = listener[w]
  /\ \A v, w \in Workers : listener[v] = listener[w] /\ listener[v] # NoTask => v = w

(* A busy index always has a request at work on its worker, except when    *)
(* postMessage threw: the only way to lose a slot of the pool.             *)
SlotsLostOnlyByClone ==
  \A w \in activeWorkers :
    mailbox[w] = NoTask => listener[w] \in Unclonable

(* A promise that is not settled has its timeout armed, through queueing,  *)
(* execution, lost slots and terminate().                                  *)
PendingIsArmed == \A t \in Tasks : promise[t] = "pending" => t \in timers

(* A task is handed to a worker at most once: what a step starts was never *)
(* on a worker before (it was in the queue or is the new call), and leaves *)
(* the queue in the same step.                                             *)
StartedOnce ==
  [][\A w \in Workers :
       listener'[w] # listener[w] /\ listener'[w] # NoTask =>
         /\ \/ taskQueue # << >> /\ listener'[w] = Head(taskQueue)
            \/ listener'[w] = taskIdCounter'  /\ taskIdCounter' = taskIdCounter + 1
         /\ \A i \in DOMAIN taskQueue' : taskQueue'[i] # listener'[w]]_vars

(* The pool is a first-come first-served service of PoolSize servers, each *)
(* serving the task whose listeners its worker carries: activeWorkers,     *)
(* mailboxes, timers and promises add nothing a caller can see of the      *)
(* order of service.                                                       *)
Service ==
  INSTANCE FifoService WITH
    Servers <- Workers, MaxJobs <- MaxTasks, Idle <- NoTask,
    arrived <- taskIdCounter, waiting <- taskQueue, serving <- listener

ServesInOrder == Service!Spec

(* Every caller of execute() gets an answer, even from a pool whose        *)
(* workers hang, lost all their slots, or were terminated.                 *)
EveryCallSettles == []<>(\A t \in Tasks : promise[t] # "pending")
=============================================================================

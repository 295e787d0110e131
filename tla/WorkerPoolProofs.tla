-------------------------- MODULE WorkerPoolProofs --------------------------
(***************************************************************************)
(* The safety properties of WorkerPool, for every size of the pool and     *)
(* every number of calls.                                                  *)
(*                                                                         *)
(* The inductive invariant adds to the properties two facts they rest on:  *)
(* the set activeWorkers says exactly which workers carry listeners        *)
(* (findAvailableWorker reads the one, the handlers the other), and no     *)
(* task on a worker or in the queue has an id that is still to be given.   *)
(***************************************************************************)
EXTENDS WorkerPool, TLAPS

ActiveIsListening == \A w \in Workers : w \in activeWorkers <=> listener[w] # NoTask

IdsAreGiven ==
  /\ \A w \in Workers : listener[w] # NoTask => listener[w] <= taskIdCounter
  /\ \A i \in DOMAIN taskQueue : taskQueue[i] <= taskIdCounter

IInv ==
  /\ TypeOK
  /\ ActiveIsListening
  /\ IdsAreGiven
  /\ WorkConserving
  /\ NoOvertaking
  /\ AnswersReachTheirCaller
  /\ SlotsLostOnlyByClone
  /\ PendingIsArmed

-----------------------------------------------------------------------------
(* A queue's tail is the queue without its head, shifted by one.           *)
LEMMA TailFacts ==
  ASSUME NEW q \in Seq(Tasks), q # << >>
  PROVE  /\ Head(q) \in Tasks
         /\ Head(q) = q[1]
         /\ 1 \in DOMAIN q
         /\ Tail(q) \in Seq(Tasks)
         /\ \A i \in DOMAIN Tail(q) : i \in Nat /\ i + 1 \in DOMAIN q /\ i + 1 > 1 /\ Tail(q)[i] = q[i + 1]
  BY SMTT(20)

(* Appending leaves the queue's elements where they are.                   *)
LEMMA AppendFacts ==
  ASSUME NEW q \in Seq(Tasks), NEW t \in Tasks
  PROVE  /\ \A i \in DOMAIN q : q[i] \in Tasks
         /\ Append(q, t) \in Seq(Tasks)
         /\ Append(q, t) # << >>
         /\ \A i \in DOMAIN Append(q, t) :
              \/ i \in DOMAIN q /\ Append(q, t)[i] = q[i]
              \/ Append(q, t)[i] = t /\ \A j \in DOMAIN Append(q, t) : j <= i
         /\ \A i \in DOMAIN Append(q, t) : i \in Nat
  BY SMTT(20)

LEMMA InitIInv == Init => IInv
  BY NoTaskAssumption, PoolSizeAssumption, MaxTasksAssumption
     DEF Init, IInv, TypeOK, ActiveIsListening, IdsAreGiven, WorkConserving, NoOvertaking,
         AnswersReachTheirCaller, SlotsLostOnlyByClone, PendingIsArmed, PromiseStates, Tasks

(* A call that finds a free worker: the queue is empty, and its id is new. *)
LEMMA ExecuteNowIInv == IInv /\ ExecuteNow => IInv'
<1> SUFFICES ASSUME IInv, ExecuteNow PROVE IInv'
  OBVIOUS
<1> DEFINE t == taskIdCounter + 1
<1>1. PICK w \in Workers \ activeWorkers :
        /\ t \in Tasks
        /\ ExecuteOnWorker(w, t)
        /\ taskIdCounter' = t
        /\ timers' = timers \cup {t}
        /\ promise' = [promise EXCEPT ![t] = IF t \in Unclonable THEN "failed" ELSE "pending"]
        /\ taskQueue' = taskQueue
  BY DEF ExecuteNow, FreeIndices
<1>2. /\ activeWorkers' = activeWorkers \cup {w}
      /\ listener' = [listener EXCEPT ![w] = t]
      /\ mailbox' = [mailbox EXCEPT ![w] = IF t \in Unclonable THEN NoTask ELSE t]
  BY <1>1 DEF ExecuteOnWorker
<1>3. TypeOK /\ taskQueue = << >> /\ t # NoTask /\ t \in Nat /\ taskIdCounter \in Nat
  BY <1>1, NoTaskAssumption, MaxTasksAssumption DEF IInv, WorkConserving, TypeOK, Tasks
<1>4. TypeOK'
  BY <1>1, <1>2, <1>3, MaxTasksAssumption DEF TypeOK, PromiseStates, Tasks
<1>5. ActiveIsListening'
  BY <1>1, <1>2, <1>3 DEF IInv, ActiveIsListening, TypeOK
<1>6. IdsAreGiven'
  BY <1>1, <1>2, <1>3 DEF IInv, IdsAreGiven, TypeOK, Tasks
<1>7. WorkConserving' /\ NoOvertaking'
  BY <1>1, <1>3 DEF WorkConserving, NoOvertaking
<1>8. AnswersReachTheirCaller'
  BY <1>1, <1>2, <1>3 DEF IInv, IdsAreGiven, AnswersReachTheirCaller, TypeOK, Tasks
<1>9. SlotsLostOnlyByClone'
  BY <1>1, <1>2, <1>3 DEF IInv, SlotsLostOnlyByClone, TypeOK
<1>10. PendingIsArmed'
  BY <1>1, <1>3 DEF IInv, PendingIsArmed, TypeOK
<1> QED
  BY <1>4, <1>5, <1>6, <1>7, <1>8, <1>9, <1>10 DEF IInv

(* A call that finds every worker busy: its id is larger than those of all *)
(* tasks that run or wait.                                                 *)
LEMMA ExecuteQueuedIInv == IInv /\ ExecuteQueued => IInv'
<1> SUFFICES ASSUME IInv, ExecuteQueued PROVE IInv'
  OBVIOUS
<1> DEFINE t == taskIdCounter + 1
<1>1. /\ t \in Tasks
      /\ activeWorkers = Workers
      /\ taskQueue' = Append(taskQueue, t)
      /\ taskIdCounter' = t
      /\ timers' = timers \cup {t}
      /\ promise' = [promise EXCEPT ![t] = "pending"]
      /\ activeWorkers' = activeWorkers /\ listener' = listener /\ mailbox' = mailbox
  BY DEF ExecuteQueued, FreeIndices, IInv, TypeOK
<1>2. TypeOK /\ t # NoTask /\ t \in Nat /\ taskIdCounter \in Nat
  BY <1>1, NoTaskAssumption DEF IInv, TypeOK, Tasks
<1>3. /\ taskQueue' \in Seq(Tasks)
      /\ \A i \in DOMAIN taskQueue' :
           /\ i \in Nat
           /\ \/ i \in DOMAIN taskQueue /\ taskQueue'[i] = taskQueue[i]
              \/ taskQueue'[i] = t /\ \A j \in DOMAIN taskQueue' : j <= i
  BY <1>1, <1>2, AppendFacts DEF TypeOK
<1>4. TypeOK'
  BY <1>1, <1>2, <1>3 DEF TypeOK, PromiseStates, Tasks
<1>5. \A i \in DOMAIN taskQueue : taskQueue[i] \in Tasks /\ taskQueue[i] < t
  <2>1. \A i \in DOMAIN taskQueue : taskQueue[i] \in Tasks
    BY <1>1, <1>2, AppendFacts DEF TypeOK
  <2> QED
    BY <1>2, <2>1 DEF IInv, IdsAreGiven, Tasks
<1>6. \A w \in Workers : listener[w] # NoTask => listener[w] \in Tasks /\ listener[w] < t
  BY <1>2 DEF IInv, IdsAreGiven, TypeOK, Tasks
<1>7. IdsAreGiven'
  BY <1>1, <1>2, <1>3, <1>5, <1>6 DEF IdsAreGiven, Tasks
<1>8. NoOvertaking'
  <2>1. ASSUME NEW i \in DOMAIN taskQueue', NEW j \in DOMAIN taskQueue', i < j
        PROVE  taskQueue'[i] < taskQueue'[j]
    <3>1. i \in DOMAIN taskQueue /\ taskQueue'[i] = taskQueue[i]
      BY <2>1, <1>3
    <3>2. CASE j \in DOMAIN taskQueue /\ taskQueue'[j] = taskQueue[j]
      BY <3>1, <3>2, <2>1 DEF IInv, NoOvertaking
    <3>3. CASE taskQueue'[j] = t
      BY <3>1, <3>3, <1>5
    <3> QED
      BY <3>2, <3>3, <1>3
  <2>2. ASSUME NEW w \in Workers, NEW i \in DOMAIN taskQueue', listener[w] # NoTask
        PROVE  listener[w] < taskQueue'[i]
    BY <2>2, <1>3, <1>6 DEF IInv, NoOvertaking
  <2> QED
    BY <2>1, <2>2, <1>1 DEF NoOvertaking
<1>9. PendingIsArmed'
  BY <1>1, <1>2 DEF IInv, PendingIsArmed, TypeOK
<1>10. WorkConserving' /\ ActiveIsListening' /\ AnswersReachTheirCaller' /\ SlotsLostOnlyByClone'
  BY <1>1 DEF IInv, WorkConserving, ActiveIsListening, AnswersReachTheirCaller, SlotsLostOnlyByClone
<1> QED
  BY <1>4, <1>7, <1>8, <1>9, <1>10 DEF IInv

(* A worker that is released serves the head of the queue next, which no   *)
(* other worker serves and which is older than what stays behind it.       *)
LEMMA ReleaseIInv ==
  ASSUME IInv, NEW w \in Workers, listener[w] # NoTask, ReleaseWorker(w),
         taskIdCounter' = taskIdCounter, timers' = timers \ {listener[w]},
         NEW state \in {"resolved", "failed"}, promise' = Settle(listener[w], state)
  PROVE  IInv'
<1>1. TypeOK /\ listener[w] \in Tasks /\ w \in activeWorkers
  BY DEF IInv, TypeOK, ActiveIsListening
<1>2. PendingIsArmed' /\ timers' \in SUBSET Tasks /\ promise' \in [Tasks -> PromiseStates]
  BY <1>1 DEF Settle, IInv, PendingIsArmed, TypeOK, PromiseStates
<1>3. CASE taskQueue = << >>
  <2>1. /\ activeWorkers' = activeWorkers \ {w}
        /\ listener' = [listener EXCEPT ![w] = NoTask]
        /\ mailbox' = [mailbox EXCEPT ![w] = NoTask]
        /\ taskQueue' = << >>
    BY <1>3 DEF ReleaseWorker
  <2>2. TypeOK'
    BY <1>1, <1>2, <1>3, <2>1 DEF TypeOK
  <2>3. WorkConserving' /\ NoOvertaking'
    BY <2>1 DEF WorkConserving, NoOvertaking
  <2>4. ActiveIsListening' /\ IdsAreGiven'
    BY <1>1, <2>1 DEF IInv, TypeOK, ActiveIsListening, IdsAreGiven
  <2>5. AnswersReachTheirCaller' /\ SlotsLostOnlyByClone'
    BY <1>1, <2>1 DEF IInv, TypeOK, AnswersReachTheirCaller, SlotsLostOnlyByClone
  <2> QED
    BY <1>2, <2>2, <2>3, <2>4, <2>5 DEF IInv
<1>4. CASE taskQueue # << >>
  <2> DEFINE t == Head(taskQueue)
  <2>1. /\ activeWorkers' = activeWorkers
        /\ listener' = [listener EXCEPT ![w] = t]
        /\ mailbox' = [mailbox EXCEPT ![w] = IF t \in Unclonable THEN NoTask ELSE t]
        /\ taskQueue' = Tail(taskQueue)
    BY <1>1, <1>4 DEF ReleaseWorker, ExecuteOnWorker
  <2>2. /\ t \in Tasks /\ t = taskQueue[1] /\ 1 \in DOMAIN taskQueue
        /\ taskQueue' \in Seq(Tasks)
        /\ \A i \in DOMAIN taskQueue' :
             i \in Nat /\ i + 1 \in DOMAIN taskQueue /\ i + 1 > 1 /\ taskQueue'[i] = taskQueue[i + 1]
    BY <1>1, <1>4, <2>1, TailFacts DEF TypeOK
  <2>3. t # NoTask /\ t \in Nat
    BY <2>2, NoTaskAssumption DEF Tasks
  <2>4. \A v \in Workers : listener[v] # t
    BY <2>2, <2>3, <1>1 DEF IInv, NoOvertaking, TypeOK, Tasks
  <2>5. TypeOK'
    BY <1>1, <1>2, <2>1, <2>2 DEF TypeOK
  <2>6. ActiveIsListening' /\ WorkConserving'
    BY <1>1, <1>4, <2>1, <2>3 DEF IInv, TypeOK, ActiveIsListening, WorkConserving
  <2>7. IdsAreGiven'
    BY <1>1, <2>1, <2>2 DEF IInv, TypeOK, IdsAreGiven
  <2>8. NoOvertaking'
    <3>1. \A i, j \in DOMAIN taskQueue' : i < j => taskQueue'[i] < taskQueue'[j]
      BY <2>2 DEF IInv, NoOvertaking
    <3>2. \A i \in DOMAIN taskQueue' : t < taskQueue'[i]
      BY <2>2 DEF IInv, NoOvertaking
    <3>3. \A v \in Workers, i \in DOMAIN taskQueue' :
            v # w /\ listener[v] # NoTask => listener[v] < taskQueue'[i]
      BY <2>2 DEF IInv, NoOvertaking
    <3> QED
      BY <3>1, <3>2, <3>3, <2>1, <1>1 DEF NoOvertaking, TypeOK
  <2>9. AnswersReachTheirCaller' /\ SlotsLostOnlyByClone'
    BY <1>1, <2>1, <2>3, <2>4 DEF IInv, TypeOK, AnswersReachTheirCaller, SlotsLostOnlyByClone
  <2> QED
    BY <1>2, <2>5, <2>6, <2>7, <2>8, <2>9 DEF IInv
<1> QED
  BY <1>3, <1>4

(* Every step of the pool preserves the invariant.                         *)
LEMMA NextIInv == IInv /\ [Next]_vars => IInv'
<1> SUFFICES ASSUME IInv, [Next]_vars PROVE IInv'
  OBVIOUS
<1>1. CASE ExecuteNow
  BY <1>1, ExecuteNowIInv
<1>2. CASE ExecuteQueued
  BY <1>2, ExecuteQueuedIInv
<1>3. ASSUME NEW w \in Workers, HandleMessage(w) PROVE IInv'
  <2>1. listener[w] # NoTask
    BY <1>3, NoTaskAssumption DEF HandleMessage, IInv, AnswersReachTheirCaller
  <2>2. PICK state \in {"resolved", "failed"} : promise' = Settle(listener[w], state)
    BY <1>3 DEF HandleMessage
  <2> QED
    BY <1>3, <2>1, <2>2, ReleaseIInv DEF HandleMessage
<1>4. ASSUME NEW w \in Workers, HandleError(w) PROVE IInv'
  BY <1>4, ReleaseIInv DEF HandleError
<1>5. ASSUME NEW t \in Tasks, Timeout(t) PROVE IInv'
  <2>1. /\ timers' = timers \ {t}
        /\ promise' = Settle(t, "timedout")
        /\ UNCHANGED <<taskIdCounter, taskQueue, activeWorkers, listener, mailbox>>
    BY <1>5 DEF Timeout
  <2>2. TypeOK' /\ PendingIsArmed'
    BY <2>1 DEF IInv, TypeOK, PendingIsArmed, Settle, PromiseStates
  <2> QED
    BY <2>1, <2>2 DEF IInv, ActiveIsListening, IdsAreGiven, WorkConserving, NoOvertaking,
                      AnswersReachTheirCaller, SlotsLostOnlyByClone
<1>6. CASE Terminate
  BY <1>6 DEF Terminate, IInv, TypeOK, ActiveIsListening, IdsAreGiven, WorkConserving,
              NoOvertaking, AnswersReachTheirCaller, SlotsLostOnlyByClone, PendingIsArmed
<1>7. CASE UNCHANGED vars
  BY <1>7 DEF vars, IInv, TypeOK, ActiveIsListening, IdsAreGiven, WorkConserving,
              NoOvertaking, AnswersReachTheirCaller, SlotsLostOnlyByClone, PendingIsArmed
<1> QED
  BY <1>1, <1>2, <1>3, <1>4, <1>5, <1>6, <1>7 DEF Next

LEMMA Invariance == Spec => []IInv
  BY InitIInv, NextIInv, PTL DEF Spec

-----------------------------------------------------------------------------
(* worker-pool.mjs keeps its counters, queue and tables well formed.       *)
THEOREM TypeCorrect == Spec => []TypeOK
<1>1. IInv => TypeOK
  BY DEF IInv
<1> QED
  BY Invariance, <1>1, PTL

(* execute() queues a task only if every worker is busy, and no handler    *)
(* releases a worker while a task waits.                                   *)
THEOREM NeverIdleBesideAQueue == Spec => []WorkConserving
<1>1. IInv => WorkConserving
  BY DEF IInv
<1> QED
  BY Invariance, <1>1, PTL

(* Tasks reach the workers in the order of the calls of execute().         *)
THEOREM FirstComeFirstServed == Spec => []NoOvertaking
<1>1. IInv => NoOvertaking
  BY DEF IInv
<1> QED
  BY Invariance, <1>1, PTL

(* handleMessage settles the promise of the caller that asked.             *)
THEOREM AnswersAreNotMixedUp == Spec => []AnswersReachTheirCaller
<1>1. IInv => AnswersReachTheirCaller
  BY DEF IInv
<1> QED
  BY Invariance, <1>1, PTL

(* An index stays active without a request only if postMessage threw.      *)
THEOREM NoOtherLeak == Spec => []SlotsLostOnlyByClone
<1>1. IInv => SlotsLostOnlyByClone
  BY DEF IInv
<1> QED
  BY Invariance, <1>1, PTL

(* Every promise of execute() that is not settled has its timer armed.     *)
THEOREM AlwaysArmed == Spec => []PendingIsArmed
<1>1. IInv => PendingIsArmed
  BY DEF IInv
<1> QED
  BY Invariance, <1>1, PTL

-----------------------------------------------------------------------------
(* What ReleaseWorker does to the worker and the queue is what a server    *)
(* does that has finished.                                                 *)
LEMMA ReleaseFinishes ==
  ASSUME IInv, NEW w \in Workers, listener[w] # NoTask, ReleaseWorker(w),
         taskIdCounter' = taskIdCounter
  PROVE  Service!Finish(w)
  BY DEF ReleaseWorker, ExecuteOnWorker, Service!Finish

(* A step of the pool is a step of the service or changes nothing of it.   *)
LEMMA StepRefines == IInv /\ [Next]_vars => [Service!Next]_Service!vars
<1> SUFFICES ASSUME IInv, [Next]_vars PROVE [Service!Next]_Service!vars
  OBVIOUS
<1>1. CASE ExecuteNow
  <2>1. PICK w \in Workers \ activeWorkers :
          /\ taskIdCounter + 1 \in Tasks
          /\ ExecuteOnWorker(w, taskIdCounter + 1)
          /\ taskIdCounter' = taskIdCounter + 1
          /\ taskQueue' = taskQueue
    BY <1>1 DEF ExecuteNow, FreeIndices
  <2>2. listener[w] = NoTask /\ taskQueue = << >>
    BY <2>1 DEF IInv, ActiveIsListening, WorkConserving
  <2>3. Service!ArriveAndStart(w)
    BY <2>1, <2>2 DEF ExecuteOnWorker, Service!ArriveAndStart, Service!Jobs, Tasks
  <2> QED
    BY <2>1, <2>3 DEF Service!Next
<1>2. CASE ExecuteQueued
  <2>1. \A w \in Workers : listener[w] # NoTask
    BY <1>2 DEF ExecuteQueued, FreeIndices, IInv, ActiveIsListening
  <2>2. Service!ArriveAndWait
    BY <1>2, <2>1 DEF ExecuteQueued, Service!ArriveAndWait, Service!Jobs, Tasks
  <2> QED
    BY <2>2 DEF Service!Next
<1>3. ASSUME NEW w \in Workers, HandleMessage(w) PROVE Service!Next
  <2>1. listener[w] # NoTask
    BY <1>3 DEF HandleMessage, IInv, AnswersReachTheirCaller
  <2>2. Service!Finish(w)
    BY <1>3, <2>1, ReleaseFinishes DEF HandleMessage
  <2> QED
    BY <2>2 DEF Service!Next
<1>4. ASSUME NEW w \in Workers, HandleError(w) PROVE Service!Next
  <2>1. Service!Finish(w)
    BY <1>4, ReleaseFinishes DEF HandleError
  <2> QED
    BY <2>1 DEF Service!Next
<1>5. ASSUME NEW t \in Tasks, Timeout(t) PROVE UNCHANGED Service!vars
  BY <1>5 DEF Timeout, Service!vars
<1>6. CASE Terminate
  BY <1>6 DEF Terminate, Service!Stop, Service!Next
<1>7. CASE UNCHANGED vars
  BY <1>7 DEF vars, Service!vars
<1> QED
  BY <1>1, <1>2, <1>3, <1>4, <1>5, <1>6, <1>7 DEF Next

(* worker-pool.mjs implements the first-come first-served service.         *)
THEOREM ImplementsService == Spec => ServesInOrder
<1>1. Init => Service!Init
  BY DEF Init, Service!Init
<1> QED
  BY <1>1, StepRefines, Invariance, PTL DEF Spec, ServesInOrder, Service!Spec

(* No task is handed to a worker twice, whichever handler hands it over.   *)
THEOREM NothingRunsTwice == Spec => StartedOnce
<1> DEFINE Handed(w) ==
      /\ \/ taskQueue # << >> /\ listener'[w] = Head(taskQueue)
         \/ listener'[w] = taskIdCounter' /\ taskIdCounter' = taskIdCounter + 1
      /\ \A i \in DOMAIN taskQueue' : taskQueue'[i] # listener'[w]
<1>1. ASSUME IInv, [Next]_vars, NEW w \in Workers, listener'[w] # listener[w], listener'[w] # NoTask
      PROVE  Handed(w)
  <2>1. IInv'
    BY <1>1, NextIInv
  <2>2. \A i \in DOMAIN taskQueue' : taskQueue'[i] # listener'[w]
    BY <1>1, <2>1, NoTaskAssumption DEF IInv, NoOvertaking, TypeOK, Tasks
  <2>3. [Service!Next]_Service!vars
    BY <1>1, StepRefines
  <2>4. \/ taskQueue # << >> /\ listener'[w] = Head(taskQueue)
        \/ listener'[w] = taskIdCounter' /\ taskIdCounter' = taskIdCounter + 1
    BY <1>1, <2>3 DEF IInv, TypeOK, Service!Next, Service!vars, Service!ArriveAndStart,
                      Service!ArriveAndWait, Service!Finish, Service!Stop
  <2> QED
    BY <2>2, <2>4
<1>2. IInv /\ [Next]_vars =>
        [\A w \in Workers : listener'[w] # listener[w] /\ listener'[w] # NoTask => Handed(w)]_vars
  BY <1>1
<1> QED
  BY <1>2, Invariance, PTL DEF Spec, StartedOnce
=============================================================================

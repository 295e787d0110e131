--------------------------- MODULE RemoteInference ---------------------------
(***************************************************************************)
(* Batched inference: modules/cloud/remote-inference-manager.mjs with the  *)
(* registry of modules/cloud/model-registry.mjs that it asks.              *)
(*                                                                         *)
(* infer() awaits the registry before it queues, a dispatched batch awaits *)
(* its runner, shutdown() awaits one batch after the other: everything     *)
(* else may happen in between.  A key is one version of one model; several *)
(* batches of a key may be with its runner at the same time.               *)
(*                                                                         *)
(* Events are emitted in the middle of a step, and a listener that throws  *)
(* ends it there: the promise of infer() rejects with the request already  *)
(* queued, a batch cut from the queue reaches no runner, shutdown()        *)
(* rejects.  No listener calls shutdown() itself.                          *)
(***************************************************************************)
EXTENDS Integers, Sequences, FiniteSets

CONSTANTS
  Keys,          \* `${modelId}:${versionId}'
  BatchSize,     \* batchSize
  AllowNonProd,  \* allowNonProd
  MaxRequests,   \* bound on the number of infer() calls
  MaxChanges     \* bound on the number of calls that change the registry

ASSUME Assumption ==
  /\ Keys # {}
  /\ BatchSize \in Nat \ {0}
  /\ MaxRequests \in Nat
  /\ MaxChanges \in Nat

Requests == 1 .. MaxRequests

VARIABLES
  status,    \* key -> status of the version in the registry, or "absent"
  changes,   \* calls that changed the registry so far
  runners,   \* keys with a registered runner
  asked,     \* infer() calls so far
  key,       \* request -> its key
  phase,     \* request -> how far it has got
  queue,     \* key -> slot.queue
  timer,     \* keys whose slot.timer is not null
  armed,     \* keys with a timeout still to come
  inFlight,  \* batches that await their runner, as sequences of requests
  told,      \* requests whose promise a listener's exception rejected as they were queued
  disturbed, \* history: keys for which that was so since their queue was last empty
  shutdown, todo, awaited, \* shutdown(): state, keys to come, batch it awaits
  atShutdown \* history: requests queued when shutdown() was called

regVars == <<status, changes>>
slotVars == <<queue, timer, armed, inFlight, told, disturbed>>
endVars == <<shutdown, todo, awaited, atShutdown>>
vars == <<status, changes, runners, asked, key, phase, slotVars, endVars>>

Init ==
  /\ status = [k \in Keys |-> "absent"] /\ changes = 0
  /\ runners = {}
  /\ asked = 0
  /\ key = [r \in Requests |-> CHOOSE k \in Keys : TRUE]
  /\ phase = [r \in Requests |-> "new"]
  /\ queue = [k \in Keys |-> << >>]
  /\ timer = {} /\ armed = {}
  /\ inFlight = {}
  /\ told = {} /\ disturbed = {}
  /\ shutdown = "no" /\ todo = {} /\ awaited = << >> /\ atShutdown = {}

Members(s) == {s[i] : i \in DOMAIN s}

-----------------------------------------------------------------------------
(* ModelRegistry: register(), promoteVersion(), deleteModel().  getModel() *)
(* returns a copy, so these reach nobody who has already asked.            *)
(* PromoteVersionUnchecked is a mutant without the check of the target.    *)
Register(k) ==
  /\ changes < MaxChanges /\ changes' = changes + 1
  /\ status[k] = "absent"
  /\ status' = [status EXCEPT ![k] = "staging"]

PromoteVersionUnchecked(k) ==
  /\ changes < MaxChanges /\ changes' = changes + 1
  /\ status[k] # "absent"
  /\ \E target \in {"staging", "prod", "deprecated", "live"} : status' = [status EXCEPT ![k] = target]

PromoteVersion(k) ==
  /\ changes < MaxChanges /\ changes' = changes + 1
  /\ status[k] # "absent"
  /\ \E target \in {"staging", "prod", "deprecated"} : status' = [status EXCEPT ![k] = target]

DeleteModel(k) ==
  /\ changes < MaxChanges /\ changes' = changes + 1
  /\ status[k] # "absent"
  /\ status' = [status EXCEPT ![k] = "absent"]

ChangeRegistry ==
  /\ \E k \in Keys : Register(k) \/ PromoteVersion(k) \/ DeleteModel(k)
  /\ UNCHANGED <<runners, asked, key, phase, slotVars, endVars>>

(* registerLocalRunner() and registerRemoteRunner(): runners are never     *)
(* removed.                                                                *)
RegisterRunner(k) ==
  /\ k \notin runners
  /\ runners' = runners \cup {k}
  /\ UNCHANGED <<regVars, asked, key, phase, slotVars, endVars>>

-----------------------------------------------------------------------------
Servable(k) == status[k] = "prod" \/ (AllowNonProd /\ status[k] # "absent")

(* infer(), up to its await: the copy of the model it gets is of now.      *)
Infer(k) ==
  LET r == asked + 1 IN
  /\ r \in Requests
  /\ asked' = r
  /\ key' = [key EXCEPT ![r] = k]
  /\ phase' = [phase EXCEPT ![r] = IF Servable(k) THEN "checked" ELSE "refused"]
  /\ UNCHANGED <<regVars, runners, slotVars, endVars>>

SetPhase(p, batch, value) == [r \in Requests |-> IF r \in Members(batch) THEN value ELSE p[r]]

Batch(q) == SubSeq(q, 1, IF Len(q) < BatchSize THEN Len(q) ELSE BatchSize)
Rest(q)  == SubSeq(q, Len(Batch(q)) + 1, Len(q))

(* Mutant of the next operator: the batch is copied from the queue, not    *)
(* cut from it.                                                            *)
DispatchSliced(k, q, p, throws) ==
  /\ timer' = timer \ {k} /\ armed' = armed \ {k}
  /\ queue' = [queue EXCEPT ![k] = q]
  /\ disturbed' = IF Rest(q) = << >> THEN disturbed \ {k} ELSE disturbed
  /\ \/ /\ k \in runners /\ ~throws
        /\ phase' = SetPhase(p, Batch(q), "running")
        /\ inFlight' = inFlight \cup {Batch(q)}
     \/ /\ k \in runners /\ throws
        /\ phase' = SetPhase(p, Batch(q), "lost")
        /\ UNCHANGED inFlight
     \/ /\ k \notin runners
        /\ phase' = SetPhase(p, Batch(q), "rejected")
        /\ UNCHANGED inFlight

(* _dispatchBatch() on a slot whose queue is q # << >>, up to its await.   *)
(* If a listener of batchDispatched throws, the batch is in no hands any   *)
(* more; without a runner it fails at once, whoever of the listeners of    *)
(* requestFailed throws.                                                   *)
Dispatch(k, q, p, throws) ==
  /\ timer' = timer \ {k} /\ armed' = armed \ {k}
  /\ queue' = [queue EXCEPT ![k] = Rest(q)]
  /\ disturbed' = IF Rest(q) = << >> THEN disturbed \ {k} ELSE disturbed
  /\ \/ /\ k \in runners /\ ~throws
        /\ phase' = SetPhase(p, Batch(q), "running")
        /\ inFlight' = inFlight \cup {Batch(q)}
     \/ /\ k \in runners /\ throws
        /\ phase' = SetPhase(p, Batch(q), "lost")
        /\ UNCHANGED inFlight
     \/ /\ k \notin runners
        /\ phase' = SetPhase(p, Batch(q), "rejected")
        /\ UNCHANGED inFlight

(* Mutants of the next operator: a batch is dispatched one request late;   *)
(* no timer is set.                                                        *)
QueuedLate(k, q, p) ==
  \/ Len(q) > BatchSize /\ \E throws \in BOOLEAN : Dispatch(k, q, p, throws)
  \/ /\ Len(q) <= BatchSize
     /\ queue' = [queue EXCEPT ![k] = q]
     /\ phase' = p
     /\ timer' = timer \cup {k}
     /\ armed' = IF k \in timer THEN armed ELSE armed \cup {k}
     /\ UNCHANGED <<inFlight, disturbed>>

QueuedUnarmed(k, q, p) ==
  \/ Len(q) >= BatchSize /\ \E throws \in BOOLEAN : Dispatch(k, q, p, throws)
  \/ /\ Len(q) < BatchSize
     /\ queue' = [queue EXCEPT ![k] = q]
     /\ phase' = p
     /\ UNCHANGED <<timer, armed, inFlight, disturbed>>

(* The request is dispatched with the others if it fills a batch;          *)
(* otherwise the slot's timer is set.                                      *)
QueuedFor(k, q, p) ==
  \/ Len(q) >= BatchSize /\ \E throws \in BOOLEAN : Dispatch(k, q, p, throws)
  \/ /\ Len(q) < BatchSize
     /\ queue' = [queue EXCEPT ![k] = q]
     /\ phase' = p
     /\ timer' = timer \cup {k}
     /\ armed' = IF k \in timer THEN armed ELSE armed \cup {k}
     /\ UNCHANGED <<inFlight, disturbed>>

(* infer(), after its await.  A listener of requestEnqueued that throws    *)
(* leaves the request in the queue: nothing is dispatched, no timer set.   *)
Enqueue(r) ==
  LET k == key[r]
      q == Append(queue[k], r)
      p == [phase EXCEPT ![r] = "queued"]
  IN
  /\ phase[r] = "checked"
  /\ \/ QueuedFor(k, q, p) /\ UNCHANGED told
     \/ /\ queue' = [queue EXCEPT ![k] = q]
        /\ phase' = p
        /\ told' = told \cup {r} /\ disturbed' = disturbed \cup {k}
        /\ UNCHANGED <<timer, armed, inFlight>>
  /\ UNCHANGED <<regVars, runners, asked, key, endVars>>

(* The slot's timeout fires.  On an empty queue _dispatchBatch() returns   *)
(* before it resets slot.timer, and Enqueue would never arm it again.      *)
TimerExpires(k) ==
  /\ k \in armed
  /\ \/ /\ queue[k] = << >>
        /\ armed' = armed \ {k}
        /\ UNCHANGED <<queue, timer, phase, inFlight, disturbed>>
     \/ queue[k] # << >> /\ \E throws \in BOOLEAN : Dispatch(k, queue[k], phase, throws)
  /\ UNCHANGED <<regVars, runners, asked, key, told, endVars>>

(* The runner answers with n outputs, at most one per request.  Requests   *)
(* beyond them are settled by nobody.                                      *)
Answer(b, n) ==
  /\ inFlight' = inFlight \ {b}
  /\ phase' = [r \in Requests |-> IF r \in Members(SubSeq(b, 1, n)) THEN "resolved"
                                  ELSE IF r \in Members(b) THEN "abandoned" ELSE phase[r]]
  /\ UNCHANGED <<regVars, runners, asked, key, queue, timer, armed, told, disturbed, endVars>>

(* An exception after n requests were resolved: the runner rejects (n = 0),*)
(* a listener of requestCompleted throws, or the runner returned more      *)
(* outputs than there are requests (n = Len(b)).  The catch rejects the    *)
(* whole batch, which those that were resolved do not notice.  If a        *)
(* listener of requestFailed throws in turn, shutdown() hears of it when   *)
(* it awaits that batch.                                                   *)
AnswerFails(b, n, throws) ==
  /\ inFlight' = inFlight \ {b}
  /\ phase' = [r \in Requests |-> IF r \in Members(SubSeq(b, 1, n)) THEN "resolved"
                                  ELSE IF r \in Members(b) THEN "rejected" ELSE phase[r]]
  /\ shutdown' = IF throws /\ shutdown = "running" /\ awaited = b THEN "rejected" ELSE shutdown
  /\ UNCHANGED <<regVars, runners, asked, key, queue, timer, armed, told, disturbed,
                 todo, awaited, atShutdown>>

-----------------------------------------------------------------------------
(* shutdown() is called: the keys of the slots there are now.              *)
Shutdown ==
  /\ shutdown = "no"
  /\ shutdown' = "running"
  /\ todo' = {key[r] : r \in {x \in Requests : phase[x] \notin {"new", "checked", "refused"}}}
  /\ atShutdown' = UNION {Members(queue[k]) : k \in Keys}
  /\ UNCHANGED <<regVars, runners, asked, key, phase, slotVars, awaited>>

(* Mutant of the next action: dispatching is left to the timers.           *)
ShutdownSkips(k) ==
  /\ shutdown = "running" /\ awaited \notin inFlight
  /\ k \in todo
  /\ todo' = todo \ {k}
  /\ UNCHANGED <<regVars, runners, asked, key, phase, slotVars, shutdown, awaited, atShutdown>>

(* Its loop: dispatch a batch of the next key's queue, and await it.  An   *)
(* exception in a listener ends the loop.                                  *)
ShutdownDispatches(k) ==
  /\ shutdown = "running" /\ awaited \notin inFlight
  /\ k \in todo
  /\ todo' = todo \ {k}
  /\ \/ /\ queue[k] = << >>
        /\ awaited' = << >>
        /\ UNCHANGED <<phase, queue, timer, armed, inFlight, disturbed, shutdown>>
     \/ /\ queue[k] # << >>
        /\ awaited' = Batch(queue[k])
        /\ \E throws \in BOOLEAN :
             /\ Dispatch(k, queue[k], phase, throws)
             /\ shutdown' = IF throws THEN "rejected" ELSE shutdown
  /\ UNCHANGED <<regVars, runners, asked, key, told, atShutdown>>

ShutdownResolves ==
  /\ shutdown = "running" /\ awaited \notin inFlight
  /\ todo = {}
  /\ shutdown' = "done"
  /\ awaited' = << >>
  /\ UNCHANGED <<regVars, runners, asked, key, phase, slotVars, todo, atShutdown>>

(* What remains when the bounds are reached is to call infer() with a      *)
(* version that is not there, which changes nothing.                       *)
Idle == asked = MaxRequests /\ UNCHANGED vars

RunnerAnswers ==
  \E b \in inFlight, n \in 0 .. BatchSize :
    /\ n <= Len(b)
    /\ Answer(b, n) \/ \E throws \in BOOLEAN : AnswerFails(b, n, throws)

Next ==
  \/ ChangeRegistry
  \/ \E k \in Keys : RegisterRunner(k) \/ Infer(k) \/ TimerExpires(k) \/ ShutdownDispatches(k)
  \/ \E r \in Requests : Enqueue(r)
  \/ RunnerAnswers
  \/ Shutdown \/ ShutdownResolves
  \/ Idle

(* Awaits of the registry end and timers expire; that runners answer       *)
(* nothing in the code sees to: it is an assumption of its own.            *)
Fairness ==
  /\ \A r \in Requests : WF_vars(Enqueue(r))
  /\ \A k \in Keys : WF_vars(TimerExpires(k))

RunnersAnswer == WF_vars(RunnerAnswers)

Spec     == Init /\ [][Next]_vars
FairSpec == Spec /\ Fairness /\ RunnersAnswer

-----------------------------------------------------------------------------
Phases == {"new", "refused", "checked", "queued", "running", "resolved", "rejected", "abandoned", "lost"}

(* The type of every variable.                                             *)
TypeOK ==
  /\ status \in [Keys -> {"absent", "staging", "prod", "deprecated"}]
  /\ changes \in 0 .. MaxChanges
  /\ runners \subseteq Keys
  /\ asked \in 0 .. MaxRequests
  /\ key \in [Requests -> Keys]
  /\ phase \in [Requests -> Phases]
  /\ queue \in [Keys -> Seq(Requests)]
  /\ timer \subseteq Keys /\ armed \subseteq Keys
  /\ inFlight \subseteq Seq(Requests)
  /\ told \subseteq Requests /\ disturbed \subseteq Keys
  /\ shutdown \in {"no", "running", "done", "rejected"}
  /\ todo \subseteq Keys
  /\ awaited \in Seq(Requests)
  /\ atShutdown \subseteq Requests

(* A timeout is to come exactly if slot.timer holds it, and then requests  *)
(* wait: none fires on an empty queue, which would disable the slot for    *)
(* ever.  Where requests wait, fewer than a batch do, and not without a    *)
(* timeout, unless a listener of requestEnqueued threw for the key: from   *)
(* then on, until the queue is empty again, it may be longer than a batch, *)
(* and the dispatch of one batch takes the timer of the rest.              *)
QueueArmed ==
  /\ timer = armed
  /\ \A k \in armed : queue[k] # << >>
  /\ \A k \in Keys \ disturbed : Len(queue[k]) < BatchSize /\ (queue[k] # << >> => k \in armed)

(* A request that was let through is in exactly one place, its slot's      *)
(* queue or one batch, until the batch is answered, fails or is lost: no   *)
(* answer goes to two requests, none is asked twice.  One whose promise a  *)
(* listener's exception rejected is queued and asked all the same.         *)
OnePlace ==
  /\ \A k \in Keys : \A i, j \in DOMAIN queue[k] : i # j => queue[k][i] # queue[k][j]
  /\ \A k \in Keys : \A i \in DOMAIN queue[k] : phase[queue[k][i]] = "queued" /\ key[queue[k][i]] = k
  /\ \A r \in Requests : phase[r] = "queued" => r \in Members(queue[key[r]])
  /\ \A b \in inFlight : \A i \in DOMAIN b : phase[b[i]] = "running"
  /\ \A b, c \in inFlight : Members(b) \cap Members(c) # {} => b = c
  /\ \A r \in Requests : phase[r] = "running" => \E b \in inFlight : r \in Members(b)
  /\ \A r \in told : phase[r] \notin {"new", "refused", "checked"}

(* What was queued when shutdown() was called has left the queue when it   *)
(* resolves, whatever was enqueued and dispatched in between; but for a    *)
(* queue that grew beyond a batch as a listener threw, of which shutdown() *)
(* dispatches one.                                                         *)
ShutdownDispatchesAll ==
  shutdown = "done" => \A r \in atShutdown : phase[r] = "queued" => key[r] \in disturbed

(* If runners answer, no request waits for ever: it is answered, its batch *)
(* fails, the runner gave no output for it or a listener of batchDispatched*)
(* lost its batch; or it is in a queue without a timer, as a listener of   *)
(* requestEnqueued threw.                                                  *)
EveryRequestSettles ==
  []<>(\A r \in Requests :
         /\ phase[r] \notin {"checked", "running"}
         /\ phase[r] = "queued" => key[r] \in disturbed \ armed)
=============================================================================

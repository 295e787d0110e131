----------------------------- MODULE MessageQueue -----------------------------
(***************************************************************************)
(* One queue and the dead letter queue of                                  *)
(* modules/integration/message-queue-manager.mjs, with consumers that take *)
(* messages with dequeue() and hand them to processMessage() once.         *)
(*                                                                         *)
(* processMessage() awaits the handler under a timeout: other calls run    *)
(* between its start and its end, and a step is one call or the end of one *)
(* handler.  A retry is a new message object with the same data; `data'    *)
(* numbers what producers enqueued, `id' the objects.                      *)
(*                                                                         *)
(* Time appears as the set of messages past their ttl.  The delay of a     *)
(* message, the backoff of a retry, is stored and read by no code.         *)
(***************************************************************************)
EXTENDS Integers, Sequences, FiniteSets

CONSTANTS
  MaxQueueSize,    \* options.maxQueueSize
  MaxDeadLetters,  \* 10000 in the code
  Budgets,         \* values of maxRetries producers ask for
  Priorities,      \* priorities producers ask for
  MaxData          \* bound on the number of accepted enqueue() calls of producers

Assumption ==
  /\ {MaxQueueSize, MaxDeadLetters, MaxData} \cup Budgets \subseteq Nat
  /\ Priorities \subseteq {"HIGH", "NORMAL", "LOW"}

Data == 1 .. MaxData

VARIABLES
  accepted,   \* data enqueued so far by producers
  lastId,     \* ids given so far
  messages,   \* queue.messages
  inHand,     \* dequeued messages whose processMessage has not ended
  deadLetterQueue,
  processed,  \* data counted in totalProcessed
  expired,    \* ids past their ttl
  budget,     \* history: data -> the maxRetries its producer asked for
  deliveries, \* history: data -> how often a message with it was dequeued
  consumers,  \* registered for the queue
  totalProcessed, totalFailed, \* the counters, which are the consumer's as well
  dropped     \* history: data of refused retries and of evicted dead letters

vars == <<accepted, lastId, messages, inHand, deadLetterQueue, processed,
          expired, budget, deliveries, consumers, totalProcessed, totalFailed, dropped>>
counters == <<consumers, totalProcessed, totalFailed>>

Init ==
  /\ accepted = 0 /\ lastId = 0
  /\ messages = << >>
  /\ inHand = {}
  /\ deadLetterQueue = << >>
  /\ processed = {}
  /\ expired = {}
  /\ budget = [d \in Data |-> 0]
  /\ deliveries = [d \in Data |-> 0]
  /\ consumers = 0 /\ totalProcessed = 0 /\ totalFailed = 0
  /\ dropped = {}

priorityOrder == [HIGH |-> 0, NORMAL |-> 1, LOW |-> 2]

(* `priorityOrder[p] || 1' turns the 0 of HIGH into 1.                     *)
Rank(p) == IF priorityOrder[p] = 0 THEN 1 ELSE priorityOrder[p]

(* Mutant of the next operator: no sort.                                   *)
Unsorted(q) == q

(* messages.sort(_comparePriority), which is stable.                       *)
Sorted(q) ==
  LET ranked(r) == SelectSeq(q, LAMBDA m : Rank(m.priority) = r)
  IN ranked(0) \o ranked(1) \o ranked(2)

(* enqueue(), when there is room.                                          *)
Push(data, priority, retries, ttl) ==
  LET m == [id |-> lastId + 1, data |-> data, priority |-> priority,
            attempts |-> 0, maxRetries |-> retries, ttl |-> ttl]
  IN /\ messages' = Sorted(Append(messages, m))
     /\ lastId' = m.id

(* A producer's enqueue().  On a full queue it gets null, nothing changes. *)
Enqueue ==
  LET d == accepted + 1 IN
  /\ d \in Data
  /\ Len(messages) < MaxQueueSize
  /\ \E p \in Priorities, r \in Budgets, ttl \in BOOLEAN :
       /\ Push(d, p, r, ttl)
       /\ budget' = [budget EXCEPT ![d] = r]
  /\ accepted' = d
  /\ UNCHANGED <<inHand, deadLetterQueue, processed, expired, deliveries, counters, dropped>>

(* _moveToDeadLetter(), once per message: the oldest letters are evicted.  *)
Limited(letters) ==
  IF Len(letters) > MaxDeadLetters
  THEN SubSeq(letters, Len(letters) - MaxDeadLetters + 1, Len(letters)) ELSE letters

Bury(dead) ==
  LET letters == deadLetterQueue \o dead
      kept    == Limited(letters)
      evicted == {letters[i].data : i \in 1 .. Len(letters) - Len(kept)}
  IN /\ deadLetterQueue' = kept
     /\ dropped' = dropped \cup evicted

(* dequeue(): every expired message is buried, then the first of the rest  *)
(* is handed out, whatever its delay says.                                 *)
Dequeue ==
  LET live == SelectSeq(messages, LAMBDA m : m.id \notin expired)
      dead == SelectSeq(messages, LAMBDA m : m.id \in expired)
  IN
  /\ consumers > 0 /\ messages # << >>
  /\ Bury([i \in DOMAIN dead |-> [data |-> dead[i].data, reason |-> "TTL_EXPIRED"]])
  /\ \/ /\ live = << >>
        /\ messages' = << >>
        /\ UNCHANGED <<inHand, deliveries>>
     \/ /\ live # << >>
        /\ messages' = Tail(live)
        /\ inHand' = inHand \cup {[Head(live) EXCEPT !.attempts = @ + 1]}
        /\ deliveries' = [deliveries EXCEPT ![Head(live).data] = @ + 1]
  /\ UNCHANGED <<accepted, lastId, processed, expired, budget, counters>>

(* dequeue() on an empty queue returns null.                               *)
DequeueNothing == consumers > 0 /\ messages = << >> /\ UNCHANGED vars

(* The handler resolves in time.                                           *)
Succeed(m) ==
  /\ m \in inHand
  /\ inHand' = inHand \ {m}
  /\ processed' = processed \cup {m.data}
  /\ totalProcessed' = totalProcessed + 1
  /\ UNCHANGED <<accepted, lastId, messages, deadLetterQueue, expired, budget, deliveries,
                 consumers, totalFailed, dropped>>

(* Mutants of the next operator: a retry costs one attempt; a buried       *)
(* message is tried again as well; the error is swallowed.                *)
HandleErrorFullBudget(m) ==
  LET attempts == m.attempts + 1 IN
  \/ /\ attempts > m.maxRetries
     /\ Bury(<<[data |-> m.data, reason |-> "MAX_RETRIES_EXCEEDED"]>>)
     /\ UNCHANGED <<lastId, messages>>
  \/ /\ attempts <= m.maxRetries
     /\ IF Len(messages) < MaxQueueSize
        THEN Push(m.data, m.priority, m.maxRetries - 1, FALSE) /\ UNCHANGED dropped
        ELSE dropped' = dropped \cup {m.data} /\ UNCHANGED <<lastId, messages>>
     /\ UNCHANGED deadLetterQueue

HandleErrorNoReturn(m) ==
  LET attempts == m.attempts + 1 IN
  /\ IF attempts > m.maxRetries
     THEN Bury(<<[data |-> m.data, reason |-> "MAX_RETRIES_EXCEEDED"]>>)
     ELSE UNCHANGED <<deadLetterQueue, dropped>>
  /\ IF Len(messages) < MaxQueueSize
     THEN Push(m.data, m.priority, m.maxRetries - attempts, FALSE)
     ELSE UNCHANGED <<lastId, messages>>

HandleErrorSwallowed(m) == UNCHANGED <<lastId, messages, deadLetterQueue, dropped>>

(* _handleProcessingError(): counts an attempt more, although dequeue()    *)
(* counted this one; buries the message, or enqueues its data again with   *)
(* what is left of its budget, without its ttl.  The queue may be full:    *)
(* enqueue() then returns null, which nobody looks at.                     *)
HandleProcessingError(m) ==
  LET attempts == m.attempts + 1 IN
  \/ /\ attempts > m.maxRetries
     /\ Bury(<<[data |-> m.data, reason |-> "MAX_RETRIES_EXCEEDED"]>>)
     /\ UNCHANGED <<lastId, messages>>
  \/ /\ attempts <= m.maxRetries
     /\ IF Len(messages) < MaxQueueSize
        THEN Push(m.data, m.priority, m.maxRetries - attempts, FALSE) /\ UNCHANGED dropped
        ELSE dropped' = dropped \cup {m.data} /\ UNCHANGED <<lastId, messages>>
     /\ UNCHANGED deadLetterQueue

Buried(m) == IF m.attempts + 1 > m.maxRetries THEN 1 ELSE 0

(* The handler rejects, or the timeout expires first.  A handler that is   *)
(* late goes on, and its result is ignored.                                *)
Fail(m) ==
  /\ m \in inHand
  /\ inHand' = inHand \ {m}
  /\ HandleProcessingError(m)
  /\ totalFailed' = totalFailed + Buried(m)
  /\ UNCHANGED <<accepted, processed, expired, budget, deliveries, consumers, totalProcessed>>

(* The handler resolves, and a listener of 'messageProcessed' throws: the  *)
(* catch of processMessage() takes it for a failure of the handler.        *)
SucceedThenThrow(m) ==
  /\ m \in inHand
  /\ inHand' = inHand \ {m}
  /\ processed' = processed \cup {m.data}
  /\ HandleProcessingError(m)
  /\ totalProcessed' = totalProcessed + 1
  /\ totalFailed' = totalFailed + Buried(m)
  /\ UNCHANGED <<accepted, expired, budget, deliveries, consumers>>

TtlPasses ==
  /\ \E i \in DOMAIN messages :
       /\ messages[i].ttl /\ messages[i].id \notin expired
       /\ expired' = expired \cup {messages[i].id}
  /\ UNCHANGED <<accepted, lastId, messages, inHand, deadLetterQueue, processed,
                 budget, deliveries, counters, dropped>>

(* Only registered consumers have their messages processed; the registry   *)
(* itself is read by the statistics alone.                                 *)
RegisterConsumer ==
  /\ consumers = 0 /\ consumers' = 1
  /\ UNCHANGED <<accepted, lastId, messages, inHand, deadLetterQueue, processed,
                 expired, budget, deliveries, totalProcessed, totalFailed, dropped>>

Next ==
  \/ RegisterConsumer
  \/ Enqueue
  \/ Dequeue \/ DequeueNothing
  \/ \E m \in inHand : Succeed(m) \/ Fail(m) \/ SucceedThenThrow(m)
  \/ TtlPasses

HandlerEnds == \E m \in inHand : Succeed(m) \/ Fail(m) \/ SucceedThenThrow(m)

(* A consumer registers, consumers keep calling dequeue(), and the timeout of processMessage()   *)
(* ends what the handler does not.                                         *)
Consumes == RegisterConsumer \/ Dequeue
Consumed == WF_vars(Consumes)
Timely   == WF_vars(HandlerEnds)

Spec     == Init /\ [][Next]_vars
FairSpec == Spec /\ Consumed /\ Timely

-----------------------------------------------------------------------------
Message == [id : 1 .. lastId, data : Data, priority : Priorities, attempts : Nat,
            maxRetries : Nat, ttl : BOOLEAN]

QueuedData == {messages[i].data : i \in DOMAIN messages}
DeadData   == {deadLetterQueue[i].data : i \in DOMAIN deadLetterQueue}
HeldData   == {m.data : m \in inHand}

(* The type of every variable; a budget never gets negative, although      *)
(* maxRetries - attempts is computed without a check.                      *)
TypeOK ==
  /\ accepted \in 0 .. MaxData /\ lastId \in Nat
  /\ messages \in Seq(Message) /\ Len(messages) <= MaxQueueSize
  /\ inHand \subseteq Message
  /\ Len(deadLetterQueue) <= MaxDeadLetters
  /\ \A i \in DOMAIN deadLetterQueue :
       deadLetterQueue[i] \in [data : Data, reason : {"TTL_EXPIRED", "MAX_RETRIES_EXCEEDED"}]
  /\ processed \subseteq Data /\ dropped \subseteq Data
  /\ expired \subseteq 1 .. lastId
  /\ budget \in [Data -> Nat] /\ deliveries \in [Data -> Nat]

(* What the manager tells: retries count as enqueued once more.            *)
Statistics == [pending |-> Len(messages), totalEnqueued |-> lastId,
               deadLetterQueueSize |-> Len(deadLetterQueue),
               totalConsumers |-> consumers, totalMessagesProcessed |-> totalProcessed]
ConsumerGroupStats == [totalConsumers |-> consumers, totalProcessed |-> totalProcessed,
                       totalFailed |-> totalFailed]
GetDeadLetterQueue(limit) ==
  LET n == Len(deadLetterQueue) IN SubSeq(deadLetterQueue, n - (IF limit < n THEN limit ELSE n) + 1, n)

(* At most one message carries a datum, and no accepted datum disappears   *)
(* but by a retry into a full queue or an eviction from the DLQ: it waits, *)
(* is in hand, is dead, was dropped, or was processed.                     *)
OneLiveCopy ==
  /\ \A i, k \in DOMAIN messages : messages[i].data = messages[k].data => i = k
  /\ \A m, n \in inHand : m.data = n.data => m = n
  /\ \A i, k \in DOMAIN deadLetterQueue : deadLetterQueue[i].data = deadLetterQueue[k].data => i = k
  /\ \A S, T \in {QueuedData, HeldData, DeadData, dropped} :
       S \cap T # {} => S = T
  /\ QueuedData \cup HeldData \cup DeadData \cup dropped \cup processed = 1 .. accepted

(* The statistics agree with what became of the messages: a failure counted *)
(* for a consumer lies in the dead letter queue or was evicted from it, and *)
(* one datum counts as processed more than once only where it was delivered *)
(* more than once.                                                          *)
StatisticsAgree ==
  LET exhausted == {i \in DOMAIN deadLetterQueue : deadLetterQueue[i].reason = "MAX_RETRIES_EXCEEDED"}
  IN /\ ConsumerGroupStats.totalFailed \in Cardinality(exhausted) .. Cardinality(exhausted) + Cardinality(dropped)
     /\ ConsumerGroupStats.totalProcessed >= Cardinality(processed)
     /\ Statistics.totalEnqueued >= accepted
     /\ Statistics.totalConsumers = 0 => inHand = {} /\ Statistics.pending = accepted
     /\ GetDeadLetterQueue(100) = deadLetterQueue

(* How often a handler may see a datum.  Each failed delivery costs two    *)
(* attempts, one in dequeue() and one in _handleProcessingError().         *)
DeliveriesBounded ==
  \A d \in 1 .. accepted : deliveries[d] <= budget[d] \div 2 + 1

(* LOW messages come last, and messages of one rank keep the order of      *)
(* enqueue(), retries counting as new: the stable sort after every push is *)
(* never disturbed by the ttl filter.                                      *)
OrderedByRank ==
  \A i, k \in DOMAIN messages :
    i < k => \/ Rank(messages[i].priority) < Rank(messages[k].priority)
             \/ Rank(messages[i].priority) = Rank(messages[k].priority) /\ messages[i].id < messages[k].id

(* All of it: no datum is lost, doubled, delivered too often or out of its  *)
(* order, and the statistics say so.                                        *)
MessagesKept == OneLiveCopy /\ StatisticsAgree /\ DeliveriesBounded /\ OrderedByRank

(* With consumers at work, everything that was accepted is processed, dead *)
(* or dropped in the end: retries do not go on for ever.                   *)
EverythingIsConsumed == []<>(1 .. accepted = processed \cup DeadData \cup dropped)
=============================================================================

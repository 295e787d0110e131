-------------------------- MODULE RemoteOperations --------------------------
(***************************************************************************)
(* The commands of modules/cloud/remote-operations-api.mjs: submitted with *)
(* a key that is limited to so many a minute, reported on, retried and     *)
(* kept in a history.  Every call is a step.                               *)
(*                                                                         *)
(* Requests are numbered.  Endpoints, middleware, streams and what a       *)
(* command does are left out.  A key whose permissions do not hold WRITE   *)
(* is one that is not valid.                                               *)
(***************************************************************************)
EXTENDS Integers, Sequences, FiniteSets, SequencesExt

CONSTANTS Keys,
          rateLimitPerMinute,
          Minute,        \* its length in ticks: 60000 in the code
          maxRetries,
          MaxTime, MaxRequests   \* bounds

Assumption == rateLimitPerMinute \in Nat \ {0} /\ Minute \in Nat \ {0} /\ maxRetries \in Nat

VARIABLES now,
          valid,            \* keys that pass validateAPIKey()
          rateLimits,       \* key -> the times it keeps
          activeRequests,   \* request -> its status and retryCount
          requestHistory,
          last,             \* requests so far
          accepted          \* history: key -> the times its commands were accepted

vars == <<now, valid, rateLimits, activeRequests, requestHistory, last, accepted>>

Init ==
  /\ now = 1 /\ valid = {}
  /\ rateLimits = [k \in Keys |-> <<>>]
  /\ activeRequests = <<>>
  /\ requestHistory = <<>> /\ last = 0
  /\ accepted = [k \in Keys |-> <<>>]

RegisterAPIKey(k) ==
  /\ k \notin valid /\ valid' = valid \cup {k}
  /\ UNCHANGED <<now, rateLimits, activeRequests, requestHistory, last, accepted>>

\* The clock passes the key's expiresAt.
KeyExpires(k) ==
  /\ k \in valid /\ valid' = valid \ {k}
  /\ UNCHANGED <<now, rateLimits, activeRequests, requestHistory, last, accepted>>

\* Mutant of the next operator: the request that fell exactly a minute ago is kept,
\* and a later one in its place forgotten.
RecentLoose(k) == SelectSeq(rateLimits[k], LAMBDA t : t > now - Minute + 1)

Recent(k) == SelectSeq(rateLimits[k], LAMBDA t : t > now - Minute)

Submitted ==
  /\ last < MaxRequests /\ last' = last + 1
  /\ activeRequests' = Append(activeRequests, [id |-> last + 1, status |-> "PENDING", retryCount |-> 0])

ExecuteCommand(k) ==
  /\ k \in valid
  /\ Len(Recent(k)) < rateLimitPerMinute
  /\ rateLimits' = [rateLimits EXCEPT ![k] = Append(Recent(k), now)]
  /\ accepted' = [accepted EXCEPT ![k] = Append(@, now)]
  /\ Submitted
  /\ UNCHANGED <<now, valid, requestHistory>>

\* Without a key nothing is validated and nothing limited.
ExecuteCommandWithoutKey ==
  Submitted /\ UNCHANGED <<now, valid, rateLimits, requestHistory, accepted>>

Progress(i, status) ==
  /\ activeRequests' = [activeRequests EXCEPT ![i].status = status]
  /\ UNCHANGED <<now, valid, rateLimits, requestHistory, last, accepted>>

End(i, status) ==
  /\ activeRequests' = RemoveAt(activeRequests, i)
  /\ requestHistory' = Append(requestHistory, [activeRequests[i] EXCEPT !.status = status])
  /\ UNCHANGED <<now, valid, rateLimits, last, accepted>>

Retry(i) ==
  /\ activeRequests' = [activeRequests EXCEPT ![i].status = "RETRY_PENDING", ![i].retryCount = @ + 1]
  /\ UNCHANGED <<now, valid, rateLimits, requestHistory, last, accepted>>

\* Mutant of the next action: the last failure keeps the request active.
UpdateCommandStatusKeeping(i, status) ==
  CASE status = "COMPLETED" -> End(i, status)
    [] status = "FAILED" -> IF activeRequests[i].retryCount < maxRetries THEN Retry(i)
                            ELSE /\ requestHistory' = Append(requestHistory, activeRequests[i])
                                 /\ UNCHANGED <<now, valid, rateLimits, activeRequests, last, accepted>>
    [] OTHER -> Progress(i, status)

\* A report on a request that has ended throws.
UpdateCommandStatus(i, status) ==
  CASE status = "COMPLETED" -> End(i, status)
    [] status = "FAILED" -> IF activeRequests[i].retryCount < maxRetries THEN Retry(i) ELSE End(i, status)
    [] OTHER -> Progress(i, status)

ClearHistory ==
  /\ requestHistory # <<>> /\ requestHistory' = <<>>
  /\ UNCHANGED <<now, valid, rateLimits, activeRequests, last, accepted>>

Tick ==
  /\ now' = IF now < MaxTime THEN now + 1 ELSE now
  /\ UNCHANGED <<valid, rateLimits, activeRequests, requestHistory, last, accepted>>

Next ==
  \/ \E k \in Keys : RegisterAPIKey(k) \/ KeyExpires(k) \/ ExecuteCommand(k)
  \/ ExecuteCommandWithoutKey
  \/ \E i \in DOMAIN activeRequests, status \in {"RUNNING", "COMPLETED", "FAILED"} :
       UpdateCommandStatus(i, status)
  \/ ClearHistory \/ Tick

Spec == Init /\ [][Next]_vars

----------------------------------------------------------------------------
(* What the API tells.                                                      *)

NotFound == [status |-> "Request not found"]

\* pollCommandResult(): of active requests only; the outcome of one that has ended is
\* not to be had from it.
Polled(id) ==
  LET i == SelectInSeq(activeRequests, LAMBDA r : r.id = id)
  IN IF i = 0 THEN NotFound ELSE [status |-> activeRequests[i].status]

Statistics == [activeRequests |-> Len(activeRequests), completedRequests |-> Len(requestHistory)]

----------------------------------------------------------------------------
TypeOK ==
  /\ now \in 1..MaxTime /\ valid \subseteq Keys /\ last \in 0..MaxRequests
  /\ \A k \in Keys : rateLimits[k] \in Seq(1..now) /\ accepted[k] \in Seq(1..now)
  /\ activeRequests \in Seq([id : 1..last, status : {"PENDING", "RUNNING", "RETRY_PENDING"},
                             retryCount : 0..maxRetries])
  /\ requestHistory \in Seq([id : 1..last, status : {"COMPLETED", "FAILED"}, retryCount : 0..maxRetries])

AcceptedIn(k, from) == Len(SelectSeq(accepted[k], LAMBDA t : t \in from..(from + Minute - 1)))
Ids(requests) == [i \in DOMAIN requests |-> requests[i].id]

\* The list of times slides, so that no minute whatever holds more than the limit
\* for a key, refused calls costing nothing; and a request is active or in the
\* history, once, failed for good only after its last retry.
RequestsLimited ==
  /\ \A k \in Keys, from \in 1..MaxTime : AcceptedIn(k, from) <= rateLimitPerMinute
  /\ IsInjective(Ids(activeRequests) \o Ids(requestHistory))
  /\ \A i \in DOMAIN requestHistory :
       /\ requestHistory[i].status = "FAILED" => requestHistory[i].retryCount = maxRetries
       /\ Polled(requestHistory[i].id) = NotFound
  /\ Cardinality({id \in 1..last : Polled(id) # NotFound}) = Statistics.activeRequests
  /\ Statistics.activeRequests + Statistics.completedRequests <= last
=============================================================================

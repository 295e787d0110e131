----------------------------- MODULE FifoService -----------------------------
(***************************************************************************)
(* What a pool of servers promises to the jobs it is given: they are       *)
(* served in the order of their arrival, one per server, none waits beside *)
(* an idle server, and each is started at most once.  WorkerPool           *)
(* implements it.                                                          *)
(***************************************************************************)
EXTENDS Integers, Sequences

CONSTANTS Servers, MaxJobs, Idle

Jobs == 1 .. MaxJobs

VARIABLES
  arrived,  \* jobs that have arrived: 1 .. arrived
  waiting,  \* those that wait, in order of arrival
  serving   \* server -> the job it serves, or Idle

vars == <<arrived, waiting, serving>>

Init ==
  /\ arrived = 0
  /\ waiting = << >>
  /\ serving = [s \in Servers |-> Idle]

(* A job arrives and is served at once by an idle server.                  *)
ArriveAndStart(s) ==
  /\ arrived + 1 \in Jobs
  /\ waiting = << >>
  /\ serving[s] = Idle
  /\ arrived' = arrived + 1
  /\ serving' = [serving EXCEPT ![s] = arrived + 1]
  /\ UNCHANGED waiting

(* A job arrives and finds every server at work.                           *)
ArriveAndWait ==
  /\ arrived + 1 \in Jobs
  /\ \A s \in Servers : serving[s] # Idle
  /\ arrived' = arrived + 1
  /\ waiting' = Append(waiting, arrived + 1)
  /\ UNCHANGED serving

(* A server is done with its job, and takes the one that waited longest.   *)
Finish(s) ==
  /\ serving[s] # Idle
  /\ \/ waiting = << >> /\ serving' = [serving EXCEPT ![s] = Idle] /\ UNCHANGED waiting
     \/ waiting # << >> /\ serving' = [serving EXCEPT ![s] = Head(waiting)]
                        /\ waiting' = Tail(waiting)
  /\ UNCHANGED arrived

(* The service is stopped: whatever waits or is served is dropped.         *)
Stop ==
  /\ waiting' = << >>
  /\ serving' = [s \in Servers |-> Idle]
  /\ UNCHANGED arrived

Next ==
  \/ \E s \in Servers : ArriveAndStart(s) \/ Finish(s)
  \/ ArriveAndWait
  \/ Stop

Spec == Init /\ [][Next]_vars
=============================================================================

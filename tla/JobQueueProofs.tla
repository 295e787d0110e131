---------------------------- MODULE JobQueueProofs ----------------------------
(***************************************************************************)
(* The safety properties of JobQueue, for every capacity, every number of  *)
(* retries and every number of jobs.                                       *)
(*                                                                         *)
(* Together they are inductive: OnePlace is what makes a job that leaves   *)
(* executingJobs new to the queue, and what makes a submitted job younger  *)
(* than those it is spliced in among, which the order of the queue and the *)
(* bound on its length rest on.                                            *)
(***************************************************************************)
EXTENDS JobQueue, SequenceTheorems, FiniteSetTheorems, TLAPS

(* A job still to be submitted was never retried.                          *)
Unretried == \A j \in Jobs : j > submitted => retryCount[j] = 0

IInv == TypeOK /\ OnePlace /\ Unretried /\ BacklogBounded /\ QueueByPriority

Distinct(s) == \A i, k \in DOMAIN s : i # k => s[i] # s[k]
Elements(s) == {s[i] : i \in DOMAIN s}

(* r is s with e put in at n.                                              *)
IsSpliced(r, s, e, n) ==
  /\ r \in Seq(Jobs)
  /\ Len(r) = Len(s) + 1
  /\ r[n] = e
  /\ \A i \in 1 .. n - 1 : r[i] = s[i]
  /\ \A i \in n + 1 .. Len(s) + 1 : r[i] = s[i - 1]

-----------------------------------------------------------------------------
(* Every nonempty set of numbers has a least element: what makes the       *)
(* position at which submitJob() splices a job in exist.                   *)
LEMMA LeastElement ==
  ASSUME NEW T, T \subseteq Nat, T # {}
  PROVE  \E x \in T : \A y \in T : x <= y
<1> DEFINE Down == {0 .. t : t \in T}
<1>1. IsWellFoundedOn(StrictSubsetOrdering(Nat), FiniteSubsetsOf(Nat))
  BY FS_StrictSubsetOrderingWellFounded
<1>2. Down \subseteq FiniteSubsetsOf(Nat)
  <2>1. \A t \in T : IsFiniteSet(0 .. t)
    BY FS_Interval
  <2> QED
    BY <2>1 DEF FiniteSubsetsOf
<1>3. Down # {}
  OBVIOUS
<1>4. PICK d \in Down : \A e \in Down : <<e, d>> \notin StrictSubsetOrdering(Nat)
  <2> HIDE DEF Down
  <2> QED
    BY <1>1, <1>2, <1>3, WFMin
<1>5. PICK x \in T : d = 0 .. x
  OBVIOUS
<1>6. ASSUME NEW y \in T, y < x
      PROVE  FALSE
  <2>1. x \in 0 .. x /\ x \notin 0 .. y
    BY <1>6
  <2>2. 0 .. y \subseteq 0 .. x /\ 0 .. y # 0 .. x
    BY <2>1, <1>6
  <2>3. <<0 .. y, 0 .. x>> \in StrictSubsetOrdering(Nat)
    BY <2>2 DEF StrictSubsetOrdering
  <2> QED
    BY <2>3, <1>4, <1>5
<1> QED
  BY <1>6

(* What cutting a queue in two and joining it around a job gives.          *)
LEMMA SpliceFacts ==
  ASSUME NEW s \in Seq(Jobs), NEW e \in Jobs, NEW n \in 1 .. Len(s) + 1
  PROVE  IsSpliced(SubSeq(s, 1, n - 1) \o <<e>> \o SubSeq(s, n, Len(s)), s, e, n)
<1> DEFINE a == SubSeq(s, 1, n - 1)
           b == SubSeq(s, n, Len(s))
           one == <<e>>
<1>0. Len(s) \in Nat /\ \A i \in 1 .. Len(s) : s[i] \in Jobs
  BY LenProperties, ElementOfSeq
<1>1. /\ a \in Seq(Jobs) /\ Len(a) = n - 1
      /\ \A i \in 1 .. n - 1 : a[i] = s[i]
  <2>1. \A i \in 1 .. n - 1 : s[i] \in Jobs
    BY <1>0
  <2>2. /\ a \in Seq(Jobs)
        /\ Len(a) = IF 1 <= n - 1 THEN (n - 1) - 1 + 1 ELSE 0
        /\ \A i \in 1 .. (n - 1) - 1 + 1 : a[i] = s[1 + i - 1]
    BY <2>1, SubSeqProperties
  <2> HIDE DEF a
  <2> QED
    BY <2>2, <1>0
<1>2. /\ b \in Seq(Jobs) /\ Len(b) = Len(s) - n + 1
      /\ \A i \in 1 .. Len(s) - n + 1 : b[i] = s[n + i - 1]
  <2>1. \A i \in n .. Len(s) : s[i] \in Jobs
    BY <1>0
  <2>2. /\ b \in Seq(Jobs)
        /\ Len(b) = IF n <= Len(s) THEN Len(s) - n + 1 ELSE 0
        /\ \A i \in 1 .. Len(s) - n + 1 : b[i] = s[n + i - 1]
    BY <2>1, <1>0, SubSeqProperties
  <2> HIDE DEF b
  <2> QED
    BY <2>2, <1>0
<1>3. one \in Seq(Jobs) /\ Len(one) = 1 /\ one[1] = e
  OBVIOUS
<1> HIDE DEF a, b, one
<1>4. /\ a \o one \in Seq(Jobs) /\ Len(a \o one) = n
      /\ (a \o one)[n] = e
      /\ \A i \in 1 .. n - 1 : (a \o one)[i] = s[i]
  <2>1. /\ a \o one \in Seq(Jobs) /\ Len(a \o one) = Len(a) + Len(one)
        /\ \A i \in 1 .. Len(a) + Len(one) :
             (a \o one)[i] = IF i <= Len(a) THEN a[i] ELSE one[i - Len(a)]
    BY <1>1, <1>3, ConcatProperties
  <2> DEFINE c == a \o one
  <2> HIDE DEF c
  <2>2. n - 1 \in Nat /\ (n - 1) + 1 = n /\ n - (n - 1) = 1 /\ ~(n <= n - 1)
    BY <1>0
  <2>3. \A i \in 1 .. n : c[i] = IF i <= n - 1 THEN a[i] ELSE one[i - (n - 1)]
    BY <2>1, <2>2, <1>1, <1>3 DEF c
  <2>4. c[n] = one[1]
    BY <2>3, <2>2
  <2>5. \A i \in 1 .. n - 1 : i \in 1 .. n /\ c[i] = a[i]
    BY <2>3, <2>2
  <2> QED
    BY <2>1, <2>2, <2>4, <2>5, <1>1, <1>3 DEF c
<1>5. /\ (a \o one) \o b \in Seq(Jobs)
      /\ Len((a \o one) \o b) = Len(s) + 1
      /\ \A i \in 1 .. Len(s) + 1 :
           ((a \o one) \o b)[i] = IF i <= n THEN (a \o one)[i] ELSE b[i - n]
  <2> DEFINE c == a \o one
  <2> HIDE DEF c
  <2>1. c \in Seq(Jobs) /\ Len(c) = n /\ b \in Seq(Jobs) /\ Len(b) = Len(s) - n + 1
    BY <1>2, <1>4 DEF c
  <2>2. /\ c \o b \in Seq(Jobs) /\ Len(c \o b) = Len(c) + Len(b)
        /\ \A i \in 1 .. Len(c) + Len(b) : (c \o b)[i] = IF i <= Len(c) THEN c[i] ELSE b[i - Len(c)]
    BY <2>1, ConcatProperties
  <2>3. n + (Len(s) - n + 1) = Len(s) + 1
    BY <1>0
  <2> QED
    BY <2>1, <2>2, <2>3 DEF c
<1>6. ASSUME NEW i \in n + 1 .. Len(s) + 1
      PROVE  ((a \o one) \o b)[i] = s[i - 1]
  <2>1. i - n \in 1 .. Len(s) - n + 1 /\ n + (i - n) - 1 = i - 1
    BY <1>0
  <2> QED
    BY <2>1, <1>0, <1>2, <1>5
<1>7. IsSpliced((a \o one) \o b, s, e, n)
  BY <1>0, <1>4, <1>5, <1>6 DEF IsSpliced
<1> QED
  BY <1>7 DEF a, b, one

(* A retried job is spliced in at the front.                               *)
LEMMA PrependFacts ==
  ASSUME NEW s \in Seq(Jobs), NEW e \in Jobs
  PROVE  IsSpliced(<<e>> \o s, s, e, 1)
<1> DEFINE one == <<e>>
<1>1. one \in Seq(Jobs) /\ Len(one) = 1 /\ one[1] = e
  OBVIOUS
<1> HIDE DEF one
<1>2. Len(s) \in Nat
  BY LenProperties
<1>3. /\ one \o s \in Seq(Jobs) /\ Len(one \o s) = Len(s) + 1
      /\ \A i \in 1 .. Len(s) + 1 : (one \o s)[i] = IF i <= 1 THEN one[i] ELSE s[i - 1]
  BY <1>1, <1>2, ConcatProperties
<1>4. IsSpliced(one \o s, s, e, 1)
  BY <1>1, <1>2, <1>3 DEF IsSpliced
<1> QED
  BY <1>4 DEF one

(* Splicing in a job that is not there keeps the queue's jobs distinct,    *)
(* and adds that one.                                                      *)
LEMMA SpliceKeeps ==
  ASSUME NEW s \in Seq(Jobs), NEW e \in Jobs, NEW n \in 1 .. Len(s) + 1, NEW r,
         IsSpliced(r, s, e, n), Distinct(s), e \notin Elements(s)
  PROVE  Distinct(r) /\ Elements(r) = Elements(s) \cup {e}
<1>1. /\ Len(s) \in Nat /\ DOMAIN s = 1 .. Len(s)
      /\ Len(r) = Len(s) + 1 /\ DOMAIN r = 1 .. Len(s) + 1
  BY LenProperties DEF IsSpliced
<1>2. \A i \in DOMAIN r : \/ i \in 1 .. n - 1 /\ r[i] = s[i] /\ i \in DOMAIN s
                          \/ i = n /\ r[i] = e
                          \/ i \in n + 1 .. Len(s) + 1 /\ r[i] = s[i - 1] /\ i - 1 \in DOMAIN s
  BY <1>1 DEF IsSpliced
<1>3. Distinct(r)
  BY <1>1, <1>2 DEF Distinct, Elements
<1>4. Elements(r) \subseteq Elements(s) \cup {e}
  BY <1>2 DEF Elements
<1>5. ASSUME NEW x \in Elements(s) \cup {e}
      PROVE  x \in Elements(r)
  <2>1. CASE x = e
    BY <2>1, <1>1 DEF Elements, IsSpliced
  <2>2. CASE x # e
    <3>1. PICK i \in 1 .. Len(s) : x = s[i]
      BY <2>2, <1>1 DEF Elements
    <3>2. CASE i < n
      <4>1. i \in 1 .. n - 1 /\ i \in DOMAIN r
        BY <3>2, <1>1
      <4> QED
        BY <4>1, <3>1 DEF Elements, IsSpliced
    <3>3. CASE i >= n
      <4>1. i + 1 \in n + 1 .. Len(s) + 1 /\ i + 1 \in DOMAIN r /\ (i + 1) - 1 = i
        BY <3>3, <1>1
      <4>2. r[i + 1] = s[(i + 1) - 1]
        BY <4>1 DEF IsSpliced
      <4> QED
        BY <4>1, <4>2, <3>1 DEF Elements
    <3> QED
      BY <3>2, <3>3, <1>1
  <2> QED
    BY <2>1, <2>2
<1> QED
  BY <1>3, <1>4, <1>5

(* Taking the first job out of the queue leaves the others.                *)
LEMMA TailKeeps ==
  ASSUME NEW s \in Seq(Jobs), s # << >>, Distinct(s)
  PROVE  /\ Distinct(Tail(s))
         /\ Head(s) \in Elements(s)
         /\ Elements(Tail(s)) = Elements(s) \ {Head(s)}
<1>1. /\ Len(s) \in Nat \ {0} /\ DOMAIN s = 1 .. Len(s)
      /\ Tail(s) \in Seq(Jobs) /\ Len(Tail(s)) = Len(s) - 1
      /\ \A i \in 1 .. Len(Tail(s)) : Tail(s)[i] = s[i + 1]
  BY LenProperties, EmptySeq, HeadTailProperties
<1>2. Head(s) = s[1] /\ DOMAIN Tail(s) = 1 .. Len(s) - 1
  BY <1>1, LenProperties
<1>3. \A i \in DOMAIN Tail(s) : i + 1 \in DOMAIN s /\ i + 1 # 1 /\ Tail(s)[i] = s[i + 1]
  BY <1>1, <1>2
<1>4. Distinct(Tail(s))
  BY <1>1, <1>2, <1>3 DEF Distinct
<1>5. Head(s) \in Elements(s)
  BY <1>1, <1>2 DEF Elements
<1>6. Elements(Tail(s)) \subseteq Elements(s) \ {Head(s)}
  BY <1>1, <1>2, <1>3 DEF Elements, Distinct
<1>7. ASSUME NEW x \in Elements(s) \ {Head(s)}
      PROVE  x \in Elements(Tail(s))
  <2>1. PICK i \in 1 .. Len(s) : x = s[i]
    BY <1>1 DEF Elements
  <2>2. i # 1
    BY <2>1, <1>2
  <2>3. i - 1 \in 1 .. Len(Tail(s)) /\ (i - 1) + 1 = i /\ i - 1 \in DOMAIN Tail(s)
    BY <2>2, <1>1, <1>2
  <2>4. Tail(s)[i - 1] = s[(i - 1) + 1]
    BY <2>3, <1>1
  <2> QED
    BY <2>1, <2>3, <2>4 DEF Elements
<1> QED
  BY <1>4, <1>5, <1>6, <1>7

(* Where submitJob() puts a job: behind those that are as urgent or more,  *)
(* before the first that is less.                                          *)
LEMMA InsertedFacts ==
  ASSUME TypeOK, NEW job \in Jobs, NEW value \in 0 .. 3
  PROVE  \E n \in 1 .. Len(queue) + 1 :
           /\ IsSpliced(Inserted(job, value), queue, job, n)
           /\ \A k \in 1 .. n - 1 : priorityValue[queue[k]] <= value
           /\ n <= Len(queue) => value < priorityValue[queue[n]]
<1> DEFINE after(i) == value < priorityValue[queue[i]]
           found(i) == after(i) /\ \A k \in 1 .. i - 1 : ~after(k)
           Later == {i \in DOMAIN queue : after(i)}
           n == IF \E i \in DOMAIN queue : after(i)
                THEN CHOOSE i \in DOMAIN queue : found(i)
                ELSE Len(queue) + 1
<1>1. /\ queue \in Seq(Jobs) /\ Len(queue) \in Nat /\ DOMAIN queue = 1 .. Len(queue)
      /\ \A i \in DOMAIN queue : queue[i] \in Jobs /\ priorityValue[queue[i]] \in 0 .. 3
  BY LenProperties, ElementOfSeq DEF TypeOK
<1>2. ASSUME \E i \in DOMAIN queue : after(i)
      PROVE  \E i \in DOMAIN queue : found(i)
  <2>1. Later \subseteq Nat /\ Later # {}
    BY <1>1, <1>2
  <2>2. PICK x \in Later : \A y \in Later : x <= y
    <3> HIDE DEF Later
    <3> QED
      BY <2>1, LeastElement
  <2>3. x \in DOMAIN queue /\ after(x)
    BY <2>2
  <2>4. ASSUME NEW k \in 1 .. x - 1
        PROVE  ~after(k)
    <3>1. k \in DOMAIN queue /\ ~(x <= k)
      BY <1>1, <2>3
    <3> QED
      BY <2>2, <3>1
  <2> QED
    BY <2>3, <2>4
<1>3. /\ n \in 1 .. Len(queue) + 1
      /\ \A k \in 1 .. n - 1 : k \in DOMAIN queue /\ ~after(k)
      /\ n <= Len(queue) => after(n)
  <2>1. CASE \E i \in DOMAIN queue : after(i)
    <3>1. n \in DOMAIN queue /\ found(n)
      <4> HIDE DEF found
      <4> QED
        BY <2>1, <1>2
    <3> HIDE DEF n
    <3>2. n \in 1 .. Len(queue)
      BY <3>1, <1>1
    <3>3. \A k \in 1 .. n - 1 : k \in DOMAIN queue
      BY <3>2, <1>1
    <3> QED
      BY <3>1, <3>2, <3>3, <1>1
  <2>2. CASE ~ \E i \in DOMAIN queue : after(i)
    BY <1>1, <2>2
  <2> QED
    BY <2>1, <2>2
<1>4. Inserted(job, value) = SubSeq(queue, 1, n - 1) \o <<job>> \o SubSeq(queue, n, Len(queue))
  BY DEF Inserted
<1> HIDE DEF n
<1>5. /\ n \in 1 .. Len(queue) + 1
      /\ \A k \in 1 .. n - 1 : priorityValue[queue[k]] <= value
      /\ n <= Len(queue) => value < priorityValue[queue[n]]
  BY <1>1, <1>3
<1>6. IsSpliced(Inserted(job, value), queue, job, n)
  BY <1>1, <1>4, <1>5, SpliceFacts
<1>7. /\ IsSpliced(Inserted(job, value), queue, job, n)
      /\ \A k \in 1 .. n - 1 : priorityValue[queue[k]] <= value
      /\ n <= Len(queue) => value < priorityValue[queue[n]]
  BY <1>5, <1>6
<1> QED
  BY <1>5, <1>7

(* What the parts of the invariant say of the queue, in the terms of the   *)
(* lemmas above.                                                           *)
LEMMA QueueFacts ==
  ASSUME IInv
  PROVE  /\ queue \in Seq(Jobs) /\ Len(queue) \in Nat /\ DOMAIN queue = 1 .. Len(queue)
         /\ \A i \in DOMAIN queue : queue[i] \in Jobs
         /\ Distinct(queue)
         /\ Elements(queue) = Queued /\ Queued \subseteq Jobs
         /\ IsFiniteSet(executingJobs)
         /\ Cardinality(executingJobs) \in Nat
<1>1. queue \in Seq(Jobs) /\ Len(queue) \in Nat /\ DOMAIN queue = 1 .. Len(queue)
  BY LenProperties DEF IInv, TypeOK
<1>2. \A i \in DOMAIN queue : queue[i] \in Jobs
  BY <1>1, ElementOfSeq
<1>3. Distinct(queue) /\ Elements(queue) = Queued /\ Queued \subseteq Jobs
  BY <1>2 DEF IInv, OnePlace, Queued, Distinct, Elements
<1>4. IsFiniteSet(executingJobs)
  <2>1. MaxJobs \in Nat
    BY Assumption
  <2>2. IsFiniteSet(Jobs)
    BY <2>1, FS_Interval DEF Jobs
  <2> QED
    BY <2>2, FS_Subset DEF IInv, TypeOK
<1> QED
  BY <1>1, <1>2, <1>3, <1>4, FS_CardinalityType

LEMMA InitIInv == Init => IInv
<1> SUFFICES ASSUME Init PROVE IInv
  OBVIOUS
<1>1. MaxJobs \in Nat /\ RetryAttempts \in Nat /\ MaxQueueSize \in Nat /\ MaxConcurrentJobs \in Nat
  BY Assumption
<1>2. queue = << >> /\ Len(queue) = 0 /\ DOMAIN queue = {} /\ queue \in Seq(Jobs)
  BY DEF Init
<1>3. Cardinality(executingJobs) = 0
  BY FS_EmptySet DEF Init
<1>4. TypeOK
  BY <1>1, <1>2 DEF Init, TypeOK
<1>5. OnePlace
  <2>1. 1 .. submitted = {}
    BY DEF Init
  <2> QED
    BY <2>1, <1>2 DEF Init, OnePlace, Queued, Ended
<1>8. Unretried
  BY DEF Init, Unretried
<1>6. BacklogBounded
  BY <1>1, <1>2, <1>3 DEF BacklogBounded
<1>7. QueueByPriority
  BY <1>2 DEF QueueByPriority
<1> QED
  BY <1>4, <1>5, <1>6, <1>7, <1>8 DEF IInv

(* submitJob(): the job is new to the queue, and younger than all in it.   *)
LEMMA SubmitJobIInv == IInv /\ SubmitJob => IInv'
<1> SUFFICES ASSUME IInv, SubmitJob PROVE IInv'
  OBVIOUS
<1> DEFINE job == submitted + 1
<1>1. PICK p \in Priorities :
        /\ ValidPriority(p)
        /\ priorityValue' = [priorityValue EXCEPT ![job] = priorityLevels[p]]
        /\ queue' = Inserted(job, priorityLevels[p])
  BY DEF SubmitJob
<1> DEFINE value == priorityLevels[p]
<1>2. job \in Jobs /\ submitted \in Nat /\ value \in 0 .. 3
  BY <1>1 DEF SubmitJob, IInv, TypeOK, ValidPriority, priorityLevels
<1>3. /\ Len(queue) < MaxQueueSize
      /\ submitted' = job
      /\ status' = [status EXCEPT ![job] = "QUEUED"]
      /\ UNCHANGED <<executingJobs, completedJobs, failedJobs, forgotten, scheduledJobs, retryCount, progress>>
  BY DEF SubmitJob
<1>4. /\ priorityValue' = [priorityValue EXCEPT ![job] = value]
      /\ queue' = Inserted(job, value)
  BY <1>1
<1> HIDE DEF value
<1>5. PICK n \in 1 .. Len(queue) + 1 :
        /\ IsSpliced(queue', queue, job, n)
        /\ \A k \in 1 .. n - 1 : priorityValue[queue[k]] <= value
        /\ n <= Len(queue) => value < priorityValue[queue[n]]
  <2> HIDE DEF job
  <2> QED
    BY <1>2, <1>4, InsertedFacts DEF IInv
<1>6. /\ job \notin 1 .. submitted /\ 1 .. job = (1 .. submitted) \cup {job}
      /\ \A j \in 1 .. submitted : j < job
      /\ Queued \cup executingJobs \cup Ended = 1 .. submitted
      /\ retryCount[job] = 0
  BY <1>2 DEF IInv, OnePlace, Unretried
<1> HIDE DEF job
<1>7. job \notin Elements(queue) /\ \A i \in DOMAIN queue : queue[i] \in Jobs /\ queue[i] < job
  BY <1>6, QueueFacts DEF Elements
<1>8. Distinct(queue') /\ Elements(queue') = Elements(queue) \cup {job}
  BY <1>2, <1>5, <1>7, QueueFacts, SpliceKeeps
<1>9. /\ queue' \in Seq(Jobs) /\ Len(queue') = Len(queue) + 1
      /\ DOMAIN queue' = 1 .. Len(queue) + 1
  BY <1>5, LenProperties DEF IsSpliced
<1>10. TypeOK'
  <2>1. submitted' \in 0 .. MaxJobs
    BY <1>2, <1>3 DEF Jobs
  <2>2. priorityValue' \in [Jobs -> 0 .. 3]
    BY <1>2, <1>4 DEF IInv, TypeOK
  <2>3. status' \in [Jobs -> {"none", "QUEUED", "RUNNING", "RETRY_QUEUED", "FAILED"} \cup Statuses]
    BY <1>2, <1>3 DEF IInv, TypeOK
  <2> QED
    BY <2>1, <2>2, <2>3, <1>3, <1>9 DEF IInv, TypeOK
<1>11. OnePlace' /\ Unretried'
  <2>1. \A j \in Jobs : status'[j] = IF j = job THEN "QUEUED" ELSE status[j]
    BY <1>2, <1>3 DEF IInv, TypeOK
  <2>2. Queued' = Queued \cup {job} /\ Ended' = Ended
    BY <1>3, <1>8, QueueFacts DEF Queued, Elements, Ended
  <2>3. Queued' \cup executingJobs' \cup Ended' = 1 .. submitted'
    BY <2>2, <1>3, <1>6
  <2>4. \A i, k \in DOMAIN queue' : i # k => queue'[i] # queue'[k]
    BY <1>8 DEF Distinct
  <2>5. /\ Queued' \cap executingJobs' = {} /\ (Queued' \cup executingJobs') \cap Ended' = {}
        /\ completedJobs' \cap failedJobs' = {} /\ forgotten' \cap (completedJobs' \cup failedJobs') = {}
    BY <2>2, <1>3, <1>6 DEF IInv, OnePlace
  <2>6. /\ \A j \in Queued' : status'[j] = IF retryCount'[j] = 0 THEN "QUEUED" ELSE "RETRY_QUEUED"
        /\ \A j \in executingJobs' : status'[j] = "RUNNING"
        /\ \A j \in failedJobs' : status'[j] = "FAILED"
    <3>1. Queued \subseteq Jobs /\ executingJobs \subseteq Jobs /\ failedJobs \subseteq Jobs
      BY QueueFacts DEF IInv, TypeOK
    <3>2. job \notin executingJobs /\ job \notin failedJobs
      BY <1>6 DEF Ended
    <3>3. ASSUME NEW j \in Queued'
          PROVE  status'[j] = IF retryCount'[j] = 0 THEN "QUEUED" ELSE "RETRY_QUEUED"
      <4>1. CASE j = job
        BY <4>1, <2>1, <1>2, <1>3, <1>6
      <4>2. CASE j # job
        BY <4>2, <3>1, <2>1, <2>2, <1>3 DEF IInv, OnePlace
      <4> QED
        BY <4>1, <4>2
    <3>4. \A j \in executingJobs' : status'[j] = "RUNNING"
      BY <3>1, <3>2, <2>1, <1>3 DEF IInv, OnePlace
    <3>5. \A j \in failedJobs' : status'[j] = "FAILED"
      BY <3>1, <3>2, <2>1, <1>3 DEF IInv, OnePlace
    <3> QED
      BY <3>3, <3>4, <3>5
  <2>7. Unretried'
    <3>1. \A j \in Jobs : j > job => j > submitted
      BY <1>2 DEF job, Jobs
    <3> QED
      BY <3>1, <1>3 DEF IInv, Unretried
  <2> QED
    BY <2>3, <2>4, <2>5, <2>6, <2>7 DEF OnePlace
<1>12. BacklogBounded'
  BY <1>3, <1>9, QueueFacts, Assumption DEF IInv, BacklogBounded
<1>13. QueueByPriority'
  <2> SUFFICES ASSUME \A j \in Jobs : retryCount[j] = 0,
                      NEW i \in DOMAIN queue', NEW k \in DOMAIN queue', i < k
               PROVE  \/ priorityValue'[queue'[i]] < priorityValue'[queue'[k]]
                      \/ /\ priorityValue'[queue'[i]] = priorityValue'[queue'[k]]
                         /\ queue'[i] < queue'[k]
    BY <1>3 DEF QueueByPriority
  <2>1. \A a, b \in DOMAIN queue :
          a < b => \/ priorityValue[queue[a]] < priorityValue[queue[b]]
                   \/ priorityValue[queue[a]] = priorityValue[queue[b]] /\ queue[a] < queue[b]
    BY DEF IInv, QueueByPriority
  <2>2. \A a \in DOMAIN queue : /\ priorityValue'[queue[a]] = priorityValue[queue[a]]
                                /\ priorityValue[queue[a]] \in 0 .. 3
                                /\ queue[a] \in Nat
    BY <1>2, <1>4, <1>7, QueueFacts DEF IInv, TypeOK, Jobs
  <2>3. priorityValue'[job] = value /\ job \in Nat
    BY <1>2, <1>4 DEF IInv, TypeOK, Jobs
  <2>4. i \in 1 .. Len(queue) + 1 /\ k \in 1 .. Len(queue) + 1 /\ Len(queue) \in Nat
    BY <1>9, QueueFacts
  <2>5. CASE k < n
    <3>1. /\ i \in DOMAIN queue /\ k \in DOMAIN queue
          /\ queue'[i] = queue[i] /\ queue'[k] = queue[k]
      BY <2>4, <2>5, <1>5, QueueFacts DEF IsSpliced
    <3> QED
      BY <3>1, <2>1, <2>2
  <2>6. CASE k = n
    <3>1. /\ i \in DOMAIN queue /\ i \in 1 .. n - 1
          /\ queue'[i] = queue[i] /\ queue'[k] = job
      BY <2>4, <2>6, <1>5, QueueFacts DEF IsSpliced
    <3>2. priorityValue[queue[i]] <= value /\ queue[i] < job
      BY <3>1, <1>5, <1>7
    <3> QED
      BY <3>1, <3>2, <2>2, <2>3, <1>2
  <2>7. CASE i = n
    <3>1. /\ k - 1 \in DOMAIN queue /\ n \in DOMAIN queue
          /\ queue'[i] = job /\ queue'[k] = queue[k - 1]
      <4>1. k \in n + 1 .. Len(queue) + 1 /\ k - 1 \in 1 .. Len(queue) /\ n \in 1 .. Len(queue)
        BY <2>4, <2>7
      <4>2. queue'[n] = job /\ queue'[k] = queue[k - 1]
        BY <4>1, <1>5 DEF IsSpliced
      <4> QED
        BY <4>1, <4>2, <2>7, QueueFacts
    <3>2. value < priorityValue[queue[n]]
      BY <3>1, <1>5, QueueFacts
    <3>3. priorityValue[queue[n]] <= priorityValue[queue[k - 1]]
      <4>1. n = k - 1 \/ n < k - 1
        BY <2>4, <2>7
      <4> QED
        BY <4>1, <3>1, <2>1, <2>2
    <3> QED
      BY <3>1, <3>2, <3>3, <2>2, <2>3, <1>2
  <2>8. CASE i < n /\ k > n
    <3>1. /\ i \in DOMAIN queue /\ k - 1 \in DOMAIN queue /\ i < k - 1
          /\ queue'[i] = queue[i] /\ queue'[k] = queue[k - 1]
      BY <2>4, <2>8, <1>5, QueueFacts DEF IsSpliced
    <3> QED
      BY <3>1, <2>1, <2>2
  <2>9. CASE i > n
    <3>1. /\ i - 1 \in DOMAIN queue /\ k - 1 \in DOMAIN queue /\ i - 1 < k - 1
          /\ queue'[i] = queue[i - 1] /\ queue'[k] = queue[k - 1]
      BY <2>4, <2>9, <1>5, QueueFacts DEF IsSpliced
    <3> QED
      BY <3>1, <2>1, <2>2
  <2> QED
    BY <2>4, <2>5, <2>6, <2>7, <2>8, <2>9
<1> QED
  BY <1>10, <1>11, <1>12, <1>13 DEF IInv

(* startNextJob(): the first job changes places.                           *)
LEMMA StartNextJobIInv == IInv /\ StartNextJob => IInv'
<1> SUFFICES ASSUME IInv, StartNextJob PROVE IInv'
  OBVIOUS
<1> DEFINE job == Head(queue)
<1>1. /\ Cardinality(executingJobs) < MaxConcurrentJobs
      /\ queue # << >>
      /\ queue' = Tail(queue)
      /\ executingJobs' = executingJobs \cup {job}
      /\ status' = [status EXCEPT ![job] = "RUNNING"]
      /\ UNCHANGED <<submitted, completedJobs, failedJobs, forgotten, scheduledJobs, priorityValue,
                     retryCount, progress>>
  BY DEF StartNextJob
<1>2. /\ job \in Jobs /\ queue' \in Seq(Jobs) /\ Len(queue') = Len(queue) - 1
      /\ \A i \in 1 .. Len(queue') : queue'[i] = queue[i + 1]
  BY <1>1, QueueFacts, HeadTailProperties
<1>3. Distinct(queue') /\ job \in Elements(queue) /\ Elements(queue') = Elements(queue) \ {job}
  BY <1>1, QueueFacts, TailKeeps
<1> HIDE DEF job
<1>4. DOMAIN queue' = 1 .. Len(queue) - 1 /\ Len(queue) \in Nat
  BY <1>2, LenProperties, QueueFacts
<1>5. /\ job \in Queued /\ job \notin executingJobs /\ job \notin Ended
      /\ Queued' = Queued \ {job} /\ Ended' = Ended
  <2>1. job \in Queued
    BY <1>3, QueueFacts
  <2>2. Queued' = Queued \ {job} /\ Ended' = Ended
    BY <1>1, <1>3, QueueFacts DEF Queued, Elements, Ended
  <2> QED
    BY <2>1, <2>2 DEF IInv, OnePlace
<1>6. Cardinality(executingJobs') = Cardinality(executingJobs) + 1
  BY <1>1, <1>5, QueueFacts, FS_AddElement
<1>7. \A j \in Jobs : status'[j] = IF j = job THEN "RUNNING" ELSE status[j]
  BY <1>1, <1>2 DEF IInv, TypeOK
<1>8. TypeOK'
  <2>1. status' \in [Jobs -> {"none", "QUEUED", "RUNNING", "RETRY_QUEUED", "FAILED"} \cup Statuses]
    BY <1>1, <1>2 DEF IInv, TypeOK
  <2> QED
    BY <2>1, <1>1, <1>2 DEF IInv, TypeOK
<1>9. OnePlace' /\ Unretried'
  <2>1. \A i, k \in DOMAIN queue' : i # k => queue'[i] # queue'[k]
    BY <1>3 DEF Distinct
  <2>2. /\ Queued' \cap executingJobs' = {} /\ (Queued' \cup executingJobs') \cap Ended' = {}
        /\ completedJobs' \cap failedJobs' = {} /\ forgotten' \cap (completedJobs' \cup failedJobs') = {}
        /\ Queued' \cup executingJobs' \cup Ended' = 1 .. submitted'
    BY <1>1, <1>5 DEF IInv, OnePlace
  <2>3. /\ Queued \subseteq Jobs /\ executingJobs \subseteq Jobs /\ failedJobs \subseteq Jobs
        /\ job \notin failedJobs
    BY <1>5, QueueFacts DEF IInv, TypeOK, Ended
  <2>4. /\ \A j \in Queued' : status'[j] = IF retryCount'[j] = 0 THEN "QUEUED" ELSE "RETRY_QUEUED"
        /\ \A j \in executingJobs' : status'[j] = "RUNNING"
        /\ \A j \in failedJobs' : status'[j] = "FAILED"
    BY <2>3, <1>1, <1>2, <1>5, <1>7 DEF IInv, OnePlace
  <2> QED
    BY <2>1, <2>2, <2>4, <1>1 DEF IInv, OnePlace, Unretried
<1>10. BacklogBounded'
  BY <1>1, <1>2, <1>4, <1>6, QueueFacts, Assumption DEF IInv, BacklogBounded
<1>11. QueueByPriority'
  <2>1. \A i \in DOMAIN queue' : i \in Nat /\ i + 1 \in DOMAIN queue /\ queue'[i] = queue[i + 1]
    BY <1>2, <1>4, QueueFacts
  <2>2. \A i, k \in DOMAIN queue' : i < k => i + 1 < k + 1
    BY <2>1
  <2> QED
    BY <2>1, <2>2, <1>1 DEF IInv, QueueByPriority
<1> QED
  BY <1>8, <1>9, <1>10, <1>11 DEF IInv

(* failJob() with a retry left: the job goes back to the queue, to its     *)
(* front, and from then on nothing is said of the order.                   *)
LEMMA RetryJobIInv ==
  ASSUME IInv, NEW job \in Jobs, RetryJob(job)
  PROVE  IInv'
<1>1. /\ job \in executingJobs
      /\ retryCount[job] < RetryAttempts
      /\ retryCount' = [retryCount EXCEPT ![job] = @ + 1]
      /\ status' = [status EXCEPT ![job] = "RETRY_QUEUED"]
      /\ queue' = <<job>> \o queue
      /\ executingJobs' = executingJobs \ {job}
      /\ UNCHANGED <<submitted, completedJobs, failedJobs, forgotten, scheduledJobs, priorityValue,
                     progress>>
  BY DEF RetryJob
<1>2. job \notin Elements(queue) /\ job \notin Ended /\ job \in 1 .. submitted
  BY <1>1, QueueFacts DEF IInv, OnePlace
<1>3. IsSpliced(queue', queue, job, 1)
  BY <1>1, QueueFacts, PrependFacts
<1>4. /\ queue' \in Seq(Jobs) /\ Len(queue') = Len(queue) + 1
      /\ Distinct(queue') /\ Elements(queue') = Elements(queue) \cup {job}
  <2>1. 1 \in 1 .. Len(queue) + 1
    BY QueueFacts
  <2> QED
    BY <2>1, <1>2, <1>3, QueueFacts, SpliceKeeps DEF IsSpliced
<1>5. Cardinality(executingJobs') = Cardinality(executingJobs) - 1 /\ Cardinality(executingJobs') \in Nat
  <2>1. IsFiniteSet(executingJobs')
    BY <1>1, QueueFacts, FS_RemoveElement
  <2> QED
    BY <2>1, <1>1, QueueFacts, FS_RemoveElement, FS_CardinalityType
<1>6. \A j \in Jobs : status'[j] = IF j = job THEN "RETRY_QUEUED" ELSE status[j]
  BY <1>1 DEF IInv, TypeOK
<1>7. RetryAttempts \in Nat /\ retryCount[job] \in Nat /\ retryCount[job] + 1 \in 0 .. RetryAttempts
  BY <1>1, Assumption DEF IInv, TypeOK
<1>8. TypeOK'
  <2>1. status' \in [Jobs -> {"none", "QUEUED", "RUNNING", "RETRY_QUEUED", "FAILED"} \cup Statuses]
    BY <1>1 DEF IInv, TypeOK
  <2>2. retryCount' \in [Jobs -> 0 .. RetryAttempts]
    BY <1>1, <1>7 DEF IInv, TypeOK
  <2> QED
    BY <2>1, <2>2, <1>1, <1>4 DEF IInv, TypeOK
<1>9. OnePlace' /\ Unretried'
  <2>1. Queued' = Queued \cup {job} /\ Ended' = Ended
    BY <1>1, <1>4, QueueFacts DEF Queued, Elements, Ended
  <2>2. \A i, k \in DOMAIN queue' : i # k => queue'[i] # queue'[k]
    BY <1>4 DEF Distinct
  <2>3. /\ Queued' \cap executingJobs' = {} /\ (Queued' \cup executingJobs') \cap Ended' = {}
        /\ completedJobs' \cap failedJobs' = {} /\ forgotten' \cap (completedJobs' \cup failedJobs') = {}
        /\ Queued' \cup executingJobs' \cup Ended' = 1 .. submitted'
    BY <1>1, <2>1 DEF IInv, OnePlace
  <2>4. /\ Queued \subseteq Jobs /\ executingJobs \subseteq Jobs /\ failedJobs \subseteq Jobs
        /\ job \notin Queued /\ job \notin failedJobs
    BY <1>2, QueueFacts DEF IInv, TypeOK, Ended
  <2>5. \A j \in Jobs : retryCount'[j] = IF j = job THEN retryCount[job] + 1 ELSE retryCount[j]
    BY <1>1 DEF IInv, TypeOK
  <2>6. retryCount[job] + 1 # 0
    BY <1>7
  <2>7. /\ \A j \in Queued' : status'[j] = IF retryCount'[j] = 0 THEN "QUEUED" ELSE "RETRY_QUEUED"
        /\ \A j \in executingJobs' : status'[j] = "RUNNING"
        /\ \A j \in failedJobs' : status'[j] = "FAILED"
    BY <2>1, <2>4, <2>5, <2>6, <1>1, <1>6 DEF IInv, OnePlace
  <2>8. Unretried'
    <3>1. \A j \in Jobs : j > submitted => j # job
      BY <1>2, Assumption DEF IInv, TypeOK
    <3> QED
      BY <3>1, <2>5, <1>1 DEF IInv, Unretried
  <2> QED
    BY <2>2, <2>3, <2>7, <2>8 DEF OnePlace
<1>10. BacklogBounded'
  BY <1>1, <1>4, <1>5, QueueFacts, Assumption DEF IInv, BacklogBounded
<1>11. QueueByPriority'
  <2>1. retryCount'[job] = retryCount[job] + 1
    BY <1>1 DEF IInv, TypeOK
  <2>2. retryCount'[job] # 0
    BY <2>1, <1>7
  <2> QED
    BY <2>2 DEF QueueByPriority
<1> QED
  BY <1>8, <1>9, <1>10, <1>11 DEF IInv

(* completeJob(), and failJob() without a retry: the job is remembered in  *)
(* one of the histories, and the queue stays as it is.                     *)
LEMMA EndJobIInv ==
  ASSUME IInv, NEW job \in Jobs, CompleteJob(job) \/ FailJob(job)
  PROVE  IInv'
<1>1. /\ job \in executingJobs
      /\ executingJobs' = executingJobs \ {job}
      /\ UNCHANGED <<submitted, queue, forgotten, scheduledJobs, priorityValue, retryCount>>
  BY DEF CompleteJob, FailJob
<1>2. \/ /\ \E given \in Statuses : status' = [status EXCEPT ![job] = given]
         /\ progress' = [progress EXCEPT ![job] = 100]
         /\ completedJobs' = completedJobs \cup {job} /\ failedJobs' = failedJobs
      \/ /\ status' = [status EXCEPT ![job] = "FAILED"]
         /\ progress' = progress
         /\ failedJobs' = failedJobs \cup {job} /\ completedJobs' = completedJobs
  BY DEF CompleteJob, FailJob
<1>3. job \notin Queued /\ job \notin Ended /\ job \in 1 .. submitted
  BY <1>1 DEF IInv, OnePlace
<1>4. Cardinality(executingJobs') = Cardinality(executingJobs) - 1 /\ Cardinality(executingJobs') \in Nat
  <2>1. IsFiniteSet(executingJobs')
    BY <1>1, QueueFacts, FS_RemoveElement
  <2> QED
    BY <2>1, <1>1, QueueFacts, FS_RemoveElement, FS_CardinalityType
<1>5. TypeOK'
  <2>1. status' \in [Jobs -> {"none", "QUEUED", "RUNNING", "RETRY_QUEUED", "FAILED"} \cup Statuses]
    BY <1>2 DEF IInv, TypeOK
  <2>2. progress' \in [Jobs -> 0 .. 100]
    <3>1. progress \in [Jobs -> 0 .. 100] /\ 100 \in 0 .. 100
      BY DEF IInv, TypeOK
    <3>2. \A p \in 0 .. 100 : [progress EXCEPT ![job] = p] \in [Jobs -> 0 .. 100]
      BY <3>1
    <3> QED
      BY <1>2, <3>1, <3>2
  <2> QED
    BY <2>1, <2>2, <1>1, <1>2 DEF IInv, TypeOK
<1>6. \A j \in Jobs : j # job => status'[j] = status[j]
  BY <1>2 DEF IInv, TypeOK
<1>7. \/ completedJobs' = completedJobs \cup {job} /\ failedJobs' = failedJobs
      \/ status'[job] = "FAILED" /\ failedJobs' = failedJobs \cup {job} /\ completedJobs' = completedJobs
  BY <1>2 DEF IInv, TypeOK
<1>8. OnePlace' /\ Unretried'
  <2>1. Queued' = Queued /\ \A i, k \in DOMAIN queue' : i # k => queue'[i] # queue'[k]
    BY <1>1 DEF IInv, OnePlace, Queued
  <2>2. Ended' = Ended \cup {job}
    BY <1>1, <1>7 DEF Ended
  <2>3. /\ Queued' \cap executingJobs' = {} /\ (Queued' \cup executingJobs') \cap Ended' = {}
        /\ Queued' \cup executingJobs' \cup Ended' = 1 .. submitted'
    BY <1>1, <1>3, <2>1, <2>2 DEF IInv, OnePlace
  <2>4. completedJobs' \cap failedJobs' = {} /\ forgotten' \cap (completedJobs' \cup failedJobs') = {}
    BY <1>1, <1>3, <1>7 DEF IInv, OnePlace, Ended
  <2>5. /\ Queued \subseteq Jobs /\ executingJobs \subseteq Jobs /\ failedJobs \subseteq Jobs
        /\ job \notin failedJobs
    BY <1>3, QueueFacts DEF IInv, TypeOK, Ended
  <2>6. /\ \A j \in Queued' : status'[j] = IF retryCount'[j] = 0 THEN "QUEUED" ELSE "RETRY_QUEUED"
        /\ \A j \in executingJobs' : status'[j] = "RUNNING"
        /\ \A j \in failedJobs' : status'[j] = "FAILED"
    BY <2>1, <2>5, <1>1, <1>3, <1>6, <1>7 DEF IInv, OnePlace
  <2> QED
    BY <2>1, <2>3, <2>4, <2>6, <1>1 DEF IInv, OnePlace, Unretried
<1>9. BacklogBounded'
  BY <1>1, <1>4, QueueFacts, Assumption DEF IInv, BacklogBounded
<1>10. QueueByPriority'
  BY <1>1 DEF IInv, QueueByPriority
<1> QED
  BY <1>5, <1>8, <1>9, <1>10 DEF IInv

(* The calls that leave the jobs where they are, and stuttering.           *)
LEMMA OtherCallsIInv ==
  ASSUME IInv,
         \/ \E job \in Jobs : UpdateJobProgress(job)
         \/ ScheduleJob
         \/ ClearHistory
         \/ UNCHANGED vars
  PROVE  IInv'
<1>1. UNCHANGED <<submitted, queue, executingJobs, priorityValue, status, retryCount>>
  BY DEF UpdateJobProgress, ScheduleJob, ClearHistory, vars
<1>2. \/ UNCHANGED <<completedJobs, failedJobs, forgotten>>
      \/ /\ completedJobs' = {} /\ failedJobs' = {}
         /\ forgotten' = forgotten \cup completedJobs \cup failedJobs
  BY DEF UpdateJobProgress, ScheduleJob, ClearHistory, vars
<1>3. scheduledJobs' \in Nat
  BY DEF UpdateJobProgress, ScheduleJob, ClearHistory, vars, IInv, TypeOK
<1>4. progress' \in [Jobs -> 0 .. 100]
  BY Assumption DEF UpdateJobProgress, ScheduleJob, ClearHistory, vars, IInv, TypeOK
<1>5. TypeOK'
  BY <1>1, <1>2, <1>3, <1>4 DEF IInv, TypeOK
<1>6. OnePlace' /\ Unretried'
  <2>1. Queued' = Queued /\ Ended' = Ended
    BY <1>1, <1>2 DEF Queued, Ended
  <2> QED
    BY <2>1, <1>1, <1>2 DEF IInv, OnePlace, Unretried
<1>7. BacklogBounded' /\ QueueByPriority'
  BY <1>1 DEF IInv, BacklogBounded, QueueByPriority
<1> QED
  BY <1>5, <1>6, <1>7 DEF IInv

-----------------------------------------------------------------------------
(* The conjunction of the four properties is an invariant.                 *)
THEOREM Inductive == Spec => []IInv
<1>1. ASSUME IInv, [Next]_vars
      PROVE  IInv'
  BY <1>1, SubmitJobIInv, StartNextJobIInv, RetryJobIInv, EndJobIInv, OtherCallsIInv DEF Next
<1> QED
  BY InitIInv, <1>1, PTL DEF Spec

(* Every variable of the scheduler keeps its type: no job is retried more  *)
(* than retryAttempts times.                                               *)
THEOREM TypeCorrect == Spec => []TypeOK
<1>1. IInv => TypeOK
  BY DEF IInv
<1> QED
  BY Inductive, <1>1, PTL

(* An accepted job is in one place, once: nothing submitJob(), failJob()   *)
(* and the others do, in whatever order, loses or doubles one.             *)
THEOREM JobsInOnePlace == Spec => []OnePlace
<1>1. IInv => OnePlace
  BY DEF IInv
<1> QED
  BY Inductive, <1>1, PTL

(* At most maxConcurrentJobs jobs execute, and although retries do not     *)
(* look at maxQueueSize, they exceed it by at most the jobs executing.     *)
THEOREM Bounded == Spec => []BacklogBounded
<1>1. IInv => BacklogBounded
  BY DEF IInv
<1> QED
  BY Inductive, <1>1, PTL

(* While no job was retried, the splice of submitJob() keeps the queue in  *)
(* the order of priority, and of submission within one.                    *)
THEOREM Sorted == Spec => []QueueByPriority
<1>1. IInv => QueueByPriority
  BY DEF IInv
<1> QED
  BY Inductive, <1>1, PTL
=============================================================================

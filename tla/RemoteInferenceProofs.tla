------------------------- MODULE RemoteInferenceProofs -------------------------
(***************************************************************************)
(* The safety properties of RemoteInference, for any models, batch size    *)
(* and number of requests and of changes to the registry, whatever         *)
(* listeners throw.                                                        *)
(*                                                                         *)
(* A slot that no listener of requestEnqueued disturbed is shorter than a  *)
(* batch, so that whatever dispatches empties it: a full batch, the timer  *)
(* or the loop of shutdown().  What shutdown() has passed by therefore     *)
(* holds nothing of what it found, unless the slot is disturbed, which is  *)
(* the invariant of its loop.  Holds and Flying say of a queue and of the  *)
(* batches under way what OnePlace does, as equivalences: these are what a *)
(* cut or an append to one of them keeps.                                  *)
(***************************************************************************)
EXTENDS RemoteInference, SequenceTheorems, TLAPS

UnaskedAreNew == \A r \in Requests : r > asked => phase[r] = "new"

ShutdownCovers ==
  /\ \A r \in atShutdown : phase[r] \notin {"new", "checked"}
  /\ shutdown = "running" => \A r \in atShutdown : phase[r] = "queued" => key[r] \in todo \cup disturbed
  /\ ShutdownDispatchesAll

IInv == TypeOK /\ QueueArmed /\ OnePlace /\ UnaskedAreNew /\ ShutdownCovers

(* The sequence s holds what waits for key l, once each; batches fl hold   *)
(* what is with a runner.                                                  *)
Holds(l, s, p, h) ==
  /\ s \in Seq(Requests)
  /\ \A i, j \in DOMAIN s : i # j => s[i] # s[j]
  /\ \A r \in Requests : r \in Members(s) <=> p[r] = "queued" /\ h[r] = l

Flying(fl, p) ==
  /\ fl \subseteq Seq(Requests)
  /\ \A b, c \in fl : Members(b) \cap Members(c) # {} => b = c
  /\ \A r \in Requests : p[r] = "running" <=> \E b \in fl : r \in Members(b)

--------------------------------------------------------------------------------
LEMMA Numbers ==
  /\ BatchSize \in Nat \ {0} /\ MaxRequests \in Nat /\ MaxChanges \in Nat /\ Keys # {}
  /\ Requests = 1 .. MaxRequests
BY Assumption DEF Requests

LEMMA MembersFacts ==
  ASSUME NEW s \in Seq(Requests)
  PROVE  /\ Len(s) \in Nat /\ DOMAIN s = 1 .. Len(s)
         /\ Members(s) \subseteq Requests
         /\ \A i \in DOMAIN s : s[i] \in Requests /\ s[i] \in Members(s)
<1>1. Len(s) \in Nat /\ DOMAIN s = 1 .. Len(s)
  BY LenProperties
<1>2. \A i \in DOMAIN s : s[i] \in Requests
  BY <1>1, ElementOfSeq
<1> QED
  BY <1>1, <1>2 DEF Members

(* OnePlace, as equivalences, in a state and in the next.                  *)
LEMMA ToPlaces ==
  ASSUME IInv
  PROVE  (\A l \in Keys : Holds(l, queue[l], phase, key)) /\ Flying(inFlight, phase)
<1>1. ASSUME NEW l \in Keys PROVE Holds(l, queue[l], phase, key)
  <2>1. queue[l] \in Seq(Requests)
    BY DEF IInv, TypeOK
  <2>2. \A r \in Requests : r \in Members(queue[l]) <=> phase[r] = "queued" /\ key[r] = l
    BY DEF IInv, OnePlace, Members
  <2>3. \A i, j \in DOMAIN queue[l] : i # j => queue[l][i] # queue[l][j]
    BY DEF IInv, OnePlace
  <2> QED
    BY <2>1, <2>2, <2>3 DEF Holds
<1>2. inFlight \subseteq Seq(Requests)
  BY DEF IInv, TypeOK
<1>3. \A b, c \in inFlight : Members(b) \cap Members(c) # {} => b = c
  BY DEF IInv, OnePlace
<1>4. \A r \in Requests : phase[r] = "running" <=> \E b \in inFlight : r \in Members(b)
  BY DEF IInv, OnePlace, Members
<1> QED
  BY <1>1, <1>2, <1>3, <1>4 DEF Flying

LEMMA FromPlaces ==
  ASSUME \A l \in Keys : Holds(l, queue'[l], phase', key'), Flying(inFlight', phase'),
         key' \in [Requests -> Keys], told' \subseteq Requests,
         \A r \in told' : phase'[r] \notin {"new", "refused", "checked"}
  PROVE  OnePlace'
<1>1. ASSUME NEW l \in Keys, NEW i \in DOMAIN queue'[l]
      PROVE  phase'[queue'[l][i]] = "queued" /\ key'[queue'[l][i]] = l
  <2>1. queue'[l][i] \in Requests /\ queue'[l][i] \in Members(queue'[l])
    BY MembersFacts DEF Holds
  <2> QED
    BY <2>1 DEF Holds
<1>2. ASSUME NEW b \in inFlight', NEW i \in DOMAIN b
      PROVE  phase'[b[i]] = "running"
  <2>1. b[i] \in Requests /\ b[i] \in Members(b)
    BY MembersFacts DEF Flying
  <2> QED
    BY <2>1 DEF Flying
<1>3. \A l \in Keys : \A i, j \in DOMAIN queue'[l] : i # j => queue'[l][i] # queue'[l][j]
  BY DEF Holds
<1>4. \A r \in Requests : phase'[r] = "queued" => r \in Members(queue'[key'[r]])
  BY DEF Holds
<1>5. \A b, c \in inFlight' : Members(b) \cap Members(c) # {} => b = c
  BY DEF Flying
<1>6. \A r \in Requests : phase'[r] = "running" => \E b \in inFlight' : r \in Members(b)
  BY DEF Flying
<1> QED
  BY <1>1, <1>2, <1>3, <1>4, <1>5, <1>6 DEF OnePlace

(* A batch and what it leaves are the two parts of a queue, and a queue    *)
(* not longer than a batch leaves nothing.                                 *)
LEMMA CutFacts ==
  ASSUME NEW q \in Seq(Requests)
  PROVE  /\ Batch(q) \in Seq(Requests) /\ Rest(q) \in Seq(Requests)
         /\ Members(q) = Members(Batch(q)) \cup Members(Rest(q))
         /\ Len(q) <= BatchSize => Rest(q) = << >>
         /\ (\A i, j \in DOMAIN q : i # j => q[i] # q[j]) =>
              /\ Members(Batch(q)) \cap Members(Rest(q)) = {}
              /\ \A i, j \in DOMAIN Rest(q) : i # j => Rest(q)[i] # Rest(q)[j]
<1>0. DOMAIN q = 1 .. Len(q)
  BY LenProperties
<1>1. Len(q) \in Nat
  BY LenProperties
<1>2. \A i \in 1 .. Len(q) : q[i] \in Requests
  BY ElementOfSeq
<1>3. PICK n \in 0 .. Len(q) : Batch(q) = SubSeq(q, 1, n) /\ (Len(q) <= BatchSize => n = Len(q))
  <2>1. BatchSize \in Nat \ {0}
    BY Numbers
  <2>2. CASE Len(q) < BatchSize
    BY <2>2, <1>1 DEF Batch
  <2>3. CASE ~(Len(q) < BatchSize)
    <3>1. BatchSize \in 0 .. Len(q) /\ (Len(q) <= BatchSize => BatchSize = Len(q))
      BY <2>1, <2>3, <1>1
    <3> QED
      BY <2>3, <3>1 DEF Batch
  <2> QED
    BY <2>2, <2>3
<1>4. /\ Batch(q) \in Seq(Requests) /\ Len(Batch(q)) = n
      /\ \A i \in 1 .. n : Batch(q)[i] = q[i]
  <2>1. \A i \in 1 .. n : q[i] \in Requests
    BY <1>1, <1>2, <1>3
  <2>2. 1 \in Int /\ n \in Int
    BY <1>1, <1>2, <1>3
  <2>3. /\ SubSeq(q, 1, n) \in Seq(Requests)
        /\ Len(SubSeq(q, 1, n)) = IF 1 <= n THEN n - 1 + 1 ELSE 0
        /\ \A i \in 1 .. n - 1 + 1 : SubSeq(q, 1, n)[i] = q[1 + i - 1]
    BY <2>1, <2>2, SubSeqProperties
  <2> QED
    BY <2>3, <1>1, <1>2, <1>3
<1>5. /\ Rest(q) \in Seq(Requests) /\ Len(Rest(q)) = Len(q) - n
      /\ \A i \in 1 .. Len(q) - n : Rest(q)[i] = q[n + i]
  <2>1. Rest(q) = SubSeq(q, n + 1, Len(q))
    BY <1>4 DEF Rest
  <2>2. \A i \in n + 1 .. Len(q) : q[i] \in Requests
    BY <1>1, <1>2, <1>3
  <2>3. n + 1 \in Int /\ Len(q) \in Int
    BY <1>1, <1>2, <1>3
  <2>4. /\ SubSeq(q, n + 1, Len(q)) \in Seq(Requests)
        /\ Len(SubSeq(q, n + 1, Len(q))) = IF n + 1 <= Len(q) THEN Len(q) - (n + 1) + 1 ELSE 0
        /\ \A i \in 1 .. Len(q) - (n + 1) + 1 : SubSeq(q, n + 1, Len(q))[i] = q[(n + 1) + i - 1]
    BY <2>2, <2>3, SubSeqProperties
  <2> QED
    BY <2>1, <2>4, <1>1, <1>3
<1>6. DOMAIN Batch(q) = 1 .. n /\ DOMAIN Rest(q) = 1 .. Len(q) - n
  BY <1>4, <1>5, MembersFacts
<1>7. Members(q) = Members(Batch(q)) \cup Members(Rest(q))
  <2>1. ASSUME NEW i \in 1 .. Len(q) PROVE q[i] \in Members(Batch(q)) \cup Members(Rest(q))
    <3>1. CASE i <= n
      <4>1. i \in 1 .. n
        BY <3>1, <1>1, <1>3
      <4>2. Batch(q)[i] = q[i] /\ i \in DOMAIN Batch(q)
        BY <4>1, <1>4, <1>6
      <4> QED
        BY <4>2 DEF Members
    <3>2. CASE ~(i <= n)
      <4>1. i - n \in 1 .. Len(q) - n /\ n + (i - n) = i
        BY <3>2, <1>1, <1>3
      <4>2. Rest(q)[i - n] = q[i] /\ i - n \in DOMAIN Rest(q)
        BY <4>1, <1>5, <1>6
      <4> QED
        BY <4>2 DEF Members
    <3> QED
      BY <3>1, <3>2
  <2>2. \A i \in 1 .. n : i \in 1 .. Len(q)
    BY <1>1, <1>2, <1>3
  <2>3. \A i \in 1 .. Len(q) - n : n + i \in 1 .. Len(q)
    BY <1>1, <1>2, <1>3
  <2>4. Members(Batch(q)) \subseteq Members(q)
    BY <2>2, <1>0, <1>4, <1>6 DEF Members
  <2>5. Members(Rest(q)) \subseteq Members(q)
    BY <2>3, <1>0, <1>5, <1>6 DEF Members
  <2>6. Members(q) \subseteq Members(Batch(q)) \cup Members(Rest(q))
    BY <2>1, <1>0 DEF Members
  <2> QED
    BY <2>4, <2>5, <2>6
<1>8. ASSUME Len(q) <= BatchSize PROVE Rest(q) = << >>
  <2>1. Len(Rest(q)) = 0
    BY <1>8, <1>1, <1>3, <1>5
  <2> QED
    BY <2>1, <1>5, EmptySeq
<1>9. ASSUME \A i, j \in DOMAIN q : i # j => q[i] # q[j]
      PROVE  /\ Members(Batch(q)) \cap Members(Rest(q)) = {}
             /\ \A i, j \in DOMAIN Rest(q) : i # j => Rest(q)[i] # Rest(q)[j]
  <2>1. ASSUME NEW i \in 1 .. n, NEW j \in 1 .. Len(q) - n PROVE Batch(q)[i] # Rest(q)[j]
    <3>1. i \in 1 .. Len(q) /\ n + j \in 1 .. Len(q) /\ i # n + j
      BY <1>1, <1>2, <1>3
    <3>2. q[i] # q[n + j]
      BY <3>1, <1>0, <1>9
    <3> QED
      BY <3>2, <1>4, <1>5
  <2>2. ASSUME NEW i \in 1 .. Len(q) - n, NEW j \in 1 .. Len(q) - n, i # j PROVE Rest(q)[i] # Rest(q)[j]
    <3>1. n + i \in 1 .. Len(q) /\ n + j \in 1 .. Len(q) /\ n + i # n + j
      BY <2>2, <1>1, <1>2
    <3>2. q[n + i] # q[n + j]
      BY <3>1, <1>0, <1>9
    <3> QED
      BY <3>2, <1>5
  <2> QED
    BY <2>1, <2>2, <1>6 DEF Members
<1> QED
  BY <1>4, <1>5, <1>7, <1>8, <1>9

(* A request joins a queue at its end.                                     *)
LEMMA HoldsMore ==
  ASSUME NEW k \in Keys, NEW s, NEW p, NEW h, NEW r \in Requests,
         Holds(k, s, p, h), p \in [Requests -> Phases], p[r] # "queued", h[r] = k
  PROVE  Holds(k, Append(s, r), [p EXCEPT ![r] = "queued"], h)
<1> DEFINE q == Append(s, r)
<1>1. /\ s \in Seq(Requests) /\ Len(s) \in Nat /\ DOMAIN s = 1 .. Len(s)
      /\ \A x \in Requests : x \in Members(s) <=> p[x] = "queued" /\ h[x] = k
      /\ \A i, j \in DOMAIN s : i # j => s[i] # s[j]
  BY MembersFacts DEF Holds
<1>2. /\ q \in Seq(Requests) /\ Len(q) = Len(s) + 1
      /\ \A i \in 1 .. Len(s) : q[i] = s[i]
      /\ q[Len(s) + 1] = r
  BY <1>1, AppendProperties
<1>3. DOMAIN q = 1 .. Len(s) + 1
  BY <1>2, MembersFacts
<1> HIDE DEF q
<1>4. \A i \in DOMAIN q : \/ i \in DOMAIN s /\ q[i] = s[i]
                          \/ i = Len(s) + 1 /\ q[i] = r
  BY <1>1, <1>2, <1>3
<1>5. Members(q) = Members(s) \cup {r}
  <2>1. Members(q) \subseteq Members(s) \cup {r}
    BY <1>4 DEF Members
  <2>2. \A i \in DOMAIN s : i \in DOMAIN q /\ q[i] = s[i]
    BY <1>1, <1>2, <1>3
  <2>3. Len(s) + 1 \in DOMAIN q
    BY <1>1, <1>3
  <2> QED
    BY <2>1, <2>2, <2>3, <1>2 DEF Members
<1>6. \A i, j \in DOMAIN q : i # j => q[i] # q[j]
  <2>1. \A i \in DOMAIN s : s[i] # r
    BY <1>1 DEF Members
  <2> QED
    BY <2>1, <1>1, <1>4
<1>7. \A x \in Requests : [p EXCEPT ![r] = "queued"][x] = IF x = r THEN "queued" ELSE p[x]
  OBVIOUS
<1>8. \A x \in Requests : x \in Members(q) <=> [p EXCEPT ![r] = "queued"][x] = "queued" /\ h[x] = k
  BY <1>1, <1>5, <1>7
<1> QED
  BY <1>2, <1>6, <1>8 DEF Holds, q

(* What _dispatchBatch() does to a queue q and phases p in which infer()   *)
(* may just have put a request: everything keeps its one place.            *)
LEMMA DispatchKeeps ==
  ASSUME IInv, NEW k \in Keys, NEW q, NEW p \in [Requests -> Phases], NEW throws \in BOOLEAN,
         Dispatch(k, q, p, throws), UNCHANGED <<asked, key, told>>,
         Holds(k, q, p, key), k \notin disturbed => Len(q) <= BatchSize,
         \A r \in Requests : p[r] # phase[r] => p[r] = "queued" /\ key[r] = k /\ phase[r] = "checked"
  PROVE  /\ phase' \in [Requests -> Phases] /\ inFlight' \subseteq Seq(Requests)
         /\ queue' \in [Keys -> Seq(Requests)]
         /\ timer' \subseteq Keys /\ armed' \subseteq Keys /\ disturbed' \subseteq Keys
         /\ QueueArmed' /\ OnePlace' /\ UnaskedAreNew'
         /\ \A r \in Requests : phase[r] \notin {"new", "checked"} =>
              /\ phase'[r] \notin {"new", "checked"}
              /\ phase'[r] = "queued" => phase[r] = "queued"
         /\ disturbed \ {k} \subseteq disturbed'
         /\ \A r \in Requests : key[r] = k /\ phase'[r] = "queued" => k \in disturbed'
<1> DEFINE b == Batch(q)
           s == Rest(q)
<1>1. /\ timer' = timer \ {k} /\ armed' = armed \ {k}
      /\ queue' = [queue EXCEPT ![k] = s]
      /\ disturbed' = IF s = << >> THEN disturbed \ {k} ELSE disturbed
  BY DEF Dispatch
<1>2. PICK to \in {"running", "lost", "rejected"} :
        /\ \A r \in Requests : phase'[r] = IF r \in Members(b) THEN to ELSE p[r]
        /\ phase' \in [Requests -> Phases]
        /\ inFlight' = IF to = "running" THEN inFlight \cup {b} ELSE inFlight
  <2>1. PICK to \in {"running", "lost", "rejected"} :
          /\ phase' = SetPhase(p, b, to)
          /\ inFlight' = IF to = "running" THEN inFlight \cup {b} ELSE inFlight
    BY DEF Dispatch
  <2>2. \A r \in Requests : p[r] \in Phases
    OBVIOUS
  <2> HIDE DEF b
  <2>3. /\ \A r \in Requests : phase'[r] = IF r \in Members(b) THEN to ELSE p[r]
        /\ phase' \in [Requests -> Phases]
    BY <2>1, <2>2 DEF SetPhase, Phases
  <2> QED
    BY <2>1, <2>3
<1>3. /\ q \in Seq(Requests)
      /\ \A r \in Requests : r \in Members(q) <=> p[r] = "queued" /\ key[r] = k
      /\ \A i, j \in DOMAIN q : i # j => q[i] # q[j]
  BY DEF Holds
<1>4. /\ b \in Seq(Requests) /\ s \in Seq(Requests)
      /\ Members(q) = Members(b) \cup Members(s) /\ Members(b) \cap Members(s) = {}
      /\ \A i, j \in DOMAIN s : i # j => s[i] # s[j]
      /\ Len(q) <= BatchSize => s = << >>
  BY <1>3, CutFacts
<1> HIDE DEF b, s
<1>5. /\ queue' \in [Keys -> Seq(Requests)] /\ queue'[k] = s
      /\ \A l \in Keys : l # k => queue'[l] = queue[l]
  BY <1>1, <1>4 DEF IInv, TypeOK
<1>6. /\ inFlight' \subseteq Seq(Requests)
      /\ timer' \subseteq Keys /\ armed' \subseteq Keys /\ disturbed' \subseteq Keys
  BY <1>1, <1>2, <1>4 DEF IInv, TypeOK
<1>7. s # << >> => k \in disturbed /\ k \in disturbed'
  BY <1>1, <1>4
<1>8. QueueArmed'
  <2>1. timer' = armed'
    BY <1>1 DEF IInv, QueueArmed
  <2>2. \A l \in armed' : l # k /\ l \in Keys /\ queue[l] # << >>
    BY <1>1 DEF IInv, QueueArmed, TypeOK
  <2>3. \A l \in armed' : queue'[l] # << >>
    BY <2>2, <1>5
  <2>4. ASSUME NEW l \in Keys \ disturbed'
        PROVE  Len(queue'[l]) < BatchSize /\ (queue'[l] # << >> => l \in armed')
    <3>1. CASE l = k
      BY <3>1, <1>5, <1>7, EmptySeq, Numbers
    <3>2. CASE l # k
      <4>1. l \in Keys \ disturbed
        BY <3>2, <1>1
      <4> QED
        BY <3>2, <4>1, <1>1, <1>5 DEF IInv, QueueArmed
    <3> QED
      BY <3>1, <3>2
  <2> QED
    BY <2>1, <2>3, <2>4 DEF QueueArmed
<1>9. \A l \in Keys : Holds(l, queue'[l], phase', key')
  <2>1. Holds(k, s, phase', key')
    <3>1. \A r \in Requests : r \in Members(s) <=> phase'[r] = "queued" /\ key'[r] = k
      BY <1>2, <1>3, <1>4
    <3> QED
      BY <3>1, <1>4 DEF Holds
  <2>2. ASSUME NEW l \in Keys, l # k PROVE Holds(l, queue[l], phase', key')
    <3>1. \A r \in Requests : key[r] = l => phase'[r] = phase[r]
      BY <2>2, <1>2, <1>3, <1>4
    <3>2. Holds(l, queue[l], phase, key)
      BY ToPlaces
    <3> QED
      BY <3>1, <3>2 DEF Holds
  <2> QED
    BY <2>1, <2>2, <1>5
<1>10. Flying(inFlight', phase')
  <2>1. /\ \A c, d \in inFlight : Members(c) \cap Members(d) # {} => c = d
        /\ \A r \in Requests : phase[r] = "running" <=> \E c \in inFlight : r \in Members(c)
    BY ToPlaces DEF Flying
  <2>2. Members(b) \subseteq Requests /\ \A r \in Members(b) : phase[r] \in {"queued", "checked"}
    BY <1>3, <1>4, MembersFacts
  <2>3. \A r \in Requests : phase'[r] = "running" <=> (to = "running" /\ r \in Members(b)) \/ phase[r] = "running"
    BY <2>2, <1>2
  <2>4. \A c \in inFlight : Members(c) \cap Members(b) = {}
    BY <2>1, <2>2
  <2>5. \A c, d \in inFlight' : Members(c) \cap Members(d) # {} => c = d
    BY <2>1, <2>4, <1>2
  <2>6. \A r \in Requests : phase'[r] = "running" <=> \E c \in inFlight' : r \in Members(c)
    <3>1. CASE to = "running"
      BY <3>1, <2>1, <2>3, <1>2
    <3>2. CASE to # "running"
      BY <3>2, <2>1, <2>3, <1>2
    <3> QED
      BY <3>1, <3>2
  <2> QED
    BY <2>5, <2>6, <1>6 DEF Flying
<1>11. /\ \A r \in Requests : phase[r] \notin {"new", "checked"} =>
             /\ phase'[r] \notin {"new", "checked"}
             /\ phase'[r] = "queued" => phase[r] = "queued"
       /\ \A r \in Requests : phase[r] \notin {"new", "refused", "checked"} =>
             phase'[r] \notin {"new", "refused", "checked"}
       /\ \A r \in Requests : phase[r] = "new" => phase'[r] = "new"
  BY <1>2, <1>3, <1>4
<1>12. OnePlace'
  <2>1. told' \subseteq Requests /\ key' \in [Requests -> Keys]
    BY DEF IInv, TypeOK
  <2>2. \A r \in told' : phase'[r] \notin {"new", "refused", "checked"}
    BY <2>1, <1>11 DEF IInv, OnePlace
  <2> QED
    BY <2>1, <2>2, <1>9, <1>10, FromPlaces
<1>13. UnaskedAreNew'
  BY <1>11 DEF IInv, UnaskedAreNew
<1>14. \A r \in Requests : key[r] = k /\ phase'[r] = "queued" => k \in disturbed'
  <2>1. \A r \in Requests : key[r] = k /\ phase'[r] = "queued" => r \in Members(s)
    BY <1>5, <1>9 DEF Holds
  <2>2. Members(<< >>) = {}
    BY DEF Members
  <2> QED
    BY <2>1, <2>2, <1>7
<1> QED
  BY <1>1, <1>2, <1>5, <1>6, <1>8, <1>11, <1>12, <1>13, <1>14

(* What shutdown() is to see to: nothing a step does brings back a request *)
(* it found waiting, or ends the disturbance of a slot that holds it.      *)
LEMMA ShutdownKeeps ==
  ASSUME IInv, UNCHANGED <<todo, atShutdown>>, shutdown' \in {shutdown, "rejected"},
         \A r \in Requests : phase[r] \notin {"new", "checked"} =>
           /\ phase'[r] \notin {"new", "checked"}
           /\ key'[r] = key[r]
           /\ phase'[r] = "queued" => phase[r] = "queued" /\ (key[r] \in disturbed => key[r] \in disturbed')
  PROVE  ShutdownCovers'
<1>1. \A r \in atShutdown : r \in Requests /\ phase[r] \notin {"new", "checked"}
  BY DEF IInv, TypeOK, ShutdownCovers
<1>2. \A r \in atShutdown' : phase'[r] \notin {"new", "checked"}
  BY <1>1
<1>3. shutdown' = "running" => \A r \in atShutdown' : phase'[r] = "queued" => key'[r] \in todo' \cup disturbed'
  BY <1>1 DEF IInv, ShutdownCovers
<1>4. ShutdownDispatchesAll'
  BY <1>1 DEF IInv, ShutdownCovers, ShutdownDispatchesAll
<1> QED
  BY <1>2, <1>3, <1>4 DEF ShutdownCovers

--------------------------------------------------------------------------------
LEMMA InitIInv == Init => IInv
<1> SUFFICES ASSUME Init PROVE IInv
  OBVIOUS
<1>1. /\ status = [k \in Keys |-> "absent"] /\ changes = 0 /\ runners = {} /\ asked = 0
      /\ key = [r \in Requests |-> CHOOSE k \in Keys : TRUE]
      /\ phase = [r \in Requests |-> "new"] /\ queue = [k \in Keys |-> << >>]
      /\ timer = {} /\ armed = {} /\ inFlight = {} /\ told = {} /\ disturbed = {}
      /\ shutdown = "no" /\ todo = {} /\ awaited = << >> /\ atShutdown = {}
  BY DEF Init
<1>2. << >> \in Seq(Requests) /\ Len(<< >>) = 0 /\ DOMAIN << >> = {}
  BY EmptySeq
<1>3. TypeOK
  <2>1. (CHOOSE k \in Keys : TRUE) \in Keys
    BY Numbers
  <2>2. key \in [Requests -> Keys]
    BY <1>1, <2>1
  <2> HIDE DEF Init
  <2>3. phase \in [Requests -> Phases] /\ queue \in [Keys -> Seq(Requests)]
    BY <1>1, <1>2 DEF Phases
  <2> QED
    BY <1>1, <1>2, <2>2, <2>3, Numbers DEF TypeOK
<1>4. QueueArmed
  BY <1>1, <1>2, Numbers DEF QueueArmed
<1>5. OnePlace
  BY <1>1, <1>2 DEF OnePlace
<1>6. UnaskedAreNew /\ ShutdownCovers
  BY <1>1 DEF UnaskedAreNew, ShutdownCovers, ShutdownDispatchesAll
<1> QED
  BY <1>3, <1>4, <1>5, <1>6 DEF IInv

(* The registry and the runners do not touch a request.                    *)
LEMMA RegistryIInv ==
  ASSUME IInv, ChangeRegistry \/ (\E k \in Keys : RegisterRunner(k)) \/ UNCHANGED vars
  PROVE  IInv'
<1>1. UNCHANGED <<asked, key, phase, queue, timer, armed, inFlight, told, disturbed, endVars>>
  BY DEF ChangeRegistry, RegisterRunner, vars, endVars, slotVars
<1>2. changes' \in 0 .. MaxChanges
  <2>1. ASSUME ChangeRegistry PROVE changes < MaxChanges /\ changes' = changes + 1
    BY <2>1 DEF ChangeRegistry, Register, PromoteVersion, DeleteModel
  <2>2. ASSUME ~ChangeRegistry PROVE changes' = changes
    BY <2>2 DEF RegisterRunner, vars, regVars
  <2> QED
    BY <2>1, <2>2, Numbers DEF IInv, TypeOK
<1>3. status' \in [Keys -> {"absent", "staging", "prod", "deprecated"}]
  <2>1. status \in [Keys -> {"absent", "staging", "prod", "deprecated"}]
    BY DEF IInv, TypeOK
  <2>2. CASE ChangeRegistry
    BY <2>1, <2>2 DEF ChangeRegistry, Register, PromoteVersion, DeleteModel
  <2>3. CASE ~ChangeRegistry
    BY <2>1, <2>3 DEF RegisterRunner, vars, regVars
  <2> QED
    BY <2>2, <2>3
<1>4. runners' \subseteq Keys
  BY DEF ChangeRegistry, RegisterRunner, vars, IInv, TypeOK
<1>5. TypeOK'
  BY <1>1, <1>2, <1>3, <1>4 DEF IInv, TypeOK, endVars
<1>6. QueueArmed' /\ OnePlace' /\ UnaskedAreNew'
  BY <1>1 DEF IInv, QueueArmed, OnePlace, UnaskedAreNew
<1>7. ShutdownCovers'
  BY <1>1 DEF IInv, ShutdownCovers, ShutdownDispatchesAll, endVars
<1> QED
  BY <1>5, <1>6, <1>7 DEF IInv

(* infer(), up to its await: the request was new.                          *)
LEMMA InferIInv ==
  ASSUME IInv, NEW k \in Keys, Infer(k)
  PROVE  IInv'
<1> DEFINE r == asked + 1
<1>1. /\ r \in Requests /\ asked' = r
      /\ key' = [key EXCEPT ![r] = k]
      /\ UNCHANGED <<regVars, runners, queue, timer, armed, inFlight, told, disturbed, endVars>>
  BY DEF Infer, slotVars
<1>2. PICK to \in {"checked", "refused"} : phase' = [phase EXCEPT ![r] = to]
  BY DEF Infer
<1>3. phase[r] = "new" /\ asked \in Nat
  BY <1>1, Numbers DEF IInv, UnaskedAreNew, TypeOK
<1>4. asked' \in 0 .. MaxRequests /\ \A x \in Requests : x > asked' => x > asked /\ x # r
  BY <1>1, <1>3, Numbers
<1> HIDE DEF r
<1>5. /\ key \in [Requests -> Keys] /\ phase \in [Requests -> Phases]
      /\ to \in Phases
  BY DEF IInv, TypeOK, Phases
<1>6. key' \in [Requests -> Keys] /\ phase' \in [Requests -> Phases]
  BY <1>1, <1>2, <1>5
<1>7. \A x \in Requests : x # r => key'[x] = key[x] /\ phase'[x] = phase[x]
  BY <1>1, <1>2, <1>5
<1>8. phase'[r] = to
  BY <1>1, <1>2, <1>5
<1>9. TypeOK'
  BY <1>1, <1>4, <1>6 DEF IInv, TypeOK, regVars, endVars
<1>10. QueueArmed'
  BY <1>1 DEF IInv, QueueArmed
<1>11. OnePlace'
  <2>1. \A l \in Keys : Holds(l, queue'[l], phase', key')
    <3> SUFFICES ASSUME NEW l \in Keys PROVE Holds(l, queue[l], phase', key')
      BY <1>1
    <3>1. Holds(l, queue[l], phase, key)
      BY ToPlaces
    <3> QED
      BY <3>1, <1>3, <1>7, <1>8 DEF Holds
  <2>2. Flying(inFlight', phase')
    <3>1. Flying(inFlight, phase)
      BY ToPlaces
    <3> QED
      BY <3>1, <1>1, <1>3, <1>7, <1>8 DEF Flying
  <2>3. told' \subseteq Requests /\ \A x \in told' : phase'[x] \notin {"new", "refused", "checked"}
    BY <1>1, <1>3, <1>7 DEF IInv, TypeOK, OnePlace
  <2> QED
    BY <2>1, <2>2, <2>3, <1>6, FromPlaces
<1>12. UnaskedAreNew'
  BY <1>4, <1>7 DEF IInv, UnaskedAreNew
<1>13. ShutdownCovers'
  BY <1>1, <1>3, <1>7, ShutdownKeeps DEF endVars
<1> QED
  BY <1>9, <1>10, <1>11, <1>12, <1>13 DEF IInv

(* infer(), after its await: the request leaves with the batch it          *)
(* completes, waits under a timer, or waits in a slot it disturbs.         *)
LEMMA EnqueueIInv ==
  ASSUME IInv, NEW r \in Requests, Enqueue(r)
  PROVE  IInv'
<1> DEFINE k == key[r]
           q == Append(queue[k], r)
           p == [phase EXCEPT ![r] = "queued"]
<1>1. phase[r] = "checked" /\ UNCHANGED <<regVars, runners, asked, key, endVars>>
  BY DEF Enqueue
<1>2. k \in Keys /\ phase \in [Requests -> Phases]
  BY DEF IInv, TypeOK
<1>3. Holds(k, q, p, key)
  <2>1. Holds(k, queue[k], phase, key)
    BY <1>2, ToPlaces
  <2> QED
    BY <2>1, <1>1, <1>2, HoldsMore
<1>4. /\ p \in [Requests -> Phases] /\ p[r] = "queued"
      /\ \A x \in Requests : x # r => p[x] = phase[x]
  BY DEF IInv, TypeOK, Phases
<1>5. /\ queue[k] \in Seq(Requests) /\ Len(queue[k]) \in Nat
      /\ q \in Seq(Requests) /\ q # << >> /\ Len(q) = Len(queue[k]) + 1
  BY <1>2, AppendProperties, LenProperties DEF IInv, TypeOK
<1>6. CASE \E throws \in BOOLEAN : Dispatch(k, q, p, throws) /\ UNCHANGED told
  <2>1. k \notin disturbed => Len(q) <= BatchSize
    <3>1. k \notin disturbed => Len(queue[k]) < BatchSize
      BY <1>2 DEF IInv, QueueArmed
    <3> QED
      BY <3>1, <1>5, Numbers
  <2>2. \A x \in Requests : p[x] # phase[x] => p[x] = "queued" /\ key[x] = k /\ phase[x] = "checked"
    BY <1>1, <1>4
  <2>3. PICK throws \in BOOLEAN : Dispatch(k, q, p, throws) /\ UNCHANGED told
    BY <1>6
  <2> HIDE DEF q, p, k
  <2>4. /\ phase' \in [Requests -> Phases] /\ inFlight' \subseteq Seq(Requests)
        /\ queue' \in [Keys -> Seq(Requests)]
        /\ timer' \subseteq Keys /\ armed' \subseteq Keys /\ disturbed' \subseteq Keys
        /\ QueueArmed' /\ OnePlace' /\ UnaskedAreNew'
        /\ \A x \in Requests : phase[x] \notin {"new", "checked"} =>
             /\ phase'[x] \notin {"new", "checked"}
             /\ phase'[x] = "queued" => phase[x] = "queued"
        /\ disturbed \ {k} \subseteq disturbed'
        /\ \A x \in Requests : key[x] = k /\ phase'[x] = "queued" => k \in disturbed'
    BY <2>1, <2>2, <2>3, <1>1, <1>2, <1>3, <1>4, DispatchKeeps
  <2>5. TypeOK'
    BY <2>3, <2>4, <1>1 DEF IInv, TypeOK, regVars, endVars
  <2>6. \A x \in Requests : phase[x] \notin {"new", "checked"} =>
          /\ phase'[x] \notin {"new", "checked"} /\ key'[x] = key[x]
          /\ phase'[x] = "queued" => phase[x] = "queued" /\ (key[x] \in disturbed => key[x] \in disturbed')
    BY <2>4, <1>1
  <2>7. ShutdownCovers'
    BY <2>6, <1>1, ShutdownKeeps DEF endVars
  <2> QED
    BY <2>4, <2>5, <2>7 DEF IInv
<1>7. CASE /\ queue' = [queue EXCEPT ![k] = q] /\ phase' = p /\ inFlight' = inFlight
           /\ told' \in {told, told \cup {r}}
           /\ \/ /\ Len(q) < BatchSize /\ disturbed' = disturbed
                 /\ timer' = timer \cup {k}
                 /\ armed' = IF k \in timer THEN armed ELSE armed \cup {k}
              \/ disturbed' = disturbed \cup {k} /\ UNCHANGED <<timer, armed>>
  <2> HIDE DEF q, p
  <2>1. /\ queue' \in [Keys -> Seq(Requests)]
        /\ \A l \in Keys : queue'[l] = IF l = k THEN q ELSE queue[l]
    BY <1>2, <1>5, <1>7 DEF IInv, TypeOK
  <2>2. /\ timer' = armed' /\ armed \subseteq armed' /\ armed' \subseteq armed \cup {k}
        /\ k \notin disturbed' => Len(q) < BatchSize /\ k \in armed'
        /\ disturbed \subseteq disturbed' /\ disturbed' \subseteq disturbed \cup {k}
    BY <1>7 DEF IInv, QueueArmed
  <2>3. told' \subseteq Requests
    BY <1>7 DEF IInv, TypeOK
  <2>4. TypeOK'
    BY <2>1, <2>2, <2>3, <1>1, <1>2, <1>4, <1>7 DEF IInv, TypeOK, regVars, endVars
  <2>5. QueueArmed'
    <3>1. \A l \in armed' : queue'[l] # << >>
      BY <2>1, <2>2, <2>4, <1>5 DEF IInv, QueueArmed, TypeOK
    <3>2. ASSUME NEW l \in Keys \ disturbed'
          PROVE  Len(queue'[l]) < BatchSize /\ (queue'[l] # << >> => l \in armed')
      <4>1. CASE l = k
        BY <4>1, <2>1, <2>2
      <4>2. CASE l # k
        BY <4>2, <2>1, <2>2 DEF IInv, QueueArmed
      <4> QED
        BY <4>1, <4>2
    <3> QED
      BY <3>1, <3>2, <2>2 DEF QueueArmed
  <2>6. \A l \in Keys : Holds(l, queue'[l], phase', key')
    <3>1. ASSUME NEW l \in Keys, l # k PROVE Holds(l, queue[l], phase', key)
      <4>1. Holds(l, queue[l], phase, key)
        BY ToPlaces
      <4>2. \A x \in Requests : key[x] = l => phase'[x] = phase[x]
        BY <3>1, <1>4, <1>7
      <4> QED
        BY <4>1, <4>2 DEF Holds
    <3> QED
      BY <3>1, <2>1, <1>1, <1>3, <1>7
  <2>7. Flying(inFlight', phase')
    <3>1. Flying(inFlight, phase)
      BY ToPlaces
    <3> QED
      BY <3>1, <1>1, <1>4, <1>7 DEF Flying
  <2>8. \A x \in told' : phase'[x] \notin {"new", "refused", "checked"}
    BY <2>3, <1>4, <1>7 DEF IInv, OnePlace
  <2>9. OnePlace'
    BY <2>3, <2>6, <2>7, <2>8, <1>1, FromPlaces DEF IInv, TypeOK
  <2>10. UnaskedAreNew'
    BY <1>1, <1>4, <1>7 DEF IInv, UnaskedAreNew
  <2>11. ShutdownCovers'
    BY <2>2, <1>1, <1>4, <1>7, ShutdownKeeps DEF endVars
  <2> QED
    BY <2>4, <2>5, <2>9, <2>10, <2>11 DEF IInv
<1> QED
  <2>1. \/ QueuedFor(k, q, p) /\ UNCHANGED told
        \/ /\ queue' = [queue EXCEPT ![k] = q] /\ phase' = p
           /\ told' = told \cup {r} /\ disturbed' = disturbed \cup {k}
           /\ UNCHANGED <<timer, armed, inFlight>>
    BY DEF Enqueue
  <2> HIDE DEF q, p, k
  <2>2. CASE QueuedFor(k, q, p) /\ UNCHANGED told
    <3>1. CASE \E throws \in BOOLEAN : Dispatch(k, q, p, throws)
      BY <2>2, <3>1, <1>6
    <3>2. CASE /\ Len(q) < BatchSize
               /\ queue' = [queue EXCEPT ![k] = q] /\ phase' = p
               /\ timer' = timer \cup {k}
               /\ armed' = IF k \in timer THEN armed ELSE armed \cup {k}
               /\ UNCHANGED <<inFlight, disturbed>>
      BY <2>2, <3>2, <1>7
    <3> QED
      BY <2>2, <3>1, <3>2 DEF QueuedFor
  <2>3. CASE /\ queue' = [queue EXCEPT ![k] = q] /\ phase' = p
             /\ told' = told \cup {r} /\ disturbed' = disturbed \cup {k}
             /\ UNCHANGED <<timer, armed, inFlight>>
    BY <2>3, <1>7
  <2> QED
    BY <2>1, <2>2, <2>3

(* What the timer and the loop of shutdown() dispatch: a batch of a queue. *)
LEMMA DispatchSlot ==
  ASSUME IInv, NEW k \in Keys, NEW throws \in BOOLEAN, Dispatch(k, queue[k], phase, throws),
         UNCHANGED <<asked, key, told>>
  PROVE  /\ phase' \in [Requests -> Phases] /\ inFlight' \subseteq Seq(Requests)
         /\ queue' \in [Keys -> Seq(Requests)]
         /\ timer' \subseteq Keys /\ armed' \subseteq Keys /\ disturbed' \subseteq Keys
         /\ QueueArmed' /\ OnePlace' /\ UnaskedAreNew'
         /\ \A r \in Requests : phase[r] \notin {"new", "checked"} =>
              /\ phase'[r] \notin {"new", "checked"} /\ key'[r] = key[r]
              /\ phase'[r] = "queued" => phase[r] = "queued" /\ (key[r] \in disturbed => key[r] \in disturbed')
         /\ \A r \in Requests : key[r] = k /\ phase'[r] = "queued" => k \in disturbed'
<1>1. /\ Holds(k, queue[k], phase, key) /\ phase \in [Requests -> Phases]
      /\ queue[k] \in Seq(Requests)
  BY ToPlaces DEF IInv, TypeOK
<1>2. k \notin disturbed => Len(queue[k]) <= BatchSize
  <2>1. k \notin disturbed => Len(queue[k]) < BatchSize
    BY DEF IInv, QueueArmed
  <2> QED
    BY <2>1, <1>1, LenProperties, Numbers
<1> DEFINE q == queue[k]
           p == phase
<1>3. \A r \in Requests : p[r] # phase[r] => p[r] = "queued" /\ key[r] = k /\ phase[r] = "checked"
  OBVIOUS
<1>4. /\ Holds(k, q, p, key) /\ p \in [Requests -> Phases] /\ Dispatch(k, q, p, throws)
      /\ k \notin disturbed => Len(q) <= BatchSize
  BY <1>1, <1>2
<1> HIDE DEF q, p
<1> QED
  BY <1>3, <1>4, DispatchKeeps

LEMMA TimerExpiresIInv ==
  ASSUME IInv, NEW k \in Keys, TimerExpires(k)
  PROVE  IInv'
<1>1. PICK throws \in BOOLEAN : Dispatch(k, queue[k], phase, throws)
  BY DEF TimerExpires, IInv, QueueArmed
<1>2. UNCHANGED <<regVars, runners, asked, key, told, endVars>>
  BY DEF TimerExpires
<1>3. TypeOK'
  BY <1>1, <1>2, DispatchSlot DEF IInv, TypeOK, regVars, endVars
<1>4. ShutdownCovers'
  BY <1>1, <1>2, DispatchSlot, ShutdownKeeps DEF endVars
<1> QED
  BY <1>1, <1>2, <1>3, <1>4, DispatchSlot DEF IInv

(* The answer to a batch settles its requests, and no other's.             *)
LEMMA AnswerIInv ==
  ASSUME IInv, NEW b \in inFlight, NEW n \in 0 .. BatchSize, n <= Len(b),
         Answer(b, n) \/ \E throws \in BOOLEAN : AnswerFails(b, n, throws)
  PROVE  IInv'
<1>1. /\ inFlight' = inFlight \ {b} /\ shutdown' \in {shutdown, "rejected"}
      /\ UNCHANGED <<regVars, runners, asked, key, queue, timer, armed, told, disturbed,
                     todo, awaited, atShutdown>>
  BY DEF Answer, AnswerFails, endVars
<1>2. b \in Seq(Requests) /\ phase \in [Requests -> Phases]
  BY DEF IInv, TypeOK
<1>3. /\ Len(b) \in Nat /\ DOMAIN b = 1 .. Len(b) /\ Members(b) \subseteq Requests
      /\ \A r \in Members(b) : phase[r] = "running"
  BY <1>2, MembersFacts, ToPlaces DEF Flying
<1>4. Members(SubSeq(b, 1, n)) \subseteq Members(b)
  <2> DEFINE s == SubSeq(b, 1, n)
  <2>1. \A i \in 1 .. n : i \in DOMAIN b /\ b[i] \in Requests
    BY <1>2, <1>3, ElementOfSeq, Numbers
  <2>2. /\ s \in Seq(Requests) /\ Len(s) = (IF 1 <= n THEN n - 1 + 1 ELSE 0)
        /\ \A i \in 1 .. n - 1 + 1 : s[i] = b[1 + i - 1]
    BY <2>1, SubSeqProperties
  <2> HIDE DEF s
  <2>3. DOMAIN s = 1 .. n /\ \A i \in 1 .. n : s[i] = b[i]
    BY <2>2, LenProperties, Numbers
  <2>4. Members(s) \subseteq Members(b)
    BY <2>1, <2>3 DEF Members
  <2> QED
    BY <2>4 DEF s
<1>5. /\ phase' \in [Requests -> Phases]
      /\ \A r \in Requests : IF r \in Members(b) THEN phase'[r] \in {"resolved", "rejected", "abandoned"}
                             ELSE phase'[r] = phase[r]
  <2>1. PICK rest \in {"rejected", "abandoned"} :
          phase' = [r \in Requests |-> IF r \in Members(SubSeq(b, 1, n)) THEN "resolved"
                                       ELSE IF r \in Members(b) THEN rest ELSE phase[r]]
    BY DEF Answer, AnswerFails
  <2> QED
    BY <2>1, <1>2, <1>4 DEF Phases
<1>6. TypeOK'
  BY <1>1, <1>5 DEF IInv, TypeOK, regVars
<1>7. QueueArmed'
  BY <1>1 DEF IInv, QueueArmed
<1>8. OnePlace'
  <2>1. \A l \in Keys : Holds(l, queue'[l], phase', key')
    <3> SUFFICES ASSUME NEW l \in Keys PROVE Holds(l, queue[l], phase', key)
      BY <1>1
    <3>1. Holds(l, queue[l], phase, key)
      BY ToPlaces
    <3> QED
      BY <3>1, <1>3, <1>5 DEF Holds
  <2>2. Flying(inFlight', phase')
    <3>1. /\ inFlight \subseteq Seq(Requests)
          /\ \A c, d \in inFlight : Members(c) \cap Members(d) # {} => c = d
          /\ \A r \in Requests : phase[r] = "running" <=> \E c \in inFlight : r \in Members(c)
      BY ToPlaces DEF Flying
    <3>2. \A r \in Requests : phase'[r] = "running" <=> r \notin Members(b) /\ phase[r] = "running"
      BY <1>5
    <3>3. \A c \in inFlight' : c \in inFlight /\ Members(c) \cap Members(b) = {}
      BY <3>1, <1>1
    <3>4. \A r \in Requests : phase'[r] = "running" <=> \E c \in inFlight' : r \in Members(c)
      BY <3>1, <3>2, <3>3, <1>1
    <3> QED
      BY <3>1, <3>3, <3>4, <1>1 DEF Flying
  <2>3. told' \subseteq Requests /\ \A r \in told' : phase'[r] \notin {"new", "refused", "checked"}
    BY <1>1, <1>5 DEF IInv, TypeOK, OnePlace
  <2> QED
    BY <2>1, <2>2, <2>3, <1>1, FromPlaces DEF IInv, TypeOK
<1>9. UnaskedAreNew'
  BY <1>1, <1>3, <1>5 DEF IInv, UnaskedAreNew
<1>10. ShutdownCovers'
  BY <1>1, <1>5, ShutdownKeeps
<1> QED
  BY <1>6, <1>7, <1>8, <1>9, <1>10 DEF IInv

(* shutdown(): what waits is under keys it is to visit, a key it visits is *)
(* emptied unless it is disturbed.                                         *)
LEMMA ShutdownIInv == IInv /\ Shutdown => IInv'
<1> SUFFICES ASSUME IInv, Shutdown PROVE IInv'
  OBVIOUS
<1>1. /\ shutdown' = "running"
      /\ todo' = {key[r] : r \in {x \in Requests : phase[x] \notin {"new", "checked", "refused"}}}
      /\ atShutdown' = UNION {Members(queue[k]) : k \in Keys}
      /\ UNCHANGED <<regVars, runners, asked, key, phase, queue, timer, armed, inFlight,
                     told, disturbed, awaited>>
  BY DEF Shutdown, slotVars
<1>2. \A r \in atShutdown' : r \in Requests /\ phase[r] = "queued"
  <2>1. ASSUME NEW k \in Keys, NEW r \in Members(queue[k]) PROVE r \in Requests /\ phase[r] = "queued"
    <3>1. Holds(k, queue[k], phase, key)
      BY ToPlaces
    <3> QED
      BY <2>1, <3>1, MembersFacts DEF Holds
  <2> QED
    BY <2>1, <1>1
<1>3. TypeOK'
  BY <1>1, <1>2 DEF IInv, TypeOK, regVars
<1>4. QueueArmed' /\ OnePlace' /\ UnaskedAreNew'
  BY <1>1 DEF IInv, QueueArmed, OnePlace, UnaskedAreNew
<1>5. ShutdownCovers'
  BY <1>1, <1>2 DEF ShutdownCovers, ShutdownDispatchesAll
<1> QED
  BY <1>3, <1>4, <1>5 DEF IInv

LEMMA ShutdownDispatchesIInv ==
  ASSUME IInv, NEW k \in Keys, ShutdownDispatches(k)
  PROVE  IInv'
<1>1. /\ shutdown = "running" /\ todo' = todo \ {k}
      /\ UNCHANGED <<regVars, runners, asked, key, told, atShutdown>>
  BY DEF ShutdownDispatches
<1>2. CASE queue[k] = << >>
  <2>1. awaited' = << >> /\ UNCHANGED <<phase, queue, timer, armed, inFlight, disturbed, shutdown>>
    BY <1>2 DEF ShutdownDispatches
  <2>2. << >> \in Seq(Requests) /\ DOMAIN << >> = {}
    BY EmptySeq
  <2>3. TypeOK'
    BY <2>1, <2>2, <1>1 DEF IInv, TypeOK, regVars
  <2>4. QueueArmed' /\ OnePlace' /\ UnaskedAreNew'
    BY <2>1, <1>1 DEF IInv, QueueArmed, OnePlace, UnaskedAreNew
  <2>5. \A r \in Requests : phase[r] = "queued" => key[r] # k
    BY <1>2, <2>2, ToPlaces DEF Members, Holds
  <2>6. ShutdownCovers'
    BY <2>1, <2>5, <1>1 DEF IInv, TypeOK, ShutdownCovers, ShutdownDispatchesAll
  <2> QED
    BY <2>3, <2>4, <2>6 DEF IInv
<1>3. CASE queue[k] # << >>
  <2>1. PICK throws \in BOOLEAN :
          /\ awaited' = Batch(queue[k]) /\ Dispatch(k, queue[k], phase, throws)
          /\ shutdown' = IF throws THEN "rejected" ELSE shutdown
    BY <1>3 DEF ShutdownDispatches
  <2>2. awaited' \in Seq(Requests)
    BY <2>1, CutFacts DEF IInv, TypeOK
  <2>3. /\ phase' \in [Requests -> Phases] /\ inFlight' \subseteq Seq(Requests)
        /\ queue' \in [Keys -> Seq(Requests)]
        /\ timer' \subseteq Keys /\ armed' \subseteq Keys /\ disturbed' \subseteq Keys
        /\ QueueArmed' /\ OnePlace' /\ UnaskedAreNew'
        /\ \A r \in Requests : phase[r] \notin {"new", "checked"} =>
             /\ phase'[r] \notin {"new", "checked"} /\ key'[r] = key[r]
             /\ phase'[r] = "queued" => phase[r] = "queued" /\ (key[r] \in disturbed => key[r] \in disturbed')
        /\ \A r \in Requests : key[r] = k /\ phase'[r] = "queued" => k \in disturbed'
    BY <2>1, <1>1, DispatchSlot
  <2>4. TypeOK'
    BY <2>1, <2>2, <2>3, <1>1 DEF IInv, TypeOK, regVars
  <2>5. ShutdownCovers'
    <3>1. \A r \in atShutdown : r \in Requests /\ phase[r] \notin {"new", "checked"}
      BY DEF IInv, TypeOK, ShutdownCovers
    <3>2. \A r \in atShutdown' : phase'[r] \notin {"new", "checked"}
      BY <3>1, <2>3, <1>1
    <3>3. \A r \in atShutdown' : phase'[r] = "queued" => key'[r] \in todo' \cup disturbed'
      BY <3>1, <2>3, <1>1 DEF IInv, ShutdownCovers
    <3> QED
      BY <2>1, <3>2, <3>3, <1>1 DEF ShutdownCovers, ShutdownDispatchesAll
  <2> QED
    BY <2>3, <2>4, <2>5 DEF IInv
<1> QED
  BY <1>2, <1>3

LEMMA ShutdownResolvesIInv == IInv /\ ShutdownResolves => IInv'
<1> SUFFICES ASSUME IInv, ShutdownResolves PROVE IInv'
  OBVIOUS
<1>1. /\ shutdown = "running" /\ todo = {} /\ shutdown' = "done" /\ awaited' = << >>
      /\ UNCHANGED <<regVars, runners, asked, key, phase, queue, timer, armed, inFlight,
                     told, disturbed, todo, atShutdown>>
  BY DEF ShutdownResolves, slotVars
<1>2. TypeOK'
  BY <1>1, EmptySeq DEF IInv, TypeOK, regVars
<1>3. QueueArmed' /\ OnePlace' /\ UnaskedAreNew'
  BY <1>1 DEF IInv, QueueArmed, OnePlace, UnaskedAreNew
<1>4. ShutdownCovers'
  BY <1>1 DEF IInv, ShutdownCovers, ShutdownDispatchesAll
<1> QED
  BY <1>2, <1>3, <1>4 DEF IInv

LEMMA NextIInv == IInv /\ [Next]_vars => IInv'
<1> SUFFICES ASSUME IInv, [Next]_vars PROVE IInv'
  OBVIOUS
<1>1. ASSUME RunnerAnswers PROVE IInv'
  BY <1>1, AnswerIInv DEF RunnerAnswers
<1> QED
  BY <1>1, RegistryIInv, InferIInv, EnqueueIInv, TimerExpiresIInv, ShutdownIInv,
     ShutdownDispatchesIInv, ShutdownResolvesIInv DEF Next, Idle

--------------------------------------------------------------------------------
(* The properties, strengthened, hold at first and after every step.       *)
THEOREM Inductive == Spec => []IInv
BY InitIInv, NextIInv, PTL DEF Spec

(* Every variable of the manager and the registry keeps its type: no       *)
(* version gets a status the registry does not know.                       *)
THEOREM TypeCorrect == Spec => []TypeOK
<1>1. IInv => TypeOK
  BY DEF IInv
<1> QED
  BY Inductive, <1>1, PTL

(* A timeout is to come only over a queue that holds requests, so that     *)
(* _dispatchBatch() is never called on an empty queue, where it would      *)
(* leave slot.timer set for ever.  Requests that wait are fewer than a     *)
(* batch and have a timeout to come, unless a listener of requestEnqueued  *)
(* threw for the slot since it was last empty.                             *)
THEOREM NeverWaitsUnarmed == Spec => []QueueArmed
<1>1. IInv => QueueArmed
  BY DEF IInv
<1> QED
  BY Inductive, <1>1, PTL

(* Whatever overlaps the awaits of infer(), of the batches and of          *)
(* shutdown(), and whatever listeners throw, a request is in one queue or  *)
(* one batch and is asked at most once; and one whose promise an exception *)
(* in a listener rejected is queued, and asked, all the same.              *)
THEOREM RequestsInOnePlace == Spec => []OnePlace
<1>1. IInv => OnePlace
  BY DEF IInv
<1> QED
  BY Inductive, <1>1, PTL

(* When shutdown() resolves, everything it found waiting was dispatched,   *)
(* but for slots a listener of requestEnqueued disturbed.                  *)
THEOREM NothingLeftBehind == Spec => []ShutdownDispatchesAll
<1>1. IInv => ShutdownDispatchesAll
  BY DEF IInv, ShutdownCovers
<1> QED
  BY Inductive, <1>1, PTL
================================================================================

--------------------------- MODULE UndoRedoProofs ---------------------------
(***************************************************************************)
(* Proofs about UndoRedo: the stacks are well formed, the history is       *)
(* bounded and the versions form one line, for every set of values, every  *)
(* history size and every length of a transaction.                         *)
(***************************************************************************)
EXTENDS UndoRedo, SequenceTheorems, TLAPS

----------------------------------------------------------------------------
(* What the two stack operations do to a sequence.                          *)

\* pop() takes the last element off and leaves the others where they are.
LEMMA Popped ==
  ASSUME NEW S, NEW s \in Seq(S), s # <<>>
  PROVE  /\ Top(s) \in S
         /\ Pop(s) \in Seq(S)
         /\ Len(s) \in Nat \ {0}
         /\ Len(Pop(s)) = Len(s) - 1
         /\ \A i \in 1..(Len(s) - 1) : Pop(s)[i] = s[i]
<1>1. Len(s) \in Nat \ {0}
  BY EmptySeq, LenProperties
<1>2. \A i \in 1..(Len(s) - 1) : s[i] \in S
  BY <1>1, ElementOfSeq
<1>3. Top(s) \in S
  BY <1>1, ElementOfSeq DEF Top
<1>4. Pop(s) \in Seq(S) /\ Len(Pop(s)) = Len(s) - 1
  <2>1. /\ SubSeq(s, 1, Len(s) - 1) \in Seq(S)
        /\ Len(SubSeq(s, 1, Len(s) - 1)) = IF 1 <= Len(s) - 1 THEN (Len(s) - 1) - 1 + 1 ELSE 0
    BY <1>1, <1>2, SubSeqProperties
  <2>2. Len(SubSeq(s, 1, Len(s) - 1)) = Len(s) - 1
    <3> DEFINE n == Len(s)
               m == Len(SubSeq(s, 1, Len(s) - 1))
    <3>1. n \in Nat \ {0} /\ m = IF 1 <= n - 1 THEN (n - 1) - 1 + 1 ELSE 0
      BY <1>1, <2>1
    <3> HIDE DEF n, m
    <3>2. m = n - 1
      BY <3>1
    <3> QED BY <3>2 DEF n, m
  <2> QED BY <2>1, <2>2 DEF Pop
<1>5. \A i \in 1..(Len(s) - 1 - 1 + 1) : SubSeq(s, 1, Len(s) - 1)[i] = s[1 + i - 1]
  BY <1>1, <1>2, SubSeqProperties
<1>6. \A i \in 1..(Len(s) - 1) : Pop(s)[i] = s[i]
  BY <1>1, <1>5 DEF Pop
<1> QED BY <1>1, <1>3, <1>4, <1>6

\* push() puts the new element last.
LEMMA Pushed ==
  ASSUME NEW S, NEW s \in Seq(S), NEW x \in S
  PROVE  /\ Append(s, x) \in Seq(S)
         /\ Append(s, x) # <<>>
         /\ Len(s) \in Nat
         /\ Len(Append(s, x)) = Len(s) + 1
         /\ \A i \in 1..Len(s) : Append(s, x)[i] = s[i]
         /\ Append(s, x)[Len(s) + 1] = x
         /\ Top(Append(s, x)) = x
BY AppendProperties, LenProperties DEF Top

\* How many elements a limited push takes off.
Excess(s) == IF Len(s) + 1 > maxHistorySize THEN 1 ELSE 0

\* A limited push is the push, less the first element if that was too many.
LEMMA PushedLimited ==
  ASSUME NEW S, NEW s \in Seq(S), NEW x \in S
  PROVE  /\ PushLimited(s, x) \in Seq(S)
         /\ PushLimited(s, x) # <<>>
         /\ Top(PushLimited(s, x)) = x
         /\ Len(s) <= maxHistorySize => Len(PushLimited(s, x)) <= maxHistorySize
         /\ Len(PushLimited(s, x)) = Len(s) + 1 - Excess(s)
         /\ \A i \in 1..(Len(s) + 1 - Excess(s)) :
              PushLimited(s, x)[i] = Append(s, x)[i + Excess(s)]
<1> DEFINE p == Append(s, x)
<1>1. /\ p \in Seq(S) /\ p # <<>> /\ Len(s) \in Nat /\ Len(p) = Len(s) + 1
      /\ Top(p) = x
  BY Pushed
<1>2. CASE Len(p) > maxHistorySize
  <2>1. PushLimited(s, x) = Tail(p)
    BY <1>2 DEF PushLimited
  <2>2. /\ Tail(p) \in Seq(S) /\ Len(Tail(p)) = Len(p) - 1
        /\ \A i \in 1..Len(Tail(p)) : Tail(p)[i] = p[i + 1]
    BY <1>1, HeadTailProperties
  <2>3. Len(Tail(p)) >= 1
    BY <1>1, <1>2, <2>2, LimitAssumption
  <2>4. Tail(p) # <<>>
    BY <2>3, EmptySeq
  <2>5. Top(Tail(p)) = x
    BY <1>1, <2>2, <2>3 DEF Top
  <2>6. Excess(s) = 1
    BY <1>1, <1>2 DEF Excess
  <2> QED BY <1>1, <2>1, <2>2, <2>4, <2>5, <2>6, LimitAssumption
<1>3. CASE ~(Len(p) > maxHistorySize)
  <2>1. PushLimited(s, x) = p
    BY <1>3 DEF PushLimited
  <2>2. \A i \in 1..(Len(s) + 1 - 0) : p[i] = p[i + 0]
    BY <1>1
  <2>3. Excess(s) = 0
    BY <1>1, <1>3 DEF Excess
  <2> QED BY <1>1, <1>3, <2>1, <2>2, <2>3, LimitAssumption
<1> QED BY <1>2, <1>3

\* A plain command is a compound of one, and a transaction with a command in it
\* a compound.
LEMMA Compounds ==
  /\ \A c \in Command : <<c>> \in Compound /\ Len(<<c>>) = 1 /\ <<c>>[1] = c
  /\ \A t \in Seq(Command) : t # <<>> => t \in Compound
  /\ \A t \in Compound : /\ t \in Seq(Command) /\ Len(t) \in Nat \ {0}
                         /\ \A k \in 1..Len(t) : t[k] \in Command
<1>1. \A c \in Command : <<c>> \in Seq(Command) /\ <<c>> # <<>> /\ Len(<<c>>) = 1 /\ <<c>>[1] = c
  OBVIOUS
<1>2. \A t \in Compound : Len(t) \in Nat \ {0}
  BY EmptySeq, LenProperties DEF Compound
<1>3. \A t \in Compound : \A k \in 1..Len(t) : t[k] \in Command
  BY ElementOfSeq DEF Compound
<1> QED BY <1>1, <1>2, <1>3 DEF Compound

----------------------------------------------------------------------------
(* Types.                                                                    *)

LEMMA TypeInit == Init => TypeOK
BY EmptySeq DEF Init, TypeOK

LEMMA TypeNext == TypeOK /\ [Next]_vars => TypeOK'
<1> SUFFICES ASSUME TypeOK, [Next]_vars PROVE TypeOK'
  OBVIOUS
<1> USE DEF TypeOK
<1>1. ASSUME NEW v \in Values, Execute(v) PROVE TypeOK'
  <2>1. [old |-> document, new |-> v] \in Command
    BY DEF Command
  <2>2. Append(transactionCommands, [old |-> document, new |-> v]) \in Seq(Command)
    BY <2>1, Pushed
  <2>3. PushLimited(undoStack, <<[old |-> document, new |-> v]>>) \in Seq(Compound)
    BY <2>1, Compounds, PushedLimited
  <2> QED BY <1>1, <2>2, <2>3, EmptySeq DEF Execute
<1>2. CASE Undo
  <2>1. Top(undoStack) \in Compound /\ Pop(undoStack) \in Seq(Compound)
    BY <1>2, Popped DEF Undo
  <2>2. Top(undoStack)[1].old \in Values
    BY <2>1, Compounds DEF Command
  <2>3. Append(redoStack, Top(undoStack)) \in Seq(Compound)
    BY <2>1, Pushed
  <2> QED BY <1>2, <2>1, <2>2, <2>3 DEF Undo
<1>3. CASE Redo
  <2>1. Top(redoStack) \in Compound /\ Pop(redoStack) \in Seq(Compound)
    BY <1>3, Popped DEF Redo
  <2>2. Top(Top(redoStack)).new \in Values
    BY <2>1, Compounds DEF Command, Top
  <2>3. Append(undoStack, Top(redoStack)) \in Seq(Compound)
    BY <2>1, Pushed
  <2> QED BY <1>3, <2>1, <2>2, <2>3 DEF Redo
<1>4. CASE UndoThrows
  <2>1. Top(undoStack) \in Compound /\ Pop(undoStack) \in Seq(Compound)
    BY <1>4, Popped DEF UndoThrows
  <2>2. \A k \in 1..Len(Top(undoStack)) :
          k # Len(Top(undoStack)) => Top(undoStack)[k + 1].old \in Values
    BY <2>1, Compounds DEF Command
  <2> QED BY <1>4, <2>1, <2>2 DEF UndoThrows
<1>5. CASE RedoThrows
  <2>1. Top(redoStack) \in Compound /\ Pop(redoStack) \in Seq(Compound)
    BY <1>5, Popped DEF RedoThrows
  <2>2. \A k \in 1..Len(Top(redoStack)) : k # 1 => Top(redoStack)[k - 1].new \in Values
    BY <2>1, Compounds DEF Command
  <2> QED BY <1>5, <2>1, <2>2 DEF RedoThrows
<1>6. CASE BeginTransaction
  BY <1>6, EmptySeq DEF BeginTransaction
<1>7. CASE CommitTransaction
  <2>1. transactionCommands # <<>> => PushLimited(undoStack, transactionCommands) \in Seq(Compound)
    BY Compounds, PushedLimited
  <2> QED BY <1>7, <2>1, EmptySeq DEF CommitTransaction
<1>8. CASE RollbackTransaction
  BY <1>8, EmptySeq DEF RollbackTransaction
<1>9. CASE Clear
  BY <1>9, EmptySeq DEF Clear
<1>10. CASE UNCHANGED vars
  BY <1>10 DEF vars
<1> QED BY <1>1, <1>2, <1>3, <1>4, <1>5, <1>6, <1>7, <1>8, <1>9, <1>10 DEF Next

\* The state is well typed: above all, no stack ever holds an empty compound,
\* so the first and the last command of what is undone or redone exist.
THEOREM TypeCorrect == Spec => []TypeOK
BY TypeInit, TypeNext, PTL DEF Spec

----------------------------------------------------------------------------
(* The bound.                                                                *)

LEMMA BoundNext == TypeOK /\ HistoryBounded /\ [Next]_vars => HistoryBounded'
<1> SUFFICES ASSUME TypeOK, HistoryBounded, [Next]_vars PROVE HistoryBounded'
  OBVIOUS
<1> USE DEF HistoryBounded
<1>0. /\ undoStack \in Seq(Compound) /\ redoStack \in Seq(Compound)
      /\ Len(undoStack) \in Nat /\ Len(redoStack) \in Nat
  BY LenProperties DEF TypeOK
<1>1. ASSUME NEW v \in Values, Execute(v) PROVE HistoryBounded'
  <2>1. CASE inTransaction
    BY <1>1, <2>1 DEF Execute
  <2>2. CASE ~inTransaction
    <3>1. <<[old |-> document, new |-> v]>> \in Compound
      BY Compounds DEF Command, TypeOK
    <3>2. Len(PushLimited(undoStack, <<[old |-> document, new |-> v]>>)) <= maxHistorySize
      BY <1>0, <3>1, PushedLimited, LimitAssumption
    <3>3. Len(PushLimited(undoStack, <<[old |-> document, new |-> v]>>)) \in Nat
      BY <1>0, <3>1, PushedLimited, LenProperties
    <3> QED BY <1>1, <2>2, <3>2, <3>3, EmptySeq DEF Execute
  <2> QED BY <2>1, <2>2
<1>2. CASE Undo
  <2>1. Top(undoStack) \in Compound /\ Len(Pop(undoStack)) = Len(undoStack) - 1
    BY <1>0, <1>2, Popped DEF Undo
  <2>2. Len(Append(redoStack, Top(undoStack))) = Len(redoStack) + 1
    BY <1>0, <2>1, Pushed
  <2> QED BY <1>0, <1>2, <2>1, <2>2 DEF Undo
<1>3. CASE Redo
  <2>1. Top(redoStack) \in Compound /\ Len(Pop(redoStack)) = Len(redoStack) - 1
    BY <1>0, <1>3, Popped DEF Redo
  <2>2. Len(Append(undoStack, Top(redoStack))) = Len(undoStack) + 1
    BY <1>0, <2>1, Pushed
  <2> QED BY <1>0, <1>3, <2>1, <2>2 DEF Redo
<1>4. CASE UndoThrows
  BY <1>0, <1>4, Popped, LimitAssumption DEF UndoThrows
<1>5. CASE RedoThrows
  BY <1>0, <1>5, Popped, LimitAssumption DEF RedoThrows
<1>6. CASE BeginTransaction
  BY <1>6 DEF BeginTransaction
<1>7. CASE CommitTransaction
  <2>1. CASE transactionCommands = <<>>
    BY <1>7, <2>1 DEF CommitTransaction
  <2>2. CASE transactionCommands # <<>>
    <3>1. transactionCommands \in Compound
      BY <2>2, Compounds DEF TypeOK
    <3>2. Len(PushLimited(undoStack, transactionCommands)) <= maxHistorySize
      BY <1>0, <3>1, PushedLimited, LimitAssumption
    <3>3. Len(PushLimited(undoStack, transactionCommands)) \in Nat
      BY <1>0, <3>1, PushedLimited, LenProperties
    <3> QED BY <1>7, <2>2, <3>2, <3>3, EmptySeq DEF CommitTransaction
  <2> QED BY <2>1, <2>2
<1>8. CASE RollbackTransaction
  BY <1>8 DEF RollbackTransaction
<1>9. CASE Clear
  BY <1>9, EmptySeq, LimitAssumption DEF Clear
<1>10. CASE UNCHANGED vars
  BY <1>10 DEF vars
<1> QED BY <1>1, <1>2, <1>3, <1>4, <1>5, <1>6, <1>7, <1>8, <1>9, <1>10 DEF Next

\* What can be undone and redone together never exceeds maxHistorySize, though
\* only execute() and commitTransaction() look at it.
THEOREM NeverTooMuchHistory == Spec => []HistoryBounded
<1>1. Init => HistoryBounded
  BY EmptySeq, LimitAssumption DEF Init, HistoryBounded
<1> QED BY <1>1, TypeInit, TypeNext, BoundNext, PTL DEF Spec

----------------------------------------------------------------------------
(* The line of versions.                                                     *)

\* What is left of a line after a pop is a line, which ends where the popped
\* compound began (for the redo stack: begins where it ended).
LEMMA PoppedLine ==
  ASSUME NEW s \in Seq(Compound), s # <<>>
  PROVE  /\ Line(s) => /\ Line(Pop(s)) /\ Chained(Top(s))
                       /\ Pop(s) # <<>> => After(Top(Pop(s))) = Before(Top(s))
         /\ LineBack(s) => /\ LineBack(Pop(s)) /\ Chained(Top(s))
                           /\ Pop(s) # <<>> => Before(Top(Pop(s))) = After(Top(s))
<1>1. /\ Len(s) \in Nat \ {0} /\ Pop(s) \in Seq(Compound)
      /\ Len(Pop(s)) = Len(s) - 1
      /\ \A i \in 1..(Len(s) - 1) : Pop(s)[i] = s[i]
  BY Popped
<1>2. DOMAIN s = 1..Len(s) /\ DOMAIN Pop(s) = 1..(Len(s) - 1)
  BY <1>1, LenProperties
<1>3. Pop(s) # <<>> => Len(s) > 1 /\ Top(Pop(s)) = s[Len(s) - 1]
  BY <1>1, EmptySeq, LenProperties DEF Top
<1>4. Line(s) => /\ Line(Pop(s)) /\ Chained(Top(s))
                 /\ Pop(s) # <<>> => After(Top(Pop(s))) = Before(Top(s))
  <2> SUFFICES ASSUME Line(s)
               PROVE  /\ Line(Pop(s)) /\ Chained(Top(s))
                      /\ Pop(s) # <<>> => After(Top(Pop(s))) = Before(Top(s))
    OBVIOUS
  <2>1. Chained(Top(s))
    BY <1>1, <1>2 DEF Line, Top
  <2>2. Line(Pop(s))
    <3> DEFINE t == Pop(s)
    <3>1. ASSUME NEW i \in 1..(Len(s) - 1) PROVE t[i] = s[i] /\ Chained(t[i])
      <4>1. i \in DOMAIN s /\ t[i] = s[i]
        BY <1>1, <1>2
      <4> QED BY <4>1 DEF Line
    <3>2. ASSUME NEW i \in 1..(Len(s) - 1 - 1) PROVE After(t[i]) = Before(t[i + 1])
      <4>1. i \in 1..(Len(s) - 1) /\ i + 1 \in 1..(Len(s) - 1)
        BY <1>1
      <4>2. t[i] = s[i] /\ t[i + 1] = s[i + 1]
        BY <3>1, <4>1
      <4>3. After(s[i]) = Before(s[i + 1])
        BY <4>1 DEF Line
      <4> QED BY <4>2, <4>3
    <3>3. DOMAIN t = 1..(Len(s) - 1) /\ Len(t) = Len(s) - 1
      BY <1>1, <1>2
    <3> HIDE DEF t
    <3>4. Line(t)
      BY <3>1, <3>2, <3>3 DEF Line
    <3> QED BY <3>4 DEF t
  <2>3. Pop(s) # <<>> => After(Top(Pop(s))) = Before(Top(s))
    BY <1>1, <1>3 DEF Line, Top
  <2> QED BY <2>1, <2>2, <2>3
<1>5. LineBack(s) => /\ LineBack(Pop(s)) /\ Chained(Top(s))
                     /\ Pop(s) # <<>> => Before(Top(Pop(s))) = After(Top(s))
  <2> SUFFICES ASSUME LineBack(s)
               PROVE  /\ LineBack(Pop(s)) /\ Chained(Top(s))
                      /\ Pop(s) # <<>> => Before(Top(Pop(s))) = After(Top(s))
    OBVIOUS
  <2>1. Chained(Top(s))
    BY <1>1, <1>2 DEF LineBack, Top
  <2>2. LineBack(Pop(s))
    <3> DEFINE t == Pop(s)
    <3>1. ASSUME NEW i \in 1..(Len(s) - 1) PROVE t[i] = s[i] /\ Chained(t[i])
      <4>1. i \in DOMAIN s /\ t[i] = s[i]
        BY <1>1, <1>2
      <4> QED BY <4>1 DEF LineBack
    <3>2. ASSUME NEW i \in 1..(Len(s) - 1 - 1) PROVE Before(t[i]) = After(t[i + 1])
      <4>1. i \in 1..(Len(s) - 1) /\ i + 1 \in 1..(Len(s) - 1)
        BY <1>1
      <4>2. t[i] = s[i] /\ t[i + 1] = s[i + 1]
        BY <3>1, <4>1
      <4>3. Before(s[i]) = After(s[i + 1])
        BY <4>1 DEF LineBack
      <4> QED BY <4>2, <4>3
    <3>3. DOMAIN t = 1..(Len(s) - 1) /\ Len(t) = Len(s) - 1
      BY <1>1, <1>2
    <3> HIDE DEF t
    <3>4. LineBack(t)
      BY <3>1, <3>2, <3>3 DEF LineBack
    <3> QED BY <3>4 DEF t
  <2>3. Pop(s) # <<>> => Before(Top(Pop(s))) = After(Top(s))
    BY <1>1, <1>3 DEF LineBack, Top
  <2> QED BY <2>1, <2>2, <2>3
<1> QED BY <1>4, <1>5

\* A compound that starts where a line ends makes it longer.
LEMMA PushedLine ==
  ASSUME NEW s \in Seq(Compound), NEW x \in Compound, Chained(x)
  PROVE  /\ (Line(s) /\ (s # <<>> => After(Top(s)) = Before(x))) => Line(Append(s, x))
         /\ (LineBack(s) /\ (s # <<>> => Before(Top(s)) = After(x))) => LineBack(Append(s, x))
<1> DEFINE p == Append(s, x)
<1>1. /\ p \in Seq(Compound) /\ Len(s) \in Nat /\ Len(p) = Len(s) + 1
      /\ \A i \in 1..Len(s) : p[i] = s[i]
      /\ p[Len(s) + 1] = x
  BY Pushed
<1>2. DOMAIN s = 1..Len(s) /\ DOMAIN p = 1..(Len(s) + 1)
  BY <1>1, LenProperties
<1>3. Len(s) > 0 => s # <<>>
  BY EmptySeq
<1> HIDE DEF p
<1>4. ASSUME Line(s), s # <<>> => After(Top(s)) = Before(x) PROVE Line(p)
  <2>1. ASSUME NEW i \in 1..(Len(s) + 1) PROVE Chained(p[i])
    BY <1>1, <1>2, <1>4 DEF Line
  <2>2. ASSUME NEW i \in 1..Len(s) PROVE After(p[i]) = Before(p[i + 1])
    <3>1. CASE i = Len(s)
      BY <1>1, <1>3, <1>4, <3>1 DEF Top
    <3>2. CASE i < Len(s)
      BY <1>1, <1>4, <3>2 DEF Line
    <3> QED BY <1>1, <3>1, <3>2
  <2> QED BY <1>1, <1>2, <2>1, <2>2 DEF Line
<1>5. ASSUME LineBack(s), s # <<>> => Before(Top(s)) = After(x) PROVE LineBack(p)
  <2>1. ASSUME NEW i \in 1..(Len(s) + 1) PROVE Chained(p[i])
    BY <1>1, <1>2, <1>5 DEF LineBack
  <2>2. ASSUME NEW i \in 1..Len(s) PROVE Before(p[i]) = After(p[i + 1])
    <3>1. CASE i = Len(s)
      BY <1>1, <1>3, <1>5, <3>1 DEF Top
    <3>2. CASE i < Len(s)
      BY <1>1, <1>5, <3>2 DEF LineBack
    <3> QED BY <1>1, <3>1, <3>2
  <2> QED BY <1>1, <1>2, <2>1, <2>2 DEF LineBack
<1> QED BY <1>4, <1>5 DEF p

\* The limit takes the oldest compound off, which leaves a line.
LEMMA PushedLimitedLine ==
  ASSUME NEW s \in Seq(Compound), NEW x \in Compound, Chained(x),
         Line(s), s # <<>> => After(Top(s)) = Before(x)
  PROVE  Line(PushLimited(s, x))
<1> DEFINE p == Append(s, x)
           q == PushLimited(s, x)
<1>1. Line(p)
  BY PushedLine
<1>2. p \in Seq(Compound) /\ Len(s) \in Nat /\ Len(p) = Len(s) + 1 /\ q \in Seq(Compound)
  BY Pushed, PushedLimited
<1> DEFINE d == Excess(s)
<1>3. /\ d \in {0, 1} /\ Len(q) = Len(s) + 1 - d
      /\ \A i \in 1..(Len(s) + 1 - d) : q[i] = p[i + d]
  BY PushedLimited DEF Excess
<1>4. DOMAIN p = 1..(Len(s) + 1) /\ DOMAIN q = 1..(Len(s) + 1 - d)
  BY <1>2, <1>3, LenProperties
<1> HIDE DEF p, q, d
<1>5. ASSUME NEW i \in 1..(Len(s) + 1 - d) PROVE Chained(q[i])
  BY <1>1, <1>2, <1>3, <1>4 DEF Line
<1>6. ASSUME NEW i \in 1..(Len(q) - 1) PROVE After(q[i]) = Before(q[i + 1])
  <2>1. i + d \in 1..(Len(p) - 1) /\ q[i] = p[i + d] /\ q[i + 1] = p[(i + d) + 1]
    BY <1>2, <1>3
  <2> QED BY <1>1, <2>1 DEF Line
<1>7. Line(q)
  BY <1>4, <1>5, <1>6 DEF Line
<1> QED BY <1>7 DEF q

\* A transaction grows by a command made from the document it has led to.
LEMMA LongerTransaction ==
  ASSUME NEW t \in Seq(Command), NEW c \in Command,
         Chained(t), t # <<>> => Top(t).new = c.old
  PROVE  /\ Chained(Append(t, c))
         /\ t # <<>> => Append(t, c)[1] = t[1]
         /\ t = <<>> => Append(t, c)[1] = c
<1> DEFINE p == Append(t, c)
<1>1. /\ Len(t) \in Nat /\ Len(p) = Len(t) + 1 /\ p[Len(t) + 1] = c
      /\ \A i \in 1..Len(t) : p[i] = t[i]
  BY Pushed
<1>2. (Len(t) > 0 => t # <<>>) /\ (t # <<>> => Len(t) > 0) /\ (t = <<>> => Len(t) = 0)
  BY <1>1, EmptySeq
<1> HIDE DEF p
<1>3. ASSUME NEW i \in 1..Len(t) PROVE p[i].new = p[i + 1].old
  <2>1. CASE i = Len(t)
    BY <1>1, <1>2, <2>1 DEF Top
  <2>2. CASE i < Len(t)
    BY <1>1, <2>2 DEF Chained
  <2> QED BY <1>1, <2>1, <2>2
<1>4. Chained(p)
  BY <1>1, <1>3 DEF Chained
<1> QED BY <1>1, <1>2, <1>4 DEF p

LEMMA Empty == Line(<<>>) /\ LineBack(<<>>) /\ Chained(<<>>)
BY EmptySeq DEF Line, LineBack, Chained

LEMMA Single == \A c \in Command : /\ Chained(<<c>>)
                                   /\ Before(<<c>>) = c.old /\ After(<<c>>) = c.new
BY DEF Chained, Before, After, Top

\* Commands are gathered only while a transaction is open.
GatheredInside == ~inTransaction => transactionCommands = <<>>

IInv == TypeOK /\ GatheredInside /\ VersionsConnected

LEMMA GatheredNext == GatheredInside /\ [Next]_vars => GatheredInside'
<1> SUFFICES ASSUME GatheredInside, [Next]_vars PROVE GatheredInside'
  OBVIOUS
<1> USE DEF GatheredInside
<1>1. ASSUME NEW v \in Values, Execute(v) PROVE GatheredInside'
  BY <1>1, Zenon DEF Execute
<1>2. CASE Undo \/ Redo \/ UndoThrows \/ RedoThrows
  BY <1>2, Zenon DEF Undo, Redo, UndoThrows, RedoThrows
<1>3. CASE BeginTransaction \/ CommitTransaction \/ RollbackTransaction \/ Clear
  BY <1>3, Zenon DEF BeginTransaction, CommitTransaction, RollbackTransaction, Clear
<1>4. CASE UNCHANGED vars
  BY <1>4, Zenon DEF vars
<1> QED BY <1>1, <1>2, <1>3, <1>4 DEF Next

LEMMA ConnectedNext == IInv /\ [Next]_vars => VersionsConnected'
<1> SUFFICES ASSUME IInv, [Next]_vars, ~disturbed' PROVE VersionsConnected'
  BY DEF VersionsConnected
<1>0. /\ undoStack \in Seq(Compound) /\ redoStack \in Seq(Compound)
      /\ transactionCommands \in Seq(Command) /\ document \in Values
      /\ ~inTransaction => transactionCommands = <<>>
      /\ VersionsConnected
  BY DEF IInv, TypeOK, GatheredInside
<1>1. ASSUME NEW v \in Values, Execute(v) PROVE VersionsConnected'
  <2> DEFINE c == [old |-> document, new |-> v]
  <2>1. c \in Command /\ c.old = document /\ c.new = v /\ <<c>> \in Compound
    BY <1>0, Compounds DEF Command
  <2>2. ~disturbed
    BY <1>1 DEF Execute
  <2>3. CASE inTransaction
    <3> DEFINE t == Append(transactionCommands, c)
    <3>1. transactionCommands' = t /\ UNCHANGED <<undoStack, redoStack>> /\ document' = v
      BY <1>1, <2>3 DEF Execute
    <3>2. t # <<>> /\ Top(t) = c
      BY <1>0, <2>1, Pushed
    <3>a. /\ Chained(transactionCommands)
          /\ transactionCommands # <<>> => Top(transactionCommands).new = c.old
      BY <1>0, <2>1, <2>2 DEF VersionsConnected
    <3>3. /\ Chained(t)
          /\ transactionCommands # <<>> => t[1] = transactionCommands[1]
          /\ transactionCommands = <<>> => t[1] = c
      <4> HIDE DEF c
      <4> QED BY <1>0, <2>1, <3>a, LongerTransaction
    <3>4. t[1].old = Committed
      BY <2>1, <3>3 DEF Committed
    <3> HIDE DEF t, c
    <3>5. Committed' = Committed
      BY <3>1, <3>2, <3>4 DEF Committed
    <3> QED BY <1>0, <2>1, <2>2, <3>1, <3>2, <3>3, <3>5 DEF VersionsConnected
  <2>4. CASE ~inTransaction
    <3> DEFINE u == PushLimited(undoStack, <<c>>)
    <3>1. /\ undoStack' = u /\ redoStack' = <<>> /\ document' = v
          /\ transactionCommands = <<>> /\ transactionCommands' = <<>>
      BY <1>0, <1>1, <2>4 DEF Execute
    <3>2. Chained(<<c>>) /\ Before(<<c>>) = document /\ After(<<c>>) = v
      BY <2>1, Single
    <3>3. Line(undoStack) /\ (undoStack # <<>> => After(Top(undoStack)) = document)
      BY <1>0, <2>2, <3>1 DEF VersionsConnected, Committed
    <3>4. Line(u)
      BY <1>0, <2>1, <3>2, <3>3, PushedLimitedLine
    <3>5. Top(u) = <<c>>
      BY <1>0, <2>1, PushedLimited
    <3> HIDE DEF u, c
    <3> QED BY <3>1, <3>2, <3>4, <3>5, Empty DEF VersionsConnected, Committed
  <2> QED BY <2>3, <2>4
<1>2. CASE Undo
  <2> DEFINE x == Top(undoStack)
  <2>1. /\ undoStack # <<>> /\ document' = x[1].old
        /\ undoStack' = Pop(undoStack) /\ redoStack' = Append(redoStack, x)
        /\ transactionCommands = <<>> /\ transactionCommands' = <<>> /\ ~disturbed
    BY <1>2 DEF Undo
  <2>2. x \in Compound
    BY <1>0, <2>1, Popped
  <2>3. /\ Line(undoStack) /\ LineBack(redoStack) /\ After(x) = document
        /\ redoStack # <<>> => Before(Top(redoStack)) = document
    BY <1>0, <2>1 DEF VersionsConnected, Committed
  <2>4. /\ Line(Pop(undoStack)) /\ Chained(x)
        /\ Pop(undoStack) # <<>> => After(Top(Pop(undoStack))) = Before(x)
    BY <1>0, <2>1, <2>3, PoppedLine
  <2>5. LineBack(Append(redoStack, x)) /\ Top(Append(redoStack, x)) = x
    BY <1>0, <2>2, <2>3, <2>4, PushedLine, Pushed
  <2>6. document' = Before(x)
    BY <2>1 DEF Before
  <2> HIDE DEF x
  <2> QED BY <2>1, <2>4, <2>5, <2>6, Empty DEF VersionsConnected, Committed
<1>3. CASE Redo
  <2> DEFINE x == Top(redoStack)
  <2>1. /\ redoStack # <<>> /\ document' = Top(x).new
        /\ redoStack' = Pop(redoStack) /\ undoStack' = Append(undoStack, x)
        /\ transactionCommands = <<>> /\ transactionCommands' = <<>> /\ ~disturbed
    BY <1>3 DEF Redo
  <2>2. x \in Compound
    BY <1>0, <2>1, Popped
  <2>3. /\ Line(undoStack) /\ LineBack(redoStack) /\ Before(x) = document
        /\ undoStack # <<>> => After(Top(undoStack)) = document
    BY <1>0, <2>1 DEF VersionsConnected, Committed
  <2>4. /\ LineBack(Pop(redoStack)) /\ Chained(x)
        /\ Pop(redoStack) # <<>> => Before(Top(Pop(redoStack))) = After(x)
    BY <1>0, <2>1, <2>3, PoppedLine
  <2>5. Line(Append(undoStack, x)) /\ Top(Append(undoStack, x)) = x
    BY <1>0, <2>2, <2>3, <2>4, PushedLine, Pushed
  <2>6. document' = After(x)
    BY <2>1 DEF After
  <2> HIDE DEF x
  <2> QED BY <2>1, <2>4, <2>5, <2>6, Empty DEF VersionsConnected, Committed
<1>4. CASE UndoThrows \/ RedoThrows
  BY <1>4 DEF UndoThrows, RedoThrows
<1>5. CASE BeginTransaction
  BY <1>0, <1>5, Empty DEF BeginTransaction, VersionsConnected, Committed
<1>6. CASE CommitTransaction
  <2>1. CASE transactionCommands = <<>>
    BY <1>0, <1>6, <2>1 DEF CommitTransaction, VersionsConnected, Committed
  <2>2. CASE transactionCommands # <<>>
    <3> DEFINE t == transactionCommands
               u == PushLimited(undoStack, t)
    <3>1. /\ undoStack' = u /\ redoStack' = <<>> /\ document' = document
          /\ transactionCommands' = <<>> /\ ~disturbed
      BY <1>6, <2>2 DEF CommitTransaction
    <3>2. t \in Compound
      BY <1>0, <2>2, Compounds
    <3>3. /\ Chained(t) /\ After(t) = document /\ Before(t) = Committed
          /\ Line(undoStack) /\ (undoStack # <<>> => After(Top(undoStack)) = Committed)
      BY <1>0, <2>2, <3>1 DEF VersionsConnected, Committed, Before, After
    <3>4. Line(u) /\ Top(u) = t
      BY <1>0, <3>2, <3>3, PushedLimitedLine, PushedLimited
    <3> HIDE DEF u, t
    <3> QED BY <3>1, <3>3, <3>4, Empty DEF VersionsConnected, Committed
  <2> QED BY <2>1, <2>2
<1>7. CASE RollbackTransaction
  BY <1>0, <1>7, Empty DEF RollbackTransaction, VersionsConnected, Committed
<1>8. CASE Clear
  BY <1>8, Empty DEF Clear, VersionsConnected
<1>9. CASE UNCHANGED vars
  BY <1>0, <1>9 DEF vars, VersionsConnected, Committed, Line, LineBack, Chained, Before, After, Top
<1> QED BY <1>1, <1>2, <1>3, <1>4, <1>5, <1>6, <1>7, <1>8, <1>9 DEF Next

\* Undo and redo step along one unbroken line of versions that ends, or goes
\* on, at the document, for every history size: dropping the oldest command,
\* transactions that open, grow and close, and new commands after an undo never
\* leave a gap or a version that does not belong.
THEOREM OneLineOfVersions == Spec => []VersionsConnected
<1>1. Init => IInv
  BY TypeInit, Empty DEF Init, IInv, GatheredInside, VersionsConnected
<1>2. IInv /\ [Next]_vars => IInv'
  BY TypeNext, GatheredNext, ConnectedNext DEF IInv
<1>3. IInv => VersionsConnected
  BY DEF IInv
<1> QED BY <1>1, <1>2, <1>3, PTL DEF Spec
=============================================================================

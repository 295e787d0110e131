------------------------------ MODULE UndoRedo ------------------------------
(***************************************************************************)
(* The HistoryManager of modules/presentation/undo-redo.mjs: an undo and a *)
(* redo stack, transactions that become one compound command, a limit on   *)
(* the undo stack, and commands whose editor may throw.                    *)
(*                                                                         *)
(* A command takes what it edits from one value to another, as a           *)
(* ToolLibraryCommand or a MeshCompensationCommand does: execute() sets    *)
(* the new one and undo() the old one, whatever is there.  A compound is   *)
(* the sequence of its commands, and a plain command the sequence of       *)
(* itself alone.  The keyboard shortcuts may call undo() and redo() at any *)
(* moment, inside a transaction too.                                       *)
(***************************************************************************)
EXTENDS Integers, Sequences

CONSTANTS Values,          \* what the document (or tool, or mesh) may be
          maxHistorySize,
          MaxTransaction   \* bound: commands of one transaction

ASSUME LimitAssumption == maxHistorySize \in Nat \ {0} /\ MaxTransaction \in Nat
ASSUME ValuesAssumption == Values # {}

VARIABLES document, undoStack, redoStack, inTransaction, transactionCommands,
          disturbed    \* history: a command that is applied was forgotten or
                       \* undone out of turn

vars == <<document, undoStack, redoStack, inTransaction, transactionCommands, disturbed>>

Command == [old : Values, new : Values]
Compound == Seq(Command) \ {<<>>}

Top(s) == s[Len(s)]
Pop(s) == SubSeq(s, 1, Len(s) - 1)

\* Mutant: the limit is looked at before the push.
PushLimitedEarly(s, x) ==
  IF Len(s) > maxHistorySize THEN Append(Tail(s), x) ELSE Append(s, x)

\* push, and the shift that enforces the limit.
PushLimited(s, x) ==
  LET pushed == Append(s, x)
  IN IF Len(pushed) > maxHistorySize THEN Tail(pushed) ELSE pushed

Init ==
  /\ document \in Values
  /\ undoStack = <<>> /\ redoStack = <<>>
  /\ inTransaction = FALSE /\ transactionCommands = <<>>
  /\ disturbed = FALSE

----------------------------------------------------------------------------
\* Mutant: what was undone can still be redone after a new command.
ExecuteKeepRedo(v) ==
  /\ document' = v
  /\ LET command == [old |-> document, new |-> v]
     IN \/ /\ inTransaction
           /\ Len(transactionCommands) < MaxTransaction
           /\ transactionCommands' = Append(transactionCommands, command)
           /\ UNCHANGED <<undoStack, redoStack>>
        \/ /\ ~inTransaction
           /\ undoStack' = PushLimited(undoStack, <<command>>)
           /\ UNCHANGED <<redoStack, transactionCommands>>
  /\ UNCHANGED <<inTransaction, disturbed>>

\* A command of the application, made from the document as it is.  If its
\* editor throws, execute() changes nothing.
Execute(v) ==
  /\ document' = v
  /\ LET command == [old |-> document, new |-> v]
     IN \/ /\ inTransaction
           /\ Len(transactionCommands) < MaxTransaction
           /\ transactionCommands' = Append(transactionCommands, command)
           /\ UNCHANGED <<undoStack, redoStack>>
        \/ /\ ~inTransaction
           /\ undoStack' = PushLimited(undoStack, <<command>>)
           /\ redoStack' = <<>>
           /\ UNCHANGED transactionCommands
  /\ UNCHANGED <<inTransaction, disturbed>>

\* Undone in reverse order, the first command is the last to set the document.
Undo ==
  /\ undoStack # <<>>
  /\ document' = Top(undoStack)[1].old
  /\ undoStack' = Pop(undoStack)
  /\ redoStack' = Append(redoStack, Top(undoStack))
  /\ disturbed' = (disturbed \/ transactionCommands # <<>>)
  /\ UNCHANGED <<inTransaction, transactionCommands>>

Redo ==
  /\ redoStack # <<>>
  /\ document' = Top(Top(redoStack)).new
  /\ redoStack' = Pop(redoStack)
  /\ undoStack' = Append(undoStack, Top(redoStack))
  /\ disturbed' = (disturbed \/ transactionCommands # <<>>)
  /\ UNCHANGED <<inTransaction, transactionCommands>>

\* The editor throws in the k-th undo of a compound: the command has left its
\* stack and goes to neither.
UndoThrows ==
  /\ undoStack # <<>>
  /\ \E k \in 1..Len(Top(undoStack)) :
       document' = IF k = Len(Top(undoStack)) THEN document ELSE Top(undoStack)[k + 1].old
  /\ undoStack' = Pop(undoStack)
  /\ disturbed' = TRUE
  /\ UNCHANGED <<redoStack, inTransaction, transactionCommands>>

RedoThrows ==
  /\ redoStack # <<>>
  /\ \E k \in 1..Len(Top(redoStack)) :
       document' = IF k = 1 THEN document ELSE Top(redoStack)[k - 1].new
  /\ redoStack' = Pop(redoStack)
  /\ disturbed' = TRUE
  /\ UNCHANGED <<undoStack, inTransaction, transactionCommands>>

\* A second begin forgets the commands of the first.
BeginTransaction ==
  /\ inTransaction' = TRUE
  /\ transactionCommands' = <<>>
  /\ disturbed' = (disturbed \/ transactionCommands # <<>>)
  /\ UNCHANGED <<document, undoStack, redoStack>>

\* Mutant: an empty transaction is pushed too.
CommitEmptyTransaction ==
  /\ inTransaction
  /\ inTransaction' = FALSE
  /\ transactionCommands' = <<>>
  /\ undoStack' = PushLimited(undoStack, transactionCommands)
  /\ redoStack' = <<>>
  /\ UNCHANGED <<document, disturbed>>

CommitTransaction ==
  /\ inTransaction
  /\ inTransaction' = FALSE
  /\ transactionCommands' = <<>>
  /\ IF transactionCommands = <<>>
       THEN UNCHANGED <<undoStack, redoStack>>
       ELSE /\ undoStack' = PushLimited(undoStack, transactionCommands)
            /\ redoStack' = <<>>
  /\ UNCHANGED <<document, disturbed>>

\* The commands are forgotten, not undone.
RollbackTransaction ==
  /\ inTransaction
  /\ inTransaction' = FALSE
  /\ transactionCommands' = <<>>
  /\ disturbed' = (disturbed \/ transactionCommands # <<>>)
  /\ UNCHANGED <<document, undoStack, redoStack>>

\* clear() leaves a transaction open, empty.
Clear ==
  /\ undoStack' = <<>> /\ redoStack' = <<>> /\ transactionCommands' = <<>>
  /\ UNCHANGED <<document, inTransaction, disturbed>>

----------------------------------------------------------------------------
Next ==
  \/ \E v \in Values : Execute(v)
  \/ Undo \/ Redo \/ UndoThrows \/ RedoThrows
  \/ BeginTransaction \/ CommitTransaction \/ RollbackTransaction
  \/ Clear

Spec == Init /\ [][Next]_vars

----------------------------------------------------------------------------
\* Types: the stacks hold compounds that are never empty.
TypeOK ==
  /\ document \in Values
  /\ undoStack \in Seq(Compound) /\ redoStack \in Seq(Compound)
  /\ inTransaction \in BOOLEAN /\ disturbed \in BOOLEAN
  /\ transactionCommands \in Seq(Command)

\* maxHistorySize holds for what can be undone and redone together, although
\* redo() pushes without looking at it and a transaction keeps the redo stack.
HistoryBounded == Len(undoStack) + Len(redoStack) <= maxHistorySize

\* Consecutive commands meet: each starts from what the one before it left.
Chained(commands) ==
  \A i \in 1..(Len(commands) - 1) : commands[i].new = commands[i + 1].old

\* The value before and after a compound.
Before(compound) == compound[1].old
After(compound) == Top(compound).new

\* Each compound of a stack is chained, and leads to the one pushed after it;
\* on the redo stack to the one pushed before it.
Line(stack) ==
  /\ \A i \in DOMAIN stack : Chained(stack[i])
  /\ \A i \in 1..(Len(stack) - 1) : After(stack[i]) = Before(stack[i + 1])
LineBack(stack) ==
  /\ \A i \in DOMAIN stack : Chained(stack[i])
  /\ \A i \in 1..(Len(stack) - 1) : Before(stack[i]) = After(stack[i + 1])

\* The document without the open transaction.
Committed == IF transactionCommands = <<>> THEN document ELSE transactionCommands[1].old

\* Undo and redo walk one unbroken line of versions, each step taking the
\* document exactly to the next version on it, unless an applied command was
\* forgotten (rollback, a second begin, an editor that threw) or something was
\* undone under an open transaction: the undo stack leads up to the document,
\* through the open transaction, and the redo stack leads on from there.
VersionsConnected ==
  ~disturbed =>
    /\ Line(undoStack) /\ LineBack(redoStack) /\ Chained(transactionCommands)
    /\ transactionCommands # <<>> => Top(transactionCommands).new = document
    /\ undoStack # <<>> => After(Top(undoStack)) = Committed
    /\ redoStack # <<>> => Before(Top(redoStack)) = Committed
=============================================================================

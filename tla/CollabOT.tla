------------------------------ MODULE CollabOT ------------------------------
(***************************************************************************)
(* The sessions and edits of modules/cloud/collaboration-engine.mjs.       *)
(* submitEdit() moves an insert to the right by every earlier insert of    *)
(* the project that lies at or before it, and announces the result; the    *)
(* engine applies nothing to a text itself.                                *)
(*                                                                         *)
(* One project.  Other operations pass unchanged and are left out, as are  *)
(* colours and cursors, and presenceTimeout, which nothing reads.  A       *)
(* comment is its number of replies.                                       *)
(***************************************************************************)
EXTENDS Integers, Sequences, FiniteSets, SequencesExt, FiniteSetsExt

CONSTANTS Users,
          maxConcurrentUsers,
          TextLength,          \* of the text the first session finds
          MaxOps, MaxLength,   \* bounds: edits, length of an insert
          MaxComments          \* bound: comments, and replies to one

Assumption == maxConcurrentUsers \in Nat \ {0} /\ TextLength \in Nat

VARIABLES activeUsers,
          version,
          comments,     \* the number of replies to each
          messageQueue, \* events kept since the last clearHistory(), 2 for two or more
          operations,   \* the inserts as transformed: position and length
          text,         \* history: what a client has that applies the events in order,
                        \* each insert a mark with the place it was meant for
          stale         \* history: every insert was made on the first text

vars == <<activeUsers, version, comments, messageQueue, operations, text, stale>>

Gap(p) == 2 * p          \* the place between two characters of the first text
Character(n) == 2 * n - 1

Init ==
  /\ activeUsers = {} /\ version = 0 /\ operations = <<>> /\ comments = <<>>
  /\ messageQueue = 0
  /\ text = [i \in 1..TextLength |-> Character(i)]
  /\ stale = TRUE

Queued == messageQueue' = IF messageQueue < 2 THEN messageQueue + 1 ELSE messageQueue

\* At capacity a user who is there already is refused, too.
JoinSession(u) ==
  /\ Cardinality(activeUsers) < maxConcurrentUsers
  /\ activeUsers' = activeUsers \cup {u}
  /\ Queued /\ UNCHANGED <<version, comments, operations, text, stale>>

LeaveSession(u) ==
  /\ u \in activeUsers /\ activeUsers' = activeUsers \ {u}
  /\ Queued /\ UNCHANGED <<version, comments, operations, text, stale>>

\* Mutant of the next operator: by one, however long the insert was.
TransformedByOne(position) ==
  FoldLeft(LAMBDA p, op : IF op.position <= p THEN p + 1 ELSE p, position, operations)

\* _applyOperationalTransform(): by all inserts, those the author had seen, too.
Transformed(position) ==
  FoldLeft(LAMBDA p, op : IF op.position <= p THEN p + op.length ELSE p, position, operations)

Insert(p, length, place) ==
  SubSeq(text, 1, p) \o [i \in 1..length |-> place] \o SubSeq(text, p + 1, Len(text))

\* base: the author had seen the first text only; otherwise the present one, in which
\* a client puts an insert beyond the end at the end.
SubmitEdit(u, position, length, base) ==
  LET p == Transformed(position)
  IN /\ u \in activeUsers /\ Len(operations) < MaxOps
     /\ position <= IF base THEN TextLength ELSE Len(text)
     /\ operations' = Append(operations, [position |-> p, length |-> length])
     /\ version' = version + 1
     /\ text' = Insert(IF p <= Len(text) THEN p ELSE Len(text), length, Gap(position))
     /\ stale' = (stale /\ base)
     /\ Queued /\ UNCHANGED <<activeUsers, comments>>

AddComment(u) ==
  /\ u \in activeUsers /\ Len(comments) < MaxComments
  /\ comments' = Append(comments, 0)
  /\ Queued /\ UNCHANGED <<activeUsers, version, operations, text, stale>>

ReplyToComment(u, c) ==
  /\ u \in activeUsers /\ comments[c] < MaxComments
  /\ comments' = [comments EXCEPT ![c] = @ + 1]
  /\ Queued /\ UNCHANGED <<activeUsers, version, operations, text, stale>>

ClearHistory ==
  /\ messageQueue > 0 /\ messageQueue' = 0
  /\ UNCHANGED <<activeUsers, version, comments, operations, text, stale>>

Next ==
  \/ \E u \in Users : JoinSession(u) \/ LeaveSession(u) \/ AddComment(u)
  \/ \E u \in Users, c \in DOMAIN comments : ReplyToComment(u, c)
  \/ ClearHistory
  \/ \E u \in Users, position \in 0..(TextLength + MaxOps * MaxLength),
        length \in 1..MaxLength, base \in BOOLEAN : SubmitEdit(u, position, length, base)

Spec == Init /\ [][Next]_vars

----------------------------------------------------------------------------
\* getStatistics(): nothing but a message while nobody is there.
NoActiveUsers == [message |-> "No active users"]
Statistics ==
  IF activeUsers = {} THEN NoActiveUsers
  ELSE [activeUsers |-> Cardinality(activeUsers), totalOperations |-> Len(operations),
        totalComments |-> Len(comments), queuedMessages |-> messageQueue]

----------------------------------------------------------------------------
TypeOK ==
  /\ activeUsers \subseteq Users /\ Cardinality(activeUsers) <= maxConcurrentUsers
  /\ version \in 0..MaxOps /\ messageQueue \in 0..2
  /\ comments \in Seq(0..MaxComments)
  /\ operations \in Seq([position : Nat, length : 1..MaxLength])
  /\ text \in Seq(Nat) /\ stale \in BOOLEAN

\* Inserts that are all made on the first text end up where their authors meant
\* them, however many there are, whoever submits them, in whatever order: between the
\* same two characters, nothing overwritten.  (With authors who had seen
\* earlier inserts they do not: the engine moves those again.)
EditsWhereMeant ==
  /\ Statistics # NoActiveUsers => /\ Statistics.totalOperations = version
                                   /\ Statistics.activeUsers <= maxConcurrentUsers
  /\ stale => /\ Len(text) = TextLength + FoldLeft(LAMBDA n, op : n + op.length, 0, operations)
              /\ \A i, j \in DOMAIN text : i < j => text[i] <= text[j]
=============================================================================

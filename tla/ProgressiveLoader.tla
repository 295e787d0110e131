------------------------- MODULE ProgressiveLoader -------------------------
(***************************************************************************)
(* The three classes of modules/backend/progressive-loader.mjs, which do   *)
(* their work in chunks and can be cancelled: the parser, the mesh         *)
(* generator and the command processor.  A loader has one flag and any     *)
(* number of calls, each of which clears the flag; a call looks at it      *)
(* before a chunk.                                                         *)
(*                                                                         *)
(* A chunk ends in an event.  The mesh generator sleeps after each, the    *)
(* others only if told to; without a sleep the listeners of the event are  *)
(* all that runs between two chunks, and what they start runs to its end   *)
(* first.  A listener that throws makes the call reject.                   *)
(*                                                                         *)
(* A chunk stands for commands that all fare alike; what a line says and   *)
(* what height a grid point gets are left out.                             *)
(***************************************************************************)
EXTENDS Integers, Sequences, FiniteSets

CONSTANTS Chunks,    \* bound: of lines, probes or commands in a call
          GridSize,  \* of the mesh
          MaxCalls   \* bound

ASSUME LoaderAssumption == Chunks \in Nat \ {0} /\ GridSize \in Nat \ {0} /\ MaxCalls \in Nat

Kinds == {"parser", "mesh", "processor"}
Ended == {"complete", "cancelled", "nothing", "rejected"}

VARIABLES kind, delays,  \* the class, and whether it sleeps between chunks
          isCancelled,
          calls,         \* what each call has done, and how it ended
          asked          \* history: call with a look at the flag ahead of it when
                         \* cancelled -> chunks done then; until another call starts

loaderVars == <<kind, delays, isCancelled, calls, asked>>

Running == {c \in DOMAIN calls : calls[c].state = "running"}

LoaderInit ==
  /\ kind \in Kinds /\ delays \in BOOLEAN /\ (kind = "mesh" => delays)
  /\ isCancelled = FALSE /\ calls = <<>> /\ asked = [c \in {} |-> 0]

\* The grid points are announced, and the mesh generator sleeps, after every twentieth.
GridPoints == (GridSize + 1) * (GridSize + 1)
Units(n) == IF kind = "mesh" THEN n + (GridPoints \div 20) ELSE n

\* Grid points follow the last sleep, and each looks at the flag.
LastLook == kind = "mesh" /\ GridPoints % 20 # 0

\* The results a chunk leaves.  A line may hold no command.  A command whose processor
\* throws leaves an error; one without parameters leaves its result and then an error.
Results(how) == CASE how = "comment" -> 0 [] how = "half" -> 2 [] OTHER -> 1
Outcomes == CASE kind = "parser" -> {"ok", "comment"}
              [] kind = "processor" -> {"ok", "throws", "half"}
              [] OTHER -> {"ok"}

\* A chunk and its event.
Worked(call, how, throws) ==
  [call EXCEPT !.done = @ + 1,
               !.results = @ + Results(how),
               !.processed = IF how \in {"throws", "half"} THEN @ ELSE @ + 1,
               !.state = IF throws THEN "rejected" ELSE @]

Finished(call, end, throws) == [call EXCEPT !.state = IF throws THEN "rejected" ELSE end]

Called(n) == [state |-> "running", units |-> Units(n), done |-> 0, results |-> 0, processed |-> 0]

\* A call up to the event of its first chunk.  A text has at least one line.
Start(n, how, throws) ==
  /\ Len(calls) < MaxCalls
  /\ kind = "parser" => n > 0
  /\ isCancelled' = FALSE
  /\ calls' = Append(calls,
       IF n > 0 THEN Worked(Called(n), how, throws)
       ELSE Finished([Called(0) EXCEPT !.units = 0],
                     IF kind = "mesh" THEN "nothing" ELSE "complete", throws))
  /\ asked' = [c \in {} |-> 0]
  /\ UNCHANGED <<kind, delays>>

Looks(c) == calls[c].done < calls[c].units \/ LastLook

Cancel ==
  /\ isCancelled' = TRUE
  /\ asked' = [c \in {d \in Running : Looks(d)} |-> calls[c].done]
  /\ UNCHANGED <<kind, delays, calls>>

\* Without sleeps, a call waits for the one its listener started.
Turn(c) == c \in Running /\ (delays \/ \A d \in Running : d <= c)

\* Mutant of the next operator: the flag is looked at once, as the call starts.
GoesOnOnce(c) == calls[c].done < calls[c].units

GoesOn(c) == calls[c].done < calls[c].units /\ ~isCancelled

NextChunk(c, how, throws) ==
  /\ Turn(c) /\ GoesOn(c)
  /\ calls' = [calls EXCEPT ![c] = Worked(@, how, throws)]
  /\ UNCHANGED <<kind, delays, isCancelled, asked>>

StopCancelled(c, throws) ==
  /\ Turn(c) /\ Looks(c) /\ isCancelled
  /\ calls' = [calls EXCEPT ![c] = Finished(@, "cancelled", throws)]
  /\ UNCHANGED <<kind, delays, isCancelled, asked>>

\* A parser or processor cancelled during its last sleep completes.
Complete(c, throws) ==
  /\ Turn(c) /\ calls[c].done = calls[c].units /\ (LastLook => ~isCancelled)
  /\ calls' = [calls EXCEPT ![c] = Finished(@, "complete", throws)]
  /\ UNCHANGED <<kind, delays, isCancelled, asked>>

LoaderNext ==
  \/ Cancel
  \/ \E throws \in BOOLEAN :
       \/ \E how \in Outcomes :
            \/ \E n \in 0..Chunks : Start(n, how, throws)
            \/ \E c \in DOMAIN calls : NextChunk(c, how, throws)
       \/ \E c \in DOMAIN calls : StopCancelled(c, throws) \/ Complete(c, throws)

LoaderSpec == LoaderInit /\ [][LoaderNext]_loaderVars

----------------------------------------------------------------------------
Call == [state : {"running"} \cup Ended, units : Nat, done : Nat, results : Nat, processed : Nat]

LoaderTyped ==
  /\ kind \in Kinds /\ delays \in BOOLEAN /\ isCancelled \in BOOLEAN
  /\ calls \in Seq(Call)
  /\ DOMAIN asked \subseteq DOMAIN calls /\ \A c \in DOMAIN asked : asked[c] \in Nat

\* A call that is cancelled with a look at the flag ahead of it works no further chunk
\* and never completes, as long as nobody starts another one: that clears the flag for
\* all, and the cancelled call goes on beside it.  A call that says it is complete has
\* done every chunk, and counted no command as processed that left no result.
CancelledNeverCompletes ==
  \A c \in DOMAIN calls :
    /\ calls[c].state = "complete" => calls[c].done = calls[c].units
    /\ calls[c].processed <= calls[c].done
    /\ kind = "processor" => calls[c].done <= calls[c].results
    /\ c \in DOMAIN asked =>
         calls[c].done = asked[c] /\ calls[c].state \in {"running", "cancelled", "rejected"}
=============================================================================

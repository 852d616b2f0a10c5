------------------------------- MODULE UtilRun -------------------------------
(***************************************************************************)
(* A child process and its reader. Util.run reads the child's output to    *)
(* its end, and then its errors; DiskPartition.readPartitions and the other*)
(* readers of a command's output leave the errors alone. The child writes  *)
(* lines to the two pipes in any order and waits while the pipe it writes  *)
(* to is full.                                                             *)
(***************************************************************************)
EXTENDS Integers

CONSTANTS
    Capacity,   \* lines that a pipe holds
    MaxOut,     \* bound: lines of output of a child
    MaxErr      \* bound: lines of errors

ASSUME RunAssumption ==
    /\ Capacity \in Nat \ {0}
    /\ MaxOut \in Nat
    /\ MaxErr \in Nat

VARIABLES
    running,    \* the thread in its call, "idle" between calls
    caller,     \* "run", or "df" for a reader of the output alone
    plan,       \* lines the child will write: plan.out, plan.err
    child,      \* the lines it has still to write, and whether it is alive
    pipe,       \* pipe.out, pipe.err: lines in the pipes
    builder,    \* lines in the StringBuilder
    broken      \* a read or the exec has thrown an IOException

runVars == <<running, caller, plan, child, pipe, builder, broken>>

Nothing == [out |-> 0, err |-> 0]
NoChild == [out |-> 0, err |-> 0, alive |-> FALSE]

RunIdle == running = "idle"

RunInit ==
    /\ running = "idle"
    /\ caller = "run"
    /\ plan = Nothing
    /\ child = NoChild
    /\ pipe = Nothing
    /\ builder = 0
    /\ broken = FALSE

-----------------------------------------------------------------------------
(* The child.                                                              *)

ChildWrites ==
    /\ child.alive
    /\ \E stream \in {"out", "err"} :
          /\ child[stream] > 0
          /\ pipe[stream] < Capacity
          /\ child' = [child EXCEPT ![stream] = @ - 1]
          /\ pipe' = [pipe EXCEPT ![stream] = @ + 1]
    /\ UNCHANGED <<running, caller, plan, builder, broken>>

\* Its ends of both pipes are closed with it.
ChildExits ==
    /\ child.alive
    /\ child.out = 0 /\ child.err = 0
    /\ child' = [child EXCEPT !.alive = FALSE]
    /\ UNCHANGED <<running, caller, plan, pipe, builder, broken>>

-----------------------------------------------------------------------------
(* The readers.                                                            *)

\* A command that writes so many lines of output, and any number of errors.
Exec(reader, lines) ==
    /\ running = "idle"
    /\ running' = "out"
    /\ caller' = reader
    /\ plan' \in [out : {lines}, err : 0 .. MaxErr]
    /\ child' = [out |-> plan'.out, err |-> plan'.err, alive |-> TRUE]
    /\ UNCHANGED <<pipe, builder, broken>>

RunCommand == \E lines \in 0 .. MaxOut : Exec("run", lines)

OutputLine ==
    /\ pipe.out > 0
    /\ pipe' = [pipe EXCEPT !.out = @ - 1]
    /\ builder' = builder + 1
    /\ UNCHANGED running

OutputEnds ==
    /\ running' = IF caller = "run" THEN "err" ELSE "finally"
    /\ UNCHANGED <<pipe, builder>>

\* Faulty ReadOutput: what is in the pipe when the child ends is left there.
ReadOutputWhileAlive ==
    /\ running = "out"
    /\ (child.alive /\ OutputLine) \/ (~child.alive /\ OutputEnds)
    /\ UNCHANGED <<caller, plan, child, broken>>

\* Faulty ReadOutput: the child is waited for first.
ReadOutputAfterExit ==
    /\ running = "out"
    /\ ~child.alive
    /\ OutputLine \/ (pipe.out = 0 /\ OutputEnds)
    /\ UNCHANGED <<caller, plan, child, broken>>

\* readLine() of the output, which blocks while the pipe is empty and the child
\* alive; at its end run() closes the stream and reads the errors.
ReadOutput ==
    /\ running = "out"
    /\ OutputLine \/ (pipe.out = 0 /\ ~child.alive /\ OutputEnds)
    /\ UNCHANGED <<caller, plan, child, broken>>

\* The errors go to the log.
ReadErrors ==
    /\ running = "err"
    /\ \/ /\ pipe.err > 0
          /\ pipe' = [pipe EXCEPT !.err = @ - 1]
          /\ UNCHANGED running
       \/ /\ pipe.err = 0 /\ ~child.alive
          /\ running' = "finally"
          /\ UNCHANGED pipe
    /\ UNCHANGED <<caller, plan, child, builder, broken>>

\* exec, or reading either stream, throws; what was read before is returned.
ReadFails ==
    /\ running \in {"out", "err"}
    /\ running' = "finally"
    /\ broken' = TRUE
    /\ UNCHANGED <<caller, plan, child, pipe, builder>>

\* p.destroy(), and br.close().
Destroy ==
    /\ running = "finally"
    /\ running' = "returned"
    /\ child' = NoChild
    /\ pipe' = Nothing
    /\ UNCHANGED <<caller, plan, builder, broken>>

RunDone ==
    /\ running = "returned"
    /\ running' = "idle"
    /\ caller' = "run"
    /\ plan' = Nothing
    /\ builder' = 0
    /\ broken' = FALSE
    /\ UNCHANGED <<child, pipe>>

ChildStep == ChildWrites \/ ChildExits
RunStep == ReadOutput \/ ReadErrors \/ Destroy

-----------------------------------------------------------------------------
(* Properties.                                                             *)

\* A reader returns if the child's errors fit into their pipe, however much output
\* there is and in whatever order the two are written. (A child with more
\* errors waits for them to be read, and the reader for the end of its output.)
RunReturns == (running = "out" /\ plan.err <= Capacity) ~> running = "returned"

\* What it has read is all of the output, unless reading failed; and the child
\* is gone.
OutputIsWhole ==
    running = "returned" => (builder = plan.out \/ broken) /\ ~child.alive
=============================================================================

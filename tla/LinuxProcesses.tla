---------------------------- MODULE LinuxProcesses ----------------------------
(***************************************************************************)
(* Process.getProcesses of the Linux library: the directories of /proc are *)
(* listed, and of each the files status and cmdline are read, one after    *)
(* the other, while processes start, end and are given the pids of others. *)
(* A directory whose status cannot be read or parsed is passed over.       *)
(*                                                                         *)
(* A process is known by its pid and the number of its start; those that   *)
(* run when the call begins have number 1. What a Process has of the two   *)
(* files is whose they were. What runs between two calls is of no account. *)
(***************************************************************************)
EXTENDS Naturals

CONSTANTS
    ProcDirs,       \* names, which are pids, that directories of /proc may have
    MaxSpawned      \* bound: the number of the last process that starts

ASSUME ProcessesAssumption ==
    /\ "no dir" \notin ProcDirs
    /\ MaxSpawned \in Nat

VARIABLES
    walking,    \* the file that is read next, "idle" between calls
    alive,      \* alive[dir]: the process that runs
    spawned,    \* number of the last process started
    dirs,       \* directories still to come
    dir,        \* the one whose files are read
    statusOf,   \* the process whose status p has
    processes   \* the list that is returned, as a set

processesVars == <<walking, alive, spawned, dirs, dir, statusOf, processes>>

\* A status can be parsed, has a number of kB that is no int, or cannot be read
\* by this user.
Statuses == {"plain", "huge", "hidden"}
NoProcess == [number |-> 0, status |-> "none"]
NoneAlive == [d \in ProcDirs |-> NoProcess]
NoDir == "no dir"

WalkIdle == walking = "idle"
AliveDirs == {d \in ProcDirs : alive[d] # NoProcess}

WalkInit ==
    /\ walking = "idle"
    /\ alive = NoneAlive
    /\ spawned = 1
    /\ dirs = {}
    /\ dir = NoDir
    /\ statusOf = 0
    /\ processes = {}

-----------------------------------------------------------------------------
(* The machine, while the call is under way.                               *)

Walking == walking \in {"status", "cmdline"}

Spawn ==
    /\ Walking
    /\ spawned < MaxSpawned
    /\ spawned' = spawned + 1
    /\ \E d \in ProcDirs \ AliveDirs, s \in Statuses :
           alive' = [alive EXCEPT ![d] = [number |-> spawned', status |-> s]]
    /\ UNCHANGED <<walking, dirs, dir, statusOf, processes>>

Exit ==
    /\ Walking
    /\ \E d \in AliveDirs : alive' = [alive EXCEPT ![d] = NoProcess]
    /\ UNCHANGED <<walking, spawned, dirs, dir, statusOf, processes>>

-----------------------------------------------------------------------------
(* The call.                                                               *)

\* The directories are listed, of whatever runs.
GetProcesses ==
    /\ walking = "idle"
    /\ walking' = "status"
    /\ alive' \in [ProcDirs -> {NoProcess} \union [number : {1}, status : Statuses]]
    /\ dirs' = {d \in ProcDirs : alive'[d] # NoProcess}
    /\ UNCHANGED <<spawned, dir, statusOf, processes>>

ReadStatus ==
    /\ walking = "status"
    /\ walking' = "cmdline"
    /\ \E d \in dirs :
           /\ alive[d].status = "plain"
           /\ dir' = d
           /\ statusOf' = alive[d].number
           /\ dirs' = dirs \ {d}
    /\ UNCHANGED <<alive, spawned, processes>>

\* Faulty IgnoreException: it is caught outside the loop.
EndAtException ==
    /\ walking = "status"
    /\ \E d \in dirs : alive[d].status # "plain"
    /\ dirs' = {}
    /\ UNCHANGED <<walking, alive, spawned, dir, statusOf, processes>>

\* The process has ended, its status is not for this user, or a number in it
\* is too large for Integer.valueOf: it is not in the list. (That the program
\* has no more file descriptors is left out.)
IgnoreException ==
    /\ walking = "status"
    /\ \E d \in dirs :
           /\ alive[d].status # "plain"
           /\ dirs' = dirs \ {d}
    /\ UNCHANGED <<walking, alive, spawned, dir, statusOf, processes>>

\* An IOException of the second file leaves cmdLine null, and the process is
\* added. The path may lead to another process by now.
ReadCmdLine ==
    /\ walking = "cmdline"
    /\ walking' = "status"
    /\ LET cmdLineOf == IF alive[dir].status \in {"plain", "huge"} THEN alive[dir].number ELSE 0
       IN  processes' = processes \union {[pid |-> dir, status |-> statusOf, cmdLine |-> cmdLineOf]}
    /\ dir' = NoDir
    /\ statusOf' = 0
    /\ UNCHANGED <<alive, spawned, dirs>>

WalkEnds ==
    /\ walking = "status"
    /\ dirs = {}
    /\ walking' = "returned"
    /\ UNCHANGED <<alive, spawned, dirs, dir, statusOf, processes>>

WalkDone ==
    /\ walking = "returned"
    /\ walking' = "idle"
    /\ alive' = NoneAlive
    /\ spawned' = 1
    /\ processes' = {}
    /\ UNCHANGED <<dirs, dir, statusOf>>

WalkCall == GetProcesses \/ ReadStatus \/ IgnoreException \/ ReadCmdLine \/ WalkEnds \/ WalkDone

WalkNext == Spawn \/ Exit \/ WalkCall

-----------------------------------------------------------------------------
(* Properties.                                                             *)

\* However processes come and go during the call, one that runs throughout and
\* can be read is listed with its own command line; no pid is listed twice; and
\* a command line of another process is that of one that was given the pid.
ListedAsTheyRan ==
    walking = "returned" =>
        /\ \A d \in ProcDirs :
              alive[d] = [number |-> 1, status |-> "plain"] =>
                  [pid |-> d, status |-> 1, cmdLine |-> 1] \in processes
        /\ \A p, q \in processes : p.pid = q.pid => p = q
        /\ \A p \in processes : p.cmdLine = 0 \/ p.status <= p.cmdLine
=============================================================================

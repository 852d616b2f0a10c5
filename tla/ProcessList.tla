----------------------------- MODULE ProcessList -----------------------------
(***************************************************************************)
(* Process.getProcesses and Process.refresh of the Windows library, and    *)
(* the native calls under them, by one client that lists the processes and *)
(* refreshes what it was given, while processes start, end and are given   *)
(* the pids of others.                                                     *)
(*                                                                         *)
(* A process is known by its pid and the number of its start. Of a Process *)
(* object the model keeps whose name, times and memory counters it has.    *)
(* What the machine does while the client has no objects is of no account. *)
(***************************************************************************)
EXTENDS Naturals, FiniteSets

CONSTANTS
    ProcessIds,     \* process identifiers
    Refused,        \* those OpenProcess refuses and getProcesses knows: 0 and 4
    MaxBorn         \* bound: processes started

ASSUME ProcessListAssumption ==
    /\ Refused \subseteq ProcessIds /\ "no pid" \notin ProcessIds
    /\ MaxBorn \in Nat

VARIABLES
    running,        \* running[pid]: the process that runs, 0 if none
    born,           \* processes started
    stage,          \* the native call to come, "listed" between calls, "idle" without objects
    unseen,         \* pids of the array that getProcesses has still to visit
    current,        \* pid that the call is about
    outer, inner,   \* processes behind the handles of getProcesses and refresh, 0 if none
    object,         \* the Process that is constructed or refreshed
    listed          \* the client's objects, by pid

processVars == <<running, born, stage, unseen, current, outer, inner, object, listed>>
machineVars == <<running, born>>

\* The natives that work on a handle; a refresh uses them in this order.
HandleNatives == {"OpenProcess", "GetModuleBaseName", "GetProcessTimes", "GetProcessMemoryInfo", "CloseHandle"}

Garbage == MaxBorn + 1      \* of no process: memory that nobody has set
NoPid == "no pid"
NoObject == [of |-> 0, times |-> 0, memory |-> 0, refreshed |-> FALSE, failed |-> FALSE]

ProcessesIdle == stage = "idle"
Running == {pid \in ProcessIds : running[pid] # 0}

NoProcesses == [pid \in ProcessIds |-> 0]

ProcessesInit ==
    /\ running = NoProcesses
    /\ born = 1
    /\ stage = "idle"
    /\ unseen = {}
    /\ current = NoPid
    /\ outer = 0
    /\ inner = 0
    /\ object = NoObject
    /\ listed = << >>

-----------------------------------------------------------------------------
(* The machine.                                                            *)

\* While a handle is open the pid of its process is not given away.
Pinned(pid) == pid = current /\ (outer # 0 \/ inner # 0)

ProcessStarts ==
    /\ ~ProcessesIdle
    /\ born < MaxBorn
    /\ born' = born + 1
    /\ \E pid \in ProcessIds \ Running :
           /\ ~Pinned(pid)
           /\ running' = [running EXCEPT ![pid] = born']
    /\ UNCHANGED <<stage, unseen, current, outer, inner, object, listed>>

ProcessEnds ==
    /\ \E pid \in Running \ Refused : running' = [running EXCEPT ![pid] = 0]
    /\ UNCHANGED <<born, stage, unseen, current, outer, inner, object, listed>>

\* What OpenProcess may find behind a pid, once it has asked for the privilege
\* to debug: the process that runs, or one that has ended and is still held.
Behind(pid) ==
    {process \in {running[pid]} \union (IF pid = current THEN {outer} ELSE {}) :
        process # 0 /\ pid \notin Refused}

-----------------------------------------------------------------------------
(* getProcesses.                                                           *)

\* The first listing, of whatever runs, and one that takes the place of another.
ListProcesses ==
    /\ stage \in {"idle", "listed"}
    /\ stage' = "OpenProcess"
    /\ IF ProcessesIdle
       THEN running' \in {r \in [ProcessIds -> {0, 1}] : \A pid \in Refused : r[pid] = 1}
       ELSE UNCHANGED running
    /\ unseen' = {pid \in ProcessIds : running'[pid] # 0}
    /\ listed' = << >>
    /\ UNCHANGED <<born, current, outer, inner, object>>

\* A process that cannot be opened is passed over, but for the known ones.
OpenListed ==
    /\ stage = "OpenProcess" /\ current = NoPid
    /\ \E pid \in unseen :
           /\ unseen' = unseen \ {pid}
           /\ \/ \E process \in Behind(pid) :
                     /\ outer' = process
                     /\ object' = [NoObject EXCEPT !.of = process]
                     /\ current' = pid
                     /\ stage' = "GetModuleBaseName"
              \/ pid \in Refused
                     /\ current' = pid
                     /\ object' = [NoObject EXCEPT !.of = running[pid]]
                     /\ UNCHANGED <<outer, stage>>
              \/ pid \notin Refused
                     /\ UNCHANGED <<outer, object, current, stage>>
    /\ UNCHANGED <<inner, listed, machineVars>>

\* Faulty GetModuleBaseName: the handle is closed before the object is made.
GetModuleBaseNameAndClose ==
    /\ stage = "GetModuleBaseName"
    /\ stage' = "OpenProcess"
    /\ outer' = 0
    /\ UNCHANGED <<unseen, current, inner, object, listed, machineVars>>

\* A process without a module to ask has an empty name.
GetModuleBaseName ==
    /\ stage = "GetModuleBaseName"
    /\ stage' = "OpenProcess"
    /\ UNCHANGED <<unseen, current, outer, inner, object, listed, machineVars>>

ListedAll ==
    /\ stage = "OpenProcess" /\ current = NoPid
    /\ unseen = {}
    /\ stage' = "listed"
    /\ UNCHANGED <<unseen, current, outer, inner, object, listed, machineVars>>

\* The client lets go of its objects.
ProcessesDone ==
    /\ stage = "listed"
    /\ stage' = "idle"
    /\ running' = NoProcesses
    /\ born' = 1
    /\ listed' = << >>
    /\ UNCHANGED <<unseen, current, outer, inner, object>>

-----------------------------------------------------------------------------
(* refresh, of a new object or of one that the client has kept.            *)

RefreshKept ==
    /\ stage = "listed"
    /\ \E pid \in DOMAIN listed :
           /\ current' = pid
           /\ object' = [listed[pid] EXCEPT !.refreshed = TRUE]
    /\ stage' = "OpenProcess"
    /\ UNCHANGED <<unseen, outer, inner, listed, machineVars>>

OpenToRefresh ==
    /\ stage = "OpenProcess" /\ current # NoPid
    /\ inner' \in Behind(current)
    /\ object' = [object EXCEPT !.failed = FALSE]
    /\ stage' = "GetProcessTimes"
    /\ UNCHANGED <<unseen, current, outer, listed, machineVars>>

\* refresh returns and the object is as it was.
OpenToRefreshFails ==
    /\ stage = "OpenProcess" /\ current # NoPid
    /\ stage' = "CloseHandle"
    /\ UNCHANGED <<unseen, current, outer, inner, object, listed, machineVars>>

\* Results come back through the value of a LongRef.
SetLongRef(field, process) == object' = [object EXCEPT ![field] = process]

GetProcessTimes ==
    /\ stage = "GetProcessTimes"
    /\ stage' = "GetProcessMemoryInfo"
    /\ SetLongRef("times", inner)
    /\ UNCHANGED <<unseen, current, outer, inner, listed, machineVars>>

\* What comes back is not looked at: the old times stay.
GetProcessTimesFails ==
    /\ stage = "GetProcessTimes"
    /\ stage' = "GetProcessMemoryInfo"
    /\ object' = [object EXCEPT !.failed = TRUE]
    /\ UNCHANGED <<unseen, current, outer, inner, listed, machineVars>>

GetProcessMemoryInfo ==
    /\ stage = "GetProcessMemoryInfo"
    /\ stage' = "CloseHandle"
    /\ SetLongRef("memory", inner)
    /\ UNCHANGED <<unseen, current, outer, inner, listed, machineVars>>

\* Nobody looks at the result: the counters are what the stack held.
GetProcessMemoryInfoFails ==
    /\ stage = "GetProcessMemoryInfo"
    /\ stage' = "CloseHandle"
    /\ object' = [object EXCEPT !.memory = Garbage, !.failed = TRUE]
    /\ UNCHANGED <<unseen, current, outer, inner, listed, machineVars>>

\* Faulty CloseHandle: that of refresh is left open.
CloseOuterHandle ==
    /\ stage = "CloseHandle"
    /\ outer' = 0
    /\ listed' = [pid \in DOMAIN listed \union {current} |-> IF pid = current THEN object ELSE listed[pid]]
    /\ stage' = IF object.refreshed THEN "listed" ELSE "OpenProcess"
    /\ current' = NoPid
    /\ object' = NoObject
    /\ UNCHANGED <<unseen, inner, machineVars>>

\* The handle of refresh, if it has one, and then that of getProcesses, which
\* is 0 for a known process: closing that fails and nobody asks.
CloseHandle ==
    /\ stage = "CloseHandle"
    /\ inner' = 0
    /\ outer' = 0
    /\ listed' = [pid \in DOMAIN listed \union {current} |-> IF pid = current THEN object ELSE listed[pid]]
    /\ stage' = IF object.refreshed THEN "listed" ELSE "OpenProcess"
    /\ current' = NoPid
    /\ object' = NoObject
    /\ UNCHANGED <<unseen, machineVars>>

ProcessesCall ==
    \/ ListProcesses \/ OpenListed \/ GetModuleBaseName \/ ListedAll \/ ProcessesDone
    \/ RefreshKept \/ OpenToRefresh \/ GetProcessTimes \/ GetProcessMemoryInfo \/ CloseHandle

ProcessesFail == OpenToRefreshFails \/ GetProcessTimesFails \/ GetProcessMemoryInfoFails

ProcessesMove == ProcessStarts \/ ProcessEnds

-----------------------------------------------------------------------------
(* Properties.                                                             *)

\* An object that getProcesses returns has the figures of the process whose
\* name it has, if any, whoever else is given the pid while it is made; and one
\* that is refreshed, perhaps after its pid has changed hands, has times and
\* memory counters of one process, as long as no native call has failed.
FiguresOfOneProcess ==
    \A pid \in DOMAIN listed :
        LET o == listed[pid] IN
        /\ ~o.refreshed => {o.times, o.memory} \subseteq {0, o.of, Garbage}
        /\ ~o.failed => o.times = o.memory
=============================================================================

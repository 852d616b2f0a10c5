------------------------------ MODULE CpuUsages ------------------------------
(***************************************************************************)
(* Process.getCpuUsages of the Windows library: two snapshots of the       *)
(* processes with a sleep between them, taken while processes start, end,  *)
(* run, and are given the pids of others.                                  *)
(*                                                                         *)
(* A process is known by its pid and by the number of its start, so that   *)
(* a pid that is used again can be told apart. Times are milliseconds; a   *)
(* processor time is in units of 100 ns, as GetProcessTimes counts it.     *)
(***************************************************************************)
EXTENDS Integers, FiniteSets, Functions

CONSTANTS
    Pids,           \* process identifiers
    Protected,      \* those OpenProcess always refuses and that are listed
                    \* all the same: 0 and 4
    Cpus,           \* processors
    EnumLimit,      \* identifiers that the buffer of EnumProcesses holds: 1024
    Offsets,        \* by how much the wall clock may be set between its two readings
    MaxNow,         \* bound: milliseconds
    MaxStarts       \* bound: processes started

ASSUME UsagesAssumption ==
    /\ IsFiniteSet(Pids) /\ "none" \notin Pids
    /\ Protected \subseteq Pids
    /\ Cpus \in Nat \ {0}
    /\ EnumLimit \in Nat
    /\ Offsets \subseteq Int
    /\ 0 \in Offsets
    /\ MaxNow \in Nat
    /\ MaxStarts \in Nat

VARIABLES
    now,        \* milliseconds gone by
    starts,     \* processes started so far
    process,    \* process[pid]: number of the process that runs, 0 if none
    cpuTime,    \* cpuTime[pid]: processor time, in ms, of the last that ran
    pc,         \* step of getCpuUsages
    todo,       \* pids of the array still to come
    handle,     \* the pid that getProcesses has open, or None
    first,      \* the map first, and of which process and when a time was read
    second,     \* the map second, likewise
    begin, end, \* wall clock readings
    usages,     \* the map usages
    overfull,   \* some enumeration left processes out
    denied,     \* pids whose process ran, and was not to be opened (history)
    adjusted    \* the clock was set between its two readings

machineVars == <<now, starts, process, cpuTime>>
callVars == <<pc, todo, handle, first, second, begin, end, usages, overfull, denied, adjusted>>
vars == <<machineVars, callVars>>

None == "none"
NoTimes == << >>    \* an empty map

Steps == {"first", "openFirst", "sleep", "openSecond", "divide", "returned", "thrown"}

Alive == {pid \in Pids : process[pid] # 0}
UnitsPerMs == 10000

Init ==
    /\ now = 0
    /\ \E running \in SUBSET Pids :
           /\ Protected \subseteq running
           /\ process = [pid \in Pids |-> IF pid \in running THEN 1 ELSE 0]
    /\ starts = 1
    /\ cpuTime = [pid \in Pids |-> 0]
    /\ pc = "first"
    /\ todo = {}
    /\ handle = None
    /\ first = NoTimes
    /\ second = NoTimes
    /\ begin = 0
    /\ end = 0
    /\ usages = NoTimes
    /\ overfull = FALSE
    /\ denied = {}
    /\ adjusted = FALSE

-----------------------------------------------------------------------------
(* The machine.                                                            *)

\* A millisecond of all processors. Nobody reads the times of known processes.
Tick ==
    /\ now < MaxNow
    /\ now' = now + 1
    /\ \E share \in [Pids -> 0 .. Cpus] :
           /\ \A pid \in Protected \union (Pids \ Alive) : share[pid] = 0
           /\ FoldFunction(+, 0, share) <= Cpus
           /\ cpuTime' = [pid \in Pids |-> cpuTime[pid] + share[pid]]
    /\ UNCHANGED <<starts, process, callVars>>

\* While a handle is open the pid of an ended process is not given away.
Start ==
    /\ starts < MaxStarts
    /\ starts' = starts + 1
    /\ \E pid \in Pids \ Alive :
           /\ pid # handle
           /\ process' = [process EXCEPT ![pid] = starts']
           /\ cpuTime' = [cpuTime EXCEPT ![pid] = 0]
    /\ UNCHANGED <<now, callVars>>

End ==
    /\ \E pid \in Alive \ Protected : process' = [process EXCEPT ![pid] = 0]
    /\ UNCHANGED <<now, starts, cpuTime, callVars>>

-----------------------------------------------------------------------------
(* getProcesses, for the first and for the second snapshot.                *)

\* Faulty Enumerate: the last element of the array is left out.
EnumerateButOne(from, to) ==
    /\ pc = from
    /\ pc' = to
    /\ \E left \in Alive : todo' = Alive \ {left}
    /\ overfull' = overfull
    /\ UNCHANGED <<machineVars, handle, first, second, begin, end, usages, denied, adjusted>>

\* EnumProcesses fills its buffer and says nothing of the rest.
Enumerate(from, to) ==
    /\ pc = from
    /\ pc' = to
    /\ todo' \in SUBSET Alive
    /\ Cardinality(todo') = IF Cardinality(Alive) <= EnumLimit THEN Cardinality(Alive) ELSE EnumLimit
    /\ overfull' = (overfull \/ Cardinality(Alive) > EnumLimit)
    /\ UNCHANGED <<machineVars, handle, first, second, begin, end, usages, denied, adjusted>>

\* EnumProcesses fails, and the loop is over a null array.
EnumerateFails(from) ==
    /\ pc = from
    /\ pc' = "thrown"
    /\ UNCHANGED <<machineVars, todo, handle, first, second, begin, end, usages, overfull, denied, adjusted>>

\* A time enters the map, as read of some process, or of none when it is 0
\* only for want of a reading.
Put(step, pid, source, units) ==
    LET sample == [units |-> units, process |-> source, at |-> now]
        With(times) == [p \in DOMAIN times \union {pid} |-> IF p = pid THEN sample ELSE times[p]]
    IN  IF step = "openFirst"
        THEN first' = With(first) /\ UNCHANGED second
        ELSE second' = With(second) /\ UNCHANGED first

\* A process that cannot be opened is passed over, unless it is a known one:
\* it has ended, or OpenProcess is denied.
OpenProcess(step) ==
    /\ pc = step
    /\ handle = None
    /\ \E pid \in todo :
           /\ todo' = todo \ {pid}
           /\ IF pid \in Protected
              THEN /\ Put(step, pid, 0, 0)
                   /\ UNCHANGED <<handle, denied>>
              ELSE /\ \/ pid \in Alive /\ handle' = pid /\ UNCHANGED denied
                      \/ handle' = None /\ denied' = denied \union ({pid} \intersect Alive)
                   /\ UNCHANGED <<first, second>>
    /\ UNCHANGED <<machineVars, pc, begin, end, usages, overfull, adjusted>>

\* refresh() of the new object, then CloseHandle. It opens the process once
\* more, and the times of one that has ended meanwhile are its last.
Refresh(step) ==
    /\ pc = step
    /\ handle # None
    /\ Put(step, handle, process[handle], cpuTime[handle] * UnitsPerMs)
    /\ handle' = None
    /\ UNCHANGED <<machineVars, pc, todo, begin, end, usages, overfull, denied, adjusted>>

\* The second OpenProcess or GetProcessTimes fails: the object keeps its zeros.
RefreshFails(step) ==
    /\ pc = step
    /\ handle # None
    /\ Put(step, handle, 0, 0)
    /\ handle' = None
    /\ UNCHANGED <<machineVars, pc, todo, begin, end, usages, overfull, denied, adjusted>>

-----------------------------------------------------------------------------
(* getCpuUsages.                                                           *)

\* The sleep follows, of any length.
Begin ==
    /\ pc = "openFirst"
    /\ todo = {} /\ handle = None
    /\ begin' = now
    /\ pc' = "sleep"
    /\ UNCHANGED <<machineVars, todo, handle, first, second, end, usages, overfull, denied, adjusted>>

ReadEnd ==
    /\ pc = "openSecond"
    /\ todo = {} /\ handle = None
    /\ \E offset \in Offsets : end' = now + offset /\ adjusted' = (offset # 0)
    /\ pc' = "divide"
    /\ UNCHANGED <<machineVars, todo, handle, first, second, begin, usages, overfull, denied>>

\* Division of Java's long: towards zero.
Quotient(a, b) ==
    LET abs(n) == IF n < 0 THEN -n ELSE n IN
    IF (a < 0) # (b < 0) THEN -(abs(a) \div abs(b)) ELSE abs(a) \div abs(b)

\* Faulty Usage: the number of processors is left out.
UsageOfOneCpu(use, total) == Quotient(Quotient(use, total), 100)

Usage(use, total) == Quotient(Quotient(Quotient(use, total), 100), Cpus)

Both == DOMAIN first \intersect DOMAIN second

Divide ==
    LET total == end - begin IN
    /\ pc = "divide"
    /\ total # 0 \/ Both = {}
    /\ pc' = "returned"
    /\ usages' = [pid \in Both |-> Usage(second[pid].units - first[pid].units, total)]
    /\ UNCHANGED <<machineVars, todo, handle, first, second, begin, end, overfull, denied, adjusted>>

\* use / total throws an ArithmeticException.
DivideByZero ==
    /\ pc = "divide"
    /\ end = begin /\ Both # {}
    /\ pc' = "thrown"
    /\ UNCHANGED <<machineVars, todo, handle, first, second, begin, end, usages, overfull, denied, adjusted>>

Call ==
    \/ Enumerate("first", "openFirst") \/ Enumerate("sleep", "openSecond")
    \/ EnumerateFails("first") \/ EnumerateFails("sleep")
    \/ \E step \in {"openFirst", "openSecond"} :
           OpenProcess(step) \/ Refresh(step) \/ RefreshFails(step)
    \/ Begin \/ ReadEnd \/ Divide \/ DivideByZero

\* What the machine does once the call has its samples is of no account.
Machine ==
    /\ pc \notin {"divide", "returned", "thrown"}
    /\ Tick \/ Start \/ End

Next == Machine \/ Call

Spec == Init /\ [][Next]_vars

-----------------------------------------------------------------------------
(* Properties.                                                             *)

Samples == [units : 0 .. now * Cpus * UnitsPerMs, process : 0 .. starts, at : 0 .. now]

TypeOK ==
    /\ now \in 0 .. MaxNow
    /\ starts \in 1 .. MaxStarts
    /\ process \in [Pids -> 0 .. starts]
    /\ cpuTime \in [Pids -> 0 .. now * Cpus]
    /\ pc \in Steps
    /\ todo \subseteq Pids
    /\ handle \in Pids \union {None}
    /\ \A times \in {first, second} :
          DOMAIN times \subseteq Pids /\ \A pid \in DOMAIN times : times[pid] \in Samples
    /\ begin \in Int
    /\ end \in Int
    /\ \A pid \in DOMAIN usages : pid \in Both /\ usages[pid] \in Int
    /\ overfull \in BOOLEAN
    /\ denied \subseteq Pids \ Protected
    /\ adjusted \in BOOLEAN

\* A usage that is measured of one process, on a clock that nobody sets, is not
\* negative, and exceeds 100 percent only as the process's own two samples lie
\* further apart than the two readings of the clock.
UsageWithinSamples ==
    ~adjusted => \A pid \in DOMAIN usages :
        LET elapsed == second[pid].at - first[pid].at IN
        first[pid].process # 0 /\ first[pid].process = second[pid].process =>
            0 <= usages[pid] /\ usages[pid] * (end - begin) <= 100 * elapsed

\* A process that runs through the whole call, and that OpenProcess admits to
\* both times, is in the map that it returns, whatever starts and ends around
\* it, as long as every enumeration fits; so is one that is never opened (0, 4).
EveryoneCounted ==
    pc = "returned" /\ ~overfull =>
        {pid \in Pids : process[pid] = 1} \ denied \subseteq DOMAIN usages
=============================================================================

----------------------------- MODULE CpuSamples -----------------------------
(***************************************************************************)
(* CpuStat.getCpuUsage, KernelStat and CpuUsage of araqne-linux-api: two   *)
(* samples of /proc/stat, for the machine or for one core, and their       *)
(* difference as percentages. The core is an index into the list of the    *)
(* cpuN lines, and the file has such lines only for cores that are online, *)
(* which may change while the call sleeps.                                 *)
(***************************************************************************)
EXTENDS Integers, FiniteSets

CONSTANTS
    Cores,      \* cores of the machine, 0 .. n
    MaxTicks    \* bound: ticks while the call sleeps

ASSUME SamplesAssumption ==
    /\ Cores \subseteq Nat /\ IsFiniteSet(Cores)
    /\ MaxTicks \in Nat

VARIABLES
    reading,    \* getCpuUsage, "idle" between calls
    core,       \* its argument, All for null
    online,     \* cores that are online
    stat,       \* stat[c]: the four counters of a core, stat[All]: of the cpu line
    ticks,      \* ticks so far
    firstStat,  \* the sample first, of which core, and who was online
    usage       \* the result, if there is one

samplesVars == <<reading, core, online, stat, ticks, firstStat, usage>>

All == -1
Modes == {"user", "nice", "system", "idle"}
Zero == [m \in Modes |-> 0]
NoStat == [of |-> All, counters |-> Zero, online |-> {}]
NoUsage == [kind |-> "none"]

SamplesIdle == reading = "idle"

SamplesInit ==
    /\ reading = "idle"
    /\ core = All
    /\ online = Cores
    /\ stat = [c \in Cores \union {All} |-> Zero]
    /\ ticks = 0
    /\ firstStat = NoStat
    /\ usage = NoUsage

-----------------------------------------------------------------------------
(* The machine.                                                            *)

Tick ==
    /\ reading = "sleep"
    /\ ticks < MaxTicks
    /\ ticks' = ticks + 1
    /\ \E c \in online, m \in Modes :
          stat' = [x \in DOMAIN stat |->
                      IF x \in {c, All} THEN [stat[x] EXCEPT ![m] = @ + 1] ELSE stat[x]]
    /\ UNCHANGED <<reading, core, online, firstStat, usage>>

\* A core goes offline or comes back; core 0 stays. Its counters stay.
Hotplug ==
    /\ reading = "sleep"
    /\ \E c \in Cores \ {0} :
          online' = IF c \in online THEN online \ {c} ELSE online \union {c}
    /\ UNCHANGED <<reading, core, stat, ticks, firstStat, usage>>

-----------------------------------------------------------------------------
(* The call.                                                               *)

\* KernelStat.parse: where the cpuN line of a core comes in getCpus().
Index(c) == Cardinality({other \in online : other < c})

\* getCpu(), or getCpus().get(core) if there are so many.
HasCpu == core = All \/ \E c \in online : Index(c) = core
Cpu == IF core = All THEN All ELSE CHOOSE c \in online : Index(c) = core

\* The first sample. What the counters stand at differs from core to core.
GetCpuUsage ==
    /\ reading = "idle"
    /\ reading' = "first"
    /\ online' \in {cores \in SUBSET Cores : 0 \in cores}
    /\ \E busy \in SUBSET Cores :
          stat' = [c \in Cores \union {All} |->
                      [Zero EXCEPT !["system"] = IF c = All THEN Cardinality(busy)
                                                 ELSE IF c \in busy THEN 1 ELSE 0]]
    /\ core' \in Cores \union {All}
    /\ UNCHANGED <<ticks, firstStat, usage>>

FirstStat ==
    /\ reading = "first"
    /\ HasCpu
    /\ reading' = "sleep"
    /\ firstStat' = [of |-> Cpu, counters |-> stat[Cpu], online |-> online]
    /\ UNCHANGED <<core, online, stat, ticks, usage>>

Deltas == [m \in Modes |-> stat[Cpu][m] - firstStat.counters[m]]

\* Faulty Percentages: the share of the idle time is left to system.
PercentagesOfBusy(delta) ==
    LET sum == delta["user"] + delta["nice"] + delta["system"] + delta["idle"]
        busy == sum - delta["idle"]
        user == IF busy = 0 THEN 0 ELSE (100 * (delta["user"] + delta["nice"])) \div busy
        idle == IF sum = 0 THEN 0 ELSE (100 * delta["idle"]) \div sum
    IN  [kind |-> "usage", idle |-> idle, user |-> user, system |-> 100 - (idle + user)]

\* new CpuUsage: what is left of 100 is the system's, all of it if no counter
\* has moved.
Percentages(delta) ==
    LET sum == delta["user"] + delta["nice"] + delta["system"] + delta["idle"]
        user == IF sum = 0 THEN 0 ELSE (100 * (delta["user"] + delta["nice"])) \div sum
        idle == IF sum = 0 THEN 0 ELSE (100 * delta["idle"]) \div sum
    IN  [kind |-> "usage", idle |-> idle, user |-> user, system |-> 100 - (idle + user)]

SecondStat ==
    /\ reading = "sleep"
    /\ HasCpu
    /\ reading' = "read"
    /\ usage' = Percentages(Deltas)
    /\ UNCHANGED <<core, online, stat, ticks, firstStat>>

\* IndexOutOfBoundsException.
CpuGone ==
    /\ reading \in {"first", "sleep"}
    /\ ~HasCpu
    /\ reading' = "read"
    /\ usage' = NoUsage
    /\ UNCHANGED <<core, online, stat, ticks, firstStat>>

SamplesDone ==
    /\ reading = "read"
    /\ reading' = "idle"
    /\ core' = All
    /\ online' = Cores
    /\ stat' = [c \in Cores \union {All} |-> Zero]
    /\ ticks' = 0
    /\ firstStat' = NoStat
    /\ usage' = NoUsage

SamplesCall == GetCpuUsage \/ FirstStat \/ SecondStat \/ CpuGone \/ SamplesDone

SamplesNext == Tick \/ Hotplug \/ SamplesCall

-----------------------------------------------------------------------------
(* Properties.                                                             *)

Near(share, part, whole, off) ==
    share * whole <= 100 * part + off * whole /\ 100 * part <= share * whole + off * whole

\* As long as no core goes or comes while the call sleeps both samples are of
\* one core; and then the shares are percentages of what its counters have
\* moved, up to the two digits that are cut off, of which system has the rest.
\* If they have not moved at all the call says that the system is busy.
SharesOfOneCore ==
    reading = "read" /\ usage.kind = "usage" /\ online = firstStat.online =>
        LET sum == Deltas["user"] + Deltas["nice"] + Deltas["system"] + Deltas["idle"] IN
        /\ Cpu = firstStat.of
        /\ {usage.idle, usage.user, usage.system} \subseteq 0 .. 100
        /\ IF sum = 0 THEN usage.system = 100
           ELSE /\ Near(usage.idle, Deltas["idle"], sum, 1)
                /\ Near(usage.user, Deltas["user"] + Deltas["nice"], sum, 1)
                /\ Near(usage.system, Deltas["system"], sum, 2)
=============================================================================

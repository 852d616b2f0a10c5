----------------------------- MODULE SystemTime -----------------------------
(***************************************************************************)
(* SystemTime.java and systemtime.c: two samples of the idle, kernel and   *)
(* user time of the machine, and their differences as percentages. Kernel  *)
(* time includes the idle time. Windows does not take the three at the     *)
(* same moment, so that idle time may be ahead of the kernel's.            *)
(***************************************************************************)
EXTENDS Integers

CONSTANT MaxUnits   \* bound: units of each time between the two samples

ASSUME TimeAssumption == MaxUnits \in Nat

VARIABLES
    sampling,   \* the constructor, "idle" between calls
    first,      \* the differences so far: idle, kernel and user time
    shares      \* the three percentages

timeVars == <<sampling, first, shares>>

TimeIdle == sampling = "idle"

NoTimes == [idle |-> 0, kernel |-> 0, user |-> 0]
NoShares == [idle |-> 0, kernel |-> 0, user |-> 0]

TimeInit ==
    /\ sampling = "idle"
    /\ first = NoTimes
    /\ shares = NoShares

\* The first sample; the differences are taken from it.
FirstSample ==
    /\ sampling = "idle"
    /\ sampling' = "sleep"
    /\ UNCHANGED <<first, shares>>

\* Time goes by on some processor: idle, in the kernel or in user mode. The idle
\* time may be noted without the kernel's or the other way round.
TimePasses ==
    /\ sampling = "sleep"
    /\ \E idle, kernel, user \in {0, 1} :
          /\ idle + kernel + user > 0
          /\ first' = [idle |-> first.idle + idle, kernel |-> first.kernel + kernel,
                       user |-> first.user + user]
    /\ \A t \in {"idle", "kernel", "user"} : first'[t] <= MaxUnits
    /\ UNCHANGED <<sampling, shares>>

\* Math.round((double) part / whole * 100), 0 for 0 / 0.
Percent(part, whole) == IF whole = 0 THEN 0 ELSE (200 * part + whole) \div (2 * whole)

\* Faulty Busy: idle time ahead of the kernel's makes it negative.
BusyUnchecked(kernel, idle) == kernel - idle

Busy(kernel, idle) == IF kernel < idle THEN 0 ELSE kernel - idle

SecondSample ==
    /\ sampling = "sleep"
    /\ sampling' = "sampled"
    /\ LET system == first.kernel + first.user
           kernel == Percent(Busy(first.kernel, first.idle), system)
           user == Percent(first.user, system)
       IN  shares' = [idle |-> 100 - user - kernel, kernel |-> kernel, user |-> user]
    /\ UNCHANGED first

TimeDone ==
    /\ sampling = "sampled"
    /\ sampling' = "idle"
    /\ first' = NoTimes
    /\ shares' = NoShares

TimeCall == FirstSample \/ SecondSample \/ TimeDone

TimeNext == TimePasses \/ TimeCall

GetUsage == IF shares.user + shares.kernel > 100 THEN 100 ELSE shares.user + shares.kernel

\* The shares of kernel and user mode are percentages, which each round up, so
\* that the idle share is -1 at the least; the idle share and the usage are of
\* the times that were sampled, within the rounding of two numbers.
SharesOfTheInterval ==
    sampling = "sampled" =>
        LET system == first.kernel + first.user
            busy == first.user + Busy(first.kernel, first.idle)
        IN  /\ shares.kernel \in 0 .. 100 /\ shares.user \in 0 .. 100
            /\ shares.idle \in -1 .. 100
            /\ GetUsage \in 0 .. 100
            /\ system # 0 => /\ GetUsage * system <= 100 * busy + system
                             /\ 100 * busy <= GetUsage * system + system
=============================================================================

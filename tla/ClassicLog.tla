------------------------------ MODULE ClassicLog ------------------------------
(***************************************************************************)
(* A Windows event log as OpenEventLog and ReadEventLog show it: records   *)
(* numbered upwards by a 32-bit counter, the oldest overwritten when the   *)
(* log is full, the counter back at 1 after the log is cleared.  The log   *)
(* is not part of this repository; EventLogIterator and EventLogReadAll    *)
(* read it while it changes.                                               *)
(*                                                                         *)
(* Records are told apart by their place in the order of writing, which    *)
(* clearing does not disturb; Number is what the reader sees of it.        *)
(***************************************************************************)
EXTENDS Integers

CONSTANTS
    Modulus,    \* 2^32: record numbers and DWORDs are below it
    Capacity,   \* records the log keeps
    Bases,      \* where the counter may stand: the first record is 1 - base
    Oversized,  \* records that do not fit into a read buffer
    MaxRecords, \* bound: records written in a behaviour
    MaxClears   \* bound: times the log is cleared

ASSUME LogAssumption ==
    /\ Modulus \in Nat \ {0} /\ Modulus % 2 = 0
    /\ Capacity \in Nat \ {0}
    /\ MaxRecords \in Nat
    /\ MaxClears \in Nat
    /\ \A b \in Bases : b \in Int /\ b <= 0 /\ MaxRecords - b < Modulus

VARIABLES
    total,      \* records written so far: 1 .. total
    oldest,     \* the oldest record still in the log, total + 1 if it is empty
    base,       \* what the counter is behind total
    clears      \* times the log was cleared

logVars == <<total, oldest, base, clears>>

Present == oldest .. total
Number(r) == r - base

LogInit ==
    /\ total = 0
    /\ oldest = 1
    /\ base \in Bases
    /\ clears = 0

Record ==
    /\ total < MaxRecords
    /\ total' = total + 1
    /\ oldest' = IF total' - oldest < Capacity THEN oldest ELSE oldest + 1
    /\ UNCHANGED <<base, clears>>

Clear ==
    /\ clears < MaxClears
    /\ clears' = clears + 1
    /\ oldest' = total + 1
    /\ base' = total
    /\ UNCHANGED total

\* A DWORD read as a jint.
Signed(n) == IF n < Modulus \div 2 THEN n ELSE n - Modulus
=============================================================================

--------------------------- MODULE EventLogReaders ---------------------------
(***************************************************************************)
(* The two ways to read an event log, EventLogReader.iterator and          *)
(* readAllEventLogs, by a client that uses one of them on a log that the   *)
(* system writes, overwrites and clears all the time.                      *)
(***************************************************************************)
EXTENDS EventLogIterator, EventLogReadAll

vars == <<logVars, iteratorVars, readAllVars>>

Init == LogInit /\ IteratorInit /\ ReadAllInit

InIterator(act) == NotCalled /\ act /\ UNCHANGED readAllVars
InReadAll(act) == NoIterator /\ act /\ UNCHANGED iteratorVars

Log == (Record \/ Clear) /\ UNCHANGED <<iteratorVars, readAllVars>>

Next == Log \/ InIterator(ClientStep) \/ InReadAll(ReaderStep)

\* The client's thread is scheduled; the log owes nothing to anybody.
Spec ==
    /\ Init /\ [][Next]_vars
    /\ WF_vars(InIterator(ClientStep))
    /\ WF_vars(InReadAll(ReaderStep))
=============================================================================

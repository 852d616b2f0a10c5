-------------------------- MODULE MCEventLogReaders --------------------------
(* Instances of EventLogReaders for TLC: record numbers are five bits wide   *)
(* and start at 1, just below the half where a jint turns negative, or so    *)
(* high that the last record has the greatest number. A record in the middle *)
(* fits into no buffer.                                                      *)
EXTENDS EventLogReaders

MCBases == {0, -12, -22}
MCBegins == {1, 4, 14}
MCFirsts == {1, 3, 15}
MCOversized == {5}
=============================================================================

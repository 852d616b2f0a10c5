--------------------------- MODULE EventLogIterator ---------------------------
(***************************************************************************)
(* EventLogReader.EventLogIterator and the native readEventLog under it,   *)
(* used by one thread while the log is written, overwritten and cleared.   *)
(* readEventLog seeks to the record it is asked for; if that fails with    *)
(* anything but the end of the log or a buffer too small it reads the      *)
(* oldest record instead.  The log can change between the two reads.       *)
(***************************************************************************)
EXTENDS ClassicLog, Sequences, SequencesExt

CONSTANTS
    Begins,     \* arguments of iterator(begin)
    Limit       \* records after which the client stops (10 in eventLogs)

ASSUME IteratorAssumption ==
    /\ Begins \subseteq 0 .. (Modulus - 1)
    /\ Limit \in Nat

VARIABLES
    next,       \* the field next, as a DWORD
    nextLog,    \* the record in the field nextLog, NoEntry for null
    pc,         \* where the thread is in readEventLog
    opened,     \* value of clears when readEventLog opened its handle
    yielded     \* what next() has returned, in order

iteratorVars == <<next, nextLog, pc, opened, yielded>>

Entry(r) == [record |-> r, number |-> Number(r)]
NoEntry == [record |-> 0, number |-> 0]

\* The thread has no iterator yet.
NoIterator == pc = "new"

IteratorInit ==
    /\ next = 0
    /\ nextLog = NoEntry
    /\ pc = "new"
    /\ opened = 0
    /\ yielded = <<>>

\* iterator(begin)
New ==
    /\ pc = "new"
    /\ next' \in Begins
    /\ pc' = "idle"
    /\ UNCHANGED <<logVars, nextLog, opened, yielded>>

\* Faulty HasNext: the record already fetched is not looked at.
HasNextRefetches ==
    /\ pc = "idle"
    /\ pc' = "seek"
    /\ opened' = clears
    /\ UNCHANGED <<logVars, next, nextLog, yielded>>

\* hasNext() without a record in hand calls readEventLog(logName, next).
HasNext ==
    /\ pc = "idle"
    /\ nextLog = NoEntry
    /\ pc' = "seek"
    /\ opened' = clears
    /\ UNCHANGED <<logVars, next, nextLog, yielded>>

\* readEventLog returns record r, hasNext() notes it and what follows it.
Found(r) ==
    /\ nextLog' = Entry(r)
    /\ next' = (Number(r) + 1) % Modulus
    /\ pc' = "idle"

\* readEventLog returns null, hasNext() false; the client may ask again.
NotFound ==
    /\ pc' = "idle"
    /\ UNCHANGED <<next, nextLog>>

\* The log was cleared since the handle was opened: both reads fail.
Stale == clears # opened

\* ReadEventLog(EVENTLOG_SEEK_READ): past the newest record the call fails with
\* the end of the log or another error, before the oldest with another error.
Seek ==
    /\ pc = "seek"
    /\ \/ ~Stale /\ \E r \in Present : Number(r) = next /\ r \notin Oversized /\ Found(r)
       \/ ~Stale /\ (\E r \in Present : Number(r) = next /\ r \in Oversized) /\ NotFound
       \/ ~Stale /\ (\A r \in Present : Number(r) < next) /\ NotFound
       \/ /\ Stale \/ \A r \in Present : Number(r) # next
          /\ pc' = "sequential"
          /\ UNCHANGED <<next, nextLog>>
    /\ UNCHANGED <<logVars, opened, yielded>>

\* Faulty Sequential: record numbers are compared as signed integers.
SequentialSigned ==
    /\ pc = "sequential"
    /\ IF ~Stale /\ Present # {} /\ oldest \notin Oversized /\ Signed(Number(oldest)) >= Signed(next)
       THEN Found(oldest)
       ELSE NotFound
    /\ UNCHANGED <<logVars, opened, yielded>>

\* ReadEventLog(EVENTLOG_SEQUENTIAL_READ) on a fresh handle: the oldest record,
\* which counts only if its number is not below the one asked for.
Sequential ==
    /\ pc = "sequential"
    /\ IF ~Stale /\ Present # {} /\ oldest \notin Oversized /\ Number(oldest) >= next
       THEN Found(oldest)
       ELSE NotFound
    /\ UNCHANGED <<logVars, opened, yielded>>

\* The client's loop: next(), or break once it has had enough.
NextCall ==
    /\ pc = "idle"
    /\ nextLog # NoEntry
    /\ Len(yielded) < Limit
    /\ yielded' = yielded \o <<nextLog>>
    /\ nextLog' = NoEntry
    /\ UNCHANGED <<logVars, next, pc, opened>>

Enough ==
    /\ pc = "idle"
    /\ nextLog # NoEntry
    /\ Len(yielded) >= Limit
    /\ pc' = "done"
    /\ UNCHANGED <<logVars, next, nextLog, opened, yielded>>

ClientStep == New \/ HasNext \/ Seek \/ Sequential \/ NextCall \/ Enough

-----------------------------------------------------------------------------
(* Properties.                                                             *)

\* Between two records that the iterator returns one after the other nothing
\* is left out but what the log has lost and, after a clear, the records whose
\* numbers started again below the one last returned (hasNext, readEventLog).
\* After the greatest number a DWORD holds, the field next is 0 and the
\* iterator starts again from the oldest record.
NoSilentGap ==
    [][ yielded' # yielded /\ yielded # <<>> /\ Last(yielded).number + 1 # Modulus =>
          LET from == Last(yielded)
              to   == Last(yielded')
          IN  /\ from.record < to.record
              /\ \A r \in (from.record + 1) .. (to.record - 1) :
                    r \in Present => r > base /\ from.record <= base /\ Number(r) <= from.number
      ]_iteratorVars

\* As long as the log is not cleared, an iterator that is asked again and again
\* returns every record from begin on, or the log loses it first; a record that
\* no read buffer can hold stops the iterator for good.
EventuallyYielded ==
    \A r \in 1 .. MaxRecords :
        (pc # "new" /\ r \in Present /\ clears = 0 /\ Number(r) >= next)
            ~> (\/ \E i \in DOMAIN yielded : yielded[i].record = r
                \/ r \notin Present
                \/ clears # 0
                \/ \E b \in Oversized : b \in Present /\ b <= r
                \/ pc = "done")
=============================================================================

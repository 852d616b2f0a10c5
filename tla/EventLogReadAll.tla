--------------------------- MODULE EventLogReadAll ---------------------------
(***************************************************************************)
(* The native EventLogReader.readAllEventLogs(begin): one handle, read in  *)
(* sequence into a fixed buffer until ReadEventLog fails, while the log is *)
(* written, overwritten and cleared.  The end of the log ends the loop; a  *)
(* record that does not fit returns null; any other failure shrinks the    *)
(* buffer to the size that call asked for, which is 0, and so ends the     *)
(* loop on its next round with what has been read so far.                  *)
(***************************************************************************)
EXTENDS ClassicLog, Sequences

CONSTANTS
    Firsts,     \* values of the jint begin, none negative
    BufferMax   \* records that fit into the buffer

ASSUME ReadAllAssumption ==
    /\ Firsts \subseteq 0 .. (Modulus \div 2 - 1)
    /\ BufferMax \in Nat \ {0}

VARIABLES
    asked,      \* the argument begin
    begin,      \* the jint begin, which follows the records read
    handle,     \* value of clears when the handle was handle
    position,   \* record the handle stands before, 0 if it has not been read
    pRead,      \* next record of the buffer
    bufferEnd,  \* record after the last one in the buffer
    bufferBase, \* what the numbers in the buffer are behind its records
    shrunk,     \* nNumberOfBytesToRead has become 0
    list,       \* the ArrayList: each record added, with its RecordNumber
    loop        \* where the call is, and how it ended

callVars == <<asked, handle>>
bufferVars == <<position, pRead, bufferEnd, bufferBase>>
readAllVars == <<callVars, bufferVars, begin, shrunk, list, loop>>

Half == Modulus \div 2

NotCalled == loop = "idle"

ReadAllInit ==
    /\ asked \in Firsts
    /\ begin = 0
    /\ handle = 0
    /\ position = 0
    /\ pRead = 0
    /\ bufferEnd = 0
    /\ bufferBase = 0
    /\ shrunk = FALSE
    /\ list = <<>>
    /\ loop = "idle"

Call ==
    /\ loop = "idle"
    /\ begin' = asked
    /\ handle' = clears
    /\ loop' = "read"
    /\ UNCHANGED <<logVars, asked, bufferVars, shrunk, list>>

-----------------------------------------------------------------------------
(* ReadEventLog on the handle.                                             *)

\* The log was cleared since the handle was handle.
Outdated == clears # handle

\* The record the handle stands before was overwritten: the log either goes on
\* with its oldest record or reports that it has changed.
Overwritten == position # 0 /\ position < oldest
Standing == IF position < oldest THEN oldest ELSE position

ReadBuffer ==
    /\ loop = "read"
    /\ ~shrunk
    /\ ~Outdated
    /\ \E last \in Standing .. total :
           /\ last < Standing + BufferMax
           /\ (Standing .. last) \cap Oversized = {}
           /\ pRead' = Standing
           /\ bufferEnd' = last + 1
           /\ position' = last + 1
           /\ bufferBase' = base
    /\ loop' = "parse"
    /\ UNCHANGED <<logVars, callVars, begin, shrunk, list>>

\* ERROR_HANDLE_EOF
ReadEnd ==
    /\ loop = "read"
    /\ ~shrunk
    /\ ~Outdated
    /\ Standing > total
    /\ loop' = "end"
    /\ UNCHANGED <<logVars, callVars, bufferVars, begin, shrunk, list>>

\* ERROR_INSUFFICIENT_BUFFER: everything read so far is given up.
ReadTooSmall ==
    /\ loop = "read"
    /\ ~shrunk
    /\ ~Outdated
    /\ Standing \in Present \cap Oversized
    /\ loop' = "null"
    /\ UNCHANGED <<logVars, callVars, bufferVars, begin, shrunk, list>>

\* Faulty ReadFails: the buffer keeps its size and the read is tried again.
ReadFailsAgain ==
    /\ loop = "read"
    /\ ~shrunk
    /\ Outdated \/ Overwritten
    /\ UNCHANGED <<logVars, readAllVars>>

\* Any other error: the buffer shrinks to the size asked for, which is 0.
ReadFails ==
    /\ loop = "read"
    /\ ~shrunk
    /\ Outdated \/ Overwritten
    /\ shrunk' = TRUE
    /\ UNCHANGED <<logVars, callVars, bufferVars, begin, list, loop>>

\* A read of no bytes fails, and a size of 0 ends the loop.
ReadNothing ==
    /\ loop = "read"
    /\ shrunk
    /\ loop' = "cut"
    /\ UNCHANGED <<logVars, callVars, bufferVars, begin, shrunk, list>>

-----------------------------------------------------------------------------
(* The loop over the buffer.                                               *)

\* RecordNumber of the record pRead points at, which is as it was when read.
RecordNumber == pRead - bufferBase

\* Faulty Wanted: nothing is filtered out.
AllWanted == TRUE

\* The comparison is of signed numbers.
Wanted == Signed(RecordNumber) >= begin

AddRecord == list' = Append(list, [record |-> pRead, number |-> RecordNumber])

\* Faulty TakeRecord: begin is not moved on.
TakeRecordKeepsBegin ==
    /\ loop = "parse"
    /\ pRead < bufferEnd
    /\ pRead' = pRead + 1
    /\ IF Wanted
       THEN AddRecord
       ELSE UNCHANGED list
    /\ UNCHANGED <<logVars, callVars, position, bufferEnd, bufferBase, begin, shrunk, loop>>

\* begin follows each record that is added.
TakeRecord ==
    /\ loop = "parse"
    /\ pRead < bufferEnd
    /\ pRead' = pRead + 1
    /\ IF Wanted
       THEN /\ AddRecord
            /\ begin' = Signed((RecordNumber + 1) % Modulus)
       ELSE UNCHANGED <<list, begin>>
    /\ UNCHANGED <<logVars, callVars, position, bufferEnd, bufferBase, shrunk, loop>>

BufferDone ==
    /\ loop = "parse"
    /\ pRead = bufferEnd
    /\ loop' = "read"
    /\ UNCHANGED <<logVars, callVars, bufferVars, begin, shrunk, list>>

-----------------------------------------------------------------------------
ReaderStep ==
    \/ Call
    \/ ReadBuffer
    \/ ReadEnd
    \/ ReadTooSmall
    \/ ReadFails
    \/ ReadNothing
    \/ TakeRecord
    \/ BufferDone

-----------------------------------------------------------------------------
(* Properties.                                                             *)

Listed == {list[i].record : i \in DOMAIN list}
Numbered == {list[i].number : i \in DOMAIN list}

\* When the end of the log ended the call, the list holds exactly the records
\* from begin on, of those still in the log, whose numbers a jint can hold, and
\* the later ones only if the list runs through the number where a jint turns
\* negative: a call that starts beyond it returns nothing (the cast to signed).
EndMeansComplete ==
    [][ loop = "read" /\ loop' = "end" =>
          \A r \in Present :
              r \in Listed <=> \/ Number(r) >= asked /\ Number(r) < Half
                               \/ Number(r) >= Half /\ (Half - 1) \in Numbered
      ]_readAllVars

\* However the call ends, it adds the records in the order of their numbers, none
\* of them twice and none below begin, even when the log is cleared and numbers
\* its records from 1 again meanwhile.
NoneTwiceNoneBelow ==
    /\ \A i, j \in DOMAIN list : i < j => list[i].number < list[j].number
    /\ \A i \in DOMAIN list : list[i].number >= asked

\* The call returns unless the log is written for ever: as long as it finds
\* records the for(;;) goes on, and a failed read ends it on the next round.
ReadAllReturns ==
    []<><<Record>>_logVars \/ (loop = "read" ~> loop \in {"end", "cut", "null"})
=============================================================================

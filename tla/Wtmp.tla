--------------------------------- MODULE Wtmp ---------------------------------
(***************************************************************************)
(* Wtmp.getEntries: /var/log/wtmp is read field by field while others      *)
(* append records to it. A record that crosses a page is there in two      *)
(* steps; one whose writer is killed between them stays torn until the     *)
(* next writer cuts it off.                                                *)
(*                                                                         *)
(* The file is a sequence of cells. A record takes one cell for each       *)
(* number or run of numbers and two for each array of bytes, which may     *)
(* end in the middle. What happens to the file between two calls is of no  *)
(* account: a call finds any file there may be.                            *)
(***************************************************************************)
EXTENDS Naturals, Sequences

CONSTANT MaxRecords     \* bound: records there are, and those begun during the call

ASSUME WtmpAssumption == MaxRecords \in Nat

VARIABLES
    wtmp,       \* cells of the file
    begun,      \* records begun
    filling,    \* those with a name that fills its field
    getting,    \* the call: "idle", "reading", "returned" or "thrown"
    offset,     \* position in the file
    field,      \* field that is read next
    entry,      \* cells of the entry that is read
    entries,    \* entries of the result
    whole,      \* records that were whole when the call began
    short,      \* the last array was not filled
    slipped     \* the call has read what does not follow on what it read before

wtmpVars == <<wtmp, begun, filling, getting, offset, field, entry, entries, whole, short, slipped>>
callVars == <<getting, offset, field, entry, entries, whole, short>>

-----------------------------------------------------------------------------
(* The file.                                                               *)

Number == [cells |-> 1, kind |-> "number"]
Bytes == [cells |-> 2, kind |-> "bytes"]

\* Type and pid; line and id; user; host; exit status, session and time.
RecordFields == <<Number, Bytes, Bytes, Bytes, Number>>
UsedCells == 8

\* Faulty Rest: the address alone.
RestWithoutPadding == 1

\* The address and what is unused: the 36 bytes that are skipped.
Rest == 2

RecordCells == 10

Cell(record, at) == [record |-> record, at |-> at]
CellsOf(record, from, to) == [i \in 1 .. to - from + 1 |-> Cell(record, from + i - 1)]

Torn == Len(wtmp) % RecordCells
Whole == SubSeq(wtmp, 1, Len(wtmp) - Torn)

WtmpIdle == getting = "idle"

WtmpInit ==
    /\ wtmp = <<>>
    /\ begun = 0
    /\ filling = {}
    /\ getting = "idle"
    /\ offset = 0
    /\ field = 1
    /\ entry = <<>>
    /\ entries = <<>>
    /\ whole = <<>>
    /\ short = FALSE
    /\ slipped = FALSE

\* A record, or the first cells of it. A writer that finds a torn record, whose
\* own writer must be gone, cuts it; the call has slipped if it has read of that.
AppendRecord ==
    /\ getting = "reading"
    /\ begun < MaxRecords
    /\ begun' = begun + 1
    /\ \E cells \in 1 .. RecordCells : wtmp' = Whole \o CellsOf(begun', 1, cells)
    /\ filling' \in {filling, filling \union {begun'}}
    /\ slipped' = (slipped \/ (Torn # 0 /\ offset > Len(Whole)))
    /\ UNCHANGED callVars

\* The writer of a record that is not whole goes on with the rest.
FinishRecord ==
    /\ getting = "reading"
    /\ Torn # 0
    /\ wtmp' = wtmp \o CellsOf(begun, Torn + 1, RecordCells)
    /\ UNCHANGED <<begun, filling, slipped, callVars>>

-----------------------------------------------------------------------------
(* getEntries.                                                             *)

\* The file is opened: so many whole records, and perhaps a torn one.
GetEntries ==
    /\ getting = "idle"
    /\ getting' = "reading"
    /\ \E records \in 0 .. MaxRecords, cells \in 0 .. RecordCells - 1 :
          /\ wtmp' = [i \in 1 .. records * RecordCells + cells |->
                        Cell((i - 1) \div RecordCells + 1, ((i - 1) % RecordCells) + 1)]
          /\ begun' = IF cells = 0 THEN records ELSE records + 1
          /\ whole' = [i \in 1 .. records |-> i]
    /\ begun' <= MaxRecords
    /\ filling' \in SUBSET (1 .. begun')
    /\ UNCHANGED <<offset, field, entry, entries, short, slipped>>

\* None if the file has been cut before the position.
Left == IF offset < Len(wtmp) THEN Len(wtmp) - offset ELSE 0
Got(cells) == SubSeq(wtmp, offset + 1, offset + cells)

\* readShort, readInt. At the end of the file the entries so far are returned.
ReadNumber ==
    /\ getting = "reading"
    /\ field <= Len(RecordFields) /\ RecordFields[field].kind = "number"
    /\ IF Left = 0
       THEN getting' = "returned" /\ UNCHANGED <<offset, field, entry, short, slipped>>
       ELSE /\ offset' = offset + 1
            /\ field' = field + 1
            /\ entry' = entry \o Got(1)
            /\ slipped' = (slipped \/ short)
            /\ short' = FALSE
            /\ UNCHANGED getting
    /\ UNCHANGED <<wtmp, begun, filling, entries, whole>>

\* raf.read(b), which fills what it can of b and says how much, which nobody
\* asks. The call has slipped if it goes on after less, with what came since.
Fill(room) ==
    LET cells == IF Left < room THEN Left ELSE room IN
    /\ offset' = offset + cells
    /\ short' = (cells < room)
    /\ slipped' = (slipped \/ (short /\ cells > 0))

ReadBytes ==
    /\ getting = "reading"
    /\ field <= Len(RecordFields) /\ RecordFields[field].kind = "bytes"
    /\ Fill(RecordFields[field].cells)
    /\ entry' = entry \o Got(offset' - offset)
    /\ field' = field + 1
    /\ UNCHANGED <<wtmp, begun, filling, getting, entries, whole>>

Fills(cells) == \E i \in DOMAIN cells : cells[i].record \in filling

\* What is left of the record is skipped and the entry is added. parse() runs
\* beyond the end of a name that fills its field, and so may one that is made
\* of whatever was read after the call slipped, as may the lookup of its type.
AddEntry ==
    /\ getting = "reading"
    /\ field = Len(RecordFields) + 1
    /\ Fill(Rest)
    /\ \/ /\ Fills(entry) \/ slipped'
          /\ getting' = "thrown"
          /\ UNCHANGED <<field, entry, entries>>
       \/ /\ ~Fills(entry) \/ slipped'
          /\ entries' = Append(entries, entry)
          /\ entry' = <<>>
          /\ field' = 1
          /\ UNCHANGED getting
    /\ UNCHANGED <<wtmp, begun, filling, whole>>

EntriesDone ==
    /\ getting \in {"returned", "thrown"}
    /\ getting' = "idle"
    /\ wtmp' = <<>>
    /\ begun' = 0
    /\ filling' = {}
    /\ offset' = 0
    /\ field' = 1
    /\ entry' = <<>>
    /\ entries' = <<>>
    /\ whole' = <<>>
    /\ short' = FALSE
    /\ slipped' = FALSE

EntriesCall == GetEntries \/ ReadNumber \/ ReadBytes \/ AddEntry \/ EntriesDone

WtmpGrows == AppendRecord \/ FinishRecord

-----------------------------------------------------------------------------
(* Properties.                                                             *)

\* As long as the call has not gone on after an array that was cut short, nor
\* had what it has read cut off, each entry is one record, the entries are all
\* the records there were when the call began and perhaps newer ones, in their
\* order, and only a name that fills its field makes it throw.
EntriesAreRecords ==
    ~slipped =>
        /\ \A i \in DOMAIN entries :
              \E record \in 1 .. begun : entries[i] = CellsOf(record, 1, UsedCells)
        /\ \A i, j \in DOMAIN entries : i < j => entries[i][1].record < entries[j][1].record
        /\ getting = "returned" =>
              /\ Len(entries) >= Len(whole)
              /\ \A i \in DOMAIN whole : entries[i][1].record = whole[i]
        /\ getting = "thrown" => filling # {}
=============================================================================

---------------------------- MODULE DiskPartition ----------------------------
(***************************************************************************)
(* DiskPartition.getDiskPartitions: df is run, its lines are read, and the *)
(* partitions are made of them. df may give a file system two or three     *)
(* lines, broken after the name or among the figures.                      *)
(***************************************************************************)
EXTENDS UtilRun, Sequences, FiniteSets, SequencesExt

CONSTANT MaxRows    \* bound: file systems that df lists

ASSUME DiskAssumption == MaxRows \in Nat

VARIABLES
    rows,       \* the file systems df lists
    index,      \* lines that are parsed, the header the first
    partitions  \* stats

diskVars == <<rows, index, partitions>>

\* Of a row: how many lines after its first its columns are on, the name, some
\* figures and the rest with the path; and whether the path it is mounted on has
\* a percent sign.
Row == {row \in [name : {0}, sizes : 0 .. 1, rest : 0 .. 2, percent : BOOLEAN] :
           row.sizes <= row.rest /\ row.rest <= row.sizes + 1}

Rows == SeqOf(Row, MaxRows)

DiskInit ==
    /\ rows = <<>>
    /\ index = 0
    /\ partitions = <<>>

\* The line of df's output that a row begins on, the header the first; one after
\* the last row begins after the last line.
Begins(list, row) ==
    1 + row + Cardinality({line \in (1 .. row - 1) \X (1 .. 2) : line[2] <= list[line[1]].rest})

\* The row of a line, which is known by its number, and 0 for the header.
RowAt(at) == Cardinality({row \in DOMAIN rows : Begins(rows, row) <= at})

\* What a line has of its row.
Columns(row, at) ==
    IF row = 0 THEN {"header"}
    ELSE {column \in {"name", "sizes", "rest"} : at = Begins(rows, row) + rows[row][column]}

\* The lines that df writes.
Output ==
    [at \in 1 .. Begins(rows, Len(rows) + 1) - 1 |-> [row |-> RowAt(at), columns |-> Columns(RowAt(at), at)]]

\* Those that readPartitions has got.
Lines == SubSeq(Output, 1, builder)

-----------------------------------------------------------------------------
\* df -l writes not even the header if there is no file system to list.
Df ==
    /\ \E list \in Rows :
          /\ rows' = list
          /\ \/ Exec("df", Begins(list, Len(list) + 1) - 1)
             \/ list = <<>> /\ Exec("df", 0)
    /\ UNCHANGED <<index, partitions>>

\* The columns of the lines from one to another, joined.
Joined(at, last) == UNION {Lines[line].columns : line \in at .. last}

\* Faulty Enough: one line that is joined is always enough.
EnoughOnceJoined(at, last) == {"sizes", "rest"} \subseteq Joined(at, last) \/ last > at

\* parts.size() is not less than columnCount: what has all the figures is
\* enough, with a name or without (the name is then empty).
Enough(at, last) == {"sizes", "rest"} \subseteq Joined(at, last)

\* parseLine takes what follows the last percent sign of the line for the path,
\* so that one with a percent sign is cut.
Partition(at, last) ==
    [row |-> Lines[at].row, complete |-> Joined(at, last) = {"name", "sizes", "rest"},
     whole |-> ~rows[Lines[at].row].percent]

\* parseHeader, which throws if there is no line at all.
ParseHeader ==
    /\ running = "returned" /\ caller = "df"
    /\ index = 0
    /\ builder > 0
    /\ index' = 1
    /\ UNCHANGED <<rows, partitions, runVars>>

\* Lines are joined until they have enough columns.
ParseLine ==
    /\ running = "returned" /\ caller = "df"
    /\ index > 0
    /\ \E last \in index + 1 .. builder :
          /\ Enough(index + 1, last)
          /\ \A line \in index + 1 .. last - 1 : ~Enough(index + 1, line)
          /\ partitions' = Append(partitions, Partition(index + 1, last))
          /\ index' = last
    /\ UNCHANGED <<rows, runVars>>

\* lines.get() beyond the end.
Thrown ==
    /\ running = "returned" /\ caller = "df"
    /\ \/ builder = 0
       \/ /\ index > 0 /\ index < builder
          /\ \A last \in index + 1 .. builder : ~Enough(index + 1, last)

\* Every line is parsed, or parsing has thrown.
DiskDone ==
    /\ index = builder \/ Thrown
    /\ RunDone
    /\ rows' = <<>>
    /\ index' = 0
    /\ partitions' = <<>>

\* Parsing comes after all of this.
ChildCall == ChildStep /\ UNCHANGED diskVars
FailCall == ReadFails /\ UNCHANGED diskVars
ReadCall == RunStep /\ UNCHANGED diskVars

\* The calls of Util.run, and those of getDiskPartitions.
RunCall ==
    \/ RunCommand /\ UNCHANGED diskVars
    \/ caller = "run" /\ RunDone /\ UNCHANGED diskVars
    \/ caller = "df" /\ DiskDone
    \/ Df \/ ReadCall \/ ParseHeader \/ ParseLine

-----------------------------------------------------------------------------
(* Properties.                                                             *)

\* The partitions are the file systems that df lists, in its order, each with
\* its own name and figures, on however many lines df gave them; only a read
\* that failed makes for fewer, and only that or a df that wrote nothing for an
\* exception. The path is the whole path unless it has a percent sign.
PartitionsAreRows ==
    running = "returned" /\ caller = "df" =>
        /\ \A i \in DOMAIN partitions :
              LET p == partitions[i] IN
              /\ p.row = i /\ p.complete
              /\ p.whole \/ rows[i].percent
        /\ index = builder /\ builder > 0 /\ ~broken => Len(partitions) = Len(rows)
        /\ Thrown => broken \/ plan.out = 0
=============================================================================

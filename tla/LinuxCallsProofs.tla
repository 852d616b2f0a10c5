--------------------------- MODULE LinuxCallsProofs ---------------------------
(***************************************************************************)
(* What the calls of LinuxCalls return, proved for commands with any       *)
(* amount of output, any file systems, logins, processors, sockets,        *)
(* processes and users, and routing tables of every size. Each component   *)
(* has its own inductive invariant; the lemma Components says that a step  *)
(* of the whole is one of a component that the others do not see.          *)
(***************************************************************************)
EXTENDS LinuxCalls, TLAPS, FiniteSetTheorems, SequenceTheorems, WellFoundedInduction

\* A step of the system or of the thread is one of a component, which the
\* others do not see.
LEMMA Components ==
    ASSUME [Next]_vars
    PROVE  /\ ChildCall \/ FailCall \/ RunCall \/ UNCHANGED readerVars
           /\ WalkNext \/ UNCHANGED processesVars
           /\ ViewNext \/ UNCHANGED viewVars
           /\ RoutesNext \/ UNCHANGED routesVars
           /\ SamplesNext \/ UNCHANGED samplesVars
           /\ EntriesCall \/ WtmpGrows \/ UNCHANGED wtmpVars
BY DEF Next, System, Thread, InRun, InWtmp, InProcesses, InSamples, InView, InRoutes, WalkNext, ViewNext,
       RoutesNext, SamplesNext, vars

\* A finite set of numbers that is not empty has a greatest and a least: the
\* numbers from it on, or up to it, are the fewest.
LEMMA Extremes ==
    ASSUME NEW S \in SUBSET Nat, IsFiniteSet(S), S # {}
    PROVE  /\ Max(S) \in S /\ \A y \in S : Max(S) >= y
           /\ Min(S) \in S /\ \A y \in S : Min(S) <= y
<1> DEFINE Above(x) == {y \in S : y >= x}
           Below(x) == {y \in S : y <= x}
<1>1. IsWellFoundedOn(StrictSubsetOrdering(S), SUBSET S)
  BY FS_StrictSubsetOrderingWellFounded, FS_FiniteSubsetsOfFinite
<1>2. \E x \in S : \A y \in S : x >= y
  <2> DEFINE T == {Above(x) : x \in S}
  <2>1. T \subseteq SUBSET S /\ T # {}
    OBVIOUS
  <2> HIDE DEF T
  <2>2. \E A \in T : \A B \in T : ~(<<B, A>> \in StrictSubsetOrdering(S))
    BY <1>1, <2>1, WFMin
  <2>3. PICK x \in S : \A y \in S : ~(<<Above(y), Above(x)>> \in StrictSubsetOrdering(S))
    BY <2>2 DEF T
  <2>4. \A y \in S : x >= y
    <3> SUFFICES ASSUME NEW y \in S, ~(x >= y) PROVE FALSE
      OBVIOUS
    <3>1. Above(y) \subseteq Above(x) /\ x \in Above(x) /\ x \notin Above(y)
      <4>1. x \in Nat /\ y \in Nat /\ S \subseteq Nat
        OBVIOUS
      <4>2. \A z \in S : z >= y => z >= x
        BY <4>1
      <4>3. x >= x /\ ~(x >= y)
        BY <4>1
      <4>4. Above(y) \subseteq Above(x)
        BY <4>2
      <4>5. x \in Above(x) /\ x \notin Above(y)
        BY <4>3
      <4>6. QED
        BY <4>4, <4>5
    <3>2. <<Above(y), Above(x)>> \in StrictSubsetOrdering(S)
      BY <3>1 DEF StrictSubsetOrdering
    <3>3. QED
      BY <2>3, <3>2
  <2>5. QED
    BY <2>4
<1>3. \E x \in S : \A y \in S : x <= y
  <2> DEFINE T == {Below(x) : x \in S}
  <2>1. T \subseteq SUBSET S /\ T # {}
    OBVIOUS
  <2> HIDE DEF T
  <2>2. \E A \in T : \A B \in T : ~(<<B, A>> \in StrictSubsetOrdering(S))
    BY <1>1, <2>1, WFMin
  <2>3. PICK x \in S : \A y \in S : ~(<<Below(y), Below(x)>> \in StrictSubsetOrdering(S))
    BY <2>2 DEF T
  <2>4. \A y \in S : x <= y
    <3> SUFFICES ASSUME NEW y \in S, ~(x <= y) PROVE FALSE
      OBVIOUS
    <3>1. Below(y) \subseteq Below(x) /\ x \in Below(x) /\ x \notin Below(y)
      <4>1. x \in Nat /\ y \in Nat /\ S \subseteq Nat
        OBVIOUS
      <4>2. \A z \in S : z <= y => z <= x
        BY <4>1
      <4>3. x <= x /\ ~(x <= y)
        BY <4>1
      <4>4. Below(y) \subseteq Below(x)
        BY <4>2
      <4>5. x \in Below(x) /\ x \notin Below(y)
        BY <4>3
      <4>6. QED
        BY <4>4, <4>5
    <3>2. <<Below(y), Below(x)>> \in StrictSubsetOrdering(S)
      BY <3>1 DEF StrictSubsetOrdering
    <3>3. QED
      BY <2>3, <3>2
  <2>5. QED
    BY <2>4
<1>4. QED
  BY <1>2, <1>3 DEF Max, Min

-----------------------------------------------------------------------------
(* Util.run, and the other readers of a command's output.                  *)

\* While the output is read its lines are with the reader, in the pipe or still
\* to be written; afterwards the reader has them all, unless reading failed.
RunInv ==
    /\ running \in {"idle", "out", "err", "finally", "returned"}
    /\ plan \in [out : Nat, err : Nat]
    /\ child \in [out : Nat, err : Nat, alive : BOOLEAN]
    /\ pipe \in [out : Nat, err : Nat]
    /\ builder \in Nat
    /\ running = "idle" => pipe = Nothing /\ builder = 0 /\ ~broken
    /\ running \in {"idle", "returned"} => ~child.alive
    /\ running = "returned" => pipe = Nothing
    /\ ~child.alive => child.out = 0
    /\ running = "out" => builder + pipe.out + child.out = plan.out
    /\ running \in {"err", "finally", "returned"} => builder <= plan.out /\ (builder = plan.out \/ broken)

\* A row begins after the lines of the one before.
LEMMA RowsBegin ==
    ASSUME NEW list \in Seq(Row)
    PROVE  /\ \A row \in 1 .. Len(list) + 1 : Begins(list, row) \in Nat
           /\ Begins(list, 1) = 2
           /\ \A row \in 1 .. Len(list) :
                 Begins(list, row + 1) = Begins(list, row) + 1 + list[row].rest
           /\ \A row \in 1 .. Len(list) + 1, later \in 1 .. Len(list) + 1 :
                 row <= later => Begins(list, row) + (later - row) <= Begins(list, later)
<1> DEFINE n == Len(list)
           More(row) == {line \in (1 .. row - 1) \X (1 .. 2) : line[2] <= list[line[1]].rest}
<1>1. n \in Nat
  BY LenProperties
<1>2. \A row \in Nat : IsFiniteSet(More(row)) /\ Cardinality(More(row)) \in Nat
  <2> SUFFICES ASSUME NEW row \in Nat PROVE IsFiniteSet(More(row)) /\ Cardinality(More(row)) \in Nat
    OBVIOUS
  <2>1. IsFiniteSet(1 .. row - 1) /\ IsFiniteSet(1 .. 2)
    <3>1. 1 \in Int /\ 2 \in Int /\ row - 1 \in Int
      OBVIOUS
    <3>2. \A a \in Int, b \in Int : IsFiniteSet(a .. b)
      BY FS_Interval
    <3>3. QED
      BY <3>1, <3>2
  <2>2. IsFiniteSet((1 .. row - 1) \X (1 .. 2)) /\ More(row) \in SUBSET ((1 .. row - 1) \X (1 .. 2))
    BY <2>1, FS_Product
  <2>3. IsFiniteSet(More(row))
    BY <2>2, FS_Subset
  <2>4. QED
    BY <2>3, FS_CardinalityType
<1>3. \A row : Begins(list, row) = 1 + row + Cardinality(More(row))
  BY DEF Begins
<1>4. Begins(list, 1) = 2
  <2>1. More(1) = {}
    OBVIOUS
  <2>2. Begins(list, 1) = 1 + 1 + Cardinality(More(1))
    BY <1>3
  <2>3. Cardinality(More(1)) = 0
    BY <2>1, FS_EmptySet, Zenon
  <2> HIDE DEF More
  <2>4. QED
    BY <2>2, <2>3
<1>5. ASSUME NEW row \in 1 .. n
      PROVE  Begins(list, row + 1) = Begins(list, row) + 1 + list[row].rest
  <2>1. row \in Nat /\ IsFiniteSet(More(row)) /\ Cardinality(More(row)) \in Nat
    BY <1>1, <1>2
  <2>2. list[row] \in Row
    BY <1>1, ElementOfSeq
  <2>3. list[row].rest \in 0 .. 2
    BY <2>2 DEF Row
  <2> DEFINE Own == {row} \X (1 .. list[row].rest)
  <2>4. More(row + 1) = More(row) \union Own /\ More(row) \cap Own = {}
    <3>1. \A i \in 1 .. row : i \in 1 .. row - 1 \/ i = row
      BY <2>1
    <3>2. \A k \in 1 .. 2 : k <= list[row].rest <=> k \in 1 .. list[row].rest
      BY <2>3
    <3>3. 1 .. list[row].rest \subseteq 1 .. 2
      BY <2>3
    <3>4. row + 1 - 1 = row /\ row \notin 1 .. row - 1 /\ row \in 1 .. row
      BY <2>1
    <3>5. QED
      BY <3>1, <3>2, <3>3, <3>4
  <2>5. IsFiniteSet(Own) /\ Cardinality(Own) = list[row].rest
    <3>1. IsFiniteSet({row}) /\ Cardinality({row}) = 1
      BY FS_Singleton
    <3>2. IsFiniteSet(1 .. list[row].rest) /\ Cardinality(1 .. list[row].rest) = list[row].rest
      <4>1. \A k \in 0 .. 2 : IsFiniteSet(1 .. k) /\ Cardinality(1 .. k) = k
        <5>1. \A k \in Int : IsFiniteSet(1 .. k) /\ Cardinality(1 .. k) = IF 1 <= k THEN k - 1 + 1 ELSE 0
          BY FS_Interval
        <5>2. QED
          BY <5>1
      <4>2. QED
        BY <2>3, <4>1
    <3>3. IsFiniteSet(Own) /\ Cardinality(Own) = Cardinality({row}) * Cardinality(1 .. list[row].rest)
      BY <3>1, <3>2, FS_Product
    <3>4. QED
      BY <2>3, <3>1, <3>2, <3>3
  <2>6. Cardinality(More(row + 1)) = Cardinality(More(row)) + Cardinality(Own)
    <3>1. Cardinality(More(row) \union Own) =
              Cardinality(More(row)) + Cardinality(Own) - Cardinality(More(row) \cap Own)
      BY <2>1, <2>5, FS_Union
    <3>2. Cardinality(More(row) \cap Own) = 0
      BY <2>4, FS_EmptySet, Zenon
    <3>3. Cardinality(More(row + 1)) = Cardinality(More(row) \union Own)
      BY <2>4
    <3>4. Cardinality(Own) \in Nat
      BY <2>3, <2>5
    <3> HIDE DEF More, Own
    <3>5. QED
      BY <2>1, <3>1, <3>2, <3>3, <3>4
  <2>7. /\ Begins(list, row) = 1 + row + Cardinality(More(row))
        /\ Begins(list, row + 1) = 1 + (row + 1) + Cardinality(More(row + 1))
    BY <1>3
  <2> HIDE DEF More, Own
  <2>8. QED
    BY <2>1, <2>3, <2>5, <2>6, <2>7
<1>6. ASSUME NEW row \in 1 .. n + 1, NEW later \in 1 .. n + 1, row <= later
      PROVE  Begins(list, row) + (later - row) <= Begins(list, later)
  <2>1. row \in Nat /\ later \in Nat
    BY <1>1
  <2>2. More(row) \in SUBSET More(later)
    BY <1>6, <2>1
  <2>3. Cardinality(More(row)) <= Cardinality(More(later))
    BY <1>2, <2>1, <2>2, FS_Subset
  <2>4. Cardinality(More(row)) \in Nat /\ Cardinality(More(later)) \in Nat
    BY <1>2, <2>1
  <2> HIDE DEF More
  <2>5. Begins(list, row) = 1 + row + Cardinality(More(row))
    BY <1>3
  <2>6. Begins(list, later) = 1 + later + Cardinality(More(later))
    BY <1>3
  <2>7. QED
    BY <2>1, <2>3, <2>4, <2>5, <2>6
<1>7. \A row \in 1 .. n + 1 : Begins(list, row) \in Nat
  <2> SUFFICES ASSUME NEW row \in 1 .. n + 1 PROVE Begins(list, row) \in Nat
    OBVIOUS
  <2>1. row \in Nat
    BY <1>1
  <2>2. Cardinality(More(row)) \in Nat
    BY <1>2, <2>1
  <2>3. Begins(list, row) = 1 + row + Cardinality(More(row))
    BY <1>3
  <2> HIDE DEF More
  <2>4. QED
    BY <2>1, <2>2, <2>3
<1>8. QED
  BY <1>4, <1>5, <1>6, <1>7

\* The lines of df are finitely many.
LEMMA LinesOfDf ==
    ASSUME NEW list \in Rows
    PROVE  list \in Seq(Row) /\ Begins(list, Len(list) + 1) - 1 \in Nat
<1>1. list \in Seq(Row)
  BY DiskAssumption DEF DiskAssumption, Rows, SeqOf
<1>2. Len(list) \in Nat /\ 1 \in 1 .. Len(list) + 1 /\ Len(list) + 1 \in 1 .. Len(list) + 1
  BY <1>1, LenProperties
<1>3. Begins(list, Len(list) + 1) \in Nat /\ Begins(list, 1) = 2
  BY <1>1, <1>2, RowsBegin
<1>4. Begins(list, 1) + (Len(list) + 1 - 1) <= Begins(list, Len(list) + 1)
  BY <1>1, <1>2, RowsBegin
<1>5. QED
  BY <1>1, <1>2, <1>3, <1>4

\* No step of a reader or of a child, and no read that fails, breaks RunInv.
LEMMA RunPreserved ==
    RunInv /\ (ChildCall \/ FailCall \/ RunCall \/ UNCHANGED readerVars) => RunInv'
<1> SUFFICES ASSUME RunInv, ChildCall \/ FailCall \/ RunCall \/ UNCHANGED readerVars PROVE RunInv'
  OBVIOUS
<1> USE DEF RunInv
<1>e. ASSUME NEW reader, NEW lines \in Nat, Exec(reader, lines) PROVE RunInv'
  <2>1. /\ running = "idle" /\ running' = "out"
        /\ plan' \in [out : {lines}, err : 0 .. MaxErr]
        /\ child' = [out |-> plan'.out, err |-> plan'.err, alive |-> TRUE]
        /\ UNCHANGED <<pipe, builder, broken>>
    BY <1>e DEF Exec
  <2>2. plan' \in [out : Nat, err : Nat] /\ plan'.out = lines
    BY <2>1, RunAssumption DEF RunAssumption
  <2>3. pipe.out = 0 /\ builder = 0
    BY <2>1 DEF Nothing
  <2>4. builder' + pipe'.out + child'.out = plan'.out
    BY <2>1, <2>2, <2>3
  <2>5. QED
    BY <2>1, <2>2, <2>4
<1>d. ASSUME RunDone PROVE RunInv'
  BY <1>d DEF RunDone, Nothing
<1>1. CASE ChildCall
  <2>1. CASE ChildWrites
    <3>1. PICK stream \in {"out", "err"} :
             /\ child[stream] > 0
             /\ child' = [child EXCEPT ![stream] = @ - 1]
             /\ pipe' = [pipe EXCEPT ![stream] = @ + 1]
      BY <2>1 DEF ChildWrites
    <3>2. child.alive /\ UNCHANGED <<running, plan, builder, broken>>
      BY <2>1 DEF ChildWrites
    <3>3. child' \in [out : Nat, err : Nat, alive : BOOLEAN] /\ child'.alive
          /\ pipe' \in [out : Nat, err : Nat]
          /\ pipe'.out + child'.out = pipe.out + child.out
      BY <3>1, <3>2
    <3>4. builder + pipe'.out + child'.out = builder + pipe.out + child.out
      BY <3>3
    <3>5. QED
      BY <3>2, <3>3, <3>4
  <2>2. CASE ChildExits
    BY <2>2 DEF ChildExits
  <2>3. QED
    BY <1>1, <2>1, <2>2 DEF ChildCall, ChildStep
<1>2. CASE FailCall
  BY <1>2 DEF FailCall, ReadFails
<1>3. CASE RunCommand
  <2>1. PICK lines \in 0 .. MaxOut : Exec("run", lines)
    BY <1>3 DEF RunCommand
  <2>2. QED
    BY <1>e, <2>1, RunAssumption DEF RunAssumption
<1>4. CASE Df
  <2>1. PICK list \in Rows : Exec("df", Begins(list, Len(list) + 1) - 1) \/ Exec("df", 0)
    BY <1>4 DEF Df
  <2>2. QED
    BY <1>e, <2>1, LinesOfDf
<1>5. CASE ReadOutput
  <2>1. running = "out" /\ UNCHANGED <<plan, child, broken>>
    BY <1>5 DEF ReadOutput
  <2>2. CASE OutputLine
    <3>1. /\ pipe' = [pipe EXCEPT !.out = @ - 1] /\ builder' = builder + 1 /\ running' = running
          /\ pipe.out > 0
      BY <2>2 DEF OutputLine
    <3>2. /\ pipe' \in [out : Nat, err : Nat] /\ builder' \in Nat
          /\ builder' + pipe'.out = builder + pipe.out
      BY <3>1
    <3>3. builder' + pipe'.out + child.out = builder + pipe.out + child.out
      BY <3>2
    <3>4. QED
      BY <2>1, <3>1, <3>2, <3>3
  <2>3. CASE pipe.out = 0 /\ ~child.alive /\ OutputEnds
    <3>1. running' \in {"err", "finally"} /\ UNCHANGED <<pipe, builder>>
      BY <2>3 DEF OutputEnds
    <3>2. builder = plan.out
      BY <2>1, <2>3
    <3>3. QED
      BY <2>1, <3>1, <3>2
  <2>4. QED
    BY <1>5, <2>2, <2>3 DEF ReadOutput
<1>6. CASE ReadErrors
  BY <1>6 DEF ReadErrors
<1>7. CASE Destroy
  BY <1>7 DEF Destroy, NoChild, Nothing
<1>8. CASE UNCHANGED runVars
  BY <1>8 DEF runVars
<1>9. QED
  BY <1>1, <1>2, <1>3, <1>4, <1>5, <1>6, <1>7, <1>8, <1>d
  DEF RunCall, DiskDone, ReadCall, RunStep, ParseHeader, ParseLine, readerVars

\* A call that reads a command's output returns all of it, unless reading
\* failed, and leaves no child behind.
THEOREM OutputWhole == Spec => []OutputIsWhole
<1>1. Init => RunInv
  BY DEF Init, RunInit, RunInv, Nothing, NoChild
<1>2. RunInv /\ [Next]_vars => RunInv'
  BY Components, RunPreserved
<1>3. RunInv => OutputIsWhole
  BY DEF RunInv, OutputIsWhole
<1>4. QED
  BY <1>1, <1>2, <1>3, PTL DEF Spec

-----------------------------------------------------------------------------
(* The lines of df and the partitions.                                     *)

\* Which lines df has written, and of which rows they are.
LEMMA LinesOfRows ==
    ASSUME rows \in Seq(Row), NEW last \in Nat, last <= Begins(rows, Len(rows) + 1) - 1,
           NEW row \in 1 .. Len(rows), NEW at \in 1 .. last,
           Begins(rows, row) <= at, at < Begins(rows, row + 1)
    PROVE  /\ SubSeq(Output, 1, last)[at].row = row
           /\ SubSeq(Output, 1, last)[at].columns = Columns(row, at)
<1>1. Len(rows) \in Nat /\ DOMAIN rows = 1 .. Len(rows) /\ row \in Nat /\ row + 1 \in 1 .. Len(rows) + 1
  BY LenProperties
<1>2. RowAt(at) = row
  <2> DEFINE numbers == {other \in DOMAIN rows : Begins(rows, other) <= at}
  <2>1. ASSUME NEW other \in 1 .. Len(rows) PROVE other \in numbers <=> other <= row
    <3>1. /\ Begins(rows, other) \in Nat /\ Begins(rows, row) \in Nat /\ Begins(rows, row + 1) \in Nat
          /\ other <= row => Begins(rows, other) + (row - other) <= Begins(rows, row)
          /\ row + 1 <= other => Begins(rows, row + 1) + (other - (row + 1)) <= Begins(rows, other)
      BY <1>1, RowsBegin
    <3>2. CASE other <= row
      BY <1>1, <2>1, <3>1, <3>2
    <3>3. CASE row + 1 <= other
      BY <1>1, <2>1, <3>1, <3>3
    <3>4. QED
      BY <1>1, <3>2, <3>3
  <2>2. numbers = 1 .. row
    BY <1>1, <2>1
  <2>3. Cardinality(1 .. row) = row
    BY <1>1, FS_Interval
  <2>4. QED
    BY <2>2, <2>3 DEF RowAt
<1>3. PICK n \in Nat : n = Begins(rows, Len(rows) + 1) - 1 /\ last <= n
  <2>1. /\ Len(rows) + 1 \in 1 .. Len(rows) + 1 /\ 1 \in 1 .. Len(rows) + 1
        /\ 1 <= Len(rows) + 1 /\ Len(rows) + 1 - 1 \in Nat
    BY <1>1
  <2>2. Begins(rows, Len(rows) + 1) \in Nat
    BY <2>1, RowsBegin
  <2>3. Begins(rows, 1) = 2 /\ Begins(rows, 1) + (Len(rows) + 1 - 1) <= Begins(rows, Len(rows) + 1)
    BY <2>1, RowsBegin
  <2>4. PICK b \in Nat : b = Begins(rows, Len(rows) + 1)
    BY <2>2
  <2>5. b - 1 \in Nat
    BY <2>1, <2>3, <2>4
  <2>6. QED
    BY <2>4, <2>5
<1>4. Output = [i \in 1 .. n |-> [row |-> RowAt(i), columns |-> Columns(RowAt(i), i)]]
  BY <1>3 DEF Output
<1>5. at \in 1 .. n /\ last \in Int /\ 1 <= last /\ at \in 1 .. last - 1 + 1 /\ 1 + at - 1 = at
  BY <1>3
<1>6. SubSeq(Output, 1, last)[at] = Output[at]
  <2> DEFINE S == {Output[i] : i \in 1 .. n}
  <2>1. \A i \in 1 .. last : i \in 1 .. n
    BY <1>3
  <2>2. \A i \in 1 .. last : Output[i] \in S
    BY <2>1
  <2>3. Output \in [1 .. n -> S]
    BY <1>4, Zenon
  <2> HIDE DEF S
  <2>4. Output \in Seq(S)
    BY <1>3, <2>3
  <2>5. SubSeq(Output, 1, last)[at] = Output[1 + at - 1]
    BY <1>5, <2>2, <2>4, SubSeqProperties
  <2>6. QED
    BY <1>5, <2>5
<1>7. Output[at] = [row |-> RowAt(at), columns |-> Columns(RowAt(at), at)]
  BY <1>4, <1>5
<1>8. QED
  BY <1>2, <1>6, <1>7

\* The first rows have been parsed, with their lines, each to its partition.
Parsed(count) ==
    /\ index = Begins(rows, count + 1) - 1
    /\ Len(partitions) = count /\ DOMAIN partitions = 1 .. count
    /\ \A i \in 1 .. count :
          partitions[i].row = i /\ partitions[i].complete /\ (partitions[i].whole \/ rows[i].percent)

\* Parsing is between two rows.
DiskInv ==
    /\ rows \in Seq(Row)
    /\ index \in Nat
    /\ index = 0 => partitions = <<>>
    /\ index # 0 => /\ caller = "df" /\ running = "returned" /\ builder > 0
                     /\ \E count \in 0 .. Len(rows) : Parsed(count)
    /\ caller = "df" /\ running # "idle" =>
          plan.out = Begins(rows, Len(rows) + 1) - 1 \/ plan.out = 0

\* The lines of a row that have been read, joined from its first one on, have
\* all its columns with its last line, and not enough of them before.
LEMMA RowJoined ==
    ASSUME RunInv, DiskInv, running = "returned", caller = "df",
           NEW row \in 1 .. Len(rows), NEW last \in Nat,
           Begins(rows, row) <= last, last < Begins(rows, row + 1), last <= builder
    PROVE  /\ Lines[Begins(rows, row)].row = row
           /\ last = Begins(rows, row + 1) - 1 =>
                  Joined(Begins(rows, row), last) = {"name", "sizes", "rest"}
           /\ Enough(Begins(rows, row), last) <=> last = Begins(rows, row + 1) - 1
<1>1. /\ Len(rows) \in Nat /\ rows \in Seq(Row) /\ builder \in Nat
      /\ row \in Nat /\ row # 0 /\ row + 1 \in 1 .. Len(rows) + 1
      /\ Len(rows) + 1 \in 1 .. Len(rows) + 1
  BY LenProperties DEF DiskInv, RunInv
<1>2. rows[row] \in Row
  BY <1>1, ElementOfSeq
<1>3. /\ rows[row]["name"] = 0
      /\ rows[row]["sizes"] \in 0 .. 1 /\ rows[row]["rest"] \in 0 .. 2
      /\ rows[row]["sizes"] <= rows[row]["rest"]
  BY <1>2 DEF Row
<1>4. PICK first \in Nat, end \in Nat :
          /\ first = Begins(rows, row) /\ end = Begins(rows, row + 1) - 1
          /\ end = first + rows[row]["rest"] /\ first >= 2 /\ first <= last /\ last <= end
  <2>1. /\ Begins(rows, row) \in Nat /\ Begins(rows, row + 1) \in Nat
        /\ Begins(rows, row + 1) = Begins(rows, row) + 1 + rows[row].rest
    BY <1>1, RowsBegin
  <2>2. Begins(rows, 1) + (row - 1) <= Begins(rows, row) /\ Begins(rows, 1) = 2
    <3>1. 1 \in 1 .. Len(rows) + 1 /\ row \in 1 .. Len(rows) + 1 /\ 1 <= row
      BY <1>1
    <3>2. QED
      BY <1>1, <3>1, RowsBegin
  <2>3. PICK a \in Nat : a = Begins(rows, row)
    BY <2>1
  <2>4. a >= 2
    BY <1>1, <2>2, <2>3
  <2>5. a + rows[row]["rest"] \in Nat /\ Begins(rows, row + 1) - 1 = a + rows[row]["rest"]
    BY <1>3, <2>1, <2>3
  <2>6. PICK c \in Nat : c = Begins(rows, row + 1)
    BY <2>1
  <2>7. a <= last /\ last <= c - 1
    BY <2>3, <2>6
  <2>8. c - 1 = a + rows[row]["rest"]
    BY <2>5, <2>6
  <2>9. QED
    BY <2>3, <2>4, <2>5, <2>6, <2>7, <2>8
<1>5. \A line \in first .. last : Lines[line].row = row /\ Lines[line].columns = Columns(row, line)
  <2> SUFFICES ASSUME NEW line \in first .. last
               PROVE  Lines[line].row = row /\ Lines[line].columns = Columns(row, line)
    OBVIOUS
  <2>1. PICK b \in Nat : b = builder
    BY <1>1
  <2>2. line \in 1 .. b
    BY <1>4, <2>1
  <2>3. b <= Begins(rows, Len(rows) + 1) - 1
    <3>1. builder <= plan.out
      BY DEF RunInv
    <3>2. builder # 0
      BY <2>1, <2>2
    <3>3. plan.out = Begins(rows, Len(rows) + 1) - 1
      BY <1>1, <3>1, <3>2 DEF DiskInv
    <3>4. QED
      BY <2>1, <3>1, <3>3
  <2>4. Begins(rows, row) <= line /\ line < Begins(rows, row + 1)
    <3>1. Begins(rows, row + 1) \in Nat
      BY <1>1, RowsBegin
    <3>2. line <= end
      BY <1>4
    <3>3. QED
      BY <1>4, <3>1, <3>2
  <2>5. SubSeq(Output, 1, b)[line].row = row /\ SubSeq(Output, 1, b)[line].columns = Columns(row, line)
    BY <1>1, <2>2, <2>3, <2>4, LinesOfRows
  <2>6. QED
    BY <2>1, <2>5 DEF Lines
<1>6. \A line \in first .. last, column \in {"name", "sizes", "rest"} :
          column \in Lines[line].columns <=> line = first + rows[row][column]
  BY <1>1, <1>4, <1>5 DEF Columns
<1>7. \A line \in first .. last : Lines[line].columns \subseteq {"name", "sizes", "rest"}
  BY <1>1, <1>5 DEF Columns
<1>8. first <= last /\ last <= end
  BY <1>4
<1>9. first \in first .. last
  BY <1>8
<1>10. last = end => Joined(first, last) = {"name", "sizes", "rest"}
  <2> SUFFICES ASSUME last = end PROVE Joined(first, last) = {"name", "sizes", "rest"}
    OBVIOUS
  <2>1. \A column \in {"name", "sizes", "rest"} : first + rows[row][column] \in first .. last
    BY <1>3, <1>4
  <2>2. QED
    BY <1>6, <1>7, <2>1 DEF Joined
<1>11. last # end => "rest" \notin Joined(first, last)
  <2>1. \A line \in first .. last : line = first + rows[row]["rest"] => line = end
    BY <1>4
  <2>2. last # end => \A line \in first .. last : line # end
    BY <1>4, <1>8
  <2>3. QED
    BY <1>6, <2>1, <2>2 DEF Joined
<1>12. Enough(first, last) <=> last = end
  BY <1>10, <1>11 DEF Enough
<1>13. QED
  BY <1>4, <1>5, <1>9, <1>10, <1>12

\* What a step of the loop over the lines does.
LEMMA RowParsed ==
    ASSUME RunInv, DiskInv, ParseLine, NEW count \in 0 .. Len(rows), Parsed(count)
    PROVE  count + 1 \in 1 .. Len(rows) /\ Parsed(count + 1)'
<1> DEFINE row == count + 1
<1>1. /\ index > 0 /\ UNCHANGED <<rows, runVars>> /\ running = "returned" /\ caller = "df"
  BY DEF ParseLine
<1>2. PICK last \in index + 1 .. builder :
          /\ Enough(index + 1, last)
          /\ \A line \in index + 1 .. last - 1 : ~Enough(index + 1, line)
          /\ partitions' = Append(partitions, Partition(index + 1, last))
          /\ index' = last
  BY DEF ParseLine
<1>3. Len(rows) \in Nat /\ rows \in Seq(Row) /\ builder \in Nat /\ index \in Nat /\ count \in Nat
  BY LenProperties DEF DiskInv, RunInv
<1>4. builder <= Begins(rows, Len(rows) + 1) - 1
  <2>1. builder <= plan.out /\ builder > 0
    BY <1>1 DEF DiskInv, RunInv
  <2>2. QED
    BY <1>1, <1>3, <2>1 DEF DiskInv
<1>5. index + 1 = Begins(rows, row) /\ Begins(rows, row) \in Nat
  <2>1. row \in 1 .. Len(rows) + 1
    BY <1>3
  <2>2. Begins(rows, row) \in Nat
    BY <1>3, <2>1, RowsBegin
  <2>3. QED
    BY <1>3, <2>2 DEF Parsed
<1>6. row \in 1 .. Len(rows)
  <2>1. CASE count = Len(rows)
    <3>1. index + 1 = Begins(rows, Len(rows) + 1)
      BY <1>5, <2>1
    <3>2. QED
      BY <1>2, <1>3, <1>4, <3>1
  <2>2. QED
    BY <1>3, <2>1
<1>7. PICK end \in Nat : /\ end = Begins(rows, row + 1) - 1 /\ index + 1 <= end
                         /\ Begins(rows, row + 1) \in Nat
  <2>1. row + 1 \in 1 .. Len(rows) + 1 /\ rows[row].rest \in 0 .. 2
    <3>1. rows[row] \in Row
      BY <1>3, <1>6, ElementOfSeq
    <3>2. QED
      BY <1>3, <1>6, <3>1 DEF Row
  <2>2. Begins(rows, row + 1) \in Nat /\ Begins(rows, row + 1) = Begins(rows, row) + 1 + rows[row].rest
    BY <1>3, <1>6, <2>1, RowsBegin
  <2>3. QED
    BY <1>3, <1>5, <2>1, <2>2
<1> HIDE DEF row
<1>8. \A line \in index + 1 .. end : line <= builder =>
          /\ Lines[index + 1].row = row
          /\ line = end => Joined(index + 1, line) = {"name", "sizes", "rest"}
          /\ Enough(index + 1, line) <=> line = end
  <2> SUFFICES ASSUME NEW line \in index + 1 .. end, line <= builder
               PROVE  /\ Lines[index + 1].row = row
                      /\ line = end => Joined(index + 1, line) = {"name", "sizes", "rest"}
                      /\ Enough(index + 1, line) <=> line = end
    OBVIOUS
  <2>1. line \in Nat /\ Begins(rows, row) <= line /\ line < Begins(rows, row + 1)
    BY <1>3, <1>5, <1>7
  <2>2. QED
    BY <1>1, <1>5, <1>6, <1>7, <2>1, RowJoined
<1>9. last = end
  <2>1. last \in Nat /\ index + 1 <= last /\ last <= builder
    BY <1>2, <1>3
  <2>2. CASE last <= end
    BY <1>2, <1>3, <1>8, <2>1, <2>2
  <2>3. CASE end < last
    <3>1. end \in index + 1 .. last - 1 /\ end <= builder
      BY <1>3, <1>7, <2>1, <2>3
    <3>2. end \in index + 1 .. end
      BY <1>3, <1>7
    <3>3. QED
      BY <1>2, <1>8, <3>1, <3>2
  <2>4. QED
    BY <2>1, <2>2, <2>3
<1>10. /\ Partition(index + 1, last).row = row /\ Partition(index + 1, last).complete
       /\ Partition(index + 1, last).whole \/ rows[row].percent
  <2>1. end \in index + 1 .. end /\ end <= builder
    BY <1>2, <1>3, <1>7, <1>9
  <2>2. Lines[index + 1].row = row /\ Joined(index + 1, last) = {"name", "sizes", "rest"}
    BY <1>8, <1>9, <2>1
  <2>3. QED
    BY <2>2 DEF Partition
<1>11. /\ Len(partitions') = row /\ DOMAIN partitions' = 1 .. row
       /\ partitions'[row] = Partition(index + 1, last)
       /\ \A i \in 1 .. count : partitions'[i] = partitions[i]
  BY <1>2, <1>3 DEF Parsed, row
<1>12. Parsed(row)'
  <2>1. index' = Begins(rows', row + 1) - 1
    <3>1. index' = end /\ rows' = rows
      BY <1>1, <1>2, <1>9
    <3>2. QED
      BY <3>1, <1>7
  <2>2. \A i \in 1 .. row : /\ partitions'[i].row = i /\ partitions'[i].complete
                            /\ partitions'[i].whole \/ rows'[i].percent
    <3> SUFFICES ASSUME NEW i \in 1 .. row
                 PROVE  /\ partitions'[i].row = i /\ partitions'[i].complete
                        /\ partitions'[i].whole \/ rows'[i].percent
      OBVIOUS
    <3>1. CASE i = row
      BY <1>1, <1>10, <1>11, <3>1
    <3>2. CASE i # row
      <4>1. i \in 1 .. count
        BY <1>3, <3>2 DEF row
      <4>2. partitions'[i] = partitions[i] /\ rows'[i] = rows[i]
        BY <1>1, <1>11, <4>1
      <4>3. QED
        BY <4>1, <4>2 DEF Parsed
    <3>3. QED
      BY <3>1, <3>2
  <2>3. QED
    BY <1>11, <2>1, <2>2 DEF Parsed
<1>13. QED
  BY <1>6, <1>12 DEF row

\* Nothing is parsed until the lines have been read.
LEMMA DiskPreserved ==
    ASSUME RunInv, DiskInv, ChildCall \/ FailCall \/ RunCall \/ UNCHANGED readerVars
    PROVE  DiskInv'
<1> USE DEF DiskInv
<1>u. ASSUME UNCHANGED diskVars, index = 0, caller' = "df" /\ running' # "idle" =>
                  plan'.out = Begins(rows, Len(rows) + 1) - 1 \/ plan'.out = 0
      PROVE  DiskInv'
  BY <1>u DEF diskVars
<1>1. CASE ChildCall
  <2>1. UNCHANGED <<diskVars, running, caller, plan, builder>>
    BY <1>1 DEF ChildCall, ChildStep, ChildWrites, ChildExits
  <2>2. \A count : Parsed(count)' = Parsed(count)
    BY <2>1 DEF Parsed, diskVars
  <2>3. QED
    BY <2>1, <2>2 DEF diskVars
<1>2. CASE FailCall
  <2>1. running \in {"out", "err"} /\ UNCHANGED <<diskVars, caller, plan>>
    BY <1>2 DEF FailCall, ReadFails
  <2>2. index = 0 /\ running # "idle"
    BY <2>1
  <2>3. QED
    BY <1>u, <2>1, <2>2
<1>3. CASE RunCommand /\ UNCHANGED diskVars
  <2>1. running = "idle" /\ caller' = "run"
    BY <1>3 DEF RunCommand, Exec
  <2>2. index = 0
    BY <2>1
  <2>3. QED
    BY <1>3, <1>u, <2>1, <2>2
<1>4. CASE caller = "run" /\ RunDone /\ UNCHANGED diskVars
  <2>1. index = 0 /\ running' = "idle"
    BY <1>4 DEF RunDone
  <2>2. QED
    BY <1>4, <1>u, <2>1
<1>5. CASE DiskDone
  <2>1. rows' = <<>> /\ index' = 0 /\ partitions' = <<>> /\ running' = "idle"
    BY <1>5 DEF DiskDone, RunDone
  <2>2. QED
    BY <2>1
<1>6. CASE Df
  <2>1. PICK list \in Rows :
           rows' = list /\ (Exec("df", Begins(list, Len(list) + 1) - 1) \/ Exec("df", 0))
    BY <1>6 DEF Df
  <2>2. /\ plan'.out = Begins(list, Len(list) + 1) - 1 \/ plan'.out = 0
        /\ running = "idle" /\ UNCHANGED <<index, partitions>>
    BY <1>6, <2>1 DEF Exec, Df
  <2>3. index = 0
    BY <2>2
  <2>4. list \in Seq(Row)
    BY DiskAssumption DEF DiskAssumption, Rows, SeqOf
  <2>5. QED
    BY <2>1, <2>2, <2>3, <2>4
<1>7. CASE ReadCall
  <2>1. running \in {"out", "err", "finally"} /\ UNCHANGED <<diskVars, caller, plan>>
    BY <1>7 DEF ReadCall, RunStep, ReadOutput, ReadErrors, Destroy
  <2>2. index = 0 /\ running # "idle"
    BY <2>1
  <2>3. QED
    BY <1>u, <2>1, <2>2
<1>8. CASE ParseHeader
  <2>1. /\ running = "returned" /\ caller = "df" /\ index = 0 /\ builder > 0 /\ index' = 1
        /\ UNCHANGED <<rows, partitions, runVars>>
    BY <1>8 DEF ParseHeader
  <2>2. Len(rows) \in Nat /\ 0 \in 0 .. Len(rows)
    BY LenProperties
  <2>3. Begins(rows, 1) = 2
    BY RowsBegin
  <2>4. Parsed(0)'
    BY <2>1, <2>3 DEF Parsed
  <2>5. QED
    BY <2>1, <2>2, <2>4 DEF runVars
<1>9. CASE ParseLine
  <2>1. index > 0 /\ running = "returned" /\ caller = "df" /\ UNCHANGED <<rows, runVars>>
    BY <1>9 DEF ParseLine
  <2>2. PICK count \in 0 .. Len(rows) : Parsed(count)
    BY <2>1
  <2>3. count + 1 \in 1 .. Len(rows) /\ Parsed(count + 1)'
    BY <1>9, <2>2, RowParsed
  <2>4. Begins(rows, count + 1 + 1) \in Nat /\ Begins(rows, count + 1 + 1) >= 2
    <3>1. Len(rows) \in Nat /\ count + 1 + 1 \in 1 .. Len(rows) + 1 /\ 1 \in 1 .. Len(rows) + 1
      BY <2>3, LenProperties
    <3>2. Begins(rows, count + 1 + 1) \in Nat
      BY <3>1, RowsBegin
    <3>3. Begins(rows, 1) + (count + 1 + 1 - 1) <= Begins(rows, count + 1 + 1) /\ Begins(rows, 1) = 2
      BY <3>1, RowsBegin
    <3>4. QED
      BY <3>2, <3>3
  <2>5. index' = Begins(rows, count + 1 + 1) - 1
    BY <2>1, <2>3 DEF Parsed
  <2>6. index' \in Nat /\ index' # 0
    BY <2>4, <2>5
  <2>7. builder > 0
    BY <2>1
  <2>8. \E done \in 0 .. Len(rows) : Parsed(done)'
    BY <2>3
  <2>9. QED
    BY <2>1, <2>6, <2>7, <2>8 DEF runVars
<1>10. CASE UNCHANGED readerVars
  <2>1. UNCHANGED <<diskVars, running, caller, plan, builder>>
    BY <1>10 DEF readerVars, runVars
  <2>2. \A count : Parsed(count)' = Parsed(count)
    BY <2>1 DEF Parsed, diskVars
  <2>3. QED
    BY <2>1, <2>2 DEF diskVars
<1>11. QED
  BY <1>1, <1>2, <1>3, <1>4, <1>5, <1>6, <1>7, <1>8, <1>9, <1>10 DEF RunCall

\* The partitions that getDiskPartitions makes are the rows that df lists, on
\* however many lines, and all of them unless reading failed; it throws only
\* then or if df wrote nothing.
THEOREM RowsOfAnyTable == Spec => []PartitionsAreRows
<1>1. Init => RunInv /\ DiskInv
  BY DEF Init, RunInit, RunInv, Nothing, NoChild, DiskInit, DiskInv
<1>2. RunInv /\ DiskInv /\ [Next]_vars => RunInv' /\ DiskInv'
  BY Components, RunPreserved, DiskPreserved
<1>3. RunInv /\ DiskInv => PartitionsAreRows
  <2> SUFFICES ASSUME RunInv, DiskInv, running = "returned", caller = "df"
               PROVE  /\ \A i \in DOMAIN partitions :
                            /\ partitions[i].row = i /\ partitions[i].complete
                            /\ partitions[i].whole \/ rows[i].percent
                      /\ index = builder /\ builder > 0 /\ ~broken => Len(partitions) = Len(rows)
                      /\ Thrown => broken \/ plan.out = 0
    BY DEF PartitionsAreRows
  <2>1. /\ builder \in Nat /\ rows \in Seq(Row) /\ index \in Nat /\ Len(rows) \in Nat
        /\ builder = plan.out \/ broken
        /\ plan.out = Begins(rows, Len(rows) + 1) - 1 \/ plan.out = 0
    BY LenProperties DEF RunInv, DiskInv
  <2>2. /\ \A r \in 1 .. Len(rows) + 1 : Begins(rows, r) \in Nat
        /\ \A r \in 1 .. Len(rows) + 1, later \in 1 .. Len(rows) + 1 :
              r <= later => Begins(rows, r) + (later - r) <= Begins(rows, later)
    BY <2>1, RowsBegin
  <2>3. CASE index = 0
    <3>1. partitions = <<>>
      BY <2>3 DEF DiskInv
    <3>2. Thrown => broken \/ plan.out = 0
      BY <2>1, <2>3 DEF Thrown
    <3>3. QED
      BY <2>3, <3>1, <3>2
  <2>4. CASE index # 0
    <3>1. PICK count \in 0 .. Len(rows) : Parsed(count)
      BY <2>4 DEF DiskInv
    <3>2. builder > 0
      BY <2>4 DEF DiskInv
    <3>3. ~broken => builder = Begins(rows, Len(rows) + 1) - 1
      BY <2>1, <3>2
    <3>4. PICK first \in Nat, end \in Nat :
             /\ first = Begins(rows, count + 1) /\ index = first - 1
             /\ end = Begins(rows, Len(rows) + 1)
             /\ first + (Len(rows) - count) <= end
      <4>1. count + 1 \in 1 .. Len(rows) + 1 /\ Len(rows) + 1 \in 1 .. Len(rows) + 1 /\ count + 1 <= Len(rows) + 1
            /\ Len(rows) + 1 - (count + 1) = Len(rows) - count
        BY <2>1
      <4>2. /\ Begins(rows, count + 1) \in Nat /\ Begins(rows, Len(rows) + 1) \in Nat
            /\ Begins(rows, count + 1) + (Len(rows) + 1 - (count + 1)) <= Begins(rows, Len(rows) + 1)
        <5>1. Begins(rows, count + 1) \in Nat /\ Begins(rows, Len(rows) + 1) \in Nat
          BY <2>2, <4>1
        <5>2. Begins(rows, count + 1) + (Len(rows) + 1 - (count + 1)) <= Begins(rows, Len(rows) + 1)
          BY <2>2, <4>1
        <5>3. QED
          BY <5>1, <5>2
      <4>3. index = Begins(rows, count + 1) - 1
        BY <3>1 DEF Parsed
      <4>4. QED
        BY <4>1, <4>2, <4>3
    <3>5. ASSUME index = builder, ~broken PROVE Len(partitions) = Len(rows)
      <4>1. first = end
        BY <2>1, <3>3, <3>4, <3>5
      <4>2. count = Len(rows)
        BY <2>1, <3>4, <4>1
      <4>3. QED
        BY <3>1, <4>2 DEF Parsed
    <3>6. ASSUME Thrown, ~broken PROVE FALSE
      <4>1. index < builder /\ \A last \in index + 1 .. builder : ~Enough(index + 1, last)
        BY <3>2, <3>6 DEF Thrown
      <4>2. builder = end - 1
        BY <3>3, <3>4, <3>6
      <4>3. count + 1 \in 1 .. Len(rows)
        <5>1. count # Len(rows)
          BY <2>1, <3>4, <4>1, <4>2
        <5>2. QED
          BY <2>1, <5>1
      <4>4. rows[count + 1].rest \in 0 .. 2
        <5>1. rows[count + 1] \in Row
          BY <2>1, <4>3, ElementOfSeq
        <5>2. QED
          BY <5>1 DEF Row
      <4>5. PICK last \in Nat : last = Begins(rows, count + 1 + 1) - 1 /\ first <= last
        <5>1. count + 1 + 1 \in 1 .. Len(rows) + 1
          BY <2>1, <4>3
        <5>2. /\ Begins(rows, count + 1 + 1) \in Nat
              /\ Begins(rows, count + 1 + 1) = Begins(rows, count + 1) + 1 + rows[count + 1].rest
          BY <2>1, <4>3, <5>1, RowsBegin
        <5>3. PICK b \in Nat : b = Begins(rows, count + 1 + 1)
          BY <5>2
        <5>4. PICK r \in 0 .. 2 : r = rows[count + 1].rest
          BY <4>4
        <5>5. b = first + 1 + r
          BY <3>4, <5>2, <5>3, <5>4
        <5>6. b - 1 \in Nat /\ first <= b - 1
          <6>1. first \in Nat /\ b \in Nat /\ r \in 0 .. 2
            BY <3>4, <5>3, <5>4
          <6>2. QED
            BY <5>5, <6>1
        <5>7. QED
          BY <5>3, <5>6
      <4>6. last <= builder
        <5>1. /\ count + 1 + 1 \in 1 .. Len(rows) + 1 /\ Len(rows) + 1 \in 1 .. Len(rows) + 1
              /\ count + 1 + 1 <= Len(rows) + 1
          BY <2>1, <4>3
        <5>2. Begins(rows, count + 1 + 1) + (Len(rows) + 1 - (count + 1 + 1)) <= end
              /\ Begins(rows, count + 1 + 1) \in Nat
          BY <2>2, <3>4, <5>1
        <5>3. PICK b \in Nat : b = Begins(rows, count + 1 + 1)
          BY <5>2
        <5>4. PICK m \in Nat : m = Len(rows) + 1 - (count + 1 + 1)
          <6>1. PICK k \in Nat : k = Len(rows)
            BY <2>1
          <6>2. count \in 0 .. k /\ count + 1 <= k
            BY <3>1, <4>3, <6>1
          <6>3. k + 1 - (count + 1 + 1) \in Nat
            BY <6>1, <6>2
          <6>4. QED
            BY <6>1, <6>3
        <5>5. b + m <= end
          BY <5>2, <5>3, <5>4
        <5>6. last = b - 1
          BY <4>5, <5>3
        <5>7. last <= end - 1
          <6>1. last \in Nat /\ end \in Nat /\ b \in Nat /\ m \in Nat
            BY <3>4, <4>5, <5>3, <5>4
          <6>2. QED
            BY <5>5, <5>6, <6>1
        <5>8. QED
          BY <4>2, <5>7
      <4>7. last < Begins(rows, count + 1 + 1)
        <5>1. Begins(rows, count + 1 + 1) \in Nat
          BY <2>1, <2>2, <4>3
        <5>2. QED
          BY <4>5, <5>1
      <4>8. PICK row \in 1 .. Len(rows) : row = count + 1
        BY <4>3
      <4>9. Enough(first, last)
        BY <3>4, <4>5, <4>6, <4>7, <4>8, RowJoined
      <4>10. first = index + 1 /\ last \in index + 1 .. builder
        <5>1. PICK b \in Nat : b = builder
          BY <2>1
        <5>2. first = index + 1
          BY <2>1, <3>4
        <5>3. last <= b
          BY <4>6, <5>1
        <5>4. last \in first .. b
          BY <3>4, <4>5, <5>1, <5>3
        <5>5. QED
          BY <5>1, <5>2, <5>4
      <4>11. QED
        BY <4>1, <4>9, <4>10
    <3>7. QED
      BY <3>1, <3>5, <3>6 DEF Parsed
  <2>5. QED
    BY <2>3, <2>4
<1>4. QED
  BY <1>1, <1>2, <1>3, PTL DEF Spec

-----------------------------------------------------------------------------
(* The list of processes.                                                  *)

\* One that is there from the start is still to come, at hand or in the list;
\* nobody in the list is still to come; and the files that were read of a pid
\* are in the order in which processes had it.
WalkInv ==
    /\ walking \in {"idle", "status", "cmdline", "returned"}
    /\ spawned \in Nat \ {0}
    /\ \A d \in ProcDirs : alive[d].number \in 0 .. spawned
    /\ alive \in [ProcDirs -> [number : Nat, status : Statuses \union {"none"}]]
    /\ \A d \in ProcDirs : alive[d].number = 0 => alive[d] = NoProcess
    /\ walking = "cmdline" =>
          /\ dir \in ProcDirs /\ dir \notin dirs
          /\ statusOf \in 1 .. spawned
          /\ alive[dir] # NoProcess => statusOf <= alive[dir].number
    /\ walking \in {"idle", "returned"} => dirs = {}
    /\ walking = "idle" => processes = {} /\ spawned = 1
    /\ dirs \subseteq ProcDirs
    /\ walking # "idle" => \A d \in ProcDirs : alive[d] = [number |-> 1, status |-> "plain"] =>
          \/ d \in dirs
          \/ walking = "cmdline" /\ d = dir
          \/ [pid |-> d, status |-> 1, cmdLine |-> 1] \in processes
    /\ \A p \in processes : p.pid \notin dirs /\ (walking = "cmdline" => p.pid # dir)
    /\ \A p, q \in processes : p.pid = q.pid => p = q
    /\ \A p \in processes : p.cmdLine = 0 \/ p.status <= p.cmdLine

LEMMA WalkPreserved == WalkInv /\ (WalkNext \/ UNCHANGED processesVars) => WalkInv'
<1> SUFFICES ASSUME WalkInv, WalkNext \/ UNCHANGED processesVars PROVE WalkInv'
  OBVIOUS
<1> USE DEF WalkInv, NoProcess, Statuses
<1>1. CASE Spawn
  <2>1. PICK d \in ProcDirs \ AliveDirs, s \in Statuses :
            alive' = [alive EXCEPT ![d] = [number |-> spawned + 1, status |-> s]]
    BY <1>1 DEF Spawn
  <2>2. /\ spawned' = spawned + 1 /\ walking \in {"status", "cmdline"}
        /\ UNCHANGED <<walking, dirs, dir, statusOf, processes>>
    BY <1>1 DEF Spawn, Walking
  <2>3. alive[d] = NoProcess
    BY <2>1 DEF AliveDirs
  <2>4. alive'[d] = [number |-> spawned + 1, status |-> s] /\ spawned + 1 > 1
    BY <2>1
  <2>5. \A e \in ProcDirs \ {d} : alive'[e] = alive[e]
    BY <2>1
  <2>6. alive' \in [ProcDirs -> [number : Nat, status : Statuses \union {"none"}]]
    BY <2>1
  <2>7. QED
    BY <2>2, <2>3, <2>4, <2>5, <2>6
<1>2. CASE Exit
  <2>1. PICK d \in AliveDirs : alive' = [alive EXCEPT ![d] = NoProcess]
    BY <1>2 DEF Exit
  <2>2. walking \in {"status", "cmdline"} /\ UNCHANGED <<walking, spawned, dirs, dir, statusOf, processes>>
    BY <1>2 DEF Exit, Walking
  <2>3. d \in ProcDirs /\ alive'[d] = NoProcess
    BY <2>1 DEF AliveDirs
  <2>4. \A e \in ProcDirs \ {d} : alive'[e] = alive[e]
    BY <2>1
  <2>5. alive' \in [ProcDirs -> [number : Nat, status : Statuses \union {"none"}]]
    BY <2>1
  <2>6. QED
    BY <2>2, <2>3, <2>4, <2>5
<1>3. CASE GetProcesses
  BY <1>3 DEF GetProcesses
<1>4. CASE ReadStatus
  <2>1. PICK d \in dirs : /\ alive[d].status = "plain" /\ dir' = d
                          /\ statusOf' = alive[d].number /\ dirs' = dirs \ {d}
    BY <1>4 DEF ReadStatus
  <2>2. /\ walking = "status" /\ walking' = "cmdline"
        /\ UNCHANGED <<alive, spawned, processes>>
    BY <1>4 DEF ReadStatus
  <2>3. d \in ProcDirs /\ alive[d].number \in 1 .. spawned
    BY <2>1
  <2>4. QED
    BY <2>1, <2>2, <2>3
<1>5. CASE IgnoreException
  BY <1>5 DEF IgnoreException
<1>6. CASE ReadCmdLine
  <2> DEFINE cmdLineOf == IF alive[dir].status \in {"plain", "huge"} THEN alive[dir].number ELSE 0
             process == [pid |-> dir, status |-> statusOf, cmdLine |-> cmdLineOf]
  <2>1. /\ walking = "cmdline" /\ walking' = "status"
        /\ processes' = processes \union {process}
        /\ UNCHANGED <<alive, spawned, dirs>>
    BY <1>6 DEF ReadCmdLine
  <2>2. process.pid = dir /\ process.status = statusOf /\ process.cmdLine = cmdLineOf
    OBVIOUS
  <2>3. cmdLineOf = 0 \/ statusOf <= cmdLineOf
    BY <2>1
  <2>4. alive[dir] = [number |-> 1, status |-> "plain"] =>
            process = [pid |-> dir, status |-> 1, cmdLine |-> 1]
    <3>1. ASSUME alive[dir] = [number |-> 1, status |-> "plain"]
          PROVE  alive[dir].number = 1 /\ alive[dir].status = "plain" /\ alive[dir] # NoProcess
      BY <3>1
    <3>2. QED
      BY <2>1, <3>1
  <2> HIDE DEF process, cmdLineOf
  <2>5. \A p \in processes' : p.pid \notin dirs
    BY <2>1, <2>2
  <2>6. \A p, q \in processes' : p.pid = q.pid => p = q
    BY <2>1, <2>2
  <2>7. \A p \in processes' : p.cmdLine = 0 \/ p.status <= p.cmdLine
    BY <2>1, <2>2, <2>3
  <2>8. \A d \in ProcDirs : alive[d] = [number |-> 1, status |-> "plain"] =>
            d \in dirs \/ [pid |-> d, status |-> 1, cmdLine |-> 1] \in processes'
    BY <2>1, <2>4
  <2>9. QED
    BY <2>1, <2>5, <2>6, <2>7, <2>8
<1>7. CASE WalkEnds
  BY <1>7 DEF WalkEnds
<1>8. CASE WalkDone
  BY <1>8 DEF WalkDone, NoneAlive
<1>9. CASE UNCHANGED processesVars
  BY <1>9 DEF processesVars
<1>10. QED
  BY <1>1, <1>2, <1>3, <1>4, <1>5, <1>6, <1>7, <1>8, <1>9 DEF WalkNext, WalkCall

\* However processes come, go and take over pids, getProcesses lists everyone who
\* ran throughout and can be read, no pid twice, and no command line that is
\* older than the rest of its Process.
THEOREM ListedThroughout == Spec => []ListedAsTheyRan
<1>1. Init => WalkInv
  BY DEF Init, WalkInit, WalkInv, NoneAlive, NoProcess, Statuses
<1>2. WalkInv /\ [Next]_vars => WalkInv'
  BY Components, WalkPreserved
<1>3. WalkInv => ListedAsTheyRan
  BY DEF WalkInv, ListedAsTheyRan
<1>4. QED
  BY <1>1, <1>2, <1>3, PTL DEF Spec

-----------------------------------------------------------------------------
(* The lists of sockets.                                                   *)

\* The processes of a user that had sockets when lsof looked.
ListedThen(uid) == {p \in Pids : runsAs[p] = uid /\ \E s \in Sockets : atLsof[s].pid = p}

\* The map leads from a user to a process of that user that lsof listed, and a
\* row has the process that its user is mapped to.
ViewInv ==
    /\ viewing \in {"tables", "viewed"} =>
          \A uid, p : <<uid, p>> \in uidToPid => p \in ListedThen(uid)
    /\ viewing \in {"idle", "lsof"} => listing = {}
    /\ \A row \in listing : row.pid # 0 => <<row.uid, row.pid>> \in uidToPid

\* The last process of a user is one of them.
LEMMA LastIsListed ==
    \A uid, p : <<uid, p>> \in LastOfUser => p \in Listed(uid)
<1> SUFFICES ASSUME NEW uid, NEW p, <<uid, p>> \in LastOfUser PROVE p \in Listed(uid)
  OBVIOUS
<1>1. Listed(uid) # {} /\ p = Max(Listed(uid))
  BY DEF LastOfUser
<1>2. Listed(uid) \in SUBSET Nat /\ IsFiniteSet(Listed(uid))
  BY ConnectionsAssumption, FS_Subset DEF ConnectionsAssumption, Listed
<1>3. QED
  BY <1>1, <1>2, Extremes

\* No socket that is opened, closed or handed over, and no step of a listing,
\* breaks ViewInv.
LEMMA ViewPreserved == ViewInv /\ (ViewNext \/ UNCHANGED viewVars) => ViewInv'
<1> SUFFICES ASSUME ViewInv, ViewNext \/ UNCHANGED viewVars PROVE ViewInv'
  OBVIOUS
<1> USE DEF ViewInv
<1>1. CASE Move
  BY <1>1 DEF Move, ListedThen
<1>2. CASE LsofFails
  BY <1>2 DEF LsofFails
<1>3. CASE TableFails
  BY <1>3 DEF TableFails, ListedThen
<1>4. CASE GetInformations
  BY <1>4 DEF GetInformations
<1>5. CASE GetUidToPidMap
  <2>1. /\ uidToPid' = LastOfUser /\ atLsof' = socket /\ UNCHANGED <<runsAs, listing>>
        /\ listing = {}
    BY <1>5 DEF GetUidToPidMap
  <2>2. \A uid : Listed(uid) = ListedThen(uid)'
    BY <2>1 DEF Listed, ListedThen
  <2>3. \A uid, p : <<uid, p>> \in uidToPid' => p \in ListedThen(uid)'
    BY <2>1, <2>2, LastIsListed
  <2>4. QED
    BY <2>1, <2>3
<1>6. CASE ReadTable
  <2>1. /\ viewing = "tables" /\ UNCHANGED <<viewing, runsAs, uidToPid, atLsof>>
        /\ listing' \subseteq listing \union {Parse(s) : s \in Sockets}
    BY <1>6 DEF ReadTable
  <2>2. ASSUME NEW s \in Sockets, Parse(s).pid # 0
        PROVE  <<Parse(s).uid, Parse(s).pid>> \in uidToPid
    BY <2>2 DEF Parse
  <2>3. \A row \in listing' : row.pid # 0 => <<row.uid, row.pid>> \in uidToPid
    BY <2>1, <2>2
  <2>4. QED
    BY <2>1, <2>3 DEF ListedThen
<1>7. CASE ViewEnd
  BY <1>7 DEF ViewEnd, ListedThen
<1>8. CASE ViewDone
  BY <1>8 DEF ViewDone
<1>9. CASE UNCHANGED viewVars
  BY <1>9 DEF viewVars, ListedThen
<1>10. QED
  BY <1>1, <1>2, <1>3, <1>4, <1>5, <1>6, <1>7, <1>8, <1>9 DEF ViewNext, ViewCall

\* The process that a socket is listed with ran as the user of the socket, and
\* is the one that held it if the user had no other with sockets.
THEOREM PidOfTheUser == Spec => []PidIsOfTheUser
<1>1. Init => ViewInv
  BY DEF Init, ViewInit, ViewInv
<1>2. ViewInv /\ [Next]_vars => ViewInv'
  BY Components, ViewPreserved
<1>3. ViewInv => PidIsOfTheUser
  <2> SUFFICES ASSUME ViewInv, viewing = "viewed", NEW row \in listing, row.pid # 0
               PROVE  /\ runsAs[row.pid] = row.uid
                      /\ \E s \in Sockets : atLsof[s].pid = row.pid
                      /\ LET holder == atLsof[row.of].pid IN
                         (/\ holder \in Pids /\ runsAs[holder] = row.uid
                          /\ \A s \in Sockets : atLsof[s].pid \in Pids \ {holder} =>
                                                  runsAs[atLsof[s].pid] # row.uid)
                         => row.pid = holder
    BY DEF PidIsOfTheUser
  <2>1. row.pid \in ListedThen(row.uid)
    BY DEF ViewInv
  <2>2. QED
    BY <2>1 DEF ListedThen
<1>4. QED
  BY <1>1, <1>2, <1>3, PTL DEF Spec

-----------------------------------------------------------------------------
(* The routes.                                                             *)

\* The table is a sequence of entries, and what was found is the first that
\* covers the address of those that were listed.
RoutesInv ==
    /\ routes \in Seq(Routes)
    /\ listed \in Seq(Routes)
    /\ found # NoneFound => found.entry = FirstMatch(listed, found.ip)
    /\ CommandsDoWhatIsNamed

\* The first entry that covers an address, if some entry does.
LEMMA FirstMatchIsFirst ==
    ASSUME NEW list \in Seq(Routes), NEW ip
    PROVE  \/ /\ FirstMatch(list, ip) = NoRoute
              /\ \A j \in DOMAIN list : ~Covers(list[j], ip)
           \/ \E i \in DOMAIN list :
                  /\ FirstMatch(list, ip) = list[i] /\ Covers(list[i], ip)
                  /\ \A j \in DOMAIN list : Covers(list[j], ip) => i <= j
<1> DEFINE I == {i \in 1 .. Len(list) : Covers(list[i], ip)}
<1>1. I \in SUBSET Nat /\ IsFiniteSet(I) /\ DOMAIN list = 1 .. Len(list)
  BY FS_Interval, FS_Subset
<1>2. SelectInSeq(list, LAMBDA route : Covers(route, ip)) = IF I # {} THEN Min(I) ELSE 0
  BY DEF SelectInSeq
<1>3. CASE I = {}
  BY <1>1, <1>2, <1>3 DEF FirstMatch
<1>4. CASE I # {}
  <2>1. Min(I) \in I /\ \A j \in I : Min(I) <= j
    BY <1>1, <1>4, Extremes
  <2>2. Min(I) # 0
    BY <2>1
  <2>3. FirstMatch(list, ip) = list[Min(I)]
    BY <1>2, <1>4, <2>2 DEF FirstMatch
  <2>4. QED
    BY <1>1, <2>1, <2>3
<1>5. QED
  BY <1>3, <1>4

\* An entry more or less leaves a sequence of entries.
LEMMA TableChanges ==
    ASSUME NEW s \in Seq(Routes)
    PROVE  /\ \A i \in DOMAIN s : RemoveAt(s, i) \in Seq(Routes)
           /\ \A i \in 1 .. Len(s) + 1, route \in Routes : InsertAt(s, i, route) \in Seq(Routes)
BY DEF RemoveAt, InsertAt

\* What matches a command has the fields that the command names.
LEMMA MatchesWhatIsNamed ==
    ASSUME NEW named, NEW isHost \in BOOLEAN, NEW route \in Routes, NEW f \in Fields,
           named[f] \notin Unset(f),
           \/ Makes(AddCommand(named, isHost), route)
           \/ Matches(DeleteCommand(named, isHost), route)
    PROVE  route[f] = named[f]
<1> DEFINE cmd == [host |-> isHost, dst |-> named.dst, len |-> named.len, gw |-> named.gw,
                   metric |-> named.metric, dev |-> named.dev]
<1>1. Matches(cmd, route)
  BY DEF Makes, AddCommand, DeleteCommand
<1>2. /\ ~BadMask(cmd) /\ route.dst = cmd.dst /\ route.len \in Lengths(cmd)
      /\ \A g \in {"gw", "metric", "dev"} : cmd[g] \notin Unset(g) => route[g] = cmd[g]
  BY <1>1 DEF Matches
<1>3. named.len # Null => route.len = named.len
  BY <1>2 DEF Lengths, BadMask
<1>4. f \in {"dst", "len", "gw", "metric", "dev"} /\ named[f] # Null
  BY DEF Fields, Unset
<1>5. CASE f = "dst"
  BY <1>2, <1>5
<1>6. CASE f = "len"
  BY <1>3, <1>4, <1>6
<1>7. CASE f = "gw"
  BY <1>2, <1>7
<1>8. CASE f = "metric"
  BY <1>2, <1>8
<1>9. CASE f = "dev"
  BY <1>2, <1>9
<1>10. QED
  BY <1>4, <1>5, <1>6, <1>7, <1>8, <1>9

\* No command, of the client or of others, and no lookup breaks RoutesInv.
LEMMA RoutesPreserved == RoutesInv /\ (RoutesNext \/ UNCHANGED routesVars) => RoutesInv'
<1> SUFFICES ASSUME RoutesInv, RoutesNext \/ UNCHANGED routesVars PROVE RoutesInv'
  OBVIOUS
<1> USE DEF RoutesInv
<1>1. CASE Others
  <2>1. routes' \in Seq(Routes)
    BY <1>1, TableChanges DEF Others
  <2>2. QED
    BY <1>1, <2>1 DEF Others, CommandsDoWhatIsNamed
<1>2. CASE BeginRoutes
  <2>1. PICK n \in 0 .. MaxRoutes : routes' \in [1 .. n -> Routes]
    BY <1>2 DEF BeginRoutes
  <2>2. routes' \in Seq(Routes)
    BY <2>1, RoutesAssumption DEF RoutesAssumption
  <2>3. QED
    BY <1>2, <2>2 DEF BeginRoutes, CommandsDoWhatIsNamed
<1>3. CASE FindRoute
  <2>1. PICK ip \in Addresses : found' = [ip |-> ip, entry |-> FirstMatch(routes, ip)]
    BY <1>3 DEF FindRoute
  <2>2. listed' = routes /\ routes' = routes /\ effect' = NoEffect
    BY <1>3 DEF FindRoute
  <2>3. found'.entry = FirstMatch(listed, found.ip)'
    BY <2>1, <2>2 DEF FirstMatch, SelectInSeq, Covers, Masked, NoRoute, Null
  <2>4. CommandsDoWhatIsNamed'
    BY <2>2 DEF CommandsDoWhatIsNamed, NoEffect
  <2>5. QED
    BY <2>2, <2>3, <2>4
<1>c. ASSUME routes' \in Seq(Routes), listed' = <<>>, found' = NoneFound,
             NEW kind, NEW route, NEW named, Effect(kind, route, named),
             kind \in {"added", "deleted"} =>
                \A f \in Fields : named[f] \notin Unset(f) => route[f] = named[f]
      PROVE  RoutesInv'
  <2>1. effect' = [kind |-> kind, entry |-> route, named |-> named]
    BY <1>c DEF Effect
  <2>2. CommandsDoWhatIsNamed'
    BY <1>c, <2>1 DEF CommandsDoWhatIsNamed
  <2>3. QED
    BY <1>c, <2>2
<1>4. CASE AddRoutingEntry
  <2>1. listed' = <<>> /\ found' = NoneFound
    BY <1>4 DEF AddRoutingEntry
  <2>2. PICK named \in Named, isHost \in BOOLEAN :
            \/ \E route \in {r \in Routes \ ToSet(routes) : Makes(AddCommand(named, isHost), r)},
                  i \in 1 .. Len(routes) + 1 :
                   routes' = InsertAt(routes, i, route) /\ Effect("added", route, named)
            \/ Effect("refused", NoRoute, named) /\ UNCHANGED routes
    BY <1>4 DEF AddRoutingEntry
  <2>3. CASE Effect("refused", NoRoute, named) /\ UNCHANGED routes
    BY <1>c, <2>1, <2>3
  <2>4. ASSUME NEW route \in Routes, NEW i \in 1 .. Len(routes) + 1,
               Makes(AddCommand(named, isHost), route),
               routes' = InsertAt(routes, i, route), Effect("added", route, named)
        PROVE  RoutesInv'
    <3>1. routes' \in Seq(Routes)
      BY <2>4, TableChanges
    <3>2. \A f \in Fields : named[f] \notin Unset(f) => route[f] = named[f]
      BY <2>4, MatchesWhatIsNamed
    <3>3. QED
      BY <1>c, <2>1, <2>4, <3>1, <3>2
  <2>5. QED
    BY <2>2, <2>3, <2>4
<1>5. CASE DeleteRoutingEntry
  <2>1. listed' = <<>> /\ found' = NoneFound
    BY <1>5 DEF DeleteRoutingEntry
  <2>2. PICK named \in Named, isHost \in BOOLEAN :
            \/ \E i \in {k \in DOMAIN routes : Matches(DeleteCommand(named, isHost), routes[k])} :
                   routes' = RemoveAt(routes, i) /\ Effect("deleted", routes[i], named)
            \/ Effect("refused", NoRoute, named) /\ UNCHANGED routes
    BY <1>5 DEF DeleteRoutingEntry
  <2>3. CASE Effect("refused", NoRoute, named) /\ UNCHANGED routes
    BY <1>c, <2>1, <2>3
  <2>4. ASSUME NEW i \in DOMAIN routes, Matches(DeleteCommand(named, isHost), routes[i]),
               routes' = RemoveAt(routes, i), Effect("deleted", routes[i], named)
        PROVE  RoutesInv'
    <3>1. routes' \in Seq(Routes) /\ routes[i] \in Routes
      BY <2>4, TableChanges
    <3>2. \A f \in Fields : named[f] \notin Unset(f) => routes[i][f] = named[f]
      BY <2>4, <3>1, MatchesWhatIsNamed
    <3>3. QED
      BY <1>c, <2>1, <2>4, <3>1, <3>2
  <2>5. QED
    BY <2>2, <2>3, <2>4
<1>6. CASE RoutesDone
  BY <1>6 DEF RoutesDone, CommandsDoWhatIsNamed, NoEffect
<1>7. CASE UNCHANGED routesVars
  <2>1. UNCHANGED <<routes, listed, found, effect>>
    BY <1>7 DEF routesVars
  <2>2. FirstMatch(listed, found.ip)' = FirstMatch(listed, found.ip)
    BY <2>1 DEF FirstMatch, SelectInSeq, Covers, Masked, NoRoute, Null
  <2>3. CommandsDoWhatIsNamed'
    BY <2>1 DEF CommandsDoWhatIsNamed, Unset, Null
  <2>4. QED
    BY <2>1, <2>2, <2>3
<1>8. QED
  BY <1>1, <1>2, <1>3, <1>4, <1>5, <1>6, <1>7 DEF RoutesNext, RoutesCall

\* RoutesInv holds whatever the other calls do.
LEMMA RoutesAlways == Spec => []RoutesInv
<1>1. Init => RoutesInv
  BY DEF Init, RoutesInit, RoutesInv, CommandsDoWhatIsNamed, NoEffect
<1>2. RoutesInv /\ [Next]_vars => RoutesInv'
  BY Components, RoutesPreserved
<1>3. QED
  BY <1>1, <1>2, PTL DEF Spec

\* What a command adds or deletes has the fields that the command names.
THEOREM CommandsDoNoOther == Spec => []CommandsDoWhatIsNamed
<1>1. RoutesInv => CommandsDoWhatIsNamed
  BY DEF RoutesInv
<1>2. QED
  BY <1>1, RoutesAlways, PTL

\* findRoute finds an entry if one covers the address, and the one with the
\* longest mask if the table is listed by the lengths of the masks.
THEOREM FoundLongest == Spec => []FoundIsTheLongest
<1>1. RoutesInv => FoundIsTheLongest
  <2> SUFFICES ASSUME RoutesInv, found # NoneFound PROVE FoundIsTheLongest
    BY DEF FoundIsTheLongest
  <2> DEFINE covering == {route \in ToSet(listed) : Covers(route, found.ip)}
  <2>1. covering = {listed[j] : j \in {k \in DOMAIN listed : Covers(listed[k], found.ip)}}
    BY DEF ToSet
  <2>2. found.entry = FirstMatch(listed, found.ip) /\ listed \in Seq(Routes)
    BY DEF RoutesInv
  <2>3. NoRoute \notin Routes
    BY RoutesAssumption DEF RoutesAssumption, NoRoute, Null, Fields
  <2>4. CASE /\ found.entry = NoRoute
             /\ \A j \in DOMAIN listed : ~Covers(listed[j], found.ip)
    <3>1. covering = {}
      BY <2>1, <2>4
    <3>2. QED
      BY <2>4, <3>1 DEF FoundIsTheLongest
  <2>5. ASSUME NEW i \in DOMAIN listed,
               found.entry = listed[i], Covers(listed[i], found.ip),
               \A j \in DOMAIN listed : Covers(listed[j], found.ip) => i <= j
        PROVE  FoundIsTheLongest
    <3>1. found.entry # NoRoute /\ covering # {}
      BY <2>1, <2>2, <2>3, <2>5
    <3>2. ASSUME \A a, b \in DOMAIN listed : a < b => listed[a].len >= listed[b].len,
                 NEW route \in covering
          PROVE  route.len <= found.entry.len
      <4>1. PICK j \in DOMAIN listed : route = listed[j] /\ Covers(listed[j], found.ip)
        BY <2>1
      <4>2. i \in Nat /\ j \in Nat /\ i <= j
        BY <2>2, <2>5, <4>1
      <4>3. listed[i].len \in Nat /\ listed[j].len \in Nat
        <5>1. listed[i] \in Routes /\ listed[j] \in Routes
          BY <2>2
        <5>2. \A r \in Routes : r.len \in Nat
          BY RoutesAssumption DEF RoutesAssumption
        <5>3. QED
          BY <5>1, <5>2
      <4>4. CASE i = j
        BY <2>5, <4>1, <4>3, <4>4
      <4>5. CASE i < j
        BY <2>5, <3>2, <4>1, <4>3, <4>5
      <4>6. QED
        BY <4>2, <4>4, <4>5
    <3>3. QED
      BY <3>1, <3>2 DEF FoundIsTheLongest
  <2>6. QED
    BY <2>2, <2>4, <2>5, FirstMatchIsFirst
<1>2. QED
  BY <1>1, RoutesAlways, PTL

-----------------------------------------------------------------------------
(* Wtmp.                                                                   *)

Cells == [record : Nat, at : Nat]

\* The number of the k-th record of the file, from 0.
RecordAt(k) == wtmp[10 * k + 1].record

\* Records follow on each other, with numbers that grow, and only the last
\* that has begun may be torn.
FileInv ==
    /\ wtmp \in Seq(Cells) /\ begun \in Nat
    /\ \A k \in Nat, at \in 1 .. 10 :
          10 * k + at <= Len(wtmp) => wtmp[10 * k + at] = Cell(RecordAt(k), at)
    /\ \A k \in Nat : 10 * k < Len(wtmp) => RecordAt(k) \in 1 .. begun
    /\ \A k, l \in Nat : k < l /\ 10 * l < Len(wtmp) => RecordAt(k) < RecordAt(l)
    /\ \A k \in Nat : 10 * k < Len(wtmp) /\ Len(wtmp) < 10 * k + 10 => RecordAt(k) = begun

\* Cells of a record that are read before a field.
Before == <<0, 1, 3, 5, 7, 8>>

\* The call is in the record after those of its entries, unless an array was
\* not filled, and then at the end of what was there.
PositionInv ==
    /\ ~short => /\ offset = 10 * Len(entries) + Before[field]
                 /\ entry = CellsOf(RecordAt(Len(entries)), 1, Before[field])
    /\ short => field \in {1, 3, 4, 5} /\ offset < 10 * Len(entries) + Before[field]

EntriesInv ==
    /\ offset \in Nat /\ offset <= Len(wtmp)
    /\ entries \in Seq(Seq(Cells))
    /\ \A k \in Nat : k < Len(entries) =>
          10 * k + 8 <= offset /\ entries[k + 1] = CellsOf(RecordAt(k), 1, 8)

WholeInv ==
    /\ Len(whole) \in Nat /\ DOMAIN whole = 1 .. Len(whole)
    /\ 10 * Len(whole) <= Len(wtmp)
    /\ \A k \in Nat : k < Len(whole) => whole[k + 1] = RecordAt(k)

WtmpInv ==
    /\ getting \in {"idle", "reading", "returned", "thrown"} /\ field \in 1 .. 6
    /\ short \in BOOLEAN /\ slipped \in BOOLEAN
    /\ getting = "idle" => ~slipped /\ ~short /\ offset = 0 /\ field = 1 /\ entry = <<>> /\ entries = <<>>
    /\ FileInv /\ WholeInv
    /\ ~slipped => EntriesInv
    /\ ~slipped /\ getting # "thrown" => PositionInv
    /\ ~slipped /\ getting = "returned" => Len(whole) <= Len(entries)
    /\ ~slipped /\ getting = "thrown" => filling # {}

\* Runs of cells.
LEMMA Runs ==
    ASSUME NEW record \in Nat, NEW n \in Nat, NEW m \in Nat
    PROVE  /\ CellsOf(record, n + 1, n + m) \in Seq(Cells)
           /\ Len(CellsOf(record, n + 1, n + m)) = m
           /\ DOMAIN CellsOf(record, n + 1, n + m) = 1 .. m
           /\ \A i \in 1 .. m : CellsOf(record, n + 1, n + m)[i] = Cell(record, n + i)
<1> DEFINE run == CellsOf(record, n + 1, n + m)
<1>1. run = [i \in 1 .. m |-> Cell(record, n + i)]
  <2>1. n + m - (n + 1) + 1 = m /\ \A i \in 1 .. m : n + 1 + i - 1 = n + i
    OBVIOUS
  <2>2. QED
    BY <2>1 DEF CellsOf
<1> HIDE DEF run
<1>2. \A i \in 1 .. m : Cell(record, n + i) \in Cells
  BY DEF Cell, Cells
<1>3. run \in [1 .. m -> Cells]
  BY <1>1, <1>2
<1>4. run \in Seq(Cells) /\ Len(run) = m
  BY <1>3
<1>5. \A i \in 1 .. m : run[i] = Cell(record, n + i)
  BY <1>1
<1>6. QED
  BY <1>3, <1>4, <1>5 DEF run

LEMMA FirstRun ==
    ASSUME NEW record \in Nat, NEW m \in Nat
    PROVE  /\ CellsOf(record, 1, m) \in Seq(Cells)
           /\ Len(CellsOf(record, 1, m)) = m
           /\ DOMAIN CellsOf(record, 1, m) = 1 .. m
           /\ \A i \in 1 .. m : CellsOf(record, 1, m)[i] = Cell(record, i)
<1>1. 0 + 1 = 1 /\ 0 + m = m /\ \A i \in 1 .. m : 0 + i = i
  OBVIOUS
<1>2. /\ CellsOf(record, 0 + 1, 0 + m) \in Seq(Cells)
      /\ Len(CellsOf(record, 0 + 1, 0 + m)) = m
      /\ DOMAIN CellsOf(record, 0 + 1, 0 + m) = 1 .. m
      /\ \A i \in 1 .. m : CellsOf(record, 0 + 1, 0 + m)[i] = Cell(record, 0 + i)
  BY Runs
<1>3. QED
  BY <1>1, <1>2

\* A record that is read on.
LEMMA ReadOn ==
    ASSUME NEW record \in Nat, NEW n \in Nat, NEW m \in Nat
    PROVE  CellsOf(record, 1, n) \o CellsOf(record, n + 1, n + m) = CellsOf(record, 1, n + m)
<1> DEFINE a == CellsOf(record, 1, n)
           b == CellsOf(record, n + 1, n + m)
           c == CellsOf(record, 1, n + m)
<1>1. /\ a \in Seq(Cells) /\ Len(a) = n
      /\ \A i \in 1 .. n : a[i] = Cell(record, i)
  BY FirstRun
<1>2. /\ b \in Seq(Cells) /\ Len(b) = m
      /\ \A i \in 1 .. m : b[i] = Cell(record, n + i)
  BY Runs
<1>3. /\ c \in Seq(Cells) /\ Len(c) = n + m
      /\ \A i \in 1 .. n + m : c[i] = Cell(record, i)
  <2> DEFINE z == n + m
  <2>1. z \in Nat
    OBVIOUS
  <2> HIDE DEF z
  <2>2. /\ CellsOf(record, 1, z) \in Seq(Cells) /\ Len(CellsOf(record, 1, z)) = z
        /\ \A i \in 1 .. z : CellsOf(record, 1, z)[i] = Cell(record, i)
    BY <2>1, FirstRun
  <2>3. QED
    BY <2>2 DEF z
<1> HIDE DEF a, b, c
<1>4. /\ a \o b \in Seq(Cells) /\ Len(a \o b) = n + m
      /\ \A i \in 1 .. n + m : (a \o b)[i] = IF i <= n THEN a[i] ELSE b[i - n]
  BY <1>1, <1>2, ConcatProperties
<1>5. ASSUME NEW i \in 1 .. n + m PROVE (a \o b)[i] = c[i]
  <2>1. CASE i <= n
    BY <1>1, <1>3, <1>4, <2>1
  <2>2. CASE ~(i <= n)
    <3>1. i - n \in 1 .. m /\ n + (i - n) = i
      BY <2>2
    <3>2. QED
      BY <1>2, <1>3, <1>4, <2>2, <3>1
  <2>3. QED
    BY <2>1, <2>2
<1>6. a \o b = c
  BY <1>3, <1>4, <1>5, SeqEqual
<1>7. QED
  BY <1>6 DEF a, b, c

\* What is read from the middle of a record.
LEMMA Reads ==
    ASSUME FileInv, NEW k \in Nat, NEW n \in Nat, NEW m \in Nat, n + m <= 10, 10 * k + n + m <= Len(wtmp), m > 0
    PROVE  SubSeq(wtmp, 10 * k + n + 1, 10 * k + n + m) = CellsOf(RecordAt(k), n + 1, n + m)
<1> DEFINE o == 10 * k + n
           got == SubSeq(wtmp, o + 1, o + m)
           run == CellsOf(RecordAt(k), n + 1, n + m)
<1>1. o \in Nat /\ o + m <= Len(wtmp) /\ Len(wtmp) \in Nat /\ wtmp \in Seq(Cells)
  BY LenProperties DEF FileInv
<1>2. RecordAt(k) \in Nat
  <2>1. 10 * k < Len(wtmp)
    BY <1>1
  <2>2. QED
    BY <2>1 DEF FileInv
<1>3. got \in Seq(Cells) /\ Len(got) = m /\ \A i \in 1 .. m : got[i] = wtmp[o + i]
  <2>1. \A i \in (o + 1) .. (o + m) : wtmp[i] \in Cells
    BY <1>1, ElementOfSeq
  <2>2. /\ o + 1 \in Int /\ o + m \in Int /\ o + 1 <= o + m /\ o + m - (o + 1) + 1 = m
        /\ \A i \in 1 .. m : o + 1 + i - 1 = o + i
    BY <1>1
  <2> HIDE DEF o
  <2>3. QED
    BY <2>1, <2>2, SubSeqProperties
<1>4. run \in Seq(Cells) /\ Len(run) = m /\ \A i \in 1 .. m : run[i] = Cell(RecordAt(k), n + i)
  BY <1>2, Runs
<1>5. ASSUME NEW i \in 1 .. m PROVE got[i] = run[i]
  <2>1. n + i \in 1 .. 10 /\ 10 * k + (n + i) <= Len(wtmp) /\ 10 * k + (n + i) = o + i
    BY <1>1
  <2> HIDE DEF o, got, run
  <2>2. wtmp[10 * k + (n + i)] = Cell(RecordAt(k), n + i)
    BY <2>1 DEF FileInv
  <2>3. QED
    BY <1>3, <1>4, <2>1, <2>2
<1> HIDE DEF got, run
<1>6. got = run
  BY <1>3, <1>4, <1>5, SeqEqual
<1>7. QED
  BY <1>6 DEF o, got, run

\* What the fields of a record are.
LEMMA FieldKinds ==
    /\ Len(RecordFields) = 5
    /\ RecordFields[1].kind = "number" /\ RecordFields[5].kind = "number"
    /\ RecordFields[2].kind = "bytes" /\ RecordFields[3].kind = "bytes" /\ RecordFields[4].kind = "bytes"
    /\ RecordFields[2].cells = 2 /\ RecordFields[3].cells = 2 /\ RecordFields[4].cells = 2
<1>1. Len(RecordFields) = 5
  BY DEF RecordFields
<1>2. RecordFields[1] = Number /\ RecordFields[5] = Number
  BY DEF RecordFields
<1>3. RecordFields[2] = Bytes /\ RecordFields[3] = Bytes /\ RecordFields[4] = Bytes
  BY DEF RecordFields
<1>4. Number.kind = "number" /\ Bytes.kind = "bytes" /\ Bytes.cells = 2
  BY DEF Number, Bytes
<1>5. QED
  BY <1>1, <1>2, <1>3, <1>4, Zenon

\* How much of a record is read before each field.
LEMMA BeforeFields ==
    /\ Before[1] = 0 /\ Before[2] = 1 /\ Before[3] = 3 /\ Before[4] = 5 /\ Before[5] = 7 /\ Before[6] = 8
BY DEF Before

LEMMA BeforeField ==
    ASSUME NEW f \in 1 .. 6
    PROVE  /\ Before[f] \in 0 .. 8
           /\ f # 1 => Before[f] >= 1
<1>1. f = 1 \/ f = 2 \/ f = 3 \/ f = 4 \/ f = 5 \/ f = 6
  OBVIOUS
<1>2. QED
  BY <1>1, BeforeFields

LEMMA NoCells == \A record : CellsOf(record, 1, 0) = <<>>
<1>1. 1 .. 0 - 1 + 1 = {}
  OBVIOUS
<1>2. QED
  BY <1>1 DEF CellsOf

\* A call is not disturbed by what happens to the file after what it has read.
LEMMA FileMoves ==
    ASSUME WtmpInv, getting = "reading", NEW m \in Nat, m <= Len(wtmp), 10 * Len(whole) <= m,
           m <= Len(wtmp'), \A i \in 1 .. m : wtmp'[i] = wtmp[i], FileInv', UNCHANGED callVars,
           slipped' \in BOOLEAN, ~slipped' => ~slipped /\ offset <= m
    PROVE  WtmpInv'
<1>1. /\ Len(wtmp) \in Nat /\ Len(wtmp') \in Nat
      /\ UNCHANGED <<getting, offset, field, entry, entries, whole, short>>
  BY LenProperties DEF WtmpInv, FileInv, callVars
<1>2. \A k \in Nat : 10 * k + 1 <= m => RecordAt(k)' = RecordAt(k)
  BY DEF RecordAt
<1>3. WholeInv'
  <2>1. \A k \in Nat : k < Len(whole) => 10 * k + 1 <= m
    BY DEF WtmpInv, WholeInv
  <2>2. QED
    BY <1>1, <1>2, <2>1 DEF WtmpInv, WholeInv
<1>4. ASSUME ~slipped' PROVE PositionInv' /\ EntriesInv'
  <2>1. PositionInv /\ EntriesInv /\ offset <= m /\ Len(entries) \in Nat
    BY <1>4, LenProperties DEF WtmpInv, EntriesInv
  <2>2. EntriesInv'
    <3>1. \A k \in Nat : k < Len(entries) => 10 * k + 1 <= m
      BY <1>1, <2>1 DEF EntriesInv, PositionInv
    <3>2. ASSUME NEW k \in Nat, k < Len(entries)
          PROVE  10 * k + 8 <= offset /\ entries[k + 1] = CellsOf(RecordAt(k)', 1, 8)
      <4>1. 10 * k + 8 <= offset /\ entries[k + 1] = CellsOf(RecordAt(k), 1, 8)
        BY <2>1, <3>2 DEF EntriesInv
      <4>2. RecordAt(k)' = RecordAt(k)
        BY <1>2, <3>1, <3>2
      <4>3. QED
        BY <4>1, <4>2, Zenon
    <3>3. offset' \in Nat /\ offset' <= Len(wtmp') /\ entries' \in Seq(Seq(Cells))
      BY <1>1, <2>1 DEF EntriesInv
    <3>4. QED
      BY <1>1, <3>2, <3>3 DEF EntriesInv
  <2>3. ASSUME ~short PROVE entry = CellsOf(RecordAt(Len(entries))', 1, Before[field])
    <3>1. offset = 10 * Len(entries) + Before[field] /\ entry = CellsOf(RecordAt(Len(entries)), 1, Before[field])
      BY <2>1, <2>3 DEF PositionInv
    <3>2. CASE field = 1
      <4>1. Before[field] = 0
        BY <3>2, BeforeFields
      <4>2. QED
        BY <3>1, <4>1, NoCells, Zenon
    <3>3. CASE field # 1
      <4>1. PICK f \in 1 .. 6, k \in Nat : f = field /\ k = Len(entries)
        BY <2>1 DEF WtmpInv, EntriesInv
      <4>2. Before[f] \in 0 .. 8 /\ Before[f] >= 1
        BY <3>3, <4>1, BeforeField
      <4>3. offset = 10 * k + Before[f] /\ entry = CellsOf(RecordAt(k), 1, Before[f])
        BY <3>1, <4>1, Zenon
      <4>4. 10 * k + 1 <= m
        <5>1. PICK b \in 1 .. 8 : b = Before[f]
          BY <4>2
        <5>2. offset = 10 * k + b /\ offset <= m
          BY <2>1, <4>3, <5>1
        <5>3. QED
          BY <5>1, <5>2
      <4>5. RecordAt(k)' = RecordAt(k)
        BY <1>2, <4>4
      <4>6. entry = CellsOf(RecordAt(k)', 1, Before[f])
        BY <4>3, <4>5, Zenon
      <4>7. Len(entries)' = k
        BY <1>1, <4>1
      <4>8. RecordAt(Len(entries))' = RecordAt(k)'
        BY <4>7 DEF RecordAt
      <4>9. QED
        BY <4>1, <4>6, <4>8, Zenon
    <3>4. QED
      BY <3>2, <3>3
  <2>4. PositionInv'
    BY <1>1, <2>1, <2>3 DEF PositionInv
  <2>5. QED
    BY <2>2, <2>4
<1>5. QED
  BY <1>1, <1>3, <1>4 DEF WtmpInv

\* The whole records of the file, and the torn one.
LEMMA WholeRecords ==
    ASSUME FileInv
    PROVE  \E q \in Nat : /\ Torn \in 0 .. 9 /\ Len(wtmp) = 10 * q + Torn
                          /\ Whole \in Seq(Cells) /\ Len(Whole) = 10 * q
                          /\ \A i \in 1 .. 10 * q : Whole[i] = wtmp[i]
<1> DEFINE n == Len(wtmp)
           q == n \div 10
           r == n % 10
<1>1. n \in Nat /\ \A i \in 1 .. n : wtmp[i] \in Cells
  BY LenProperties, ElementOfSeq DEF FileInv
<1>2. Torn = r /\ Whole = SubSeq(wtmp, 1, n - r)
  BY DEF Torn, Whole, RecordCells
<1> HIDE DEF n
<1>3. q \in Nat /\ r \in 0 .. 9 /\ n = 10 * q + r
  BY <1>1
<1> HIDE DEF q, r
<1>4. /\ SubSeq(wtmp, 1, 10 * q) \in Seq(Cells)
      /\ Len(SubSeq(wtmp, 1, 10 * q)) = IF 1 <= 10 * q THEN 10 * q - 1 + 1 ELSE 0
      /\ \A i \in 1 .. 10 * q - 1 + 1 : SubSeq(wtmp, 1, 10 * q)[i] = wtmp[1 + i - 1]
  <2> DEFINE last == 10 * q
  <2>1. last \in Int /\ \A i \in 1 .. last : wtmp[i] \in Cells
    BY <1>1, <1>3
  <2> HIDE DEF last
  <2>2. /\ SubSeq(wtmp, 1, last) \in Seq(Cells)
        /\ Len(SubSeq(wtmp, 1, last)) = IF 1 <= last THEN last - 1 + 1 ELSE 0
        /\ \A i \in 1 .. last - 1 + 1 : SubSeq(wtmp, 1, last)[i] = wtmp[1 + i - 1]
    BY <2>1, SubSeqProperties
  <2>3. QED
    BY <2>2 DEF last
<1>5. n - r = 10 * q
  BY <1>3
<1>6. /\ Whole \in Seq(Cells) /\ Len(Whole) = 10 * q
      /\ \A i \in 1 .. 10 * q : Whole[i] = wtmp[i]
  <2>1. /\ 10 * q - 1 + 1 = 10 * q /\ \A i \in 1 .. 10 * q : 1 + i - 1 = i
        /\ (IF 1 <= 10 * q THEN 10 * q - 1 + 1 ELSE 0) = 10 * q
    BY <1>3
  <2>2. QED
    BY <1>2, <1>4, <1>5, <2>1
<1>7. QED
  BY <1>2, <1>3, <1>6 DEF n

\* Cells of one record after the whole ones, or after the beginning of it.
LEMMA FileLonger ==
    ASSUME FileInv, NEW q \in Nat, NEW n \in 0 .. 9, NEW m \in 1 .. (10 - n), NEW record \in Nat,
           NEW head \in Seq(Cells), Len(head) = 10 * q + n, Len(head) <= Len(wtmp),
           \A i \in 1 .. Len(head) : head[i] = wtmp[i],
           record = begun', begun' \in Nat, begun' >= begun,
           n > 0 => RecordAt(q) = record, n = 0 => begun' > begun,
           wtmp' = head \o CellsOf(record, n + 1, n + m)
    PROVE  /\ FileInv' /\ Len(wtmp') = 10 * q + n + m
           /\ \A i \in 1 .. Len(head) : wtmp'[i] = wtmp[i]
<1> DEFINE run == CellsOf(record, n + 1, n + m)
           o == 10 * q + n
<1>1. run \in Seq(Cells) /\ Len(run) = m /\ \A i \in 1 .. m : run[i] = Cell(record, n + i)
  <2>1. n \in Nat /\ m \in Nat
    OBVIOUS
  <2> HIDE DEF run
  <2>2. /\ CellsOf(record, n + 1, n + m) \in Seq(Cells)
        /\ Len(CellsOf(record, n + 1, n + m)) = m
        /\ \A i \in 1 .. m : CellsOf(record, n + 1, n + m)[i] = Cell(record, n + i)
    BY <2>1, Runs
  <2>3. QED
    BY <2>2 DEF run
<1>2. o \in Nat /\ Len(head) = o /\ m \in Nat /\ Len(wtmp) \in Nat /\ wtmp' = head \o run
  BY LenProperties DEF FileInv
<1> HIDE DEF run, o
<1>3. /\ wtmp' \in Seq(Cells) /\ Len(wtmp') = o + m
      /\ \A i \in 1 .. (o + m) : wtmp'[i] = IF i <= o THEN head[i] ELSE run[i - o]
  <2>1. /\ head \o run \in Seq(Cells) /\ Len(head \o run) = Len(head) + Len(run)
        /\ \A i \in 1 .. Len(head) + Len(run) :
              (head \o run)[i] = IF i <= Len(head) THEN head[i] ELSE run[i - Len(head)]
    BY <1>1, ConcatProperties
  <2>2. QED
    BY <1>1, <1>2, <2>1
<1>4. ASSUME NEW i \in 1 .. o PROVE wtmp'[i] = wtmp[i]
  <2>1. i \in 1 .. (o + m) /\ i <= o /\ i \in 1 .. Len(head)
    BY <1>2
  <2>2. QED
    BY <1>3, <2>1
<1>5. \A at \in (n + 1) .. (n + m) : wtmp'[10 * q + at] = Cell(record, at)
  <2> SUFFICES ASSUME NEW at \in (n + 1) .. (n + m) PROVE wtmp'[10 * q + at] = Cell(record, at)
    OBVIOUS
  <2> DEFINE i == 10 * q + at
  <2>1. i \in 1 .. (o + m) /\ ~(i <= o) /\ i - o \in 1 .. m /\ n + (i - o) = at
    BY <1>2 DEF o
  <2> HIDE DEF i
  <2>2. QED
    BY <1>1, <1>3, <2>1 DEF i
<1>6. RecordAt(q)' = record
  <2>1. CASE n = 0
    <3>1. 1 \in (n + 1) .. (n + m)
      BY <1>2, <2>1
    <3>2. wtmp'[10 * q + 1] = Cell(record, 1)
      BY <1>5, <3>1
    <3>3. Cell(record, 1).record = record
      BY DEF Cell
    <3>4. QED
      BY <3>2, <3>3, Zenon DEF RecordAt
  <2>2. CASE n # 0
    <3>1. 10 * q + 1 \in 1 .. o
      BY <1>2, <2>2 DEF o
    <3>2. QED
      BY <1>4, <2>2, <3>1 DEF RecordAt
  <2>3. QED
    BY <2>1, <2>2
<1>7. \A k \in Nat : k < q => RecordAt(k)' = RecordAt(k) /\ 10 * k < Len(wtmp)
  <2> SUFFICES ASSUME NEW k \in Nat, k < q PROVE RecordAt(k)' = RecordAt(k) /\ 10 * k < Len(wtmp)
    OBVIOUS
  <2>1. 10 * k + 1 \in 1 .. o /\ 10 * k < Len(wtmp)
    BY <1>2 DEF o
  <2>2. QED
    BY <1>4, <2>1 DEF RecordAt
<1>8. \A k \in Nat : 10 * k < Len(wtmp') => k <= q
  BY <1>2, <1>3 DEF o
<1>9. \A k \in Nat, at \in 1 .. 10 : 10 * k + at <= Len(wtmp') => wtmp'[10 * k + at] = Cell(RecordAt(k)', at)
  <2> SUFFICES ASSUME NEW k \in Nat, NEW at \in 1 .. 10, 10 * k + at <= Len(wtmp')
               PROVE  wtmp'[10 * k + at] = Cell(RecordAt(k)', at)
    OBVIOUS
  <2>1. k <= q
    <3>1. 10 * k < Len(wtmp')
      BY <1>2, <1>3
    <3>2. QED
      BY <1>8, <3>1
  <2>2. CASE k < q
    <3>1. 10 * k + at \in 1 .. o /\ 10 * k + at <= Len(wtmp)
      BY <1>2, <2>2 DEF o
    <3>2. wtmp[10 * k + at] = Cell(RecordAt(k), at)
      BY <3>1 DEF FileInv
    <3>3. QED
      BY <1>4, <1>7, <2>2, <3>1, <3>2
  <2>3. CASE k = q /\ at > n
    <3>1. at \in (n + 1) .. (n + m)
      BY <1>2, <1>3, <2>3 DEF o
    <3>2. QED
      BY <1>5, <1>6, <2>3, <3>1
  <2>4. CASE k = q /\ at <= n
    <3>1. 10 * k + at \in 1 .. o /\ 10 * k + at <= Len(wtmp)
      <4> DEFINE first == 10 * q
      <4>1. first \in Nat /\ o = first + n /\ 10 * k = first
        BY <2>4 DEF o
      <4> HIDE DEF first
      <4>2. 10 * k + at = first + at /\ first + at \in 1 .. o
        BY <1>2, <2>4, <4>1
      <4>3. o <= Len(wtmp)
        BY <1>2
      <4>4. QED
        BY <1>2, <4>1, <4>2, <4>3
    <3>2. wtmp[10 * k + at] = Cell(RecordAt(k), at)
      BY <3>1 DEF FileInv
    <3>3. RecordAt(q) = record
      BY <2>4
    <3>4. QED
      BY <1>4, <1>6, <2>4, <3>1, <3>2, <3>3
  <2>5. QED
    BY <2>1, <2>2, <2>3, <2>4
<1>10. begun \in Nat /\ \A k \in Nat : k < q => RecordAt(k) \in 1 .. begun
  BY <1>7 DEF FileInv
<1>11. record \in 1 .. begun'
  <2>1. CASE n = 0
    BY <1>10, <2>1
  <2>2. CASE n # 0
    <3>1. 10 * q < Len(wtmp)
      BY <1>2, <2>2 DEF o
    <3>2. RecordAt(q) \in 1 .. begun
      BY <3>1 DEF FileInv
    <3>3. QED
      BY <1>10, <2>2, <3>2
  <2>3. QED
    BY <2>1, <2>2
<1>12. \A k \in Nat : 10 * k < Len(wtmp') => RecordAt(k)' \in 1 .. begun'
  <2> SUFFICES ASSUME NEW k \in Nat, 10 * k < Len(wtmp') PROVE RecordAt(k)' \in 1 .. begun'
    OBVIOUS
  <2>1. CASE k < q
    <3>1. RecordAt(k) \in 1 .. begun
      BY <1>10, <2>1
    <3>2. QED
      BY <1>7, <1>10, <2>1, <3>1
  <2>2. CASE k = q
    BY <1>6, <1>11, <2>2
  <2>3. QED
    BY <1>8, <2>1, <2>2
<1>13. \A k \in Nat : k < q => RecordAt(k) < record
  <2> SUFFICES ASSUME NEW k \in Nat, k < q PROVE RecordAt(k) < record
    OBVIOUS
  <2>1. CASE n = 0
    BY <1>10, <2>1
  <2>2. CASE n # 0
    <3>1. 10 * q < Len(wtmp)
      BY <1>2, <2>2 DEF o
    <3>2. RecordAt(k) < RecordAt(q)
      BY <3>1 DEF FileInv
    <3>3. RecordAt(q) = record
      BY <2>2
    <3>4. QED
      BY <3>2, <3>3
  <2>3. QED
    BY <2>1, <2>2
<1>14. \A k, l \in Nat : k < l /\ 10 * l < Len(wtmp') => RecordAt(k)' < RecordAt(l)'
  <2> SUFFICES ASSUME NEW k \in Nat, NEW l \in Nat, k < l, 10 * l < Len(wtmp')
               PROVE  RecordAt(k)' < RecordAt(l)'
    OBVIOUS
  <2>1. CASE l < q
    <3>1. 10 * l < Len(wtmp) /\ k < q
      BY <1>7, <2>1
    <3>2. RecordAt(k) < RecordAt(l)
      BY <3>1 DEF FileInv
    <3>3. QED
      BY <1>7, <2>1, <3>1, <3>2
  <2>2. CASE l = q
    BY <1>6, <1>7, <1>13, <2>2
  <2>3. QED
    BY <1>8, <2>1, <2>2
<1>15. \A k \in Nat : 10 * k < Len(wtmp') /\ Len(wtmp') < 10 * k + 10 => RecordAt(k)' = begun'
  <2> SUFFICES ASSUME NEW k \in Nat, 10 * k < Len(wtmp'), Len(wtmp') < 10 * k + 10 PROVE RecordAt(k)' = begun'
    OBVIOUS
  <2>1. k = q
    BY <1>2, <1>3, <1>8 DEF o
  <2>2. QED
    BY <1>6, <2>1
<1>16. FileInv'
  BY <1>3, <1>9, <1>12, <1>14, <1>15 DEF FileInv
<1>17. QED
  BY <1>2, <1>3, <1>4, <1>16 DEF o

\* A record is appended, after the last whole one.
LEMMA AppendKeeps ==
    ASSUME WtmpInv, AppendRecord
    PROVE  WtmpInv'
<1>1. PICK q \in Nat : /\ Torn \in 0 .. 9 /\ Len(wtmp) = 10 * q + Torn
                        /\ Whole \in Seq(Cells) /\ Len(Whole) = 10 * q
                        /\ \A i \in 1 .. 10 * q : Whole[i] = wtmp[i]
  BY WholeRecords DEF WtmpInv
<1>2. begun \in Nat /\ begun' = begun + 1
  BY DEF WtmpInv, FileInv, AppendRecord
<1>3. PICK cells \in 1 .. 10 : wtmp' = Whole \o CellsOf(begun', 1, cells)
  BY DEF AppendRecord, RecordCells
<1>4. PICK head \in Seq(Cells), record \in Nat : head = Whole /\ record = begun'
  BY <1>1, <1>2
<1>5. /\ FileInv' /\ Len(wtmp') = 10 * q + 0 + cells
      /\ \A i \in 1 .. Len(head) : wtmp'[i] = wtmp[i]
  <2>1. FileInv /\ 0 \in 0 .. 9 /\ cells \in 1 .. (10 - 0) /\ 0 + 1 = 1 /\ 0 + cells = cells
    BY DEF WtmpInv
  <2>2. /\ Len(head) = 10 * q + 0 /\ Len(head) <= Len(wtmp)
        /\ \A i \in 1 .. Len(head) : head[i] = wtmp[i]
    BY <1>1, <1>4
  <2>3. record = begun' /\ begun' \in Nat /\ begun' >= begun /\ begun' > begun
    BY <1>2, <1>4
  <2>4. wtmp' = head \o CellsOf(record, 0 + 1, 0 + cells)
    BY <1>3, <1>4, <2>1
  <2>5. ~(0 > 0)
    OBVIOUS
  <2>6. QED
    BY <2>1, <2>2, <2>3, <2>4, <2>5, FileLonger
<1>6. PICK m \in Nat : m = 10 * q
  OBVIOUS
<1>7. /\ m <= Len(wtmp) /\ m <= Len(wtmp') /\ 10 * Len(whole) <= m
      /\ \A i \in 1 .. m : wtmp'[i] = wtmp[i]
  <2>1. 10 * Len(whole) <= Len(wtmp) /\ Len(whole) \in Nat
    BY DEF WtmpInv, WholeInv
  <2>2. QED
    BY <1>1, <1>4, <1>5, <1>6, <2>1
<1>8. slipped' \in BOOLEAN /\ (~slipped' => ~slipped /\ offset <= m)
  <2>1. slipped' = (slipped \/ (Torn # 0 /\ offset > Len(Whole))) /\ slipped \in BOOLEAN
    BY DEF AppendRecord, WtmpInv
  <2>2. slipped' \in BOOLEAN
    BY <2>1
  <2>3. ASSUME ~slipped' PROVE ~slipped /\ offset <= m
    <3>1. ~slipped /\ (Torn = 0 \/ ~(offset > Len(Whole)))
      BY <2>1, <2>3
    <3>2. offset \in Nat /\ offset <= Len(wtmp)
      BY <3>1 DEF WtmpInv, EntriesInv
    <3>3. QED
      BY <1>1, <1>6, <3>1, <3>2
  <2>4. QED
    BY <2>2, <2>3
<1>9. getting = "reading" /\ UNCHANGED callVars
  BY DEF AppendRecord
<1>10. QED
  BY <1>5, <1>7, <1>8, <1>9, FileMoves

\* The rest of the torn record is written.
LEMMA FinishKeeps ==
    ASSUME WtmpInv, FinishRecord
    PROVE  WtmpInv'
<1>1. PICK q \in Nat : Torn \in 0 .. 9 /\ Len(wtmp) = 10 * q + Torn
  BY WholeRecords DEF WtmpInv
<1>2. PICK n \in 0 .. 9, m \in 1 .. 10 : n = Torn /\ n > 0 /\ m = 10 - n
  BY <1>1 DEF FinishRecord
<1>3. PICK head \in Seq(Cells), record \in Nat : head = wtmp /\ record = begun
  BY DEF WtmpInv, FileInv
<1>4. /\ wtmp' = wtmp \o CellsOf(begun, Torn + 1, 10) /\ UNCHANGED <<begun, slipped, callVars>>
      /\ getting = "reading"
  BY DEF FinishRecord, RecordCells
<1>5. RecordAt(q) = record
  <2>1. 10 * q < Len(wtmp) /\ Len(wtmp) < 10 * q + 10
    BY <1>1, <1>2
  <2>2. RecordAt(q) = begun
    BY <2>1 DEF WtmpInv, FileInv
  <2>3. QED
    BY <1>3, <2>2
<1>6. /\ FileInv' /\ Len(wtmp') = 10 * q + n + m
      /\ \A i \in 1 .. Len(head) : wtmp'[i] = wtmp[i]
  <2>1. FileInv /\ m \in 1 .. (10 - n) /\ n + m = 10
    BY <1>2 DEF WtmpInv
  <2>2. /\ Len(head) = 10 * q + n /\ Len(head) <= Len(wtmp)
        /\ \A i \in 1 .. Len(head) : head[i] = wtmp[i]
    BY <1>1, <1>2, <1>3
  <2>3. record = begun' /\ begun' \in Nat /\ begun' >= begun
    BY <1>3, <1>4
  <2>4. wtmp' = head \o CellsOf(record, n + 1, n + m)
    BY <1>2, <1>3, <1>4, <2>1
  <2>5. RecordAt(q) = record /\ ~(n = 0)
    BY <1>2, <1>5
  <2>6. QED
    BY <2>1, <2>2, <2>3, <2>4, <2>5, FileLonger
<1>7. PICK l \in Nat : l = Len(wtmp)
  BY <1>1
<1>8. /\ l <= Len(wtmp) /\ l <= Len(wtmp') /\ 10 * Len(whole) <= l
      /\ \A i \in 1 .. l : wtmp'[i] = wtmp[i]
  BY <1>1, <1>2, <1>3, <1>6, <1>7 DEF WtmpInv, WholeInv
<1>9. slipped' \in BOOLEAN /\ (~slipped' => ~slipped /\ offset <= l)
  BY <1>4, <1>7 DEF WtmpInv, EntriesInv
<1>10. UNCHANGED callVars
  BY <1>4
<1>11. QED
  BY <1>4, <1>6, <1>8, <1>9, <1>10, FileMoves

\* What a call that has not slipped reads next belongs to its record.
LEMMA NextCells ==
    ASSUME WtmpInv, getting = "reading", ~slipped, ~short, NEW cells \in 1 .. 2, offset + cells <= Len(wtmp),
           Before[field] + cells <= 8
    PROVE  entry \o Got(cells) = CellsOf(RecordAt(Len(entries)), 1, Before[field] + cells)
<1>1. PICK k \in Nat, b \in 0 .. 8 : k = Len(entries) /\ b = Before[field]
  <2>1. PICK f \in 1 .. 6 : f = field
    BY DEF WtmpInv
  <2>2. Before[f] \in 0 .. 8
    BY BeforeField
  <2>3. Len(entries) \in Nat
    BY LenProperties DEF WtmpInv, EntriesInv
  <2>4. QED
    BY <2>1, <2>2, <2>3
<1>2. offset = 10 * k + b /\ entry = CellsOf(RecordAt(k), 1, b)
  BY <1>1 DEF WtmpInv, PositionInv
<1>3. /\ FileInv /\ b \in Nat /\ cells \in Nat /\ cells > 0 /\ b + cells <= 10
      /\ 10 * k + b + cells <= Len(wtmp)
  <2>1. FileInv
    BY DEF WtmpInv
  <2>2. b + cells <= 8 /\ 10 * k + b + cells <= Len(wtmp)
    BY <1>1, <1>2
  <2>3. QED
    BY <2>1, <2>2
<1>4. SubSeq(wtmp, 10 * k + b + 1, 10 * k + b + cells) = CellsOf(RecordAt(k), b + 1, b + cells)
  BY <1>3, Reads
<1>5. Got(cells) = CellsOf(RecordAt(k), b + 1, b + cells)
  BY <1>2, <1>4, Zenon DEF Got
<1>6. PICK record \in Nat : record = RecordAt(k)
  <2>1. Len(wtmp) \in Nat /\ 10 * k < Len(wtmp)
    BY <1>3, LenProperties DEF FileInv
  <2>2. QED
    BY <1>3, <2>1 DEF FileInv
<1>7. CellsOf(record, 1, b) \o CellsOf(record, b + 1, b + cells) = CellsOf(record, 1, b + cells)
  BY <1>3, ReadOn
<1>8. QED
  BY <1>1, <1>2, <1>5, <1>6, <1>7, Zenon

\* What a step of the call leaves as it is.
LEMMA CallMoves ==
    ASSUME WtmpInv, UNCHANGED <<wtmp, begun, filling, entries, whole>>,
           ~slipped => offset' \in Nat /\ offset <= offset' /\ offset' <= Len(wtmp)
    PROVE  FileInv' /\ WholeInv' /\ (~slipped => EntriesInv') /\ \A k : RecordAt(k)' = RecordAt(k)
<1>1. \A k : RecordAt(k)' = RecordAt(k)
  BY DEF RecordAt
<1>2. FileInv'
  BY <1>1 DEF WtmpInv, FileInv
<1>3. WholeInv'
  BY <1>1 DEF WtmpInv, WholeInv
<1>4. ASSUME ~slipped PROVE EntriesInv'
  <2>1. EntriesInv
    BY <1>4 DEF WtmpInv
  <2>2. ASSUME NEW k \in Nat, k < Len(entries)
        PROVE  10 * k + 8 <= offset' /\ entries[k + 1] = CellsOf(RecordAt(k)', 1, 8)
    <3>1. 10 * k + 8 <= offset /\ entries[k + 1] = CellsOf(RecordAt(k), 1, 8) /\ offset \in Nat
      BY <2>1, <2>2 DEF EntriesInv
    <3>2. QED
      BY <1>1, <1>4, <3>1
  <2>3. QED
    BY <1>4, <2>1, <2>2 DEF EntriesInv
<1>5. QED
  BY <1>1, <1>2, <1>3, <1>4

LEMMA ReadNumberKeeps ==
    ASSUME WtmpInv, ReadNumber
    PROVE  WtmpInv'
<1>1. /\ UNCHANGED <<wtmp, begun, filling, entries, whole>> /\ getting = "reading" /\ field \in {1, 5}
      /\ slipped \in BOOLEAN /\ short \in BOOLEAN
  <2>1. field \in 1 .. 6 /\ field <= 5 /\ RecordFields[field].kind = "number" /\ "number" # "bytes"
    BY FieldKinds DEF ReadNumber, WtmpInv
  <2>2. field # 2 /\ field # 3 /\ field # 4
    BY <2>1, FieldKinds
  <2>3. QED
    BY <2>1, <2>2 DEF ReadNumber, WtmpInv
<1>2. Len(wtmp) \in Nat
  BY LenProperties DEF WtmpInv, FileInv
<1>3. CASE Left = 0
  <2>1. getting' = "returned" /\ UNCHANGED <<offset, field, entry, short, slipped>>
    BY <1>3 DEF ReadNumber
  <2>2. ASSUME ~slipped PROVE Len(whole) <= Len(entries)
    <3>1. EntriesInv /\ PositionInv /\ offset \in Nat /\ offset <= Len(wtmp) /\ Len(entries) \in Nat
      BY <1>1, <2>2, LenProperties DEF WtmpInv, EntriesInv
    <3>2. offset = Len(wtmp)
      BY <1>2, <1>3, <3>1 DEF Left
    <3>3. PICK b \in {0, 7} : b = Before[field]
      BY <1>1, BeforeFields
    <3>4. offset = 10 * Len(entries) + b \/ offset < 10 * Len(entries) + b
      BY <3>1, <3>3 DEF PositionInv
    <3>5. 10 * Len(whole) <= Len(wtmp) /\ Len(whole) \in Nat
      BY DEF WtmpInv, WholeInv
    <3>6. QED
      BY <3>1, <3>2, <3>3, <3>4, <3>5
  <2>3. FileInv' /\ WholeInv' /\ (~slipped => EntriesInv') /\ \A k : RecordAt(k)' = RecordAt(k)
    BY <1>1, <2>1, CallMoves DEF WtmpInv, EntriesInv
  <2>4. ASSUME ~slipped PROVE PositionInv'
    <3>1. PositionInv
      BY <1>1, <2>4 DEF WtmpInv
    <3>2. RecordAt(Len(entries))' = RecordAt(Len(entries))
      BY <1>1 DEF RecordAt
    <3>3. QED
      BY <1>1, <2>1, <3>1, <3>2 DEF PositionInv
  <2>5. QED
    BY <1>1, <2>1, <2>2, <2>3, <2>4 DEF WtmpInv
<1>4. CASE Left # 0
  <2>1. /\ offset' = offset + 1 /\ field' = field + 1 /\ entry' = entry \o Got(1)
        /\ slipped' = (slipped \/ short) /\ short' = FALSE /\ getting' = getting
    BY <1>4 DEF ReadNumber
  <2>2. ~slipped => offset' \in Nat /\ offset <= offset' /\ offset' <= Len(wtmp)
    BY <1>2, <1>4, <2>1 DEF Left, WtmpInv, EntriesInv
  <2>3. FileInv' /\ WholeInv' /\ (~slipped => EntriesInv') /\ slipped' \in BOOLEAN /\ field' \in 1 .. 6
    BY <1>1, <2>1, <2>2, CallMoves
  <2>4. ASSUME ~slipped' PROVE EntriesInv' /\ PositionInv'
    <3>1. ~slipped /\ ~short
      BY <2>1, <2>4
    <3>2. EntriesInv /\ PositionInv /\ offset \in Nat /\ offset <= Len(wtmp) /\ Len(entries) \in Nat
      BY <1>1, <3>1, LenProperties DEF WtmpInv, EntriesInv
    <3>3. offset' \in Nat /\ offset' <= Len(wtmp)
      BY <2>2, <3>1
    <3>4. EntriesInv'
      BY <2>3, <3>1
    <3>5. PICK b \in {0, 7} : b = Before[field] /\ Before[field + 1] = b + 1
      BY <1>1, BeforeFields
    <3>6. entry' = CellsOf(RecordAt(Len(entries)), 1, Before[field] + 1)
      <4>1. 1 \in 1 .. 2 /\ offset + 1 <= Len(wtmp) /\ Before[field] + 1 <= 8
        BY <2>1, <3>3, <3>5
      <4>2. QED
        BY <1>1, <2>1, <3>1, <4>1, NextCells
    <3>7. offset' = 10 * Len(entries) + (b + 1)
      BY <2>1, <3>1, <3>2, <3>5 DEF PositionInv
    <3>8. entry' = CellsOf(RecordAt(Len(entries))', 1, Before[field'])
      <4>1. RecordAt(Len(entries))' = RecordAt(Len(entries))
        BY <1>1 DEF RecordAt
      <4>2. Before[field'] = Before[field] + 1
        BY <2>1, <3>5
      <4>3. QED
        BY <3>6, <4>1, <4>2
    <3>9. offset' = 10 * Len(entries') + Before[field']
      BY <1>1, <2>1, <3>5, <3>7
    <3>10. PositionInv'
      BY <2>1, <3>8, <3>9 DEF PositionInv
    <3>11. QED
      BY <3>4, <3>10
  <2>5. QED
    BY <1>1, <2>1, <2>3, <2>4 DEF WtmpInv
<1>5. QED
  BY <1>3, <1>4

\* What an array takes.
LEMMA Filled ==
    ASSUME WtmpInv, NEW room \in {2}, Fill(room)
    PROVE  /\ slipped' \in BOOLEAN /\ short' \in BOOLEAN
           /\ ~slipped => offset' \in Nat /\ offset <= offset' /\ offset' <= Len(wtmp)
           /\ ~slipped' => ~slipped /\ (short => short' /\ offset' = offset)
           /\ ~slipped /\ short' => offset' < offset + room
           /\ ~slipped /\ ~short' => offset' = offset + room
<1> DEFINE cells == IF Left < room THEN Left ELSE room
<1>1. /\ offset' = offset + cells /\ short' = (cells < room)
      /\ slipped' = (slipped \/ (short /\ cells > 0))
  BY DEF Fill
<1>2. short \in BOOLEAN /\ slipped \in BOOLEAN /\ Len(wtmp) \in Nat
  BY LenProperties DEF WtmpInv, FileInv
<1>3. slipped' \in BOOLEAN /\ short' \in BOOLEAN
  BY <1>1
<1>4. ASSUME ~slipped PROVE offset \in Nat /\ offset + cells <= Len(wtmp) /\ cells \in 0 .. room
  <2>1. offset \in Nat /\ offset <= Len(wtmp)
    BY <1>4 DEF WtmpInv, EntriesInv
  <2>2. Left = Len(wtmp) - offset /\ Left \in Nat
    BY <1>2, <2>1 DEF Left
  <2>3. QED
    BY <1>2, <2>1, <2>2
<1> HIDE DEF cells
<1>5. ASSUME ~slipped' PROVE ~slipped /\ (short => short' /\ offset' = offset)
  <2>1. ~slipped /\ (short => ~(cells > 0))
    BY <1>1, <1>5
  <2>2. PICK c \in 0 .. room : c = cells /\ offset \in Nat
    BY <1>4, <2>1
  <2>3. ASSUME short PROVE short' /\ offset' = offset
    <3>1. ~(c > 0)
      BY <2>1, <2>2, <2>3
    <3>2. c = 0 /\ c < room
      BY <3>1
    <3>3. offset' = offset + c /\ short'
      BY <1>1, <2>2, <3>2
    <3>4. QED
      BY <2>2, <3>2, <3>3
  <2>4. QED
    BY <2>1, <2>3
<1>6. ASSUME ~slipped
      PROVE  /\ offset' \in Nat /\ offset <= offset' /\ offset' <= Len(wtmp)
             /\ short' => offset' < offset + room
             /\ ~short' => offset' = offset + room
  <2>1. PICK c \in 0 .. room : c = cells
    BY <1>4, <1>6
  <2>2. offset' = offset + c /\ offset \in Nat /\ offset + c <= Len(wtmp) /\ (short' <=> c < room)
    BY <1>1, <1>4, <1>6, <2>1
  <2>3. room \in Nat
    OBVIOUS
  <2>4. QED
    BY <1>2, <2>1, <2>2, <2>3
<1>7. QED
  BY <1>3, <1>5, <1>6

LEMMA ReadBytesKeeps ==
    ASSUME WtmpInv, ReadBytes
    PROVE  WtmpInv'
<1>1. /\ UNCHANGED <<wtmp, begun, filling, getting, entries, whole>> /\ getting = "reading" /\ field \in {2, 3, 4}
      /\ slipped \in BOOLEAN /\ short \in BOOLEAN
  <2>1. field \in 1 .. 6 /\ field <= 5 /\ RecordFields[field].kind = "bytes" /\ "number" # "bytes"
    BY FieldKinds DEF ReadBytes, WtmpInv
  <2>2. field # 1 /\ field # 5
    BY <2>1, FieldKinds
  <2>3. QED
    BY <2>1, <2>2 DEF ReadBytes, WtmpInv
<1>2. /\ Fill(2) /\ entry' = entry \o Got(offset' - offset) /\ field' = field + 1
  <2>1. RecordFields[field].cells = 2
    BY <1>1, FieldKinds
  <2>2. QED
    BY <2>1 DEF ReadBytes
<1>3. /\ slipped' \in BOOLEAN /\ short' \in BOOLEAN
      /\ ~slipped => offset' \in Nat /\ offset <= offset' /\ offset' <= Len(wtmp)
      /\ ~slipped' => ~slipped /\ (short => short' /\ offset' = offset)
      /\ ~slipped /\ short' => offset' < offset + 2
      /\ ~slipped /\ ~short' => offset' = offset + 2
  BY <1>2, Filled
<1>4. FileInv' /\ WholeInv' /\ (~slipped => EntriesInv') /\ field' \in {3, 4, 5}
  BY <1>1, <1>2, <1>3, CallMoves
<1>5. ASSUME ~slipped' PROVE EntriesInv' /\ PositionInv'
  <2>1. ~slipped /\ (short => short' /\ offset' = offset)
    BY <1>3, <1>5
  <2>2. EntriesInv /\ PositionInv /\ offset \in Nat /\ offset' \in Nat /\ offset' <= Len(wtmp) /\ Len(entries) \in Nat
    BY <1>1, <1>3, <2>1, LenProperties DEF WtmpInv, EntriesInv
  <2>3. PICK b \in {1, 3, 5} : b = Before[field] /\ Before[field'] = b + 2
    BY <1>1, <1>2, BeforeFields
  <2>4. offset' < 10 * Len(entries) + (b + 2) \/ ~short'
    BY <1>3, <2>1, <2>2, <2>3 DEF PositionInv
  <2>5. ASSUME ~short'
        PROVE  /\ offset' = 10 * Len(entries) + (b + 2)
               /\ entry' = CellsOf(RecordAt(Len(entries))', 1, Before[field'])
    <3>1. ~short /\ offset' = offset + 2
      BY <1>3, <2>1, <2>5
    <3>2. offset' = 10 * Len(entries) + (b + 2)
      BY <2>2, <2>3, <3>1 DEF PositionInv
    <3>3. offset' - offset = 2 /\ 2 \in 1 .. 2 /\ offset + 2 <= Len(wtmp) /\ Before[field] + 2 <= 8
      BY <2>2, <2>3, <3>1
    <3>4. entry \o Got(2) = CellsOf(RecordAt(Len(entries)), 1, Before[field] + 2)
      BY <1>1, <2>1, <3>1, <3>3, NextCells
    <3>5. RecordAt(Len(entries))' = RecordAt(Len(entries)) /\ Before[field'] = Before[field] + 2
      BY <1>1, <2>3 DEF RecordAt
    <3>6. QED
      BY <1>2, <3>2, <3>3, <3>4, <3>5
  <2>6. short' => field' \in {1, 3, 4, 5} /\ offset' < 10 * Len(entries') + Before[field']
    BY <1>1, <1>4, <2>3, <2>4
  <2>7. ~short' => /\ offset' = 10 * Len(entries') + Before[field']
                   /\ entry' = CellsOf(RecordAt(Len(entries))', 1, Before[field'])
    BY <1>1, <2>3, <2>5
  <2>8. PositionInv'
    BY <2>6, <2>7 DEF PositionInv
  <2>9. QED
    BY <1>4, <2>1, <2>8
<1>6. QED
  BY <1>1, <1>3, <1>4, <1>5 DEF WtmpInv

LEMMA AddEntryKeeps ==
    ASSUME WtmpInv, AddEntry
    PROVE  WtmpInv'
<1>1. /\ UNCHANGED <<wtmp, begun, filling, whole>> /\ getting = "reading" /\ field = 6 /\ Fill(2)
      /\ slipped \in BOOLEAN /\ short \in BOOLEAN
  BY FieldKinds DEF AddEntry, WtmpInv, Rest
<1>2. /\ slipped' \in BOOLEAN /\ short' \in BOOLEAN
      /\ ~slipped => offset' \in Nat /\ offset <= offset' /\ offset' <= Len(wtmp)
      /\ ~slipped' => ~slipped /\ (short => short' /\ offset' = offset)
      /\ ~slipped /\ short' => offset' < offset + 2
      /\ ~slipped /\ ~short' => offset' = offset + 2
  BY <1>1, Filled
<1>3. CASE getting' = "thrown" /\ UNCHANGED <<field, entry, entries>> /\ (Fills(entry) \/ slipped')
  <2>1. FileInv' /\ WholeInv' /\ (~slipped => EntriesInv')
    BY <1>1, <1>2, <1>3, CallMoves
  <2>2. ~slipped' => filling' # {}
    BY <1>1, <1>3 DEF Fills
  <2>3. QED
    BY <1>1, <1>2, <1>3, <2>1, <2>2 DEF WtmpInv
<1>4. CASE entries' = Append(entries, entry) /\ entry' = <<>> /\ field' = 1 /\ getting' = getting
  <2>1. \A k : RecordAt(k)' = RecordAt(k)
    BY <1>1 DEF RecordAt
  <2>2. FileInv' /\ WholeInv'
    BY <1>1, <2>1 DEF WtmpInv, FileInv, WholeInv
  <2>3. ASSUME ~slipped' PROVE EntriesInv' /\ PositionInv'
    <3>1. ~slipped /\ EntriesInv /\ PositionInv
      BY <1>1, <1>2, <2>3 DEF WtmpInv
    <3>2. PICK n \in Nat : n = Len(entries)
      BY <3>1, LenProperties DEF EntriesInv
    <3>3. Before[6] = 8 /\ Before[1] = 0
      BY BeforeFields
    <3>4. ~short /\ offset = 10 * n + 8 /\ entry = CellsOf(RecordAt(n), 1, 8)
      BY <1>1, <3>1, <3>2, <3>3 DEF PositionInv
    <3>5. Len(wtmp) \in Nat /\ offset <= Len(wtmp) /\ offset' \in Nat /\ offset <= offset' /\ offset' <= Len(wtmp)
      BY <1>2, <3>1, LenProperties DEF WtmpInv, FileInv, EntriesInv
    <3>6. PICK record \in Nat : record = RecordAt(n)
      <4>1. 10 * n < Len(wtmp)
        BY <3>4, <3>5
      <4>2. QED
        BY <4>1 DEF WtmpInv, FileInv
    <3>7. entry \in Seq(Cells)
      <4>1. CellsOf(record, 1, 8) \in Seq(Cells)
        BY FirstRun
      <4>2. QED
        BY <3>4, <3>6, <4>1
    <3>8. /\ entries' \in Seq(Seq(Cells)) /\ Len(entries') = n + 1 /\ entries'[n + 1] = entry
          /\ \A i \in 1 .. n : entries'[i] = entries[i]
      BY <1>4, <3>1, <3>2, <3>7, AppendProperties DEF EntriesInv
    <3>9. ASSUME NEW k \in Nat, k < Len(entries')
          PROVE  10 * k + 8 <= offset' /\ entries'[k + 1] = CellsOf(RecordAt(k)', 1, 8)
      <4>1. CASE k = n
        BY <2>1, <3>4, <3>5, <3>8, <4>1
      <4>2. CASE k # n
        <5>1. k < n /\ k + 1 \in 1 .. n
          BY <3>8, <3>9, <4>2
        <5>2. 10 * k + 8 <= offset /\ entries[k + 1] = CellsOf(RecordAt(k), 1, 8) /\ offset \in Nat
          BY <3>1, <3>2, <5>1 DEF EntriesInv
        <5>3. entries'[k + 1] = entries[k + 1]
          BY <3>8, <5>1
        <5>4. 10 * k + 8 <= offset'
          BY <3>5, <5>2
        <5>5. QED
          BY <2>1, <5>2, <5>3, <5>4, Zenon
      <4>3. QED
        BY <4>1, <4>2
    <3>10. EntriesInv'
      BY <1>1, <3>5, <3>8, <3>9 DEF EntriesInv
    <3>11. PositionInv'
      <4>1. short' => field' \in {1, 3, 4, 5} /\ offset' < 10 * Len(entries') + Before[field']
        BY <1>2, <1>4, <3>1, <3>3, <3>4, <3>5, <3>8
      <4>2. ASSUME ~short' PROVE offset' = 10 * Len(entries') + Before[field']
        <5>1. offset' = 10 * n + 8 + 2 /\ Before[field'] = 0 /\ Len(entries') = n + 1
          BY <1>2, <1>4, <3>1, <3>3, <3>4, <3>8, <4>2
        <5>2. QED
          BY <5>1
      <4>3. entry' = CellsOf(RecordAt(Len(entries))', 1, Before[field'])
        BY <1>4, <3>3, NoCells, Zenon
      <4>4. QED
        BY <4>1, <4>2, <4>3 DEF PositionInv
    <3>12. QED
      BY <3>10, <3>11
  <2>4. QED
    BY <1>1, <1>2, <1>4, <2>2, <2>3 DEF WtmpInv
<1>5. QED
  BY <1>3, <1>4 DEF AddEntry

\* A file of whole records and the beginning of one.
LEMMA GetEntriesKeeps ==
    ASSUME WtmpInv, GetEntries
    PROVE  WtmpInv'
<1>1. PICK r \in Nat, c \in 0 .. 9 :
        /\ wtmp' = [i \in 1 .. r * 10 + c |-> Cell((i - 1) \div 10 + 1, ((i - 1) % 10) + 1)]
        /\ begun' = IF c = 0 THEN r ELSE r + 1
        /\ whole' = [i \in 1 .. r |-> i]
  BY WtmpAssumption DEF WtmpAssumption, GetEntries, RecordCells
<1>2. /\ getting = "idle" /\ getting' = "reading" /\ UNCHANGED <<offset, field, entry, entries, short, slipped>>
      /\ ~slipped /\ ~short /\ offset = 0 /\ field = 1 /\ entry = <<>> /\ entries = <<>>
  BY DEF WtmpInv, GetEntries
<1> DEFINE n == r * 10 + c
<1>3. n \in Nat /\ n = 10 * r + c
  OBVIOUS
<1> HIDE DEF n
<1>4. ASSUME NEW k \in Nat, NEW at \in 1 .. 10, 10 * k + at <= n
      PROVE  wtmp'[10 * k + at] = Cell(k + 1, at)
  <2> DEFINE i == 10 * k + at
  <2>1. i \in 1 .. n /\ (i - 1) \div 10 + 1 = k + 1 /\ ((i - 1) % 10) + 1 = at
    BY <1>3, <1>4
  <2> HIDE DEF i
  <2>2. wtmp'[i] = Cell((i - 1) \div 10 + 1, ((i - 1) % 10) + 1)
    BY <1>1, <2>1 DEF n
  <2>3. QED
    BY <2>1, <2>2 DEF i
<1>5. wtmp' \in Seq(Cells) /\ Len(wtmp') = n
  <2>1. \A i \in 1 .. n : Cell((i - 1) \div 10 + 1, ((i - 1) % 10) + 1) \in Cells
    <3> SUFFICES ASSUME NEW i \in 1 .. n PROVE Cell((i - 1) \div 10 + 1, ((i - 1) % 10) + 1) \in Cells
      OBVIOUS
    <3>1. (i - 1) \div 10 + 1 \in Nat /\ ((i - 1) % 10) + 1 \in Nat
      BY <1>3
    <3>2. QED
      BY <3>1 DEF Cell, Cells
  <2>2. wtmp' \in [1 .. n -> Cells]
    BY <1>1, <2>1, Zenon DEF n
  <2>3. QED
    BY <1>3, <2>2
<1>6. ASSUME NEW k \in Nat, 10 * k < n PROVE RecordAt(k)' = k + 1
  <2>1. wtmp'[10 * k + 1] = Cell(k + 1, 1)
    BY <1>3, <1>4, <1>6
  <2>2. Cell(k + 1, 1).record = k + 1
    BY DEF Cell
  <2>3. QED
    BY <2>1, <2>2, Zenon DEF RecordAt
<1>7. FileInv'
  <2>1. begun' \in Nat
    BY <1>1
  <2>2. ASSUME NEW k \in Nat, NEW at \in 1 .. 10, 10 * k + at <= Len(wtmp')
        PROVE  wtmp'[10 * k + at] = Cell(RecordAt(k)', at)
    <3>1. 10 * k + at <= n /\ 10 * k < n
      BY <1>3, <1>5, <2>2
    <3>2. QED
      BY <1>4, <1>6, <3>1
  <2>3. ASSUME NEW k \in Nat, 10 * k < Len(wtmp') PROVE RecordAt(k)' \in 1 .. begun'
    <3>1. RecordAt(k)' = k + 1
      BY <1>5, <1>6, <2>3
    <3>2. k + 1 <= begun'
      BY <1>1, <1>3, <1>5, <2>3
    <3>3. QED
      BY <2>1, <3>1, <3>2
  <2>4. ASSUME NEW k \in Nat, NEW l \in Nat, k < l, 10 * l < Len(wtmp') PROVE RecordAt(k)' < RecordAt(l)'
    <3>1. 10 * k < n /\ 10 * l < n
      BY <1>3, <1>5, <2>4
    <3>2. RecordAt(k)' = k + 1 /\ RecordAt(l)' = l + 1
      BY <1>6, <3>1
    <3>3. QED
      BY <2>4, <3>2
  <2>5. ASSUME NEW k \in Nat, 10 * k < Len(wtmp'), Len(wtmp') < 10 * k + 10 PROVE RecordAt(k)' = begun'
    <3>1. RecordAt(k)' = k + 1
      BY <1>5, <1>6, <2>5
    <3>2. k = r /\ c # 0
      BY <1>3, <1>5, <2>5
    <3>3. QED
      BY <1>1, <3>1, <3>2
  <2>6. QED
    BY <1>5, <2>1, <2>2, <2>3, <2>4, <2>5 DEF FileInv
<1>8. WholeInv'
  <2>1. Len(whole') = r /\ DOMAIN whole' = 1 .. r /\ \A i \in 1 .. r : whole'[i] = i
    BY <1>1
  <2>2. ASSUME NEW k \in Nat, k < r PROVE whole'[k + 1] = RecordAt(k)'
    BY <1>3, <1>6, <2>1, <2>2
  <2>3. 10 * r <= Len(wtmp')
    BY <1>3, <1>5
  <2>4. QED
    BY <2>1, <2>2, <2>3 DEF WholeInv
<1>9. EntriesInv' /\ PositionInv'
  <2>1. Len(wtmp') \in Nat
    BY <1>3, <1>5
  <2>2. Len(entries') = 0 /\ entries' \in Seq(Seq(Cells))
    BY <1>2
  <2>3. EntriesInv'
    BY <1>2, <2>1, <2>2 DEF EntriesInv
  <2>4. Before[1] = 0
    BY BeforeFields
  <2>5. entry' = CellsOf(RecordAt(Len(entries))', 1, Before[field'])
    BY <1>2, <2>4, NoCells, Zenon
  <2>6. offset' = 10 * Len(entries') + Before[field']
    BY <1>2, <2>2, <2>4
  <2>7. PositionInv'
    BY <1>2, <2>5, <2>6 DEF PositionInv
  <2>8. QED
    BY <2>3, <2>7
<1>10. QED
  BY <1>2, <1>7, <1>8, <1>9 DEF WtmpInv

\* No file, no call.
LEMMA NoEntries == WtmpInit => WtmpInv
<1> SUFFICES ASSUME WtmpInit PROVE WtmpInv
  OBVIOUS
<1> USE DEF WtmpInit
<1>1. Len(wtmp) = 0 /\ Len(entries) = 0 /\ Len(whole) = 0 /\ DOMAIN whole = {}
  OBVIOUS
<1>2. FileInv
  BY <1>1 DEF FileInv
<1>3. WholeInv
  BY <1>1 DEF WholeInv
<1>4. EntriesInv
  BY <1>1 DEF EntriesInv
<1>5. Before[1] = 0
  BY BeforeFields
<1>6. entry = CellsOf(RecordAt(Len(entries)), 1, Before[field])
  BY <1>5, NoCells, Zenon
<1>7. PositionInv
  BY <1>1, <1>5, <1>6 DEF PositionInv
<1>8. getting \in {"idle", "reading", "returned", "thrown"} /\ short \in BOOLEAN /\ slipped \in BOOLEAN
  BY Zenon
<1>9. getting # "returned" /\ getting # "thrown"
  OBVIOUS
<1>10. ~slipped /\ ~short /\ offset = 0 /\ field = 1 /\ entry = <<>> /\ entries = <<>>
  OBVIOUS
<1> HIDE DEF WtmpInit
<1>11. field \in 1 .. 6
  BY <1>10
<1>12. QED
  BY <1>2, <1>3, <1>4, <1>7, <1>8, <1>9, <1>10, <1>11 DEF WtmpInv

LEMMA WtmpPreserved ==
    ASSUME WtmpInv, EntriesCall \/ WtmpGrows \/ UNCHANGED wtmpVars
    PROVE  WtmpInv'
<1>1. CASE GetEntries
  BY <1>1, GetEntriesKeeps
<1>2. CASE ReadNumber
  BY <1>2, ReadNumberKeeps
<1>3. CASE ReadBytes
  BY <1>3, ReadBytesKeeps
<1>4. CASE AddEntry
  BY <1>4, AddEntryKeeps
<1>5. CASE EntriesDone
  <2>1. WtmpInit'
    BY <1>5 DEF EntriesDone, WtmpInit
  <2>2. WtmpInit' => WtmpInv'
    BY NoEntries, PTL
  <2>3. QED
    BY <2>1, <2>2
<1>6. CASE AppendRecord
  BY <1>6, AppendKeeps
<1>7. CASE FinishRecord
  BY <1>7, FinishKeeps
<1>8. CASE UNCHANGED wtmpVars
  <2>1. \A k : RecordAt(k)' = RecordAt(k)
    BY <1>8 DEF wtmpVars, RecordAt
  <2>2. FileInv' /\ WholeInv'
    BY <1>8, <2>1 DEF WtmpInv, FileInv, WholeInv, wtmpVars
  <2>3. EntriesInv => EntriesInv'
    BY <1>8, <2>1 DEF EntriesInv, wtmpVars
  <2>4. RecordAt(Len(entries))' = RecordAt(Len(entries))
    BY <1>8 DEF wtmpVars, RecordAt
  <2>5. PositionInv => PositionInv'
    BY <1>8, <2>4 DEF PositionInv, wtmpVars
  <2>6. QED
    BY <1>8, <2>2, <2>3, <2>5 DEF WtmpInv, wtmpVars
<1>9. QED
  BY <1>1, <1>2, <1>3, <1>4, <1>5, <1>6, <1>7, <1>8 DEF EntriesCall, WtmpGrows

\* Then the entries are the records.
LEMMA RecordsOfEntries ==
    ASSUME WtmpInv
    PROVE  EntriesAreRecords
<1> SUFFICES ASSUME ~slipped
             PROVE  /\ \A i \in DOMAIN entries :
                          \E record \in 1 .. begun : entries[i] = CellsOf(record, 1, 8)
                    /\ \A i, j \in DOMAIN entries : i < j => entries[i][1].record < entries[j][1].record
                    /\ getting = "returned" =>
                          /\ Len(entries) >= Len(whole)
                          /\ \A i \in DOMAIN whole : entries[i][1].record = whole[i]
                    /\ getting = "thrown" => filling # {}
  BY DEF EntriesAreRecords, UsedCells
<1>1. EntriesInv /\ FileInv /\ WholeInv
  BY DEF WtmpInv
<1>2. Len(wtmp) \in Nat /\ Len(entries) \in Nat /\ DOMAIN entries = 1 .. Len(entries)
  BY <1>1, LenProperties DEF FileInv, EntriesInv
<1>3. ASSUME NEW k \in Nat, k < Len(entries)
      PROVE  /\ 10 * k < Len(wtmp) /\ RecordAt(k) \in 1 .. begun
             /\ entries[k + 1] = CellsOf(RecordAt(k), 1, 8) /\ entries[k + 1][1].record = RecordAt(k)
  <2>1. 10 * k + 8 <= offset /\ offset \in Nat /\ offset <= Len(wtmp) /\ entries[k + 1] = CellsOf(RecordAt(k), 1, 8)
    BY <1>1, <1>3 DEF EntriesInv
  <2>2. 10 * k < Len(wtmp)
    BY <1>2, <2>1
  <2>3. RecordAt(k) \in 1 .. begun /\ begun \in Nat
    BY <1>1, <2>2 DEF FileInv
  <2>4. PICK record \in Nat : record = RecordAt(k)
    BY <2>3
  <2>5. CellsOf(record, 1, 8)[1] = Cell(record, 1)
    BY FirstRun
  <2>6. Cell(record, 1).record = record
    BY DEF Cell
  <2>7. entries[k + 1][1].record = RecordAt(k)
    BY <2>1, <2>4, <2>5, <2>6, Zenon
  <2>8. QED
    BY <2>1, <2>2, <2>3, <2>7
<1>4. ASSUME NEW i \in DOMAIN entries
      PROVE  i - 1 \in Nat /\ i - 1 < Len(entries) /\ i - 1 + 1 = i
  BY <1>2
<1>5. ASSUME NEW i \in DOMAIN entries
      PROVE  \E record \in 1 .. begun : entries[i] = CellsOf(record, 1, 8)
  <2>1. PICK k \in Nat : k < Len(entries) /\ i = k + 1
    BY <1>4
  <2>2. QED
    BY <1>3, <2>1
<1>6. ASSUME NEW i \in DOMAIN entries, NEW j \in DOMAIN entries, i < j
      PROVE  entries[i][1].record < entries[j][1].record
  <2>1. PICK k \in Nat, l \in Nat : k < l /\ l < Len(entries) /\ i = k + 1 /\ j = l + 1
    BY <1>4, <1>6
  <2>2. k < Len(entries)
    BY <1>2, <2>1
  <2>3. RecordAt(k) < RecordAt(l)
    <3>1. 10 * l < Len(wtmp)
      BY <1>3, <2>1
    <3>2. QED
      BY <1>1, <2>1, <3>1 DEF FileInv
  <2>4. entries[i][1].record = RecordAt(k) /\ entries[j][1].record = RecordAt(l)
    BY <1>3, <2>1, <2>2
  <2>5. QED
    BY <2>3, <2>4
<1>7. ASSUME getting = "returned"
      PROVE  Len(entries) >= Len(whole) /\ \A i \in DOMAIN whole : entries[i][1].record = whole[i]
  <2>1. Len(whole) <= Len(entries) /\ Len(whole) \in Nat /\ DOMAIN whole = 1 .. Len(whole)
    BY <1>1, <1>7 DEF WtmpInv, WholeInv
  <2>2. ASSUME NEW i \in DOMAIN whole PROVE entries[i][1].record = whole[i]
    <3>1. PICK k \in Nat : k < Len(whole) /\ i = k + 1
      <4>1. i - 1 \in Nat /\ i - 1 < Len(whole) /\ i - 1 + 1 = i
        BY <2>1
      <4>2. QED
        BY <4>1
    <3>2. k < Len(entries)
      BY <1>2, <2>1, <3>1
    <3>3. entries[i][1].record = RecordAt(k) /\ whole[i] = RecordAt(k)
      BY <1>1, <1>3, <3>1, <3>2 DEF WholeInv
    <3>4. QED
      BY <3>3
  <2>3. QED
    BY <1>2, <2>1, <2>2
<1>8. getting = "thrown" => filling # {}
  BY DEF WtmpInv
<1>9. QED
  BY <1>5, <1>6, <1>7, <1>8

\* A call that does not go on after an array cut short lists the records as
\* they follow on each other in the file, and all that were there when it began.
THEOREM RecordsInOrder == Spec => []EntriesAreRecords
<1>1. Init => WtmpInv
  BY NoEntries DEF Init
<1>2. WtmpInv /\ [Next]_vars => WtmpInv'
  BY Components, WtmpPreserved
<1>3. WtmpInv => EntriesAreRecords
  BY RecordsOfEntries
<1>4. QED
  BY <1>1, <1>2, <1>3, PTL DEF Spec


-----------------------------------------------------------------------------
(* CpuSamples.                                                             *)

\* The core that is read as the core-th, when the cores are online.
CpuAmong(cores) ==
    IF core = All THEN All ELSE CHOOSE c \in cores : Cardinality({other \in cores : other < c}) = core

Counters == [Modes -> Nat]

\* What the counters of the first sample stood at they have not gone back from.
SamplesInv ==
    /\ reading \in {"idle", "first", "sleep", "read"}
    /\ online \subseteq Cores
    /\ stat \in [Cores \union {All} -> Counters]
    /\ reading = "sleep" \/ (reading = "read" /\ usage.kind = "usage") =>
          /\ firstStat.of \in Cores \union {All} /\ firstStat.of = CpuAmong(firstStat.online)
          /\ firstStat.counters \in Counters
          /\ \A m \in Modes : firstStat.counters[m] <= stat[firstStat.of][m]
    /\ reading = "read" /\ usage.kind = "usage" => usage = Percentages(Deltas)

LEMMA SamplesPreserved == SamplesInv /\ (SamplesNext \/ UNCHANGED samplesVars) => SamplesInv'
<1> SUFFICES ASSUME SamplesInv, SamplesNext \/ UNCHANGED samplesVars PROVE SamplesInv'
  OBVIOUS
<1> USE DEF SamplesInv
<1>0. Zero \in Counters /\ "system" \in Modes /\ NoUsage.kind # "usage" /\ All \notin Cores /\ IsFiniteSet(Cores)
  BY SamplesAssumption DEF SamplesAssumption, Zero, Counters, Modes, NoUsage, All
<1>1. CASE Tick
  <2>1. PICK c \in online, m \in Modes :
            stat' = [x \in DOMAIN stat |->
                        IF x \in {c, All} THEN [stat[x] EXCEPT ![m] = @ + 1] ELSE stat[x]]
    BY <1>1 DEF Tick
  <2>2. c # All /\ c \in Cores /\ reading = "sleep" /\ UNCHANGED <<reading, core, online, firstStat, usage>>
    BY <1>0, <1>1 DEF Tick
  <2>4. /\ \A x \in Cores \union {All} :
             stat'[x] = IF x \in {c, All} THEN [stat[x] EXCEPT ![m] = @ + 1] ELSE stat[x]
        /\ stat' = [x \in Cores \union {All} |-> stat'[x]]
    <3>1. DOMAIN stat = Cores \union {All}
      OBVIOUS
    <3>2. QED
      BY <2>1, <3>1
  <2>5. \A x \in Cores \union {All} : stat'[x] \in Counters /\ \A n \in Modes : stat[x][n] <= stat'[x][n]
    <3> SUFFICES ASSUME NEW x \in Cores \union {All}
                 PROVE  stat'[x] \in Counters /\ \A n \in Modes : stat[x][n] <= stat'[x][n]
      OBVIOUS
    <3> DEFINE k == stat[x]
    <3>1. k \in Counters
      OBVIOUS
    <3>2. stat'[x] = k \/ stat'[x] = [k EXCEPT ![m] = @ + 1]
      BY <2>4
    <3> HIDE DEF k
    <3>3. /\ [k EXCEPT ![m] = @ + 1] \in Counters
          /\ \A n \in Modes : k[n] <= k[n] /\ k[n] <= [k EXCEPT ![m] = @ + 1][n]
      <4>1. /\ [k EXCEPT ![m] = k[m] + 1] \in Counters
            /\ \A n \in Modes : /\ k[n] \in Nat
                               /\ [k EXCEPT ![m] = k[m] + 1][n] = IF n = m THEN k[n] + 1 ELSE k[n]
        BY <3>1 DEF Counters
      <4>2. QED
        BY <4>1
    <3>4. stat'[x] \in Counters /\ \A n \in Modes : k[n] <= stat'[x][n]
      <4> DEFINE more == [k EXCEPT ![m] = @ + 1]
      <4>1. more \in Counters /\ \A n \in Modes : k[n] <= k[n] /\ k[n] <= more[n]
        BY <3>3
      <4>2. stat'[x] = k \/ stat'[x] = more
        BY <3>2
      <4> HIDE DEF more
      <4>3. QED
        BY <3>1, <4>1, <4>2
    <3>5. QED
      BY <3>4 DEF k
  <2>6. stat' \in [Cores \union {All} -> Counters]
    BY <2>4, <2>5
  <2>7. \A n \in Modes : firstStat.counters[n] <= stat'[firstStat.of][n]
    <3> SUFFICES ASSUME NEW n \in Modes PROVE firstStat.counters[n] <= stat'[firstStat.of][n]
      OBVIOUS
    <3>1. /\ firstStat.counters[n] \in Nat /\ stat[firstStat.of][n] \in Nat /\ stat'[firstStat.of][n] \in Nat
          /\ firstStat.counters[n] <= stat[firstStat.of][n]
          /\ stat[firstStat.of][n] <= stat'[firstStat.of][n]
      BY <2>2, <2>5 DEF Counters
    <3>2. QED
      BY <3>1
  <2>8. QED
    BY <2>2, <2>6, <2>7 DEF CpuAmong
<1>2. CASE Hotplug
  BY <1>2 DEF Hotplug, CpuAmong
<1>3. CASE GetCpuUsage
  <2>1. PICK busy \in SUBSET Cores :
           stat' = [c \in Cores \union {All} |->
                      [Zero EXCEPT !["system"] = IF c = All THEN Cardinality(busy)
                                                 ELSE IF c \in busy THEN 1 ELSE 0]]
    BY <1>3 DEF GetCpuUsage
  <2>2. Cardinality(busy) \in Nat
    BY <1>0, FS_Subset, FS_CardinalityType
  <2>3. stat' \in [Cores \union {All} -> Counters]
    BY <1>0, <2>1, <2>2 DEF Counters
  <2>4. QED
    BY <1>3, <2>3 DEF GetCpuUsage
<1>4. CASE FirstStat
  <2>1. Cpu \in Cores \union {All} /\ Cpu = CpuAmong(online)
    BY <1>4 DEF FirstStat, HasCpu, Cpu, Index, CpuAmong
  <2>2. \A m \in Modes : stat[Cpu][m] <= stat[Cpu][m]
    BY <2>1 DEF Counters
  <2>3. /\ reading' = "sleep" /\ firstStat'.of = Cpu /\ firstStat'.counters = stat[Cpu]
        /\ firstStat'.online = online /\ UNCHANGED <<core, online, stat>>
    BY <1>4 DEF FirstStat
  <2>4. CpuAmong(firstStat.online)' = CpuAmong(online)
    BY <2>3 DEF CpuAmong
  <2>5. QED
    BY <2>1, <2>2, <2>3, <2>4
<1>5. CASE SecondStat
  BY <1>5 DEF SecondStat, CpuAmong, Deltas, Cpu, Index
<1>6. CASE CpuGone
  BY <1>0, <1>6 DEF CpuGone
<1>7. CASE SamplesDone
  BY <1>0, <1>7 DEF SamplesDone
<1>8. CASE UNCHANGED samplesVars
  BY <1>8 DEF samplesVars, CpuAmong, Deltas, Cpu, Index
<1>9. QED
  BY <1>1, <1>2, <1>3, <1>4, <1>5, <1>6, <1>7, <1>8 DEF SamplesNext, SamplesCall

LEMMA Quotient ==
    ASSUME NEW n \in Nat, NEW d \in Nat \ {0}
    PROVE  n \div d \in Nat /\ d * (n \div d) <= n /\ n < d * (n \div d) + d
OBVIOUS

\* A share of the whole, with its fraction cut off.
LEMMA Cut ==
    ASSUME NEW all \in Nat \ {0}, NEW part \in 0 .. all
    PROVE  LET share == (100 * part) \div all
           IN  /\ share \in 0 .. 100
               /\ share * all <= 100 * part /\ 100 * part <= share * all + all
<1> DEFINE p == 100 * part
           share == p \div all
<1>1. p \in Nat /\ all \in Nat \ {0} /\ part \in Nat /\ part <= all
  OBVIOUS
<1> HIDE DEF p
<1>2. share \in Nat /\ all * share <= p /\ p < all * share + all
  BY <1>1, Quotient
<1> HIDE DEF share
<1>3. share * all = all * share
  BY <1>2
<1>4. share <= 100
  <2> SUFFICES ASSUME share >= 101 PROVE FALSE
    BY <1>2
  <2>1. all * share >= all * 101
    BY <1>1, <1>2
  <2>2. QED
    BY <1>1, <1>2, <2>1 DEF p
<1>5. share * all <= p /\ p <= share * all + all
  <2>1. all * share \in Nat
    BY <1>1, <1>2
  <2>2. QED
    BY <1>1, <1>2, <1>3, <2>1
<1>6. share \in 0 .. 100
  BY <1>2, <1>4
<1>7. QED
  BY <1>5, <1>6 DEF share, p

\* The arithmetic of SharesOfOneCore, for counters that move any distance.
LEMMA SharesOfCounters ==
    ASSUME NEW delta \in Counters
    PROVE  LET sum == delta["user"] + delta["nice"] + delta["system"] + delta["idle"]
               shares == Percentages(delta)
           IN  /\ shares.idle \in 0 .. 100 /\ shares.user \in 0 .. 100 /\ shares.system \in 0 .. 100
               /\ sum = 0 => shares.system = 100
               /\ sum # 0 => /\ Near(shares.idle, delta["idle"], sum, 1)
                             /\ Near(shares.user, delta["user"] + delta["nice"], sum, 1)
                             /\ Near(shares.system, delta["system"], sum, 2)
<1> DEFINE i == delta["idle"]
           u == delta["user"] + delta["nice"]
           y == delta["system"]
           w == delta["user"] + delta["nice"] + delta["system"] + delta["idle"]
           shares == Percentages(delta)
<1>1. i \in Nat /\ u \in Nat /\ y \in Nat /\ w = u + y + i /\ w \in Nat
  BY DEF Counters, Modes
<1>2. /\ shares.user = IF w = 0 THEN 0 ELSE (100 * u) \div w
      /\ shares.idle = IF w = 0 THEN 0 ELSE (100 * i) \div w
      /\ shares.system = 100 - (shares.idle + shares.user)
  BY DEF Percentages
<1> HIDE DEF i, u, y, w, shares
<1>3. CASE w = 0
  BY <1>2, <1>3 DEF w, shares
<1>4. CASE w # 0
  <2> DEFINE a == shares.idle
             b == shares.user
  <2>1. /\ a \in 0 .. 100 /\ a * w <= 100 * i /\ 100 * i <= a * w + w
        /\ b \in 0 .. 100 /\ b * w <= 100 * u /\ 100 * u <= b * w + w
    <3>1. w \in Nat \ {0} /\ i \in 0 .. w /\ u \in 0 .. w /\ a = (100 * i) \div w /\ b = (100 * u) \div w
      BY <1>1, <1>2, <1>4
    <3> HIDE DEF a, b
    <3>2. QED
      BY <3>1, Cut
  <2> HIDE DEF a, b
  <2>2. (a + b) * w = a * w + b * w /\ (100 - (a + b)) * w = 100 * w - (a * w + b * w)
    BY <1>1, <2>1
  <2>3. a * w \in Nat /\ b * w \in Nat
    BY <1>1, <2>1
  <2> DEFINE aw == a * w
             bw == b * w
  <2>4. aw \in Nat /\ bw \in Nat /\ aw <= 100 * i /\ 100 * i <= aw + w /\ bw <= 100 * u /\ 100 * u <= bw + w
    BY <2>1, <2>3
  <2>5. a + b <= 100
    <3> SUFFICES ASSUME a + b >= 101 PROVE FALSE
      BY <2>1
    <3>1. (a + b) * w >= 101 * w
      <4> DEFINE n == a + b
      <4>1. n \in Nat /\ n >= 101
        BY <2>1
      <4> HIDE DEF n
      <4>2. n * w >= 101 * w
        BY <1>1, <4>1
      <4>3. QED
        BY <4>2 DEF n
    <3> HIDE DEF aw, bw
    <3>2. aw + bw >= 101 * w
      BY <2>2, <3>1 DEF aw, bw
    <3>3. QED
      BY <1>1, <1>4, <2>4, <3>2
  <2>6. shares.system = 100 - (a + b) /\ shares.system \in 0 .. 100
    BY <1>2, <2>1, <2>5 DEF a, b
  <2>7. shares.system * w = 100 * w - (aw + bw)
    BY <2>2, <2>6
  <2> HIDE DEF aw, bw
  <2>8. /\ 100 * w - (aw + bw) <= 100 * y + 2 * w
        /\ 100 * y <= 100 * w - (aw + bw) + 2 * w
    BY <1>1, <2>4
  <2>9. Near(shares.system, y, w, 2)
    BY <2>7, <2>8 DEF Near
  <2>10. Near(shares.idle, i, w, 1) /\ Near(shares.user, u, w, 1)
    <3>1. 1 * w = w
      BY <1>1
    <3>2. aw <= 100 * i + 1 * w /\ 100 * i <= aw + 1 * w /\ bw <= 100 * u + 1 * w /\ 100 * u <= bw + 1 * w
      BY <1>1, <2>4, <3>1
    <3>3. QED
      BY <3>2 DEF Near, a, b, aw, bw
  <2>11. QED
    BY <1>4, <2>1, <2>6, <2>9, <2>10 DEF i, u, y, w, a, b, shares
<1>5. QED
  BY <1>3, <1>4

\* The percentages of a core are those of its ticks between the two samples, as
\* long as the same cores are online at both.
THEOREM SharesOfAnyCore == Spec => []SharesOfOneCore
<1>1. Init => SamplesInv
  BY DEF Init, SamplesInit, SamplesInv, Counters, Zero, NoUsage
<1>2. SamplesInv /\ [Next]_vars => SamplesInv'
  BY Components, SamplesPreserved
<1>3. SamplesInv => SharesOfOneCore
  <2> SUFFICES ASSUME SamplesInv, reading = "read", usage.kind = "usage", online = firstStat.online
               PROVE  SharesOfOneCore
    BY DEF SharesOfOneCore
  <2> USE DEF SamplesInv
  <2>1. Cpu = firstStat.of
    BY DEF Cpu, Index, CpuAmong
  <2>2. Deltas \in Counters
    BY <2>1 DEF Deltas, Counters
  <2>3. usage = Percentages(Deltas)
    OBVIOUS
  <2>4. QED
    BY <2>1, <2>2, <2>3, SharesOfCounters DEF SharesOfOneCore
<1>4. QED
  BY <1>1, <1>2, <1>3, PTL DEF Spec
===============================================================================

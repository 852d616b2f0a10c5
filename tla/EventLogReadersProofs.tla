------------------------- MODULE EventLogReadersProofs -------------------------
(***************************************************************************)
(* The two ways to read an event log, proved for logs and buffers of every *)
(* size and numbers of every width. readAllEventLogs returns no record     *)
(* twice and none below the one asked for: the records that a call has     *)
(* read are of one numbering, because a log that has been cleared gives it *)
(* no more, and are read upwards. If the end of the log ends it, it has    *)
(* left out only what a jint cannot number. The iterator leaves out        *)
(* nothing that the log still has, as the field next follows the record    *)
(* returned last and the log answers with the first one from there on.     *)
(***************************************************************************)
EXTENDS EventLogReaders, TLAPS, SequenceTheorems

\* The log: records are numbered from 1 on after base, and no number is as
\* great as Modulus.
LogInv ==
    /\ total \in Nat /\ clears \in Nat /\ base \in Int /\ oldest \in Nat \ {0}
    /\ base < oldest /\ oldest <= total + 1
    /\ base <= total /\ total <= MaxRecords /\ MaxRecords - base < Modulus

\* The buffer holds records of the numbering that the handle was opened under,
\* later than all that have been taken.
BufferInv ==
    /\ asked \in Firsts
    /\ handle \in Nat /\ handle <= clears
    /\ position \in Nat /\ pRead \in Int /\ bufferEnd \in Int /\ bufferBase \in Int
    /\ position = 0 => Listed = {} /\ loop # "parse"
    /\ position # 0 /\ clears = handle => bufferBase = base
    /\ loop = "idle" => position = 0
    /\ loop = "parse" => /\ bufferBase < pRead /\ pRead <= bufferEnd /\ bufferEnd = position
                         /\ bufferEnd - bufferBase <= Modulus
    /\ loop = "read" /\ position # 0 => pRead = position

Entries == [record : Int, number : Int]

\* The records that have been taken, in their order, and their numbers.
ListInv ==
    /\ list \in Seq(Entries)
    /\ \A i \in DOMAIN list : list[i].number = list[i].record - bufferBase
    /\ \A i, j \in DOMAIN list : i < j => list[i].record < list[j].record
    /\ Listed \subseteq Int /\ Numbered = {r - bufferBase : r \in Listed}
    /\ Listed = {} /\ loop # "idle" => begin = asked
    /\ \A r \in Listed : r < pRead /\ r - bufferBase >= asked

\* Writing and clearing keep the numbers below Modulus.
LEMMA LogPreserved == LogInv /\ (Record \/ Clear \/ UNCHANGED logVars) => LogInv'
<1> SUFFICES ASSUME LogInv, Record \/ Clear \/ UNCHANGED logVars PROVE LogInv'
  OBVIOUS
<1> USE LogAssumption DEF LogInv, LogAssumption
<1>1. CASE Record
  <2>1. total' = total + 1 /\ oldest' \in {oldest, oldest + 1} /\ total < MaxRecords
        /\ base' = base /\ clears' = clears
    BY <1>1 DEF Record
  <2>2. oldest' <= total' + 1 /\ oldest' \in Nat \ {0} /\ base < oldest'
    BY <2>1
  <2>3. QED
    BY <2>1, <2>2
<1>2. CASE Clear
  BY <1>2 DEF Clear
<1>3. CASE UNCHANGED logVars
  BY <1>3 DEF logVars
<1>4. QED
  BY <1>1, <1>2, <1>3

\* A step of the whole is one of the log, of the call, or of neither.
LEMMA Components ==
    ASSUME [Next]_vars
    PROVE  \/ (Record \/ Clear) /\ UNCHANGED readAllVars
           \/ ReaderStep /\ UNCHANGED logVars
           \/ UNCHANGED <<logVars, readAllVars>>
BY DEF Next, Log, InIterator, InReadAll, ClientStep, New, HasNext, Seek, Sequential, NextCall, Enough,
       ReaderStep, Call, ReadBuffer, ReadEnd, ReadTooSmall, ReadFails, ReadNothing, TakeRecord,
       BufferDone, vars

\* Nothing that happens to the log changes what has been read.
LEMMA LogLeavesTheList ==
    LogInv /\ BufferInv /\ ListInv /\ (Record \/ Clear) /\ UNCHANGED readAllVars
        => BufferInv' /\ ListInv'
<1> SUFFICES ASSUME LogInv, BufferInv, ListInv, Record \/ Clear, UNCHANGED readAllVars
             PROVE  BufferInv' /\ ListInv'
  OBVIOUS
<1>1. UNCHANGED <<asked, handle, position, pRead, bufferEnd, bufferBase, begin, list, Listed, Numbered, loop>>
  BY DEF readAllVars, callVars, bufferVars, Listed, Numbered
<1>2. \/ clears' = clears /\ base' = base
      \/ clears' = clears + 1
  BY DEF Record, Clear
<1>3. handle <= clears' /\ (clears' = handle => clears' = clears /\ base' = base)
  BY <1>2 DEF LogInv, BufferInv
<1>4. BufferInv'
  BY <1>1, <1>3 DEF BufferInv
<1>5. ListInv'
  BY <1>1 DEF ListInv
<1>6. QED
  BY <1>4, <1>5

\* What ArrayList.add does to the list, its records and their numbers.
LEMMA Added ==
    ASSUME list \in Seq(Entries), pRead \in Int, RecordNumber \in Int, AddRecord
    PROVE  /\ list' \in Seq(Entries) /\ DOMAIN list' = DOMAIN list \union {Len(list) + 1}
           /\ \A i \in DOMAIN list : i < Len(list) + 1 /\ list'[i] = list[i]
           /\ list'[Len(list) + 1] = [record |-> pRead, number |-> RecordNumber]
           /\ Listed' = Listed \union {pRead}
           /\ Numbered' = Numbered \union {RecordNumber}
<1> DEFINE e == [record |-> pRead, number |-> RecordNumber]
<1>1. e \in Entries /\ e.record = pRead /\ e.number = RecordNumber
  BY DEF Entries
<1>2. list' = Append(list, e)
  BY DEF AddRecord
<1> HIDE DEF e
<1>3. /\ list' \in Seq(Entries) /\ Len(list') = Len(list) + 1 /\ Len(list) \in Nat
      /\ \A i \in 1 .. Len(list) : list'[i] = list[i]
      /\ list'[Len(list) + 1] = e
  BY <1>1, <1>2, AppendProperties
<1>4. DOMAIN list = 1 .. Len(list) /\ DOMAIN list' = DOMAIN list \union {Len(list) + 1}
  BY <1>3, LenProperties
<1>5. Listed' = Listed \union {pRead}
  BY <1>1, <1>3, <1>4 DEF Listed
<1>6. Numbered' = Numbered \union {RecordNumber}
  BY <1>1, <1>3, <1>4 DEF Numbered
<1>7. QED
  BY <1>3, <1>4, <1>5, <1>6 DEF e

\* No step of the call takes a record that it has taken, or one below asked.
LEMMA ReadPreserved ==
    LogInv /\ BufferInv /\ ListInv /\ ReaderStep => BufferInv' /\ ListInv'
<1> SUFFICES ASSUME LogInv, BufferInv, ListInv, ReaderStep PROVE BufferInv' /\ ListInv'
  OBVIOUS
<1>1. CASE Call
  <2>1. /\ loop = "idle" /\ loop' = "read" /\ begin' = asked /\ handle' = clears
        /\ UNCHANGED <<base, clears, asked, position, pRead, bufferEnd, bufferBase, list, Listed, Numbered>>
    BY <1>1 DEF Call, bufferVars, logVars, Listed, Numbered
  <2>2. position = 0 /\ Listed = {}
    BY <2>1 DEF BufferInv
  <2>3. BufferInv'
    BY <2>1, <2>2 DEF BufferInv, LogInv
  <2>4. ListInv'
    BY <2>1, <2>2 DEF ListInv
  <2>5. QED
    BY <2>3, <2>4
<1>2. CASE ReadBuffer
  <2>1. PICK last \in Standing .. total :
            pRead' = Standing /\ bufferEnd' = last + 1 /\ position' = last + 1 /\ bufferBase' = base
    BY <1>2 DEF ReadBuffer
  <2>2. /\ loop = "read" /\ loop' = "parse" /\ clears = handle
        /\ UNCHANGED <<total, oldest, base, clears, asked, handle, begin, list, Listed, Numbered>>
    BY <1>2 DEF ReadBuffer, Outdated, logVars, callVars, Listed, Numbered
  <2>3. Standing \in Nat /\ base < Standing /\ position <= Standing /\ 1 <= Standing
    BY DEF Standing, LogInv, BufferInv
  <2>4. last \in Nat /\ Standing <= last /\ last <= total
    BY <2>1, <2>3 DEF LogInv
  <2>5. last + 1 - base <= Modulus
    BY <2>4, LogAssumption DEF LogInv, LogAssumption
  <2>6. BufferInv'
    BY <2>1, <2>2, <2>3, <2>4, <2>5 DEF BufferInv, LogInv
  <2>7. position # 0 => bufferBase = base /\ pRead <= Standing
    BY <2>2, <2>3 DEF BufferInv
  <2>8. CASE position = 0
    <3>1. Listed = {} /\ Numbered = {} /\ DOMAIN list = {}
      BY <2>8 DEF BufferInv, ListInv, Listed
    <3>2. QED
      BY <2>1, <2>2, <2>6, <3>1 DEF ListInv
  <2>9. CASE position # 0
    <3>1. \A r \in Listed : r < Standing
      BY <2>3, <2>7, <2>9 DEF ListInv, BufferInv
    <3>2. ListInv'
      BY <2>1, <2>2, <2>7, <2>9, <3>1 DEF ListInv
    <3>3. QED
      BY <2>6, <3>2
  <2>10. QED
    BY <2>8, <2>9
<1>3. CASE ReadEnd \/ ReadTooSmall \/ ReadFails \/ ReadNothing
  <2>1. /\ loop = "read" /\ loop' \in {"read", "end", "null", "cut"}
        /\ UNCHANGED <<base, clears, asked, handle, position, pRead, bufferEnd, bufferBase,
                       begin, list, Listed, Numbered>>
    BY <1>3 DEF ReadEnd, ReadTooSmall, ReadFails, ReadNothing, logVars, callVars, bufferVars,
       Listed, Numbered
  <2>2. QED
    BY <2>1 DEF BufferInv, ListInv
<1>4. CASE TakeRecord
  <2>1. /\ loop = "parse" /\ loop' = loop /\ pRead < bufferEnd /\ pRead' = pRead + 1
        /\ UNCHANGED <<base, clears, asked, handle, position, bufferEnd, bufferBase>>
    BY <1>4 DEF TakeRecord, logVars, callVars
  <2>2. BufferInv'
    BY <2>1 DEF BufferInv
  <2>3. CASE UNCHANGED <<list, begin>>
    <3> UNCHANGED <<Listed, Numbered>>
      BY <2>3 DEF Listed, Numbered
    <3>1. \A r \in Listed : r < pRead + 1
      BY DEF ListInv, BufferInv
    <3>2. QED
      BY <2>1, <2>2, <2>3, <3>1 DEF ListInv
  <2>4. CASE Wanted /\ AddRecord
    <3>1. RecordNumber \in Nat /\ RecordNumber < Modulus
      BY <2>1, LogAssumption DEF RecordNumber, BufferInv, LogAssumption
    <3>2. asked \in Nat /\ asked < Half
      BY ReadAllAssumption, LogAssumption DEF ReadAllAssumption, LogAssumption, BufferInv, Half
    <3>3. RecordNumber >= asked
      <4>1. CASE Listed = {}
        <5>1. Signed(RecordNumber) >= asked
          BY <2>1, <2>4, <4>1 DEF Wanted, ListInv
        <5>2. Signed(RecordNumber) = RecordNumber \/ Signed(RecordNumber) = RecordNumber - Modulus
          BY DEF Signed
        <5>3. Modulus \in Nat
          BY LogAssumption DEF LogAssumption
        <5>4. QED
          BY <3>1, <3>2, <5>1, <5>2, <5>3
      <4>2. CASE Listed # {}
        <5>1. PICK r \in Listed : r < pRead /\ r - bufferBase >= asked
          BY <4>2 DEF ListInv
        <5>2. QED
          BY <3>2, <5>1 DEF RecordNumber, BufferInv, ListInv
      <4>3. QED
        BY <4>1, <4>2
    <3>4. /\ list' \in Seq(Entries) /\ DOMAIN list' = DOMAIN list \union {Len(list) + 1}
          /\ \A i \in DOMAIN list : i < Len(list) + 1 /\ list'[i] = list[i]
          /\ list'[Len(list) + 1] = [record |-> pRead, number |-> RecordNumber]
          /\ Listed' = Listed \union {pRead}
          /\ Numbered' = Numbered \union {RecordNumber}
      BY <2>4, <3>1, Added DEF ListInv, BufferInv
    <3>5. Listed' \subseteq Int /\ Numbered' = {r - bufferBase' : r \in Listed'} /\ Listed' # {}
      BY <2>1, <3>4 DEF ListInv, BufferInv, RecordNumber
    <3>6. \A r \in Listed' : r < pRead' /\ r - bufferBase' >= asked'
      <4>1. \A r \in Listed : r < pRead + 1
        <5>1. pRead \in Int /\ Listed \subseteq Int /\ \A r \in Listed : r < pRead
          BY DEF ListInv, BufferInv
        <5>2. QED
          BY <5>1
      <4>2. pRead < pRead + 1
        BY DEF BufferInv
      <4>3. QED
        BY <2>1, <3>3, <3>4, <4>1, <4>2 DEF ListInv, RecordNumber
    <3>7. \A i \in DOMAIN list' : list'[i].number = list'[i].record - bufferBase'
      BY <2>1, <3>4 DEF ListInv, RecordNumber
    <3>8. \A i, j \in DOMAIN list' : i < j => list'[i].record < list'[j].record
      <4>1. \A i \in DOMAIN list : list[i].record < pRead
        BY DEF ListInv, Listed
      <4>2. Len(list) \in Nat /\ \A i \in DOMAIN list : i \in Nat
        BY DEF ListInv
      <4>3. QED
        BY <3>4, <4>1, <4>2 DEF ListInv
    <3>9. QED
      BY <2>2, <3>4, <3>5, <3>6, <3>7, <3>8 DEF ListInv
  <2>5. QED
    BY <1>4, <2>3, <2>4 DEF TakeRecord
<1>5. CASE BufferDone
  <2>1. /\ loop = "parse" /\ loop' = "read" /\ pRead = bufferEnd
        /\ UNCHANGED <<base, clears, asked, handle, position, pRead, bufferEnd, bufferBase,
                       begin, list, Listed, Numbered>>
    BY <1>5 DEF BufferDone, logVars, callVars, bufferVars, Listed, Numbered
  <2>2. QED
    BY <2>1 DEF BufferInv, ListInv
<1>6. QED
  BY <1>1, <1>2, <1>3, <1>4, <1>5 DEF ReaderStep

\* Records in their order have numbers in their order, in one numbering.
LEMMA NumbersOfOneNumbering == BufferInv /\ ListInv => NoneTwiceNoneBelow
<1> SUFFICES ASSUME BufferInv, ListInv PROVE NoneTwiceNoneBelow
  OBVIOUS
<1>1. bufferBase \in Int /\ \A i \in DOMAIN list : list[i] \in Entries /\ list[i].record \in Listed
  BY ElementOfSeq DEF BufferInv, ListInv, Listed
<1>2. \A i, j \in DOMAIN list : i < j => list[i].number < list[j].number
  BY <1>1 DEF ListInv, Entries
<1>3. \A i \in DOMAIN list : list[i].number >= asked
  BY <1>1 DEF ListInv
<1>4. QED
  BY <1>2, <1>3 DEF NoneTwiceNoneBelow

\* Before anything is called there is nothing to be wrong.
LEMMA InitiallyEmpty == Init => LogInv /\ BufferInv /\ ListInv
<1> SUFFICES ASSUME Init PROVE LogInv /\ BufferInv /\ ListInv
  OBVIOUS
<1>1. LogInv
  BY LogAssumption DEF Init, LogInit, LogInv, LogAssumption
<1>2. BufferInv
  BY DEF Init, LogInit, ReadAllInit, BufferInv, Listed
<1>3. ListInv
  BY DEF Init, ReadAllInit, ListInv, Listed, Numbered
<1>4. QED
  BY <1>1, <1>2, <1>3

\* Every step of the whole keeps what is known of the log, the buffer, the list.
LEMMA ReadersPreserved ==
    LogInv /\ BufferInv /\ ListInv /\ [Next]_vars => LogInv' /\ BufferInv' /\ ListInv'
<1> SUFFICES ASSUME LogInv, BufferInv, ListInv, [Next]_vars PROVE LogInv' /\ BufferInv' /\ ListInv'
  OBVIOUS
<1>1. CASE (Record \/ Clear) /\ UNCHANGED readAllVars
  BY <1>1, LogPreserved, LogLeavesTheList
<1>2. CASE ReaderStep /\ UNCHANGED logVars
  BY <1>2, LogPreserved, ReadPreserved
<1>3. CASE UNCHANGED <<logVars, readAllVars>>
  <2>1. LogInv'
    BY <1>3, LogPreserved
  <2>2. UNCHANGED <<base, clears, asked, handle, position, pRead, bufferEnd, bufferBase, begin,
                    list, Listed, Numbered, loop>>
    BY <1>3 DEF logVars, readAllVars, callVars, bufferVars, Listed, Numbered
  <2>3. QED
    BY <2>1, <2>2 DEF BufferInv, ListInv
<1>4. QED
  BY <1>1, <1>2, <1>3, Components

\* readAllEventLogs returns its records upwards, none twice and none below begin,
\* although the
\* log is cleared and numbers its records from 1 again while it is read.
THEOREM NoneTwice == Spec => []NoneTwiceNoneBelow
<1> DEFINE Inv == LogInv /\ BufferInv /\ ListInv
<1>1. Init => Inv
  BY InitiallyEmpty
<1>2. Inv /\ [Next]_vars => Inv'
  BY ReadersPreserved
<1>3. Inv => NoneTwiceNoneBelow
  BY NumbersOfOneNumbering
<1>4. QED
  BY <1>1, <1>2, <1>3, PTL DEF Spec

-----------------------------------------------------------------------------
(* What readAllEventLogs has looked at and left out.                       *)

\* The records that a call owes its caller, of those that it has looked at.
Owed(r) ==
    \/ r - bufferBase >= asked /\ r - bufferBase < Half
    \/ r - bufferBase >= Half /\ (Half - 1) \in Numbered

\* begin follows the last record taken: none above the half has been taken yet,
\* or the one just below it has and all that came after it.
BeginInv ==
    /\ begin \in Int
    /\ loop # "idle" =>
         \/ /\ begin \in asked .. (Half - 1)
            /\ Listed = {} \/ begin <= pRead - bufferBase
            /\ \A m \in Numbered : m < begin
         \/ /\ (Half - 1) \in Numbered
            /\ begin + Modulus \in Half .. (pRead - bufferBase)

\* Of the records looked at that the log still has, the list holds those owed.
CoverInv ==
    clears = handle /\ position # 0 =>
        \A r \in oldest .. (pRead - 1) : r \in Listed <=> Owed(r)

\* A DWORD is not negative as a jint below the half, and negative from there on.
LEMMA SignedHalves ==
    ASSUME NEW n \in 0 .. (Modulus - 1)
    PROVE  /\ Half \in Nat /\ Modulus = Half + Half /\ Half > 0
           /\ n < Half => Signed(n) = n
           /\ n >= Half => Signed(n) = n - Modulus /\ Signed(n) < 0
<1>1. Half \in Nat /\ Modulus = Half + Half /\ Half > 0
  BY LogAssumption DEF LogAssumption, Half
<1>2. n < Half => Signed(n) = n
  BY DEF Signed, Half
<1>3. n >= Half => Signed(n) = n - Modulus /\ Signed(n) < 0
  BY <1>1 DEF Signed, Half
<1>4. QED
  BY <1>1, <1>2, <1>3

\* What the log overwrites or clears is no longer counted.
LEMMA LogLeavesTheCover ==
    LogInv /\ BufferInv /\ BeginInv /\ CoverInv /\ (Record \/ Clear) /\ UNCHANGED readAllVars
        => BeginInv' /\ CoverInv'
<1> SUFFICES ASSUME LogInv, BufferInv, BeginInv, CoverInv, Record \/ Clear, UNCHANGED readAllVars
             PROVE  BeginInv' /\ CoverInv'
  OBVIOUS
<1>1. UNCHANGED <<asked, handle, position, pRead, bufferEnd, bufferBase, begin, list, Listed, Numbered, loop>>
  BY DEF readAllVars, callVars, bufferVars, Listed, Numbered
<1>2. BeginInv'
  BY <1>1 DEF BeginInv
<1>3. CASE Record
  <2>1. clears' = clears /\ oldest' \in Nat /\ oldest <= oldest'
    BY <1>3 DEF Record, LogInv
  <2>2. \A r \in oldest' .. (pRead - 1) : r \in oldest .. (pRead - 1)
    BY <2>1 DEF LogInv, BufferInv
  <2>3. CoverInv'
    BY <1>1, <2>1, <2>2 DEF CoverInv, Owed
  <2>4. QED
    BY <1>2, <2>3
<1>4. CASE Clear
  <2>1. clears' # handle'
    BY <1>1, <1>4 DEF Clear, LogInv, BufferInv
  <2>2. QED
    BY <1>2, <2>1 DEF CoverInv
<1>5. QED
  BY <1>3, <1>4

\* Taking or leaving out the next record of the buffer keeps what is owed.
LEMMA TakePreserved ==
    LogInv /\ BufferInv /\ ListInv /\ BeginInv /\ CoverInv /\ TakeRecord /\ UNCHANGED logVars
        => BeginInv' /\ CoverInv'
<1> SUFFICES ASSUME LogInv, BufferInv, ListInv, BeginInv, CoverInv, TakeRecord, UNCHANGED logVars
             PROVE  BeginInv' /\ CoverInv'
  OBVIOUS
<1> DEFINE n == RecordNumber
<1>1. /\ loop = "parse" /\ loop' = loop /\ pRead < bufferEnd /\ pRead' = pRead + 1
      /\ UNCHANGED <<oldest, base, clears, asked, handle, position, bufferBase>>
  BY DEF TakeRecord, logVars, callVars
<1>2. n = pRead - bufferBase /\ pRead \in Int /\ bufferBase \in Int /\ oldest \in Nat
  BY DEF RecordNumber, BufferInv, LogInv
<1>3. n \in 0 .. (Modulus - 1) /\ Modulus \in Nat
  BY <1>1, LogAssumption DEF RecordNumber, BufferInv, LogAssumption
<1>4. /\ Half \in Nat /\ Modulus = Half + Half /\ Half > 0
      /\ n < Half => Signed(n) = n
      /\ n >= Half => Signed(n) = n - Modulus /\ Signed(n) < 0
  BY <1>3, SignedHalves
<1>5. asked \in Nat /\ asked < Half
  BY ReadAllAssumption, <1>4 DEF ReadAllAssumption, BufferInv, Half
<1>6. \A r \in Listed : r < pRead
  BY DEF ListInv
<1>7. Wanted <=> Signed(n) >= begin
  BY DEF Wanted
<1>8. Numbered \subseteq Int /\ \A m \in Numbered : m < n
  BY <1>2, <1>6 DEF ListInv
<1>9. Listed = {} => begin = asked /\ Numbered = {}
  BY <1>1 DEF ListInv
<1> HIDE DEF n
<1>10. begin \in Int /\ n \in Nat /\ n < Modulus
  BY <1>3 DEF BeginInv
<1>11. \/ /\ begin \in asked .. (Half - 1)
          /\ Listed = {} \/ begin <= n
          /\ \A m \in Numbered : m < begin
       \/ (Half - 1) \in Numbered /\ begin + Modulus \in Half .. n
  BY <1>1, <1>2 DEF BeginInv
<1>12. Wanted <=> (n >= asked /\ n < Half) \/ (n >= Half /\ (Half - 1) \in Numbered)
  <2>1. CASE begin \in asked .. (Half - 1) /\ Listed = {}
    BY <2>1, <1>4, <1>5, <1>7, <1>9, <1>10
  <2>2. CASE begin \in asked .. (Half - 1) /\ begin <= n /\ \A m \in Numbered : m < begin
    <3>1. (Half - 1) \notin Numbered
      BY <2>2, <1>4, <1>10
    <3>2. QED
      BY <2>2, <3>1, <1>4, <1>5, <1>7, <1>10
  <2>3. CASE (Half - 1) \in Numbered /\ begin + Modulus \in Half .. n
    BY <2>3, <1>4, <1>5, <1>7, <1>10
  <2>4. QED
    BY <1>11, <2>1, <2>2, <2>3
<1>13. CASE ~Wanted
  <2>1. UNCHANGED <<list, Listed, Numbered, begin>>
    BY <1>13 DEF TakeRecord, Listed, Numbered
  <2>2. BeginInv'
    <3>1. CASE begin \in asked .. (Half - 1) /\ (Listed = {} \/ begin <= n) /\ \A m \in Numbered : m < begin
      BY <1>1, <1>2, <1>10, <2>1, <3>1 DEF BeginInv
    <3>2. CASE (Half - 1) \in Numbered /\ begin + Modulus \in Half .. n
      BY <1>1, <1>2, <1>4, <1>10, <2>1, <3>2 DEF BeginInv, Half
    <3>3. QED
      BY <1>11, <3>1, <3>2
  <2>3. ASSUME clears = handle, position # 0, NEW r \in oldest .. pRead
        PROVE  r \in Listed <=> Owed(r)
    <3>1. CASE r = pRead
      BY <1>2, <1>6, <1>12, <1>13, <3>1 DEF Owed
    <3>2. CASE r # pRead
      BY <1>2, <2>3, <3>2 DEF CoverInv
    <3>3. QED
      BY <3>1, <3>2
  <2>4. CoverInv'
    BY <1>1, <1>2, <2>1, <2>3 DEF CoverInv, Owed
  <2>5. QED
    BY <2>2, <2>4
<1>14. CASE Wanted
  <2>1. /\ Listed' = Listed \union {pRead}
        /\ Numbered' = Numbered \union {n}
        /\ begin' = Signed((n + 1) % Modulus)
    <3>1. AddRecord /\ begin' = Signed((RecordNumber + 1) % Modulus)
      BY <1>14 DEF TakeRecord
    <3>2. n = RecordNumber /\ n \in Int
      BY <1>10 DEF n
    <3>3. QED
      BY <1>2, <3>1, <3>2, Added DEF ListInv
  <2>2. BeginInv'
    <3>1. pRead' - bufferBase' = n + 1
      BY <1>1, <1>2
    <3>2. CASE n < Half - 1
      <4>1. (n + 1) % Modulus = n + 1 /\ Signed(n + 1) = n + 1
        BY <3>2, <1>4, <1>10 DEF Signed, Half
      <4>2. n >= asked
        BY <3>2, <1>4, <1>12, <1>14, <1>10
      <4>3. \A m \in Numbered' : m < n + 1
        BY <1>8, <1>10, <2>1
      <4>4. QED
        BY <1>1, <1>4, <1>5, <1>10, <2>1, <3>1, <3>2, <4>1, <4>2, <4>3 DEF BeginInv, Half
    <3>3. CASE n = Half - 1
      <4>1. (n + 1) % Modulus = Half /\ Signed(Half) = Half - Modulus
        <5>1. n + 1 = Half /\ Half % Modulus = Half
          BY <3>3, <1>4, <1>10
        <5>2. ~(Half < Half)
          BY <1>4
        <5>3. Signed(Half) = Half - Modulus
          BY <5>2 DEF Signed, Half
        <5>4. QED
          BY <5>1, <5>3
      <4>2. begin' = Half - Modulus /\ (Half - 1) \in Numbered'
        BY <2>1, <3>3, <4>1
      <4>3. begin' \in Int /\ begin' + Modulus \in Half .. (n + 1)
        BY <1>4, <1>10, <3>3, <4>2
      <4>4. QED
        BY <1>1, <3>1, <4>2, <4>3 DEF BeginInv, Half
    <3>4. CASE n >= Half
      <4>1. (Half - 1) \in Numbered'
        BY <1>4, <1>10, <1>12, <1>14, <2>1, <3>4
      <4>2. begin' \in Int /\ begin' + Modulus \in Half .. (n + 1)
        <5>1. CASE n + 1 = Modulus
          <6>1. (n + 1) % Modulus = 0 /\ Signed(0) = 0
            BY <5>1, <1>4, <1>10 DEF Signed, Half
          <6>2. QED
            BY <1>4, <1>10, <2>1, <5>1, <6>1
        <5>2. CASE n + 1 < Modulus
          <6>1. (n + 1) % Modulus = n + 1 /\ Signed(n + 1) = n + 1 - Modulus
            BY <3>4, <5>2, <1>4, <1>10 DEF Signed, Half
          <6>2. QED
            BY <1>4, <1>10, <2>1, <3>4, <5>2, <6>1
        <5>3. QED
          BY <1>4, <1>10, <5>1, <5>2
      <4>3. QED
        BY <1>1, <3>1, <4>1, <4>2 DEF BeginInv, Half
    <3>5. QED
      BY <1>4, <1>10, <3>2, <3>3, <3>4
  <2>3. ASSUME clears = handle, position # 0, NEW r \in oldest .. pRead
        PROVE  r \in Listed' <=> \/ r - bufferBase >= asked /\ r - bufferBase < Half
                                 \/ r - bufferBase >= Half /\ (Half - 1) \in Numbered'
    <3>1. CASE r = pRead
      <4>1. n >= Half /\ (Half - 1) \in Numbered' => (Half - 1) \in Numbered
        BY <1>4, <1>10, <2>1
      <4>2. QED
        BY <1>2, <1>4, <1>10, <1>12, <1>14, <2>1, <3>1, <4>1
    <3>2. CASE r # pRead
      <4>1. r \in oldest .. (pRead - 1) /\ r \in Int /\ r - bufferBase < n
        BY <1>2, <3>2
      <4>2. r \in Listed <=> Owed(r)
        BY <2>3, <4>1 DEF CoverInv
      <4>3. r - bufferBase >= Half /\ (Half - 1) \in Numbered' => (Half - 1) \in Numbered
        BY <1>2, <1>4, <1>10, <2>1, <4>1
      <4>4. QED
        BY <2>1, <3>2, <4>2, <4>3 DEF Owed
    <3>3. QED
      BY <3>1, <3>2
  <2>4. CoverInv'
    BY <1>1, <1>2, <2>3 DEF CoverInv, Owed, Half
  <2>5. QED
    BY <2>2, <2>4
<1>15. QED
  BY <1>13, <1>14

\* A read starts at the oldest record or where the last one ended.
LEMMA CoverPreserved ==
    LogInv /\ BufferInv /\ ListInv /\ BeginInv /\ CoverInv /\ ReaderStep /\ UNCHANGED logVars
        => BeginInv' /\ CoverInv'
<1> SUFFICES ASSUME LogInv, BufferInv, ListInv, BeginInv, CoverInv, ReaderStep, UNCHANGED logVars
             PROVE  BeginInv' /\ CoverInv'
  OBVIOUS
<1>1. CASE Call
  <2>1. /\ loop' = "read" /\ begin' = asked /\ position = 0 /\ Listed = {} /\ Numbered = {}
        /\ UNCHANGED <<asked, position, list, Listed, Numbered>>
    BY <1>1 DEF Call, bufferVars, BufferInv, ListInv, Listed, Numbered
  <2>2. asked \in 0 .. (Half - 1) /\ Half \in Int
    BY ReadAllAssumption, LogAssumption DEF ReadAllAssumption, LogAssumption, BufferInv, Half
  <2>3. BeginInv'
    BY <2>1, <2>2 DEF BeginInv, Half
  <2>4. QED
    BY <2>1, <2>3 DEF CoverInv
<1>2. CASE ReadBuffer
  <2>1. /\ pRead' = Standing /\ bufferBase' = base /\ loop = "read" /\ loop' = "parse" /\ clears = handle
        /\ UNCHANGED <<oldest, base, clears, asked, handle, begin, list, Listed, Numbered>>
    BY <1>2 DEF ReadBuffer, Outdated, logVars, callVars, Listed, Numbered
  <2>2. /\ oldest \in Nat /\ position \in Nat /\ pRead \in Int /\ base \in Int /\ begin \in Int
        /\ Half \in Nat /\ Modulus \in Nat
    BY LogAssumption DEF LogInv, BufferInv, BeginInv, LogAssumption, Half
  <2>3. CASE position = 0
    <3>1. Standing = oldest /\ Listed = {} /\ Numbered = {}
      BY <2>2, <2>3 DEF Standing, LogInv, BufferInv, ListInv
    <3>2. BeginInv'
      BY <2>1, <3>1 DEF BeginInv, Half
    <3>3. CoverInv'
      BY <2>1, <2>2, <3>1 DEF CoverInv
    <3>4. QED
      BY <3>2, <3>3
  <2>4. CASE position # 0
    <3>1. pRead = position /\ bufferBase = base /\ Standing \in Nat /\ pRead <= Standing
      BY <2>1, <2>2, <2>4 DEF Standing, BufferInv
    <3>2. BeginInv'
      <4>1. CASE /\ begin \in asked .. (Half - 1) /\ (Listed = {} \/ begin <= pRead - bufferBase)
                 /\ \A m \in Numbered : m < begin
        BY <2>1, <2>2, <3>1, <4>1 DEF BeginInv, Half
      <4>2. CASE (Half - 1) \in Numbered /\ begin + Modulus \in Half .. (pRead - bufferBase)
        BY <2>1, <2>2, <3>1, <4>2 DEF BeginInv, Half
      <4>3. QED
        BY <2>1, <4>1, <4>2 DEF BeginInv
    <3>3. CASE position < oldest
      BY <2>1, <2>2, <3>2, <3>3 DEF CoverInv, Standing
    <3>4. CASE ~(position < oldest)
      <4>1. pRead' = pRead /\ bufferBase' = bufferBase
        BY <2>1, <3>1, <3>4 DEF Standing
      <4>2. CoverInv'
        BY <2>1, <2>4, <4>1 DEF CoverInv, Owed, Half
      <4>3. QED
        BY <3>2, <4>2
    <3>5. QED
      BY <3>3, <3>4
  <2>5. QED
    BY <2>3, <2>4
<1>3. CASE ReadEnd \/ ReadTooSmall \/ ReadFails \/ ReadNothing \/ BufferDone
  <2>1. /\ loop # "idle" /\ loop' # "idle"
        /\ UNCHANGED <<oldest, base, clears, asked, handle, position, pRead, bufferBase,
                       begin, list, Listed, Numbered>>
    BY <1>3 DEF ReadEnd, ReadTooSmall, ReadFails, ReadNothing, BufferDone, logVars, callVars, bufferVars,
       Listed, Numbered
  <2>2. QED
    BY <2>1 DEF BeginInv, CoverInv, Owed, Half
<1>4. CASE TakeRecord
  BY <1>4, TakePreserved
<1>5. QED
  BY <1>1, <1>2, <1>3, <1>4 DEF ReaderStep

\* When readAllEventLogs ends at the end of the log, it has looked at all that
\* the log still has, and left out what a jint cannot number and no more.
THEOREM EndIsComplete == Spec => EndMeansComplete
<1> DEFINE Inv == LogInv /\ BufferInv /\ ListInv /\ BeginInv /\ CoverInv
<1>1. Init => Inv
  <2>1. Init => LogInv /\ BufferInv /\ ListInv
    BY InitiallyEmpty
  <2>2. Init => BeginInv /\ CoverInv
    BY DEF Init, ReadAllInit, BeginInv, CoverInv, Listed, Numbered
  <2>3. QED
    BY <2>1, <2>2
<1>2. Inv /\ [Next]_vars => Inv'
  <2> SUFFICES ASSUME Inv, [Next]_vars PROVE Inv'
    OBVIOUS
  <2>1. LogInv' /\ BufferInv' /\ ListInv'
    BY ReadersPreserved
  <2>2. CASE (Record \/ Clear) /\ UNCHANGED readAllVars
    BY <2>1, <2>2, LogLeavesTheCover
  <2>3. CASE ReaderStep /\ UNCHANGED logVars
    BY <2>1, <2>3, CoverPreserved
  <2>4. CASE UNCHANGED <<logVars, readAllVars>>
    BY <2>1, <2>4 DEF BeginInv, CoverInv, Owed, Listed, Numbered, logVars, readAllVars, callVars,
       bufferVars
  <2>5. QED
    BY <2>2, <2>3, <2>4, Components
<1>3. Inv /\ [Next]_vars
        => [loop = "read" /\ loop' = "end" =>
              \A r \in Present :
                  r \in Listed <=> \/ Number(r) >= asked /\ Number(r) < Half
                                   \/ Number(r) >= Half /\ (Half - 1) \in Numbered]_readAllVars
  <2> SUFFICES ASSUME Inv, [Next]_vars, loop = "read", loop' = "end", NEW r \in Present
               PROVE  r \in Listed <=> \/ Number(r) >= asked /\ Number(r) < Half
                                       \/ Number(r) >= Half /\ (Half - 1) \in Numbered
    OBVIOUS
  <2>1. ReadEnd
    BY Components DEF ReaderStep, Call, ReadBuffer, ReadTooSmall, ReadFails, ReadNothing,
       TakeRecord, BufferDone, readAllVars, callVars, bufferVars
  <2>2. clears = handle /\ Standing > total
    BY <2>1 DEF ReadEnd, Outdated
  <2>3. r \in Int /\ oldest <= r /\ r <= total /\ oldest \in Nat /\ total \in Nat /\ position \in Nat
    BY DEF Present, LogInv, BufferInv
  <2>4. position # 0 /\ position > total
    BY <2>2, <2>3 DEF Standing, LogInv
  <2>5. pRead = position /\ bufferBase = base
    BY <2>2, <2>4 DEF BufferInv
  <2>6. r \in oldest .. (pRead - 1)
    BY <2>3, <2>4, <2>5
  <2>7. QED
    BY <2>2, <2>4, <2>5, <2>6 DEF CoverInv, Owed, Number
<1>4. QED
  BY <1>1, <1>2, <1>3, PTL DEF Spec, EndMeansComplete
-----------------------------------------------------------------------------
(* What the iterator has returned and what it returns next.                *)

\* An entry is a record written before, under the number it has in the log
\* unless the log has been cleared since.
Written(e) ==
    /\ e \in [record : 1 .. total, number : 1 .. (Modulus - 1)]
    /\ e.record > base => e.number = Number(e.record)

\* Nothing of what the log still has between two entries was left out, but what
\* a cleared log numbers no higher than the first of them.
Adjacent(from, to) ==
    /\ from.record < to.record
    /\ \A r \in (from.record + 1) .. (to.record - 1) :
          r \in Present => r > base /\ from.record <= base /\ Number(r) <= from.number

\* The field next follows the entry in hand, or else the one returned last.
IteratorInv ==
    /\ next \in Nat
    /\ yielded \in Seq([record : Nat, number : Nat])
    /\ pc = "new" => yielded = <<>>
    /\ pc # "idle" /\ pc # "done" => nextLog = NoEntry
    /\ yielded # <<>> => Written(Last(yielded))
    /\ nextLog # NoEntry => Written(nextLog) /\ next = (nextLog.number + 1) % Modulus
    /\ nextLog = NoEntry /\ yielded # <<>> => next = (Last(yielded).number + 1) % Modulus
    /\ nextLog # NoEntry /\ yielded # <<>> /\ Last(yielded).number + 1 # Modulus
          => Adjacent(Last(yielded), nextLog)

\* What is said of an entry stays true when the log is written or cleared.
LEMMA EntriesStay ==
    ASSUME LogInv, Record \/ Clear \/ UNCHANGED logVars, NEW e, Written(e)
    PROVE  Written(e)' /\ \A from : Written(from) /\ Adjacent(from, e) => Adjacent(from, e)'
<1>1. /\ total' \in Nat /\ total <= total' /\ oldest' \in Nat /\ oldest <= oldest'
      /\ total \in Nat /\ oldest \in Nat /\ base \in Int /\ base <= total /\ Modulus \in Nat
  BY LogAssumption DEF LogAssumption, LogInv, Record, Clear, logVars
<1>2. e \in [record : Nat, number : Nat] /\ e.record <= total
  BY <1>1 DEF Written
<1>3. base' = base \/ (base' = total /\ oldest' = total + 1 /\ total' = total)
  BY DEF Record, Clear, logVars
<1>4. e \in [record : 1 .. total', number : 1 .. (Modulus - 1)]
  BY <1>1 DEF Written
<1>5. Written(e)'
  BY <1>1, <1>2, <1>3, <1>4 DEF Written, Number
<1>6. ASSUME NEW from, Written(from), Adjacent(from, e)
      PROVE  Adjacent(from, e)'
  <2>1. from \in [record : Nat, number : Nat] /\ from.record <= total
    BY <1>1, <1>6 DEF Written
  <2>2. ASSUME NEW r \in (from.record + 1) .. (e.record - 1), r \in oldest' .. total'
        PROVE  r > base' /\ from.record <= base' /\ r - base' <= from.number
    <3>1. r \in Int /\ r < e.record /\ r >= oldest' /\ r <= total
      BY <1>1, <1>2, <2>1, <2>2
    <3>2. base' = base
      BY <1>1, <1>3, <3>1
    <3>3. r \in Present
      BY <1>1, <3>1 DEF Present
    <3>4. QED
      BY <1>6, <2>2, <3>2, <3>3 DEF Adjacent, Number
  <2>3. QED
    BY <1>6, <2>2 DEF Adjacent, Present, Number
<1>7. QED
  BY <1>5, <1>6

\* What readEventLog finds is a record of the log, and the first one from next
\* on that the log still has.
LEMMA FoundIsNext ==
    ASSUME LogInv, IteratorInv, Seek \/ Sequential, nextLog' # NoEntry
    PROVE  /\ Written(nextLog') /\ next' = (nextLog'.number + 1) % Modulus
           /\ yielded # <<>> /\ Last(yielded).number + 1 # Modulus
                 => Adjacent(Last(yielded), nextLog')
<1>1. PICK r \in Present :
          /\ Found(r)
          /\ Number(r) >= next
          /\ Number(r) = next \/ r = oldest
  BY DEF Seek, Sequential, Found, NotFound, IteratorInv, Present, LogInv
<1>2. /\ r \in Int /\ oldest <= r /\ r <= total /\ total \in Nat /\ oldest \in Nat \ {0} /\ base \in Int
      /\ base < oldest /\ Modulus \in Nat
  BY LogAssumption DEF LogAssumption, LogInv, Present
<1>3. r \in 1 .. total /\ Number(r) \in 1 .. (Modulus - 1) /\ Number(r) = r - base
  BY <1>2, LogAssumption DEF LogAssumption, LogInv, Number
<1>4. nextLog' = [record |-> r, number |-> Number(r)] /\ next' = (Number(r) + 1) % Modulus
  BY <1>1 DEF Found, Entry
<1>5. Written(nextLog')
  BY <1>3, <1>4 DEF Written
<1>6. ASSUME yielded # <<>>, Last(yielded).number + 1 # Modulus
      PROVE  Adjacent(Last(yielded), nextLog')
  <2> DEFINE from == Last(yielded)
  <2>1. nextLog = NoEntry
    BY DEF Seek, Sequential, IteratorInv
  <2>2. Written(from) /\ next = (from.number + 1) % Modulus
    BY <1>6, <2>1 DEF IteratorInv
  <2>3. from.record \in Nat /\ from.number \in Nat /\ from.number < Modulus
    BY <1>2, <2>2 DEF Written
  <2> HIDE DEF from
  <2>4. next = from.number + 1
    BY <1>2, <1>6, <2>2, <2>3 DEF from
  <2>5. from.record > base => from.number = from.record - base
    BY <2>2 DEF Written, Number
  <2>6. from.record < r
    BY <1>1, <1>2, <1>3, <2>3, <2>4, <2>5
  <2>7. ASSUME NEW s \in (from.record + 1) .. (r - 1), s \in Present
        PROVE  s > base /\ from.record <= base /\ Number(s) <= from.number
    BY <1>1, <1>2, <1>3, <2>3, <2>4, <2>5, <2>7 DEF Present, Number
  <2>8. QED
    BY <1>4, <2>6, <2>7 DEF Adjacent, from
<1>7. QED
  BY <1>4, <1>5, <1>6

\* Every step of the client keeps what is known of the iterator.
LEMMA IteratorPreserved ==
    LogInv /\ IteratorInv /\ ClientStep => IteratorInv'
<1> SUFFICES ASSUME LogInv, IteratorInv, ClientStep PROVE IteratorInv'
  OBVIOUS
<1>1. UNCHANGED <<total, oldest, base>>
  BY DEF ClientStep, New, HasNext, Seek, Sequential, NextCall, Enough, logVars
<1>2. \A e : Written(e)' <=> Written(e)
  BY <1>1 DEF Written, Number
<1>3. \A e, f : Adjacent(e, f)' <=> Adjacent(e, f)
  BY <1>1 DEF Adjacent, Present, Number
<1>4. CASE New
  <2>1. next' \in Nat
    BY <1>4, IteratorAssumption DEF IteratorAssumption, New
  <2>2. QED
    BY <1>4, <2>1 DEF New, IteratorInv
<1>5. CASE HasNext \/ Enough
  <2>1. /\ UNCHANGED <<next, nextLog, yielded>>
        /\ \/ nextLog = NoEntry /\ pc' = "seek"
           \/ pc' = "done"
    BY <1>5 DEF HasNext, Enough
  <2>2. QED
    BY <1>2, <1>3, <2>1 DEF IteratorInv
<1>6. CASE Seek \/ Sequential
  <2>1. /\ yielded' = yielded /\ pc' \in {"idle", "sequential"} /\ pc # "new" /\ nextLog = NoEntry
        /\ pc' # "idle" => nextLog' = NoEntry
    BY <1>6 DEF Seek, Sequential, Found, NotFound, IteratorInv
  <2>2. next' \in Nat
    <3>1. next' = next \/ \E n \in Int : next' = n % Modulus
      BY <1>6 DEF Seek, Sequential, Found, NotFound, Number, Present, LogInv
    <3>2. QED
      BY <3>1, LogAssumption DEF LogAssumption, IteratorInv
  <2>3. CASE nextLog' = NoEntry
    <3>1. \A r \in Present : Entry(r) # NoEntry
      BY DEF Entry, NoEntry, Present, LogInv
    <3>2. next' = next
      BY <1>6, <2>3, <3>1 DEF Seek, Sequential, Found, NotFound, Present, LogInv
    <3>3. QED
      BY <1>2, <2>1, <2>2, <2>3, <3>2 DEF IteratorInv
  <2>4. CASE nextLog' # NoEntry
    <3>1. /\ Written(nextLog') /\ next' = (nextLog'.number + 1) % Modulus
          /\ yielded # <<>> /\ Last(yielded).number + 1 # Modulus
                 => Adjacent(Last(yielded), nextLog')
      BY <1>6, <2>4, FoundIsNext
    <3>2. QED
      BY <1>2, <1>3, <2>1, <2>2, <2>4, <3>1 DEF IteratorInv
  <2>5. QED
    BY <2>3, <2>4
<1>7. CASE NextCall
  <2>1. /\ yielded' = Append(yielded, nextLog) /\ nextLog' = NoEntry
        /\ next' = next /\ pc' = pc /\ nextLog # NoEntry /\ pc = "idle"
    BY <1>7 DEF NextCall, IteratorInv
  <2>2. Written(nextLog) /\ nextLog \in [record : Nat, number : Nat]
    BY <2>1, LogAssumption DEF IteratorInv, Written, LogInv, LogAssumption
  <2>3. yielded' \in Seq([record : Nat, number : Nat]) /\ Last(yielded') = nextLog
    BY <2>1, <2>2 DEF IteratorInv, Last
  <2>4. QED
    BY <1>2, <2>1, <2>2, <2>3 DEF IteratorInv
<1>8. QED
  BY <1>4, <1>5, <1>6, <1>7 DEF ClientStep

\* The iterator leaves nothing out between two records but what the log has
\* lost and, after a clear, what is numbered no higher than the one before.
THEOREM NothingLeftOut == Spec => NoSilentGap
<1> DEFINE Inv == LogInv /\ IteratorInv
<1>1. Init => Inv
  BY InitiallyEmpty DEF Init, IteratorInit, IteratorInv
<1>2. Inv /\ [Next]_vars => Inv'
  <2> SUFFICES ASSUME Inv, [Next]_vars PROVE Inv'
    OBVIOUS
  <2>1. CASE (Record \/ Clear \/ UNCHANGED logVars) /\ UNCHANGED iteratorVars
    <3>1. LogInv' /\ UNCHANGED <<next, nextLog, pc, yielded>>
      BY <2>1, LogPreserved DEF iteratorVars
    <3>2. \A e : Written(e) => Written(e)'
      BY <2>1, EntriesStay
    <3>3. \A e, f : Written(e) /\ Written(f) /\ Adjacent(e, f) => Adjacent(e, f)'
      BY <2>1, EntriesStay
    <3>4. IteratorInv'
      BY <3>1, <3>2, <3>3 DEF IteratorInv
    <3>5. QED
      BY <3>1, <3>4
  <2>2. CASE ClientStep
    <3>1. UNCHANGED logVars
      BY <2>2 DEF ClientStep, New, HasNext, Seek, Sequential, NextCall, Enough
    <3>2. QED
      BY <2>2, <3>1, LogPreserved, IteratorPreserved
  <2>3. QED
    BY <2>1, <2>2 DEF Next, Log, InIterator, InReadAll, ReaderStep, Call, ReadBuffer, ReadEnd,
       ReadTooSmall, ReadFails, ReadNothing, TakeRecord, BufferDone, vars
<1>3. Inv /\ [Next]_vars
        => [yielded' # yielded /\ yielded # <<>> /\ Last(yielded).number + 1 # Modulus =>
              LET from == Last(yielded)
                  to   == Last(yielded')
              IN  /\ from.record < to.record
                  /\ \A r \in (from.record + 1) .. (to.record - 1) :
                        r \in Present => r > base /\ from.record <= base /\ Number(r) <= from.number
           ]_iteratorVars
  <2> SUFFICES ASSUME Inv, [Next]_vars, yielded' # yielded, yielded # <<>>,
                      Last(yielded).number + 1 # Modulus
               PROVE  Adjacent(Last(yielded), Last(yielded'))
    BY DEF Adjacent
  <2>1. NextCall
    BY DEF Next, Log, InIterator, InReadAll, ClientStep, New, HasNext, Seek, Sequential, NextCall,
       Enough, vars, iteratorVars
  <2>2. yielded' = Append(yielded, nextLog) /\ nextLog # NoEntry /\ yielded \in Seq([record : Nat, number : Nat])
    BY <2>1 DEF NextCall, IteratorInv
  <2>3. nextLog \in [record : Nat, number : Nat]
    <3>1. nextLog \in [record : 1 .. total, number : 1 .. (Modulus - 1)]
      BY <2>2 DEF IteratorInv, Written
    <3>2. QED
      BY <3>1
  <2>4. Last(yielded') = nextLog
    BY <2>2, <2>3 DEF Last
  <2>5. QED
    BY <2>2, <2>4 DEF IteratorInv
<1>4. QED
  BY <1>1, <1>2, <1>3, PTL DEF Spec, NoSilentGap
=============================================================================

------------------------ MODULE WinapiCallsProofs -------------------------
(***************************************************************************)
(* What the calls of WinapiCalls return, proved for tables, values, lists, *)
(* processes, records and times of every size. Each component has its own  *)
(* inductive invariant; the lemma Components says that a step of the whole *)
(* is one of a component that the others do not see, so that the steps of  *)
(* each are looked at by themselves.                                       *)
(***************************************************************************)
EXTENDS WinapiCalls, TLAPS, FiniteSetTheorems, SequenceTheorems, WellFoundedInduction,
        NaturalsInduction

\* A step of the system or of the thread is one of a component, which the
\* others do not see.
LEMMA Components ==
    ASSUME [Next]_vars
    PROVE  /\ TablesNext \/ UNCHANGED tablesVars
           /\ RegistryNext \/ UNCHANGED registryVars
           /\ TimeNext \/ UNCHANGED timeVars
           /\ NamesChange \/ NamesFail \/ NamesStep \/ UNCHANGED namesVars
           /\ ProcessesMove \/ ProcessesFail \/ ProcessesCall \/ UNCHANGED processVars
           /\ RecordChange \/ RecordCall \/ UNCHANGED recordVars
BY DEF Next, System, Thread, InTables, InRegistry, InTime, InNames, InProcesses, InRecord,
       TablesNext, RegistryNext, TimeNext, vars

-----------------------------------------------------------------------------
(* The native tables.                                                      *)

\* The names that the code calls the kinds of rows by are those of the enums,
\* one for each kind.
LEMMA KindsKept == \A of \in {Routes, Neighbours, Adapters, Tcp, Udp} :
                       \A kind \in RowKinds(of) : KeepsKind(of, kind)
<1>1. \A kind \in DOMAIN ForwardTypes : Keeps(ForwardTypes, RouteType, kind)
  BY SMTT(60) DEF ForwardTypes, RouteType, Keeps
<1>2. \A kind \in DOMAIN ForwardProtocols : Keeps(ForwardProtocols, RouteProtocol, kind)
  BY SMTT(60) DEF ForwardProtocols, RouteProtocol, Keeps
<1>3. \A kind \in DOMAIN ArpTypes : Keeps(ArpTypes, ArpType, kind)
  BY SMTT(60) DEF ArpTypes, ArpType, Keeps
<1>4. \A kind \in DOMAIN TcpStates : Keeps(TcpStates, State, kind)
  BY SMTT(60) DEF TcpStates, State, Keeps
<1>5. \A kind \in DOMAIN AdapterTypes : AdapterType[AdapterTypes[kind] + 1] = kind
  BY SMTT(60) DEF AdapterTypes, AdapterType
<1>6. Routes \notin {Neighbours, Adapters, Tcp, Udp} /\ Neighbours \notin {Adapters, Tcp, Udp}
      /\ Adapters \notin {Tcp, Udp} /\ Tcp # Udp
  BY DEF Routes, Neighbours, Adapters, Tcp, Udp, IpGlobalNatives
<1>7. QED
  BY <1>1, <1>2, <1>3, <1>4, <1>5, <1>6 DEF RowKinds, KeepsKind

TableCalls == {"size", "fetch", "list", "returned"}

\* While a call is under way its tables are among those seen. If the table that
\* is asked about has not grown it fits into the buffer, and the rows that have
\* been fetched are those of a table seen, or what is read in their place.
TablesInv ==
    /\ step \in TableCalls \union {"idle"}
    /\ table \in [Families -> SUBSET Rows]
    /\ seen \in [Families -> SUBSET SUBSET Rows]
    /\ size \in Nat
    /\ ~miscalled
    /\ step # "idle" => call \in Calls /\ \A f \in Families : table[f] \in seen[f]
    /\ step \in {"idle", "size", "fetch"} => fetched = {}
    /\ step = "fetch" /\ call.family = "v4" /\ ~failed /\ ~grown => NeededNow("v4") <= size
    /\ step \in {"list", "returned"} /\ ~failed =>
          /\ call.family = "v4" => fetched \in seen["v4"] \/ (fetched = {} /\ grown)
          /\ call.family = "v6" /\ fetched # {} =>
                \/ fetched \in seen["v4"]
                \/ call.of = Tcp /\ \E rows \in seen["v6"] : fetched = Misread(rows)

\* Fewer rows need no more room.
LEMMA NeededMonotone ==
    ASSUME NEW of \in {Routes, Neighbours, Adapters, Tcp, Udp}, NEW m \in Nat, NEW n \in Nat, m <= n
    PROVE  /\ Needed(of, "v4", m) \in Nat
           /\ Needed(of, "v4", m) <= Needed(of, "v4", n)
BY DEF Needed, Routes, Neighbours, Adapters, Tcp, Udp, IpGlobalNatives

\* The number of rows of a table is a number, as there are finitely many rows.
LEMMA CardinalityOfTable ==
    ASSUME NEW rows \in SUBSET Rows
    PROVE  Cardinality(rows) \in Nat
BY TablesAssumption, FS_Subset, FS_CardinalityType

\* Between calls nothing has been fetched.
LEMMA TablesStart == TablesInit => TablesInv
BY DEF TablesInit, TablesInv, NoTable, Families, TableCalls

\* No step of a listing, of the system or of a failing library breaks TablesInv.
LEMMA TablesStep == TablesInv /\ [TablesNext]_tablesVars => TablesInv'
<1> SUFFICES ASSUME TablesInv, [TablesNext]_tablesVars PROVE TablesInv'
  OBVIOUS
<1> USE DEF TableCalls
<1>c. call \in Calls => /\ call.of \in {Routes, Neighbours, Adapters, Tcp, Udp}
                        /\ call.family \in Families
                        /\ call.of \in {Routes, Neighbours, Adapters} => call.family = "v4"
  BY DEF Calls, Families, Routes, Neighbours, Adapters, Tcp, Udp, IpGlobalNatives
<1>n. ASSUME NEW rows \in SUBSET Rows, call \in Calls
      PROVE  Needed(call.of, "v4", Cardinality(rows)) \in Nat
  BY <1>c, <1>n, NeededMonotone, CardinalityOfTable
<1>1. CASE Change
  <2>1. PICK f \in Families, rows \in SUBSET Rows :
            /\ table' = [table EXCEPT ![f] = rows]
            /\ seen' = [seen EXCEPT ![f] = @ \union {rows}]
            /\ grown' = (grown \/ Cardinality(table'[call.family]) > Cardinality(table[call.family]))
    BY <1>1 DEF Change
  <2>2. /\ step \in {"size", "fetch"} /\ call \in Calls
        /\ UNCHANGED <<step, call, size, fetched, index, answer, failed, miscalled>>
    BY <1>1 DEF Change, TablesInv
  <2>3. /\ table' \in [Families -> SUBSET Rows]
        /\ seen' \in [Families -> SUBSET SUBSET Rows]
        /\ \A g \in Families : table'[g] \in seen'[g]
    BY <2>1, <2>2 DEF TablesInv
  <2>4. ASSUME step = "fetch", call.family = "v4", ~failed, ~grown'
        PROVE  NeededNow("v4")' <= size
    <3>1. ~grown /\ ~(Cardinality(table'["v4"]) > Cardinality(table["v4"]))
      BY <2>1, <2>4
    <3>2. table["v4"] \in SUBSET Rows /\ table'["v4"] \in SUBSET Rows
      BY <2>3 DEF TablesInv, Families
    <3>3. Cardinality(table["v4"]) \in Nat /\ Cardinality(table'["v4"]) \in Nat
      BY <3>2, CardinalityOfTable
    <3>4. /\ Needed(call.of, "v4", Cardinality(table'["v4"]))
                <= Needed(call.of, "v4", Cardinality(table["v4"]))
          /\ Needed(call.of, "v4", Cardinality(table'["v4"])) \in Nat
          /\ Needed(call.of, "v4", Cardinality(table["v4"])) \in Nat
      BY <1>c, <2>2, <3>1, <3>3, NeededMonotone
    <3>5. Needed(call.of, "v4", Cardinality(table["v4"])) <= size
      BY <2>4, <3>1 DEF TablesInv, NeededNow
    <3>6. size \in Nat
      BY DEF TablesInv
    <3> HIDE DEF TablesInv
    <3>7. NeededNow("v4")' = Needed(call.of, "v4", Cardinality(table'["v4"]))
      BY <2>2 DEF NeededNow
    <3>8. QED
      BY <3>4, <3>5, <3>6, <3>7
  <2>5. QED
    BY <2>2, <2>3, <2>4 DEF TablesInv
<1>2. CASE NativeCall
  <2>1. /\ step' = "size" /\ call' \in Calls
        /\ table' \in [Families -> SUBSET Rows]
        /\ seen' = [f \in Families |-> {table'[f]}]
        /\ fetched' = {} /\ ~miscalled' /\ size' = FirstSize(call'.of)
    BY <1>2 DEF NativeCall, Moment, TablesInv
  <2>2. size' \in Nat
    BY <2>1 DEF FirstSize
  <2>3. seen' \in [Families -> SUBSET SUBSET Rows] /\ \A f \in Families : table'[f] \in seen'[f]
    BY <2>1
  <2>4. QED
    BY <2>1, <2>2, <2>3 DEF TablesInv
<1>3. CASE AskSize
  <2>1. /\ step = "size" /\ fetched = {} /\ call \in Calls /\ size \in Nat
        /\ UNCHANGED <<call, index, failed, miscalled, table, seen, grown>>
        /\ \A f \in Families : table[f] \in seen[f]
    BY <1>3 DEF AskSize, systemVars, TablesInv
  <2> DEFINE need == NeededNow(AskedFamily)
  <2>2. table["v4"] \in seen["v4"] /\ table["v4"] \in SUBSET Rows
    BY <2>1 DEF Families, TablesInv
  <2>3. CASE Empty(AskedFamily) /\ Return("null")
    <3>1. step' = "returned" /\ fetched' = {} /\ size' = size
      BY <2>1, <2>3 DEF Return
    <3>2. call.family = "v4" => {} \in seen["v4"]
      BY <2>2, <2>3 DEF Empty, AskedFamily
    <3>3. QED
      BY <2>1, <3>1, <3>2 DEF TablesInv
  <2>4. CASE call.of = Tcp /\ Listing(table["v4"])
    <3>1. step' = "list" /\ fetched' = table["v4"] /\ size' = size
      BY <2>4 DEF Listing
    <3>2. QED
      BY <2>1, <2>2, <3>1 DEF TablesInv
  <2>5. CASE /\ \E bytes \in Nat : Fetching(bytes) /\ (call.family = "v4" => NeededNow("v4") <= bytes)
    <3>1. PICK bytes \in Nat : Fetching(bytes) /\ (call.family = "v4" => NeededNow("v4") <= bytes)
      BY <2>5
    <3>2. step' = "fetch" /\ size' = bytes /\ fetched' = {}
      BY <2>1, <3>1 DEF Fetching
    <3>3. NeededNow("v4")' = NeededNow("v4")
      BY <2>1 DEF NeededNow
    <3>4. QED
      BY <2>1, <3>1, <3>2, <3>3 DEF TablesInv
  <2>6. ASSUME Empty(AskedFamily), call.of = Neighbours, Fetching(4)
        PROVE  \E bytes \in Nat : Fetching(bytes) /\ (call.family = "v4" => NeededNow("v4") <= bytes)
    <3>1. call.family = "v4" => table["v4"] = {}
      BY <2>6 DEF Empty, AskedFamily
    <3>2. Needed(Neighbours, "v4", 0) = 4
      BY DEF Needed, Neighbours, Adapters, Tcp, Udp, IpGlobalNatives
    <3>3. call.family = "v4" => NeededNow("v4") = 4
      BY <2>6, <3>1, <3>2, FS_EmptySet DEF NeededNow
    <3>4. QED
      BY <2>6, <3>3
  <2>7. ASSUME Fetching(IF need <= size THEN size ELSE need)
        PROVE  \E bytes \in Nat : Fetching(bytes) /\ (call.family = "v4" => NeededNow("v4") <= bytes)
    <3>1. AskedFamily \in Families
      BY <1>c, <2>1 DEF AskedFamily, Families
    <3>2. table[AskedFamily] \in SUBSET Rows
      BY <3>1 DEF TablesInv
    <3>3. Cardinality(table[AskedFamily]) \in Nat
      BY <3>2, CardinalityOfTable
    <3>4. need \in Nat
      BY <1>c, <2>1, <3>1, <3>3
      DEF NeededNow, Needed, Families, Routes, Neighbours, Adapters, Tcp, Udp, IpGlobalNatives
    <3>5. call.family = "v4" => need = NeededNow("v4")
      BY DEF AskedFamily
    <3> HIDE DEF need
    <3>6. (IF need <= size THEN size ELSE need) \in Nat
      BY <2>1, <3>4
    <3>7. need <= (IF need <= size THEN size ELSE need)
      BY <2>1, <3>4
    <3>8. QED
      BY <2>7, <3>5, <3>6, <3>7
  <2>8. QED
    BY <1>3, <2>3, <2>4, <2>5, <2>6, <2>7 DEF AskSize
<1>f. ASSUME Fallback, step \in {"size", "fetch"}, call \in Calls, fetched = {},
             UNCHANGED <<call, miscalled, table, seen, grown>>,
             \/ failed'
             \/ failed' = failed /\ (call.family = "v4" /\ ~failed => {} \in seen["v4"] \/ grown)
      PROVE  TablesInv'
  <2>1. step' \in {"list", "returned"} /\ fetched' = {} /\ size' = size
    BY <1>f DEF Fallback, Return, Listing
  <2>2. QED
    BY <1>f, <2>1 DEF TablesInv
<1>4. CASE Fetch
  <2>1. /\ step = "fetch" /\ fetched = {} /\ call \in Calls /\ size \in Nat
        /\ UNCHANGED <<call, index, failed, miscalled, table, seen, grown>>
        /\ \A f \in Families : table[f] \in seen[f]
    BY <1>4 DEF Fetch, systemVars, TablesInv
  <2>2. FetchedFamily \in Families /\ (call.family = "v4" => FetchedFamily = "v4")
    BY <1>c, <2>1 DEF FetchedFamily, Families
  <2>3. CASE Listing(AsRead(FetchedFamily, table[FetchedFamily]))
    <3>1. step' = "list" /\ fetched' = AsRead(FetchedFamily, table[FetchedFamily]) /\ size' = size
      BY <2>3 DEF Listing
    <3>2. table[FetchedFamily] \in seen[FetchedFamily]
      BY <2>1, <2>2
    <3>3. CASE FetchedFamily = "v4"
      <4>1. fetched' \in seen'["v4"]
        BY <2>1, <3>1, <3>2, <3>3 DEF AsRead
      <4>2. QED
        BY <2>1, <3>1, <4>1 DEF TablesInv
    <3>4. CASE FetchedFamily = "v6"
      <4>1. call.of = Tcp /\ call.family = "v6"
        BY <1>c, <2>1, <3>4 DEF FetchedFamily
      <4>2. \E rows \in seen'["v6"] : fetched' = Misread(rows)
        BY <2>1, <3>1, <3>2, <3>4 DEF AsRead
      <4>3. QED
        BY <2>1, <3>1, <4>1, <4>2 DEF TablesInv
    <3>5. QED
      BY <2>2, <3>3, <3>4 DEF Families
  <2>4. CASE Fallback /\ ~(NeededNow(FetchedFamily) <= size /\ ~Empty(FetchedFamily))
    <3>1. call.family = "v4" /\ ~failed => {} \in seen["v4"] \/ grown
      <4>1. ASSUME call.family = "v4", ~failed, ~grown PROVE Empty("v4")
        BY <2>1, <2>2, <2>4, <4>1 DEF TablesInv
      <4>2. Empty("v4") => {} \in seen["v4"]
        BY <2>1 DEF Empty, Families
      <4>3. QED
        BY <4>1, <4>2
    <3>2. QED
      BY <1>f, <2>1, <2>4, <3>1
  <2>5. QED
    BY <1>4, <2>3, <2>4 DEF Fetch
<1>5. CASE LibraryFails
  <2>1. /\ failed' /\ step \in {"size", "fetch"} /\ call \in Calls /\ fetched = {} /\ size \in Nat
        /\ UNCHANGED <<call, miscalled, table, seen, grown>>
        /\ \A f \in Families : table[f] \in seen[f]
    BY <1>5 DEF LibraryFails, systemVars, TablesInv
  <2>2. step' \in TableCalls /\ fetched' = {} /\ size' \in Nat
    BY <1>5, <2>1 DEF LibraryFails, Return, Listing, Fetching, Fallback
  <2>3. QED
    BY <2>1, <2>2 DEF TablesInv
<1>6. CASE ListRow
  <2>1. /\ step = "list" /\ step' = step
        /\ UNCHANGED <<call, size, fetched, answer, failed, table, seen, grown>>
        /\ \E kind \in RowKinds(call.of) : miscalled' = (miscalled \/ ~KeepsKind(call.of, kind))
    BY <1>6 DEF ListRow, systemVars
  <2>2. ~miscalled'
    BY <1>c, <2>1, KindsKept DEF TablesInv
  <2>3. NeededNow("v4")' = NeededNow("v4")
    BY <2>1 DEF NeededNow
  <2>4. QED
    BY <2>1, <2>2, <2>3 DEF TablesInv
<1>7. CASE ListEnd
  BY <1>7 DEF ListEnd, Return, systemVars, TablesInv
<1>8. CASE TablesDone
  BY <1>8 DEF TablesDone, NoTable, Families, TablesInv
<1>9. CASE UNCHANGED tablesVars
  BY <1>9 DEF tablesVars, systemVars, TablesInv, NeededNow
<1>10. QED
  BY <1>1, <1>2, <1>3, <1>4, <1>5, <1>6, <1>7, <1>8, <1>9 DEF TablesNext, TablesCall

\* For IPv4 a listing is the table as it stood at some moment of the call, or
\* nothing because it has grown, with the kind of every row; for the connections
\* of IPv6 it is an IPv4 table, or misread rows, as many as there are rows.
THEOREM TablesOfAMoment == Spec => []SnapshotOrNothing
<1>1. Init => TablesInv
  BY TablesStart DEF Init
<1>2. TablesInv /\ [Next]_vars => TablesInv'
  BY Components, TablesStep
<1>3. TablesInv => SnapshotOrNothing
  BY DEF TablesInv, SnapshotOrNothing
<1>4. QED
  BY <1>1, <1>2, <1>3, PTL DEF Spec

-----------------------------------------------------------------------------
(* getValue of a registry key.                                             *)

\* A value that another program writes is of a later writing than those before
\* it, and the buffer has the length of one that there was, if there was one.
ValueInv ==
    /\ added \in Nat
    /\ values \subseteq [type : Types, length : {0, 2, 4}, writing : Nat] \union {Absent}
    /\ doing \in {"size", "fetch"} =>
          /\ value \in values
          /\ \A v \in values \ {Absent} : v.writing <= added
          /\ value # Absent => \A v \in values \ {Absent, value} : v.writing < value.writing
    /\ doing = "fetch" =>
          Absent \in values \/ \E v \in values \ {Absent} : v.length = buffer.length
    /\ ValueOfTheTime

\* No step of a getValue, and no other program that adds a name or writes the
\* value, breaks ValueInv.
LEMMA ValueStep == ValueInv /\ [RegistryNext]_registryVars => ValueInv'
<1> SUFFICES ASSUME ValueInv, [RegistryNext]_registryVars PROVE ValueInv'
  OBVIOUS
<1> USE DEF ValueInv
<1>1. CASE AddName
  BY <1>1 DEF AddName, callVars, ValueOfTheTime
<1>2. CASE RemoveName
  BY <1>2 DEF RemoveName, callVars, ValueOfTheTime
<1>3. CASE WriteValue
  <2>1. /\ added' = added + 1 /\ values' = values \union {value'}
        /\ doing' = doing /\ buffer' = buffer /\ doing \in {"size", "fetch"}
    BY <1>3 DEF WriteValue, callVars
  <2>2. \/ value' = Absent
        \/ value' \in [type : Types, length : {0, 2, 4}, writing : Nat] /\ value'.writing = added'
    BY <1>3, <2>1 DEF WriteValue
  <2>3. added' \in Nat /\ values' \subseteq [type : Types, length : {0, 2, 4}, writing : Nat] \union {Absent}
    BY <2>1, <2>2
  <2>4. \A v \in values' \ {Absent} : v.writing <= added'
    BY <2>1, <2>2
  <2>5. value' # Absent => \A v \in values' \ {Absent, value'} : v.writing < value'.writing
    BY <2>1, <2>2
  <2>6. ValueOfTheTime'
    BY <2>1 DEF ValueOfTheTime
  <2>7. QED
    BY <2>1, <2>3, <2>4, <2>5, <2>6
<1>4. CASE OpenSubKey \/ Close
  BY <1>4 DEF OpenSubKey, Close, othersVars, ValueOfTheTime
<1>5. CASE GetNames
  BY <1>5 DEF GetNames, ValueOfTheTime
<1>6. CASE QueryInfo \/ EnumName \/ NamesEnd
  BY <1>6 DEF QueryInfo, EnumName, NamesEnd, othersVars, ValueOfTheTime
<1>7. CASE GetValue
  <2>1. /\ doing' = "size" /\ added' = added /\ values' = {value'}
        /\ value' \in {v \in Values : v.writing = 0} \union {Absent}
    BY <1>7 DEF GetValue
  <2>2. {v \in Values : v.writing = 0} \subseteq [type : Types, length : {0, 2, 4}, writing : Nat]
    BY DEF Values
  <2>3. QED
    BY <2>1, <2>2 DEF ValueOfTheTime, Values
<1>8. CASE AskLength
  <2>1. /\ doing = "size" /\ doing' = "fetch"
        /\ UNCHANGED <<value, values, added>>
    BY <1>8 DEF AskLength, othersVars
  <2>2. value = Absent \/ buffer'.length = value.length
    BY <1>8 DEF AskLength
  <2>3. QED
    BY <2>1, <2>2 DEF ValueOfTheTime
<1>9. CASE FetchValue
  <2>1. /\ doing = "fetch" /\ doing' = "read"
        /\ UNCHANGED <<value, values, added>>
    BY <1>9 DEF FetchValue, othersVars
  <2>2. CASE Absent \in values
    BY <2>1, <2>2 DEF ValueOfTheTime
  <2>3. CASE Absent \notin values /\ value.length > buffer.length
    <3>1. PICK v \in values : v.length = buffer.length
      BY <2>1, <2>3
    <3>2. value \in values /\ v # value /\ value # Absent /\ v # Absent
      BY <2>1, <2>3, <3>1
    <3>3. v.writing < value.writing /\ v.length < value.length
      BY <2>1, <2>3, <3>1, <3>2
    <3>4. QED
      BY <2>1, <3>2, <3>3 DEF ValueOfTheTime
  <2>4. CASE Absent \notin values /\ ~(value.length > buffer.length)
    <3>1. value \in values \ {Absent}
      BY <2>1, <2>4
    <3>2. result' = Decoded(value.type, value.length, value.writing)
      BY <1>9, <2>4, <3>1 DEF FetchValue
    <3>3. QED
      BY <2>1, <3>1, <3>2 DEF ValueOfTheTime
  <2>5. QED
    BY <2>2, <2>3, <2>4
<1>10. CASE RegistryDone
  BY <1>10 DEF RegistryDone, Ready, ValueOfTheTime
<1>11. CASE UNCHANGED registryVars
  BY <1>11 DEF registryVars, ValueOfTheTime
<1>12. QED
  BY <1>1, <1>2, <1>3, <1>4, <1>5, <1>6, <1>7, <1>8, <1>9, <1>10, <1>11
  DEF RegistryNext, Others, RegistryCall

\* What getValue returns is made of a value that there was during the call, or
\* of one of the two that are made up: of none, or of one that grew.
THEOREM ValuesOfTheTime == Spec => []ValueOfTheTime
<1>1. Init => ValueInv
  BY DEF Init, RegistryInit, ValueInv, ValueOfTheTime
<1>2. ValueInv /\ [Next]_vars => ValueInv'
  BY Components, ValueStep
<1>3. ValueInv => ValueOfTheTime
  BY DEF ValueInv
<1>4. QED
  BY <1>1, <1>2, <1>3, PTL DEF Spec

-----------------------------------------------------------------------------
(* The names of a key, listed while others change them.                    *)

\* The elements of a list behind its first k.
Past(list, k) == {list[i] : i \in {i \in DOMAIN list : i > k}}

\* The names that are still to be read.
Ahead == Past(names, Len(got))

\* The names that a listing has missed for good, unless others move them.
Missed == {name \in lasting : name \notin Ahead \union ToSet(got)}

\* The names that will be read although they have been, or in vain.
Spoilt == {name \in Ahead : name \in ToSet(got) \/ (name \in LongNames /\ ~info.long)}

\* How many of the indexes that were read the removed names may have left empty.
Beyond == IF Len(got) + removed > info.count THEN Len(got) + removed - info.count ELSE 0

\* The part of ListingInv about a listing that reads names.
Counted ==
    /\ Len(got) <= info.count
    /\ lasting \intersect LongNames # {} => info.long
    /\ Cardinality(Missed) <= removed
    /\ \A name \in lasting : Cardinality(Positions(name)) <= IF name \in Ahead THEN added ELSE 1 + added
    /\ key # NoHandle =>
          /\ Len(names) <= info.count + added
          /\ info.count <= Len(names) + removed
          /\ Len(got) - Cardinality(ToSet(got)) + Cardinality(Spoilt) <= added + Beyond
          /\ Cardinality(Positions(Blank)) + Cardinality(Spoilt) <= added + Beyond

\* What becomes of the names of a key while they are listed.
ListingInv ==
    /\ added \in Nat /\ removed \in Nat
    /\ info.count \in Nat /\ info.long \in BOOLEAN
    /\ names \in Seq(KeyNames) /\ IsInjective(names)
    /\ got \in Seq(KeyNames \union {Blank})
    /\ lasting \subseteq ToSet(names)
    /\ doing \notin {"info", "names", "named"} => names = <<>>
    /\ doing \notin {"names", "named"} => got = <<>>
    /\ key = NoHandle => names = <<>>
    /\ doing \in {"names", "named"} => Counted
    /\ doing = "named" => Len(got) = info.count

\* RemoveAt leaves the other elements in their order.
LEMMA RemoveAtProperties ==
    ASSUME NEW S, NEW s \in Seq(S), NEW i \in 1 .. Len(s)
    PROVE  /\ RemoveAt(s, i) \in Seq(S)
           /\ Len(RemoveAt(s, i)) = Len(s) - 1
           /\ \A j \in 1 .. (Len(s) - 1) : RemoveAt(s, i)[j] = s[IF j < i THEN j ELSE j + 1]
<1> DEFINE a == SubSeq(s, 1, i - 1)
           b == SubSeq(s, i + 1, Len(s))
<1>1. Len(s) \in Nat /\ i \in Nat /\ 1 <= i /\ i <= Len(s)
  BY LenProperties
<1>2. \A j \in 1 .. Len(s) : s[j] \in S
  BY ElementOfSeq
<1>3. /\ a \in Seq(S) /\ Len(a) = i - 1
      /\ \A j \in 1 .. (i - 1) : a[j] = s[j]
  <2>1. \A j \in 1 .. (i - 1) : s[j] \in S
    BY <1>1, <1>2
  <2>2. /\ a \in Seq(S)
        /\ Len(a) = IF 1 <= i - 1 THEN (i - 1) - 1 + 1 ELSE 0
        /\ \A j \in 1 .. ((i - 1) - 1 + 1) : a[j] = s[1 + j - 1]
    BY <1>1, <2>1, SubSeqProperties
  <2>3. QED
    BY <1>1, <2>2
<1>4. /\ b \in Seq(S) /\ Len(b) = Len(s) - i
      /\ \A j \in 1 .. (Len(s) - i) : b[j] = s[i + j]
  <2>1. \A j \in (i + 1) .. Len(s) : s[j] \in S
    BY <1>1, <1>2
  <2>2. /\ b \in Seq(S)
        /\ Len(b) = IF i + 1 <= Len(s) THEN Len(s) - (i + 1) + 1 ELSE 0
        /\ \A j \in 1 .. (Len(s) - (i + 1) + 1) : b[j] = s[i + 1 + j - 1]
    BY <1>1, <2>1, SubSeqProperties
  <2>3. QED
    BY <1>1, <2>2
<1>5. RemoveAt(s, i) = a \o b
  BY DEF RemoveAt
<1> HIDE DEF a, b
<1>6. /\ a \o b \in Seq(S) /\ Len(a \o b) = Len(a) + Len(b)
      /\ \A j \in 1 .. (Len(a) + Len(b)) : (a \o b)[j] = IF j <= Len(a) THEN a[j] ELSE b[j - Len(a)]
  BY <1>3, <1>4, ConcatProperties
<1>7. ASSUME NEW j \in 1 .. (Len(s) - 1)
      PROVE  (a \o b)[j] = s[IF j < i THEN j ELSE j + 1]
  <2>1. CASE j < i
    BY <1>1, <1>3, <1>4, <1>6, <2>1
  <2>2. CASE ~(j < i)
    <3>1. j - (i - 1) \in 1 .. (Len(s) - i) /\ i + (j - (i - 1)) = j + 1
      BY <1>1, <2>2
    <3>2. (a \o b)[j] = b[j - (i - 1)]
      BY <1>1, <1>3, <1>4, <1>6, <2>2
    <3>3. QED
      BY <1>4, <2>2, <3>1, <3>2
  <2>3. QED
    BY <2>1, <2>2
<1>8. QED
  BY <1>1, <1>3, <1>4, <1>5, <1>6, <1>7

\* InsertAt puts an element before the i-th and leaves the others in their order.
LEMMA Inserted ==
    ASSUME NEW K, NEW list \in Seq(K), NEW i \in 1 .. Len(list) + 1, NEW e \in K
    PROVE  /\ InsertAt(list, i, e) \in Seq(K)
           /\ Len(InsertAt(list, i, e)) = Len(list) + 1
           /\ \A j \in 1 .. Len(list) + 1 :
                 InsertAt(list, i, e)[j] = IF j < i THEN list[j] ELSE IF j = i THEN e ELSE list[j - 1]
<1> DEFINE a == SubSeq(list, 1, i - 1)
           b == SubSeq(list, i, Len(list))
           c == <<e>>
<1>1. Len(list) \in Nat /\ i \in Nat /\ 1 <= i /\ i <= Len(list) + 1
  BY LenProperties
<1>2. \A j \in 1 .. Len(list) : list[j] \in K
  BY ElementOfSeq
<1>3. /\ a \in Seq(K) /\ Len(a) = i - 1
      /\ \A j \in 1 .. (i - 1) : a[j] = list[j]
  <2>1. \A j \in 1 .. (i - 1) : list[j] \in K
    BY <1>1, <1>2
  <2>2. /\ a \in Seq(K)
        /\ Len(a) = IF 1 <= i - 1 THEN (i - 1) - 1 + 1 ELSE 0
        /\ \A j \in 1 .. ((i - 1) - 1 + 1) : a[j] = list[1 + j - 1]
    BY <1>1, <2>1, SubSeqProperties
  <2>3. QED
    BY <1>1, <2>2
<1>4. /\ b \in Seq(K) /\ Len(b) = Len(list) + 1 - i
      /\ \A j \in 1 .. (Len(list) + 1 - i) : b[j] = list[i + j - 1]
  <2>1. \A j \in i .. Len(list) : list[j] \in K
    BY <1>1, <1>2
  <2>2. /\ b \in Seq(K)
        /\ Len(b) = IF i <= Len(list) THEN Len(list) - i + 1 ELSE 0
        /\ \A j \in 1 .. (Len(list) - i + 1) : b[j] = list[i + j - 1]
    BY <1>1, <2>1, SubSeqProperties
  <2>3. QED
    BY <1>1, <2>2
<1>5. c \in Seq(K) /\ Len(c) = 1 /\ c[1] = e
  OBVIOUS
<1>6. InsertAt(list, i, e) = (a \o c) \o b
  BY DEF InsertAt
<1> HIDE DEF a, b, c
<1>7. /\ a \o c \in Seq(K) /\ Len(a \o c) = i
      /\ \A j \in 1 .. i : (a \o c)[j] = IF j <= i - 1 THEN a[j] ELSE c[j - (i - 1)]
  <2>1. /\ a \o c \in Seq(K) /\ Len(a \o c) = Len(a) + Len(c)
        /\ \A j \in 1 .. (Len(a) + Len(c)) : (a \o c)[j] = IF j <= Len(a) THEN a[j] ELSE c[j - Len(a)]
    BY <1>3, <1>5, ConcatProperties
  <2>2. Len(a) + Len(c) = i
    BY <1>1, <1>3, <1>5
  <2>3. QED
    BY <1>3, <2>1, <2>2
<1> DEFINE d == a \o c
<1> HIDE DEF d
<1>8. /\ d \in Seq(K) /\ Len(d) = i
      /\ \A j \in 1 .. i : d[j] = IF j < i THEN list[j] ELSE e
  BY <1>1, <1>3, <1>5, <1>7 DEF d
<1> DEFINE longer == d \o b
<1>9. /\ longer \in Seq(K) /\ Len(longer) = Len(list) + 1
      /\ \A j \in 1 .. Len(list) + 1 : longer[j] = IF j <= i THEN d[j] ELSE b[j - i]
  <2>1. /\ longer \in Seq(K) /\ Len(longer) = Len(d) + Len(b)
        /\ \A j \in 1 .. (Len(d) + Len(b)) : longer[j] = IF j <= Len(d) THEN d[j] ELSE b[j - Len(d)]
    BY <1>4, <1>8, ConcatProperties
  <2>2. Len(d) + Len(b) = Len(list) + 1
    BY <1>1, <1>4, <1>8
  <2>3. QED
    BY <1>8, <2>1, <2>2
<1> HIDE DEF longer
<1>10. ASSUME NEW j \in 1 .. Len(list) + 1
       PROVE  longer[j] = IF j < i THEN list[j] ELSE IF j = i THEN e ELSE list[j - 1]
  <2>1. CASE j <= i
    BY <1>1, <1>8, <1>9, <2>1
  <2>2. CASE j > i
    <3>1. j - i \in 1 .. (Len(list) + 1 - i) /\ i + (j - i) - 1 = j - 1
      BY <1>1, <2>2
    <3>2. b[j - i] = list[j - 1]
      BY <1>4, <3>1
    <3>3. QED
      BY <1>1, <1>9, <2>2, <3>2
  <2>3. QED
    BY <1>1, <2>1, <2>2
<1>11. QED
  BY <1>6, <1>9, <1>10 DEF d, longer

\* A name that is added, wherever, is behind the k-th place or moves one name
\* there; it moves none away.
LEMMA PastInsert ==
    ASSUME NEW K, NEW list \in Seq(K), IsInjective(list), NEW k \in Nat,
           NEW i \in 1 .. Len(list) + 1, NEW e \in K \ ToSet(list)
    PROVE  /\ InsertAt(list, i, e) \in Seq(K) /\ Len(InsertAt(list, i, e)) = Len(list) + 1
           /\ IsInjective(InsertAt(list, i, e))
           /\ ToSet(list) \subseteq ToSet(InsertAt(list, i, e))
           /\ Past(list, k) \subseteq Past(InsertAt(list, i, e), k)
           /\ \E x : Past(InsertAt(list, i, e), k) \subseteq Past(list, k) \union {x}
<1> DEFINE longer == InsertAt(list, i, e)
<1>1. /\ longer \in Seq(K) /\ Len(longer) = Len(list) + 1
      /\ \A j \in 1 .. Len(list) + 1 :
            longer[j] = IF j < i THEN list[j] ELSE IF j = i THEN e ELSE list[j - 1]
  BY Inserted
<1> HIDE DEF longer
<1>2. Len(list) \in Nat /\ i \in Nat /\ 1 <= i /\ i <= Len(list) + 1
  BY LenProperties
<1>3. DOMAIN list = 1 .. Len(list) /\ DOMAIN longer = 1 .. Len(list) + 1
  BY <1>1, LenProperties
<1>4. \A j \in 1 .. Len(list) : list[j] # e
  BY <1>3 DEF ToSet
\* Where an element of the list is found afterwards.
<1>5. ASSUME NEW j \in 1 .. Len(list)
      PROVE  \E m \in 1 .. Len(list) + 1 : m >= j /\ longer[m] = list[j]
  <2>1. CASE j < i
    BY <1>1, <1>2, <2>1
  <2>2. CASE j >= i
    <3>1. j + 1 \in 1 .. Len(list) + 1 /\ j + 1 > i /\ (j + 1) - 1 = j
      BY <1>2, <2>2
    <3>2. longer[j + 1] = list[j]
      BY <1>1, <1>2, <3>1
    <3>3. QED
      BY <1>2, <3>1, <3>2
  <2>3. QED
    BY <1>2, <2>1, <2>2
<1>6. IsInjective(longer)
  <2> SUFFICES ASSUME NEW j \in 1 .. Len(list) + 1, NEW m \in 1 .. Len(list) + 1,
                      j < m, longer[j] = longer[m]
               PROVE  FALSE
    BY <1>2, <1>3 DEF IsInjective
  <2>1. \A p, q \in 1 .. Len(list) : list[p] = list[q] => p = q
    BY <1>3 DEF IsInjective
  <2>2. CASE j = i
    <3>1. m - 1 \in 1 .. Len(list) /\ longer[m] = list[m - 1] /\ longer[j] = e
      BY <1>1, <1>2, <2>2
    <3>2. QED
      BY <1>4, <3>1
  <2>3. CASE m = i
    <3>1. j \in 1 .. Len(list) /\ longer[j] = list[j] /\ longer[m] = e
      BY <1>1, <1>2, <2>3
    <3>2. QED
      BY <1>4, <3>1
  <2>4. CASE j # i /\ m # i
    <3>1. longer[j] = IF j < i THEN list[j] ELSE list[j - 1]
      BY <1>1, <1>2, <2>4
    <3>2. longer[m] = IF m < i THEN list[m] ELSE list[m - 1]
      BY <1>1, <1>2, <2>4
    <3>3. CASE m < i
      <4>1. j \in 1 .. Len(list) /\ m \in 1 .. Len(list) /\ j # m /\ j < i
        BY <1>2, <3>3
      <4>2. longer[j] = list[j] /\ longer[m] = list[m]
        BY <3>1, <3>2, <3>3, <4>1
      <4>3. QED
        BY <2>1, <4>1, <4>2
    <3>4. CASE m > i /\ j < i
      <4>1. j \in 1 .. Len(list) /\ m - 1 \in 1 .. Len(list) /\ j # m - 1
        BY <1>2, <3>4
      <4>2. ~(m < i)
        BY <1>2, <3>4
      <4>3. longer[j] = list[j] /\ longer[m] = list[m - 1]
        BY <3>1, <3>2, <3>4, <4>2
      <4>4. QED
        BY <2>1, <4>1, <4>3
    <3>5. CASE m > i /\ j > i
      <4>1. j - 1 \in 1 .. Len(list) /\ m - 1 \in 1 .. Len(list) /\ j - 1 # m - 1
        BY <1>2, <3>5
      <4>2. ~(j < i) /\ ~(m < i)
        BY <1>2, <3>5
      <4>3. longer[j] = list[j - 1] /\ longer[m] = list[m - 1]
        BY <3>1, <3>2, <4>2
      <4>4. QED
        BY <2>1, <4>1, <4>3
    <3>6. QED
      BY <1>2, <2>4, <3>3, <3>4, <3>5
  <2>5. QED
    BY <2>2, <2>3, <2>4
<1>7. ToSet(list) \subseteq ToSet(longer)
  BY <1>3, <1>5 DEF ToSet
<1>8. Past(list, k) \subseteq Past(longer, k)
  <2> SUFFICES ASSUME NEW j \in 1 .. Len(list), j > k PROVE list[j] \in Past(longer, k)
    BY <1>3 DEF Past
  <2>1. PICK m \in 1 .. Len(list) + 1 : m >= j /\ longer[m] = list[j]
    BY <1>5
  <2>2. m > k
    BY <1>2, <2>1
  <2>3. QED
    BY <1>3, <2>1, <2>2 DEF Past
<1>9. \E x : Past(longer, k) \subseteq Past(list, k) \union {x}
  <2> DEFINE x == IF i > k THEN e ELSE list[k]
  <2>1. ASSUME NEW j \in 1 .. Len(list) + 1, j > k PROVE longer[j] \in Past(list, k) \union {x}
    <3>1. CASE j < i
      <4>1. j \in 1 .. Len(list) /\ longer[j] = list[j]
        BY <1>1, <1>2, <3>1
      <4>2. QED
        BY <1>3, <2>1, <4>1 DEF Past
    <3>2. CASE j = i
      BY <1>1, <1>2, <2>1, <3>2
    <3>3. CASE j > i /\ j - 1 > k
      <4>1. j - 1 \in 1 .. Len(list) /\ longer[j] = list[j - 1]
        BY <1>1, <1>2, <3>3
      <4>2. QED
        BY <1>3, <3>3, <4>1 DEF Past
    <3>4. CASE j > i /\ ~(j - 1 > k)
      <4>1. j - 1 = k /\ ~(i > k) /\ longer[j] = list[j - 1]
        BY <1>1, <1>2, <2>1, <3>4
      <4>2. QED
        BY <4>1
    <3>5. QED
      BY <1>2, <3>1, <3>2, <3>3, <3>4
  <2> HIDE DEF x
  <2>2. Past(longer, k) \subseteq Past(list, k) \union {x}
    BY <1>3, <2>1 DEF Past
  <2>3. QED
    BY <2>2
<1>10. QED
  BY <1>1, <1>6, <1>7, <1>8, <1>9 DEF longer

\* A name that is removed, wherever, takes with it one name from behind the k-th
\* place at most, besides itself; it brings none there.
LEMMA PastRemove ==
    ASSUME NEW K, NEW list \in Seq(K), IsInjective(list), NEW k \in Nat, NEW i \in 1 .. Len(list)
    PROVE  /\ RemoveAt(list, i) \in Seq(K) /\ Len(RemoveAt(list, i)) = Len(list) - 1
           /\ IsInjective(RemoveAt(list, i))
           /\ ToSet(list) \ {list[i]} \subseteq ToSet(RemoveAt(list, i))
           /\ Past(RemoveAt(list, i), k) \subseteq Past(list, k)
           /\ \E x : Past(list, k) \ {list[i]} \subseteq Past(RemoveAt(list, i), k) \union {x}
<1> DEFINE shorter == RemoveAt(list, i)
<1>1. /\ shorter \in Seq(K) /\ Len(shorter) = Len(list) - 1
      /\ \A j \in 1 .. (Len(list) - 1) : shorter[j] = list[IF j < i THEN j ELSE j + 1]
  BY RemoveAtProperties
<1> HIDE DEF shorter
<1>2. Len(list) \in Nat /\ i \in Nat /\ 1 <= i /\ i <= Len(list)
  BY LenProperties
<1>3. DOMAIN list = 1 .. Len(list) /\ DOMAIN shorter = 1 .. (Len(list) - 1)
  BY <1>1, LenProperties
<1>4. \A p, q \in 1 .. Len(list) : list[p] = list[q] => p = q
  BY <1>3 DEF IsInjective
\* Where another element of the list is found afterwards.
<1>5. ASSUME NEW j \in 1 .. Len(list), j # i
      PROVE  \E m \in 1 .. (Len(list) - 1) : m >= j - 1 /\ shorter[m] = list[j]
  <2>1. CASE j < i
    <3>1. j \in 1 .. (Len(list) - 1) /\ j >= j - 1
      BY <1>2, <2>1
    <3>2. QED
      BY <1>1, <2>1, <3>1
  <2>2. CASE j > i
    <3>1. j - 1 \in 1 .. (Len(list) - 1) /\ ~(j - 1 < i) /\ (j - 1) + 1 = j /\ j - 1 >= j - 1
      BY <1>2, <2>2
    <3>2. shorter[j - 1] = list[j]
      BY <1>1, <3>1
    <3>3. QED
      BY <3>1, <3>2
  <2>3. QED
    BY <1>2, <1>5, <2>1, <2>2
<1>6. IsInjective(shorter)
  <2> SUFFICES ASSUME NEW j \in 1 .. (Len(list) - 1), NEW m \in 1 .. (Len(list) - 1),
                      j < m, shorter[j] = shorter[m]
               PROVE  FALSE
    BY <1>2, <1>3 DEF IsInjective
  <2> DEFINE p == IF j < i THEN j ELSE j + 1
             q == IF m < i THEN m ELSE m + 1
  <2>1. p \in 1 .. Len(list) /\ q \in 1 .. Len(list) /\ p # q
    BY <1>2
  <2>2. shorter[j] = list[p] /\ shorter[m] = list[q]
    BY <1>1
  <2> HIDE DEF p, q
  <2>3. QED
    BY <1>4, <2>1, <2>2
<1>7. ToSet(list) \ {list[i]} \subseteq ToSet(shorter)
  <2> SUFFICES ASSUME NEW j \in 1 .. Len(list), list[j] # list[i] PROVE list[j] \in ToSet(shorter)
    BY <1>3 DEF ToSet
  <2>1. j # i
    OBVIOUS
  <2>2. QED
    BY <1>3, <1>5, <2>1 DEF ToSet
<1>8. Past(shorter, k) \subseteq Past(list, k)
  <2> SUFFICES ASSUME NEW j \in 1 .. (Len(list) - 1), j > k PROVE shorter[j] \in Past(list, k)
    BY <1>3 DEF Past
  <2> DEFINE p == IF j < i THEN j ELSE j + 1
  <2>1. p \in 1 .. Len(list) /\ p > k
    BY <1>2
  <2>2. shorter[j] = list[p]
    BY <1>1
  <2> HIDE DEF p
  <2>3. QED
    BY <1>3, <2>1, <2>2 DEF Past
<1>9. \E x : Past(list, k) \ {list[i]} \subseteq Past(shorter, k) \union {x}
  <2> DEFINE x == list[k + 1]
  <2>1. ASSUME NEW j \in 1 .. Len(list), j > k, list[j] # list[i]
        PROVE  list[j] \in Past(shorter, k) \union {x}
    <3>1. PICK m \in 1 .. (Len(list) - 1) : m >= j - 1 /\ shorter[m] = list[j]
      BY <1>5, <2>1
    <3>2. CASE j = k + 1
      BY <3>2
    <3>3. CASE j > k + 1
      <4>1. m > k
        BY <1>2, <3>1, <3>3
      <4>2. QED
        BY <1>3, <3>1, <4>1 DEF Past
    <3>4. QED
      BY <1>2, <2>1, <3>2, <3>3
  <2> HIDE DEF x
  <2>2. Past(list, k) \ {list[i]} \subseteq Past(shorter, k) \union {x}
    BY <1>3, <2>1 DEF Past
  <2>3. QED
    BY <2>2
<1>10. QED
  BY <1>1, <1>6, <1>7, <1>8, <1>9 DEF shorter

\* What is behind the k-th place of a list without repetitions.
LEMMA PastProperties ==
    ASSUME NEW K, NEW list \in Seq(K), NEW k \in Nat
    PROVE  /\ IsFiniteSet(ToSet(list)) /\ ToSet(list) \subseteq K
           /\ Past(list, k) \subseteq ToSet(list) /\ ToSet(list) \subseteq Past(list, 0)
           /\ IsFiniteSet(Past(list, k))
           /\ Cardinality(Past(list, k)) <= IF k < Len(list) THEN Len(list) - k ELSE 0
           /\ k >= Len(list) => Past(list, k) = {}
           /\ IsInjective(list) /\ k < Len(list) =>
                 /\ list[k + 1] \in Past(list, k)
                 /\ Past(list, k + 1) = Past(list, k) \ {list[k + 1]}
<1>1. Len(list) \in Nat /\ DOMAIN list = 1 .. Len(list) /\ \A j \in 1 .. Len(list) : list[j] \in K
  BY LenProperties, ElementOfSeq
<1>2. /\ Past(list, k) \subseteq ToSet(list) /\ ToSet(list) \subseteq Past(list, 0)
      /\ ToSet(list) \subseteq K
  BY <1>1 DEF Past, ToSet
<1>3. ASSUME NEW n \in Nat
      PROVE  /\ IsFiniteSet(Past(list, n))
             /\ Cardinality(Past(list, n)) <= IF n < Len(list) THEN Len(list) - n ELSE 0
  <2> DEFINE D == (n + 1) .. Len(list)
             f == [j \in D |-> list[j]]
  <2>1. Past(list, n) = {list[j] : j \in D}
    <3>1. {j \in DOMAIN list : j > n} = D
      BY <1>1
    <3>2. QED
      BY <3>1 DEF Past
  <2>2. f \in Surjection(D, Past(list, n))
    BY <2>1 DEF Surjection
  <2>3. IsFiniteSet(D) /\ Cardinality(D) = IF n < Len(list) THEN Len(list) - n ELSE 0
    <3>1. n + 1 \in Int /\ Len(list) \in Int
      BY <1>1
    <3>2. IsFiniteSet(D) /\ Cardinality(D) = IF n + 1 > Len(list) THEN 0 ELSE Len(list) - (n + 1) + 1
      BY <3>1, FS_Interval
    <3>3. QED
      BY <1>1, <3>2
  <2> HIDE DEF D, f
  <2>4. IsFiniteSet(Past(list, n)) /\ Cardinality(Past(list, n)) <= Cardinality(D)
    BY <2>2, <2>3, FS_Surjection
  <2>5. QED
    BY <2>3, <2>4
<1>4. IsFiniteSet(ToSet(list))
  <2>1. IsFiniteSet(Past(list, 0))
    BY <1>3
  <2>2. QED
    BY <1>2, <2>1, FS_Subset
<1>5. k >= Len(list) => Past(list, k) = {}
  BY <1>1 DEF Past
<1>6. ASSUME IsInjective(list), k < Len(list)
      PROVE  list[k + 1] \in Past(list, k) /\ Past(list, k + 1) = Past(list, k) \ {list[k + 1]}
  <2>1. k + 1 \in 1 .. Len(list) /\ k + 1 > k
    BY <1>1, <1>6
  <2>2. \A j \in 1 .. Len(list) : list[j] = list[k + 1] => j = k + 1
    BY <1>1, <1>6, <2>1 DEF IsInjective
  <2>3. \A j \in 1 .. Len(list) : j > k + 1 <=> j > k /\ j # k + 1
    BY <1>1
  <2>4. QED
    BY <1>1, <2>1, <2>2, <2>3 DEF Past
<1>7. QED
  BY <1>2, <1>3, <1>4, <1>5, <1>6

\* One element more or less.
LEMMA OneMore ==
    ASSUME NEW S, IsFiniteSet(S), NEW x, NEW T, T \subseteq S \union {x}
    PROVE  IsFiniteSet(T) /\ Cardinality(T) <= Cardinality(S) + 1
<1>1. IsFiniteSet(S \union {x}) /\ Cardinality(S \union {x}) <= Cardinality(S) + 1
  <2>1. Cardinality(S) \in Nat
    BY FS_CardinalityType
  <2>2. IsFiniteSet(S \union {x}) /\ Cardinality(S \union {x}) =
            IF x \in S THEN Cardinality(S) ELSE Cardinality(S) + 1
    BY FS_AddElement
  <2>3. QED
    BY <2>1, <2>2
<1>2. IsFiniteSet(T) /\ Cardinality(T) <= Cardinality(S \union {x})
  BY <1>1, FS_Subset
<1>3. Cardinality(S) \in Nat /\ Cardinality(T) \in Nat /\ Cardinality(S \union {x}) \in Nat
  BY <1>1, <1>2, FS_CardinalityType
<1>4. QED
  BY <1>1, <1>2, <1>3

LEMMA OneLess ==
    ASSUME NEW S, IsFiniteSet(S), NEW x \in S, NEW T, T \subseteq S \ {x}
    PROVE  IsFiniteSet(T) /\ Cardinality(T) <= Cardinality(S) - 1
<1>1. IsFiniteSet(S \ {x}) /\ Cardinality(S \ {x}) = Cardinality(S) - 1
  BY FS_RemoveElement
<1>2. QED
  BY <1>1, FS_Subset

\* One element more at the end of a list.
LEMMA OneAppended ==
    ASSUME NEW K, NEW list \in Seq(K), NEW e \in K
    PROVE  /\ Append(list, e) \in Seq(K) /\ Len(Append(list, e)) = Len(list) + 1
           /\ ToSet(Append(list, e)) = ToSet(list) \union {e}
           /\ \A x : {i \in DOMAIN Append(list, e) : Append(list, e)[i] = x} =
                     {i \in DOMAIN list : list[i] = x} \union (IF e = x THEN {Len(list) + 1} ELSE {})
<1> DEFINE longer == Append(list, e)
<1>1. /\ longer \in Seq(K) /\ Len(longer) = Len(list) + 1 /\ longer[Len(list) + 1] = e
      /\ \A j \in 1 .. Len(list) : longer[j] = list[j]
  BY AppendProperties
<1>2. Len(list) \in Nat /\ DOMAIN list = 1 .. Len(list) /\ DOMAIN longer = 1 .. Len(list) + 1
  BY <1>1, LenProperties
<1> HIDE DEF longer
<1>3. DOMAIN longer = DOMAIN list \union {Len(list) + 1} /\ Len(list) + 1 \notin DOMAIN list
  BY <1>2
<1>4. ToSet(longer) = ToSet(list) \union {e}
  BY <1>1, <1>2, <1>3 DEF ToSet
<1>5. ASSUME NEW x
      PROVE  {i \in DOMAIN longer : longer[i] = x} =
             {i \in DOMAIN list : list[i] = x} \union (IF e = x THEN {Len(list) + 1} ELSE {})
  BY <1>1, <1>2, <1>3
<1>6. QED
  BY <1>1, <1>4, <1>5 DEF longer

\* The sets that ListingInv counts are finite.
LEMMA CountsAreFinite ==
    ASSUME ListingInv
    PROVE  /\ IsFiniteSet(Ahead) /\ Cardinality(Ahead) \in Nat /\ Ahead \subseteq ToSet(names)
           /\ ToSet(names) \subseteq KeyNames
           /\ IsFiniteSet(Missed) /\ Cardinality(Missed) \in Nat
           /\ IsFiniteSet(Spoilt) /\ Cardinality(Spoilt) \in Nat
           /\ IsFiniteSet(ToSet(got)) /\ Cardinality(ToSet(got)) \in Nat
           /\ \A name : IsFiniteSet(Positions(name)) /\ Cardinality(Positions(name)) \in Nat
           /\ Len(names) \in Nat /\ Len(got) \in Nat /\ Beyond \in Nat
<1>1. /\ names \in Seq(KeyNames) /\ got \in Seq(KeyNames \union {Blank})
      /\ lasting \subseteq ToSet(names) /\ removed \in Nat /\ info.count \in Nat
  BY DEF ListingInv
<1>2. Len(names) \in Nat /\ Len(got) \in Nat /\ DOMAIN got = 1 .. Len(got)
  BY <1>1, LenProperties
<1>3. \A K : \A list \in Seq(K), k \in Nat :
          /\ IsFiniteSet(ToSet(list)) /\ ToSet(list) \subseteq K
          /\ Past(list, k) \subseteq ToSet(list)
  BY PastProperties
<1>4. /\ IsFiniteSet(ToSet(names)) /\ IsFiniteSet(ToSet(got)) /\ Ahead \subseteq ToSet(names)
      /\ ToSet(names) \subseteq KeyNames
  BY <1>1, <1>2, <1>3 DEF Ahead
<1>5. Missed \subseteq ToSet(names) /\ Spoilt \subseteq ToSet(names)
  BY <1>1, <1>4 DEF Missed, Spoilt
<1>6. IsFiniteSet(Ahead) /\ IsFiniteSet(Missed) /\ IsFiniteSet(Spoilt)
  BY <1>4, <1>5, FS_Subset
<1>7. ASSUME NEW name PROVE IsFiniteSet(Positions(name))
  <2>1. IsFiniteSet(1 .. Len(got))
    <3>1. 1 \in Int /\ Len(got) \in Int
      BY <1>2
    <3>2. QED
      BY <3>1, FS_Interval
  <2>2. Positions(name) \subseteq 1 .. Len(got)
    BY <1>2 DEF Positions
  <2>3. QED
    BY <2>1, <2>2, FS_Subset
<1>8. Beyond \in Nat
  BY <1>1, <1>2 DEF Beyond
<1>9. QED
  BY <1>2, <1>4, <1>6, <1>7, <1>8, FS_CardinalityType

\* Another program adds a name.
LEMMA NameAdded == ListingInv /\ AddName => ListingInv'
<1> SUFFICES ASSUME ListingInv, AddName PROVE ListingInv'
  OBVIOUS
<1>1. /\ doing \in {"info", "names"} /\ key # NoHandle /\ added' = added + 1
      /\ UNCHANGED <<doing, key, info, got, removed, lasting>>
  BY DEF AddName, callVars
<1>2. PICK e \in KeyNames \ ToSet(names), i \in 1 .. Len(names) + 1 : names' = InsertAt(names, i, e)
  BY DEF AddName
<1>3. /\ added \in Nat /\ removed \in Nat /\ names \in Seq(KeyNames) /\ IsInjective(names)
      /\ got \in Seq(KeyNames \union {Blank}) /\ lasting \subseteq ToSet(names)
      /\ info.count \in Nat /\ info.long \in BOOLEAN
  BY DEF ListingInv
<1>4. Len(got) \in Nat /\ Len(names) \in Nat
  BY CountsAreFinite
<1>5. /\ names' \in Seq(KeyNames) /\ Len(names') = Len(names) + 1 /\ IsInjective(names')
      /\ ToSet(names) \subseteq ToSet(names')
      /\ Past(names, Len(got)) \subseteq Past(names', Len(got))
      /\ \E x : Past(names', Len(got)) \subseteq Past(names, Len(got)) \union {x}
  <2>1. \A list \in Seq(KeyNames), k \in Nat : IsInjective(list) =>
            \A j \in 1 .. Len(list) + 1, n \in KeyNames \ ToSet(list) :
                /\ InsertAt(list, j, n) \in Seq(KeyNames) /\ Len(InsertAt(list, j, n)) = Len(list) + 1
                /\ IsInjective(InsertAt(list, j, n))
                /\ ToSet(list) \subseteq ToSet(InsertAt(list, j, n))
                /\ Past(list, k) \subseteq Past(InsertAt(list, j, n), k)
                /\ \E x : Past(InsertAt(list, j, n), k) \subseteq Past(list, k) \union {x}
    BY PastInsert
  <2>2. QED
    BY <1>2, <1>3, <1>4, <2>1
<1>6. lasting' \subseteq ToSet(names')
  BY <1>1, <1>3, <1>5
<1>7. ASSUME doing = "names" PROVE Counted'
  <2>0. Counted
    BY <1>7 DEF ListingInv, Counted
  <2>1. Ahead \subseteq Ahead' /\ \E x : Ahead' \subseteq Ahead \union {x}
    BY <1>1, <1>5 DEF Ahead
  <2>2. Missed' \subseteq Missed
    BY <1>1, <2>1 DEF Missed
  <2>3. Cardinality(Missed') <= Cardinality(Missed) /\ Cardinality(Missed') \in Nat
    BY <2>2, CountsAreFinite, FS_Subset, FS_CardinalityType
  <2>4. PICK x : Ahead' \subseteq Ahead \union {x}
    BY <2>1
  <2>5. Spoilt' \subseteq Spoilt \union {x}
    BY <1>1, <2>4 DEF Spoilt
  <2>6. Cardinality(Spoilt') <= Cardinality(Spoilt) + 1 /\ Cardinality(Spoilt') \in Nat
    BY <2>5, CountsAreFinite, OneMore, FS_CardinalityType
  <2>7. Beyond' = Beyond
    BY <1>1 DEF Beyond
  <2>8. \A name : Positions(name)' = Positions(name)
    BY <1>1 DEF Positions
  <2>9. \A name \in lasting' : Cardinality(Positions(name)') <= IF name \in Ahead' THEN added' ELSE 1 + added'
    <3> SUFFICES ASSUME NEW name \in lasting'
                 PROVE  Cardinality(Positions(name)) <= IF name \in Ahead' THEN added' ELSE 1 + added'
      BY <2>8
    <3>1. Cardinality(Positions(name)) <= IF name \in Ahead THEN added ELSE 1 + added
      BY <1>1, <2>0 DEF Counted
    <3>2. Cardinality(Positions(name)) \in Nat
      BY CountsAreFinite
    <3>3. QED
      BY <1>1, <1>3, <2>1, <3>1, <3>2
  <2>10. /\ Len(names') <= info'.count + added' /\ info'.count <= Len(names') + removed'
    BY <1>1, <1>3, <1>4, <1>5, <2>0 DEF Counted
  <2>11. /\ Len(got') - Cardinality(ToSet(got')) + Cardinality(Spoilt') <= added' + Beyond'
         /\ Cardinality(Positions(Blank)') + Cardinality(Spoilt') <= added' + Beyond'
    <3>1. /\ Cardinality(ToSet(got)) \in Nat /\ Cardinality(Positions(Blank)) \in Nat
          /\ Beyond \in Nat /\ Cardinality(Spoilt) \in Nat
      BY CountsAreFinite
    <3>2. /\ Len(got) - Cardinality(ToSet(got)) + Cardinality(Spoilt) <= added + Beyond
          /\ Cardinality(Positions(Blank)) + Cardinality(Spoilt) <= added + Beyond
      BY <1>1, <2>0 DEF Counted
    <3>3. got' = got /\ Positions(Blank)' = Positions(Blank)
      BY <1>1, <2>8
    <3>4. QED
      BY <1>1, <1>3, <1>4, <2>6, <2>7, <3>1, <3>2, <3>3
  <2>12. Len(got') <= info'.count /\ (lasting' \intersect LongNames # {} => info'.long)
    BY <1>1, <2>0 DEF Counted
  <2>13. Cardinality(Missed') <= removed'
    BY <1>1, <1>3, <2>0, <2>3, CountsAreFinite DEF Counted
  <2>14. QED
    BY <2>9, <2>10, <2>11, <2>12, <2>13 DEF Counted
<1>8. QED
  BY <1>1, <1>3, <1>5, <1>6, <1>7 DEF ListingInv, Counted

\* Another program removes a name.
LEMMA NameRemoved == ListingInv /\ RemoveName => ListingInv'
<1> SUFFICES ASSUME ListingInv, RemoveName PROVE ListingInv'
  OBVIOUS
<1>1. /\ doing \in {"info", "names"} /\ key # NoHandle /\ removed' = removed + 1
      /\ UNCHANGED <<doing, key, info, got, added>>
  BY DEF RemoveName, callVars
<1>2. /\ added \in Nat /\ removed \in Nat /\ names \in Seq(KeyNames) /\ IsInjective(names)
      /\ got \in Seq(KeyNames \union {Blank}) /\ lasting \subseteq ToSet(names)
      /\ info.count \in Nat /\ info.long \in BOOLEAN
  BY DEF ListingInv
<1>3. Len(got) \in Nat /\ Len(names) \in Nat /\ DOMAIN names = 1 .. Len(names)
  BY <1>2, LenProperties
<1>4. PICK i \in 1 .. Len(names) : names' = RemoveAt(names, i) /\ lasting' = lasting \ {names[i]}
  BY <1>3 DEF RemoveName
<1>5. /\ names' \in Seq(KeyNames) /\ Len(names') = Len(names) - 1 /\ IsInjective(names')
      /\ ToSet(names) \ {names[i]} \subseteq ToSet(names')
      /\ Past(names', Len(got)) \subseteq Past(names, Len(got))
      /\ \E x : Past(names, Len(got)) \ {names[i]} \subseteq Past(names', Len(got)) \union {x}
  <2>1. \A list \in Seq(KeyNames), k \in Nat : IsInjective(list) =>
            \A j \in 1 .. Len(list) :
                /\ RemoveAt(list, j) \in Seq(KeyNames) /\ Len(RemoveAt(list, j)) = Len(list) - 1
                /\ IsInjective(RemoveAt(list, j))
                /\ ToSet(list) \ {list[j]} \subseteq ToSet(RemoveAt(list, j))
                /\ Past(RemoveAt(list, j), k) \subseteq Past(list, k)
                /\ \E x : Past(list, k) \ {list[j]} \subseteq Past(RemoveAt(list, j), k) \union {x}
    BY PastRemove
  <2>2. QED
    BY <1>4, <1>2, <1>3, <2>1
<1>6. lasting' \subseteq ToSet(names')
  BY <1>4, <1>2, <1>5
<1>7. ASSUME doing = "names" PROVE Counted'
  <2>0. Counted
    BY <1>7 DEF ListingInv, Counted
  <2>1. Ahead' \subseteq Ahead /\ \E x : Ahead \ {names[i]} \subseteq Ahead' \union {x}
    BY <1>1, <1>5 DEF Ahead
  <2>2. PICK x : Ahead \ {names[i]} \subseteq Ahead' \union {x}
    BY <2>1
  <2>3. Missed' \subseteq Missed \union {x}
    BY <1>1, <1>4, <2>2 DEF Missed
  <2>4. Cardinality(Missed') <= Cardinality(Missed) + 1 /\ Cardinality(Missed') \in Nat
    BY <2>3, CountsAreFinite, OneMore, FS_CardinalityType
  <2>5. Spoilt' \subseteq Spoilt
    BY <1>1, <2>1 DEF Spoilt
  <2>6. Cardinality(Spoilt') <= Cardinality(Spoilt) /\ Cardinality(Spoilt') \in Nat
    BY <2>5, CountsAreFinite, FS_Subset, FS_CardinalityType
  <2>7. Beyond' \in Nat /\ Beyond \in Nat /\ Beyond <= Beyond'
    BY <1>1, <1>2, <1>3 DEF Beyond
  <2>8. \A name : Positions(name)' = Positions(name)
    BY <1>1 DEF Positions
  <2>9. \A name \in lasting' : Cardinality(Positions(name)') <= IF name \in Ahead' THEN added' ELSE 1 + added'
    <3> SUFFICES ASSUME NEW name \in lasting'
                 PROVE  Cardinality(Positions(name)) <= IF name \in Ahead' THEN added' ELSE 1 + added'
      BY <2>8
    <3>1. Cardinality(Positions(name)) <= IF name \in Ahead THEN added ELSE 1 + added
      BY <1>4, <2>0 DEF Counted
    <3>2. Cardinality(Positions(name)) \in Nat
      BY CountsAreFinite
    <3>3. QED
      BY <1>1, <1>2, <2>1, <3>1, <3>2
  <2>10. /\ Len(names') <= info'.count + added' /\ info'.count <= Len(names') + removed'
    BY <1>1, <1>2, <1>3, <1>5, <2>0 DEF Counted
  <2>11. /\ Len(got') - Cardinality(ToSet(got')) + Cardinality(Spoilt') <= added' + Beyond'
         /\ Cardinality(Positions(Blank)') + Cardinality(Spoilt') <= added' + Beyond'
    <3>1. /\ Cardinality(ToSet(got)) \in Nat /\ Cardinality(Positions(Blank)) \in Nat
          /\ Cardinality(Spoilt) \in Nat
      BY CountsAreFinite
    <3>2. /\ Len(got) - Cardinality(ToSet(got)) + Cardinality(Spoilt) <= added + Beyond
          /\ Cardinality(Positions(Blank)) + Cardinality(Spoilt) <= added + Beyond
      BY <1>1, <2>0 DEF Counted
    <3>3. got' = got /\ Positions(Blank)' = Positions(Blank)
      BY <1>1, <2>8
    <3>4. QED
      BY <1>1, <1>2, <1>3, <2>6, <2>7, <3>1, <3>2, <3>3
  <2>12. Len(got') <= info'.count /\ (lasting' \intersect LongNames # {} => info'.long)
    BY <1>1, <1>4, <2>0 DEF Counted
  <2>13. Cardinality(Missed') <= removed'
    BY <1>1, <1>2, <2>0, <2>4, CountsAreFinite DEF Counted
  <2>14. QED
    BY <2>9, <2>10, <2>11, <2>12, <2>13 DEF Counted
<1>8. QED
  BY <1>1, <1>2, <1>5, <1>6, <1>7 DEF ListingInv, Counted

\* A name is read, or what is left of one.
LEMMA NameRead == ListingInv /\ EnumName => ListingInv'
<1> SUFFICES ASSUME ListingInv, EnumName PROVE ListingInv'
  OBVIOUS
<1> DEFINE g == Len(got)
           v == NameAt(g + 1)
<1>1. /\ doing = "names" /\ Len(got) < info.count /\ got' = Append(got, v)
      /\ UNCHANGED <<doing, key, info, names, added, removed, lasting>>
  BY DEF EnumName, othersVars
<1>2. /\ added \in Nat /\ removed \in Nat /\ names \in Seq(KeyNames) /\ IsInjective(names)
      /\ got \in Seq(KeyNames \union {Blank}) /\ lasting \subseteq ToSet(names)
      /\ info.count \in Nat /\ info.long \in BOOLEAN
  BY DEF ListingInv
<1>3. Counted
  BY <1>1 DEF ListingInv, Counted
<1>4. /\ g \in Nat /\ Len(names) \in Nat /\ ToSet(names) \subseteq KeyNames /\ Beyond \in Nat
      /\ Ahead \subseteq ToSet(names) /\ lasting \subseteq KeyNames
  BY <1>2, CountsAreFinite
<1>5. Blank \notin KeyNames
  BY RegistryAssumption DEF RegistryAssumption, Blank
<1>6. /\ g + 1 \in 1 .. Len(names) => names[g + 1] \in KeyNames
      /\ g < Len(names) <=> g + 1 \in 1 .. Len(names)
  BY <1>2, <1>4, ElementOfSeq
<1>7. v \in KeyNames \union {Blank} /\ (g >= Len(names) => v = Blank)
  BY <1>4, <1>6 DEF NameAt
<1> HIDE DEF v
\* The array has one element more.
<1>8. /\ got' \in Seq(KeyNames \union {Blank}) /\ Len(got') = g + 1
      /\ ToSet(got') = ToSet(got) \union {v}
      /\ \A x : Positions(x)' = Positions(x) \union (IF v = x THEN {g + 1} ELSE {})
  <2>1. \A K : \A list \in Seq(K), e \in K :
            /\ Append(list, e) \in Seq(K) /\ Len(Append(list, e)) = Len(list) + 1
            /\ ToSet(Append(list, e)) = ToSet(list) \union {e}
            /\ \A x : {i \in DOMAIN Append(list, e) : Append(list, e)[i] = x} =
                      {i \in DOMAIN list : list[i] = x} \union (IF e = x THEN {Len(list) + 1} ELSE {})
    BY OneAppended
  <2>2. /\ got' \in Seq(KeyNames \union {Blank}) /\ Len(got') = g + 1
        /\ ToSet(got') = ToSet(got) \union {v}
        /\ \A x : {i \in DOMAIN got' : got'[i] = x} =
                  {i \in DOMAIN got : got[i] = x} \union (IF v = x THEN {g + 1} ELSE {})
    BY <1>1, <1>2, <1>7, <2>1
  <2>3. QED
    BY <2>2 DEF Positions
<1>9. /\ IsFiniteSet(ToSet(got)) /\ Cardinality(ToSet(got)) \in Nat
      /\ Cardinality(Missed) \in Nat /\ Cardinality(Spoilt) \in Nat /\ IsFiniteSet(Spoilt)
      /\ \A x : IsFiniteSet(Positions(x)) /\ Cardinality(Positions(x)) \in Nat
  BY CountsAreFinite
<1>10. Cardinality(ToSet(got')) = IF v \in ToSet(got) THEN Cardinality(ToSet(got)) ELSE Cardinality(ToSet(got)) + 1
  BY <1>8, <1>9, FS_AddElement
<1>11. \A x : /\ v = x => Cardinality(Positions(x)') <= Cardinality(Positions(x)) + 1
              /\ v # x => Positions(x)' = Positions(x)
              /\ Cardinality(Positions(x)') \in Nat
  <2> SUFFICES ASSUME NEW x
               PROVE  /\ v = x => Cardinality(Positions(x)') <= Cardinality(Positions(x)) + 1
                      /\ v # x => Positions(x)' = Positions(x)
                      /\ Cardinality(Positions(x)') \in Nat
    OBVIOUS
  <2>1. Positions(x)' \subseteq Positions(x) \union {g + 1}
    BY <1>8
  <2>2. IsFiniteSet(Positions(x)') /\ Cardinality(Positions(x)') <= Cardinality(Positions(x)) + 1
    BY <1>9, <2>1, OneMore
  <2>3. v # x => Positions(x)' = Positions(x)
    BY <1>8
  <2>4. QED
    BY <2>2, <2>3, FS_CardinalityType
<1>12. /\ Beyond' \in Nat /\ Beyond <= Beyond'
       /\ g >= info.count - removed => Beyond' = Beyond + 1
  BY <1>1, <1>2, <1>4, <1>8 DEF Beyond
\* What is ahead of it.
<1>13. /\ g < Len(names) => names[g + 1] \in Ahead /\ Ahead' = Ahead \ {names[g + 1]}
       /\ g >= Len(names) => Ahead = {} /\ Ahead' = {}
  <2>1. \A list \in Seq(KeyNames), k \in Nat :
            /\ k >= Len(list) => Past(list, k) = {}
            /\ IsInjective(list) /\ k < Len(list) =>
                  /\ list[k + 1] \in Past(list, k)
                  /\ Past(list, k + 1) = Past(list, k) \ {list[k + 1]}
    BY PastProperties
  <2>2. Ahead = Past(names, g) /\ Ahead' = Past(names, g + 1)
    BY <1>1, <1>8 DEF Ahead
  <2>3. g + 1 \in Nat /\ (g >= Len(names) => g + 1 >= Len(names))
    BY <1>4
  <2>4. QED
    BY <1>2, <1>4, <2>1, <2>2, <2>3
\* A name that has been there all the time can be read when it is reached.
<1>14. g < Len(names) /\ names[g + 1] \in lasting => v = names[g + 1]
  BY <1>3, <1>4, <1>6 DEF v, NameAt, Counted
<1>15. g < Len(names) => v \in {names[g + 1], Blank}
  BY <1>4, <1>6 DEF v, NameAt
<1>16. Cardinality(Missed') <= removed'
  <2>1. Missed' \subseteq Missed
    <3> SUFFICES ASSUME NEW name \in lasting, name \notin Ahead', name \notin ToSet(got) \union {v}
                 PROVE  name \notin Ahead
      BY <1>1, <1>8 DEF Missed
    <3>1. QED
      BY <1>4, <1>13, <1>14
  <2>2. Cardinality(Missed') <= Cardinality(Missed) /\ Cardinality(Missed') \in Nat
    BY <2>1, CountsAreFinite, FS_Subset, FS_CardinalityType
  <2>3. QED
    BY <1>1, <1>2, <1>3, <1>9, <2>2 DEF Counted
<1>17. ASSUME NEW name \in lasting'
       PROVE  Cardinality(Positions(name)') <= IF name \in Ahead' THEN added' ELSE 1 + added'
  <2>1. name \in lasting /\ name \in KeyNames /\ name # Blank
    BY <1>1, <1>4, <1>5
  <2>2. Cardinality(Positions(name)) <= IF name \in Ahead THEN added ELSE 1 + added
    BY <1>3, <2>1 DEF Counted
  <2>3. CASE v = name
    <3>1. g < Len(names) /\ name = names[g + 1]
      BY <1>4, <1>7, <1>15, <2>1, <2>3
    <3>2. name \in Ahead /\ name \notin Ahead'
      BY <1>13, <3>1
    <3>3. Cardinality(Positions(name)') <= Cardinality(Positions(name)) + 1
      BY <1>11, <2>3
    <3>4. QED
      BY <1>1, <1>2, <1>9, <1>11, <2>2, <3>2, <3>3
  <2>4. CASE v # name
    <3>1. Positions(name)' = Positions(name)
      BY <1>11, <2>4
    <3>2. name \in Ahead' <=> name \in Ahead
      BY <1>4, <1>13, <1>14, <2>1, <2>4
    <3>3. QED
      BY <1>1, <2>2, <3>1, <3>2
  <2>5. QED
    BY <2>3, <2>4
<1>18. ASSUME key # NoHandle
       PROVE  /\ Len(got') - Cardinality(ToSet(got')) + Cardinality(Spoilt') <= added' + Beyond'
              /\ Cardinality(Positions(Blank)') + Cardinality(Spoilt') <= added' + Beyond'
  <2>1. /\ g - Cardinality(ToSet(got)) + Cardinality(Spoilt) <= added + Beyond
        /\ Cardinality(Positions(Blank)) + Cardinality(Spoilt) <= added + Beyond
        /\ info.count <= Len(names) + removed
    BY <1>3, <1>18 DEF Counted
  <2>2. /\ Cardinality(Positions(Blank)) \in Nat /\ Cardinality(Positions(Blank)') \in Nat
        /\ Cardinality(Positions(Blank)') <= Cardinality(Positions(Blank)) + 1
        /\ v # Blank => Cardinality(Positions(Blank)') = Cardinality(Positions(Blank))
    <3>1. v # Blank => Positions(Blank)' = Positions(Blank)
      BY <1>11
    <3>2. v = Blank => Cardinality(Positions(Blank)') <= Cardinality(Positions(Blank)) + 1
      BY <1>11
    <3>3. Cardinality(Positions(Blank)) \in Nat /\ Cardinality(Positions(Blank)') \in Nat
      BY <1>9, <1>11
    <3>4. QED
      BY <3>1, <3>2, <3>3
  <2>3. CASE g >= Len(names)
    <3>1. Spoilt = {} /\ Spoilt' = {}
      BY <1>13, <2>3 DEF Spoilt
    <3>2. Cardinality(Spoilt) = 0 /\ Cardinality(Spoilt') = 0
      BY <3>1, FS_EmptySet
    <3>3. Beyond' = Beyond + 1
      BY <1>2, <1>4, <1>12, <2>1, <2>3
    <3>4. QED
      BY <1>1, <1>2, <1>4, <1>8, <1>9, <1>10, <2>1, <2>2, <3>2, <3>3
  <2>4. CASE g < Len(names) /\ names[g + 1] \in Spoilt
    <3>1. Spoilt' \subseteq Spoilt \ {names[g + 1]}
      <4> SUFFICES ASSUME NEW name \in Ahead', name \in ToSet(got) \union {v} \/ (name \in LongNames /\ ~info.long)
                   PROVE  name \in Spoilt /\ name # names[g + 1]
        BY <1>1, <1>8 DEF Spoilt
      <4>1. name \in Ahead /\ name # names[g + 1]
        BY <1>13, <2>4
      <4>2. name # v
        BY <1>4, <1>5, <1>15, <2>4, <4>1
      <4>3. QED
        BY <4>1, <4>2 DEF Spoilt
    <3>2. Cardinality(Spoilt') <= Cardinality(Spoilt) - 1 /\ Cardinality(Spoilt') \in Nat
      <4>1. \A S : IsFiniteSet(S) => \A x \in S : \A T : T \subseteq S \ {x} =>
                      IsFiniteSet(T) /\ Cardinality(T) <= Cardinality(S) - 1
        BY OneLess
      <4>2. IsFiniteSet(Spoilt') /\ Cardinality(Spoilt') <= Cardinality(Spoilt) - 1
        BY <1>9, <2>4, <3>1, <4>1
      <4>3. QED
        BY <4>2, FS_CardinalityType
    <3>3. QED
      <4>1. Cardinality(ToSet(got')) \in Nat /\ Cardinality(ToSet(got')) >= Cardinality(ToSet(got))
        BY <1>9, <1>10
      <4>2. added' = added /\ Len(got') = g + 1
        BY <1>1, <1>8
      <4>3. PICK y \in Nat : Beyond' = y /\ Beyond <= y
        BY <1>12
      <4>4. PICK c \in Nat, s \in Nat, p \in Nat :
                /\ Cardinality(ToSet(got')) = c /\ Cardinality(Spoilt') = s
                /\ Cardinality(Positions(Blank)') = p
                /\ c >= Cardinality(ToSet(got)) /\ s <= Cardinality(Spoilt) - 1
                /\ p <= Cardinality(Positions(Blank)) + 1
        BY <2>2, <3>2, <4>1
      <4>5. (g + 1) - c + s <= added + y
        BY <1>2, <1>4, <1>9, <2>1, <4>3, <4>4
      <4>6. p + s <= added + y
        BY <1>2, <1>4, <1>9, <2>1, <2>2, <4>3, <4>4
      <4>7. QED
        BY <4>2, <4>3, <4>4, <4>5, <4>6
  <2>5. CASE g < Len(names) /\ names[g + 1] \notin Spoilt
    <3>1. names[g + 1] \in Ahead /\ names[g + 1] \in KeyNames
      BY <1>6, <1>13, <2>5
    <3>2. v = names[g + 1] /\ v \notin ToSet(got)
      BY <1>6, <2>5, <3>1 DEF v, NameAt, Spoilt
    <3>3. Spoilt' \subseteq Spoilt
      <4> SUFFICES ASSUME NEW name \in Ahead', name \in ToSet(got) \union {v} \/ (name \in LongNames /\ ~info.long)
                   PROVE  name \in Spoilt
        BY <1>1, <1>8 DEF Spoilt
      <4>1. name \in Ahead /\ name # v
        BY <1>13, <2>5, <3>2
      <4>2. QED
        BY <4>1 DEF Spoilt
    <3>4. Cardinality(Spoilt') <= Cardinality(Spoilt) /\ Cardinality(Spoilt') \in Nat
      BY <1>9, <3>3, FS_Subset, FS_CardinalityType
    <3>5. v # Blank
      BY <1>5, <3>1, <3>2
    <3>6. QED
      <4>1. Cardinality(ToSet(got')) = Cardinality(ToSet(got)) + 1
        BY <1>10, <3>2
      <4>2. added' = added /\ Len(got') = g + 1
        BY <1>1, <1>8
      <4>3. PICK y \in Nat : Beyond' = y /\ Beyond <= y
        BY <1>12
      <4>4. Cardinality(Positions(Blank)') = Cardinality(Positions(Blank))
        BY <2>2, <3>5
      <4>5. PICK s \in Nat : Cardinality(Spoilt') = s /\ s <= Cardinality(Spoilt)
        BY <3>4
      <4>6. (g + 1) - (Cardinality(ToSet(got)) + 1) + s <= added + y
        BY <1>2, <1>4, <1>9, <2>1, <4>3, <4>5
      <4>7. Cardinality(Positions(Blank)) + s <= added + y
        BY <1>2, <1>4, <1>9, <2>1, <2>2, <4>3, <4>5
      <4>8. QED
        BY <4>1, <4>2, <4>3, <4>4, <4>5, <4>6, <4>7
  <2>6. QED
    BY <1>4, <2>3, <2>4, <2>5
<1>19. Len(got') <= info'.count
  BY <1>1, <1>2, <1>4, <1>8
<1>20. Counted'
  <2>1. /\ lasting' \intersect LongNames # {} => info'.long
        /\ key' # NoHandle => Len(names') <= info'.count + added' /\ info'.count <= Len(names') + removed'
    BY <1>1, <1>3 DEF Counted
  <2>2. key' # NoHandle => key # NoHandle
    BY <1>1
  <2>3. QED
    BY <1>16, <1>17, <1>18, <1>19, <2>1, <2>2 DEF Counted
<1>21. QED
  <2>1. /\ added' \in Nat /\ removed' \in Nat /\ info'.count \in Nat /\ info'.long \in BOOLEAN
        /\ names' \in Seq(KeyNames) /\ IsInjective(names') /\ lasting' \subseteq ToSet(names')
        /\ doing' = "names" /\ (key' = NoHandle => names' = <<>>)
    BY <1>1, <1>2 DEF ListingInv
  <2>2. QED
    BY <1>8, <1>20, <2>1 DEF ListingInv, Counted

\* The names are asked for, or counted.
LEMMA NamesAskedFor == ListingInv /\ (GetNames \/ QueryInfo) => ListingInv'
<1> SUFFICES ASSUME ListingInv, GetNames \/ QueryInfo PROVE ListingInv'
  OBVIOUS
<1>1. /\ added \in Nat /\ removed \in Nat /\ names \in Seq(KeyNames) /\ IsInjective(names)
      /\ lasting \subseteq ToSet(names) /\ info.count \in Nat /\ info.long \in BOOLEAN
      /\ key = NoHandle => names = <<>>
      /\ doing \notin {"names", "named"} => got = <<>>
  BY DEF ListingInv
<1>2. \A list \in KeySequences : list \in Seq(KeyNames) /\ IsInjective(list)
  BY RegistryAssumption DEF KeySequences, RegistryAssumption
<1>3. <<>> \in Seq(KeyNames) /\ IsInjective(<<>>) /\ <<>> \in Seq(KeyNames \union {Blank})
  BY DEF IsInjective
<1>4. CASE GetNames
  <2>1. /\ doing \in {"idle", "opened"} /\ doing' = "info" /\ lasting' = ToSet(names')
        /\ names' \in (IF key = NoHandle THEN {<<>>} ELSE KeySequences)
        /\ UNCHANGED <<key, info, got, added, removed>>
    BY <1>4 DEF GetNames, Ready
  <2>2. names' \in Seq(KeyNames) /\ IsInjective(names')
    BY <1>2, <1>3, <2>1
  <2>3. QED
    BY <1>1, <1>3, <2>1, <2>2 DEF ListingInv
<1>5. CASE QueryInfo
  <2>1. /\ doing = "info" /\ doing' = "names" /\ got = <<>>
        /\ UNCHANGED <<key, got, names, added, removed, lasting>>
    BY <1>1, <1>5 DEF QueryInfo, othersVars
  <2>2. Len(names) \in Nat
    BY <1>1, LenProperties
  <2>3. /\ info'.count \in Nat /\ info'.long \in BOOLEAN
        /\ key # NoHandle => /\ info'.count = Len(names)
                             /\ ToSet(names) \intersect LongNames # {} => info'.long
    <3>1. CASE key = NoHandle
      <4>1. info' \in [count : 0 .. MaxNames, long : {FALSE}]
        BY <1>5, <3>1 DEF QueryInfo
      <4>2. info'.count \in 0 .. MaxNames /\ info'.long = FALSE
        BY <4>1
      <4>3. info'.count \in Nat
        BY <4>2, RegistryAssumption DEF RegistryAssumption
      <4>4. QED
        BY <3>1, <4>2, <4>3
    <3>2. CASE key # NoHandle
      <4>1. info' = [count |-> Len(names), long |-> ToSet(names) \intersect LongNames # {}]
        BY <1>5, <3>2 DEF QueryInfo
      <4>2. info'.count = Len(names) /\ info'.long = (ToSet(names) \intersect LongNames # {})
        BY <4>1
      <4>3. QED
        BY <2>2, <4>2, Zenon
    <3>3. QED
      BY <3>1, <3>2
  <2>4. key = NoHandle => ToSet(names) = {}
    BY <1>1 DEF ToSet
  <2>5. lasting \intersect LongNames # {} => info'.long
    BY <1>1, <2>3, <2>4
  <2>6. Len(got) = 0 /\ ToSet(got) = {} /\ \A x : Positions(x) = {}
    BY <2>1 DEF ToSet, Positions
  <2>7. ToSet(names) \subseteq Ahead /\ Ahead \subseteq ToSet(names)
    <3>1. \A list \in Seq(KeyNames) : ToSet(list) \subseteq Past(list, 0) /\ Past(list, 0) \subseteq ToSet(list)
      BY PastProperties
    <3>2. QED
      BY <1>1, <2>6, <3>1 DEF Ahead
  <2>8. Ahead' = Ahead /\ (\A x : Positions(x)' = {}) /\ ToSet(got') = {} /\ Len(got') = 0
    BY <2>1, <2>6 DEF Ahead, Positions
  <2>9. Missed' = {}
    BY <1>1, <2>1, <2>7, <2>8 DEF Missed
  <2>10. key # NoHandle => Spoilt' = {}
    BY <2>3, <2>7, <2>8 DEF Spoilt
  <2>11. Cardinality({}) = 0
    BY FS_EmptySet
  <2>12. Beyond' \in Nat
    BY <1>1, <2>1, <2>3, <2>8 DEF Beyond
  <2>13. Counted'
    <3>1. /\ Len(got') <= info'.count /\ Cardinality(Missed') <= removed'
          /\ lasting' \intersect LongNames # {} => info'.long
      BY <1>1, <2>1, <2>3, <2>5, <2>8, <2>9, <2>11
    <3>2. \A x : Cardinality(Positions(x)') = 0
      BY <2>8, <2>11
    <3>3. \A name \in lasting' : Cardinality(Positions(name)') <= IF name \in Ahead' THEN added' ELSE 1 + added'
      BY <1>1, <2>1, <3>2
    <3>4. key' # NoHandle => Len(names') <= info'.count + added' /\ info'.count <= Len(names') + removed'
      BY <1>1, <2>1, <2>2, <2>3
    <3>5. key' # NoHandle =>
              /\ Len(got') - Cardinality(ToSet(got')) + Cardinality(Spoilt') <= added' + Beyond'
              /\ Cardinality(Positions(Blank)') + Cardinality(Spoilt') <= added' + Beyond'
      <4>1. /\ Cardinality(ToSet(got')) = 0 /\ Cardinality(Positions(Blank)') = 0
            /\ Len(got') = 0
        BY <2>8, <2>11, <3>2
      <4>2. key' # NoHandle => Cardinality(Spoilt') = 0
        BY <2>1, <2>10, <2>11
      <4>3. PICK y \in Nat : Beyond' = y
        BY <2>12
      <4>4. added \in Nat /\ added' = added
        BY <1>1, <2>1
      <4>5. QED
        BY <4>1, <4>2, <4>3, <4>4
    <3>6. QED
      BY <3>1, <3>3, <3>4, <3>5 DEF Counted
  <2>14. QED
    BY <1>1, <1>3, <2>1, <2>3, <2>13 DEF ListingInv, Counted
<1>6. QED
  BY <1>4, <1>5

\* No step breaks ListingInv.
LEMMA ListingStep == ListingInv /\ (RegistryNext \/ UNCHANGED registryVars) => ListingInv'
<1> SUFFICES ASSUME ListingInv, RegistryNext \/ UNCHANGED registryVars PROVE ListingInv'
  OBVIOUS
\* Steps that leave the names and the array alone.
<1>s. ASSUME UNCHANGED <<info, got, names, removed, lasting>>,
             added' \in Nat,
             \/ /\ {doing, doing'} \intersect {"info", "names", "named"} = {}
                /\ key' = key \/ doing \in {"idle", "opened"}
             \/ /\ key' = key /\ added' = added /\ doing \in {"names", "named"}
                /\ doing' = doing \/ (doing' = "named" /\ Len(got) = info.count)
             \/ key' = key /\ added' = added /\ doing' = doing
      PROVE  ListingInv'
  <2>1. /\ Ahead' = Ahead /\ Missed' = Missed /\ Spoilt' = Spoilt /\ Beyond' = Beyond
        /\ \A x : Positions(x)' = Positions(x)
    BY <1>s DEF Ahead, Missed, Spoilt, Beyond, Positions
  <2>2. QED
    BY <1>s, <2>1 DEF ListingInv, Counted
<1>1. CASE AddName
  BY <1>1, NameAdded
<1>2. CASE RemoveName
  BY <1>2, NameRemoved
<1>3. CASE WriteValue
  <2>1. added' \in Nat
    BY <1>3 DEF WriteValue, ListingInv
  <2>2. QED
    BY <1>3, <1>s, <2>1 DEF WriteValue, callVars
<1>n. added \in Nat
  BY DEF ListingInv
<1>4. CASE OpenSubKey \/ Close
  BY <1>4, <1>n, <1>s DEF OpenSubKey, Close, othersVars
<1>5. CASE GetNames \/ QueryInfo
  BY <1>5, NamesAskedFor
<1>6. CASE EnumName
  BY <1>6, NameRead
<1>7. CASE NamesEnd
  BY <1>7, <1>n, <1>s DEF NamesEnd, othersVars
<1>8. CASE GetValue \/ AskLength \/ FetchValue
  BY <1>8, <1>n, <1>s DEF GetValue, AskLength, FetchValue, othersVars, Ready
<1>9. CASE RegistryDone
  <2>1. /\ doing' \in {"idle", "opened"} /\ names' = <<>> /\ got' = <<>> /\ info' = NoInfo
        /\ added' = 0 /\ removed' = 0 /\ lasting' = {}
    BY <1>9 DEF RegistryDone, Ready
  <2>2. <<>> \in Seq(KeyNames) /\ IsInjective(<<>>) /\ <<>> \in Seq(KeyNames \union {Blank})
    BY DEF IsInjective
  <2>3. QED
    BY <2>1, <2>2 DEF ListingInv, NoInfo
<1>10. CASE UNCHANGED registryVars
  BY <1>10, <1>n, <1>s DEF registryVars
<1>11. QED
  BY <1>1, <1>2, <1>3, <1>4, <1>5, <1>6, <1>7, <1>8, <1>9, <1>10 DEF RegistryNext, Others, RegistryCall

\* Whatever happens to a key while its names are listed, the array accounts for
\* the names that were there all the time.
THEOREM EveryNameAccounted == Spec => []NamesAccounted
<1>1. Init => ListingInv
  <2> SUFFICES ASSUME Init PROVE ListingInv
    OBVIOUS
  <2>1. /\ doing = "idle" /\ names = <<>> /\ got = <<>> /\ info = NoInfo
        /\ added = 0 /\ removed = 0 /\ lasting = {}
    BY DEF Init, RegistryInit
  <2>2. <<>> \in Seq(KeyNames) /\ IsInjective(<<>>) /\ <<>> \in Seq(KeyNames \union {Blank})
    BY DEF IsInjective
  <2>3. QED
    BY <2>1, <2>2 DEF ListingInv, NoInfo
<1>2. ListingInv /\ [Next]_vars => ListingInv'
  BY Components, ListingStep
<1>3. ListingInv => NamesAccounted
  <2> SUFFICES ASSUME ListingInv, doing = "named" PROVE NamesAccounted
    BY DEF NamesAccounted
  <2>1. Counted /\ Len(got) = info.count /\ added \in Nat /\ removed \in Nat
    BY DEF ListingInv, Counted
  <2>2. /\ Len(got) \in Nat /\ Len(names) \in Nat /\ IsFiniteSet(Ahead) /\ Cardinality(Ahead) \in Nat
        /\ IsFiniteSet(Missed) /\ Cardinality(Missed) \in Nat
        /\ Cardinality(Spoilt) \in Nat /\ Cardinality(ToSet(got)) \in Nat
        /\ Cardinality(Positions(Blank)) \in Nat
    BY CountsAreFinite
  <2>3. Cardinality(Missed) <= removed
    BY <2>1 DEF Counted
  <2>4. Cardinality(Ahead) <= added
    <3>1. \A list \in Seq(KeyNames), k \in Nat :
              /\ Cardinality(Past(list, k)) <= IF k < Len(list) THEN Len(list) - k ELSE 0
              /\ k >= Len(list) => Past(list, k) = {}
      BY PastProperties
    <3>2. Cardinality(Ahead) <= IF Len(got) < Len(names) THEN Len(names) - Len(got) ELSE 0
      BY <2>2, <3>1 DEF Ahead, ListingInv
    <3>3. CASE key # NoHandle
      <4>1. Len(names) <= Len(got) + added
        BY <2>1, <3>3 DEF Counted
      <4>2. QED
        BY <2>1, <2>2, <3>2, <4>1
    <3>4. CASE key = NoHandle
      <4>1. Len(names) = 0
        BY <3>4 DEF ListingInv
      <4>2. QED
        BY <2>1, <2>2, <3>2, <4>1
    <3>5. QED
      BY <3>3, <3>4
  <2>5. Cardinality(lasting \ ToSet(got)) <= added + removed
    <3>1. lasting \ ToSet(got) \subseteq Missed \union Ahead
      BY DEF Missed
    <3>2. /\ IsFiniteSet(Missed \union Ahead)
          /\ Cardinality(Missed \union Ahead) =
                Cardinality(Missed) + Cardinality(Ahead) - Cardinality(Missed \intersect Ahead)
      BY <2>2, FS_Union
    <3>3. Cardinality(Missed \intersect Ahead) \in Nat
      BY <2>2, FS_Intersection, FS_CardinalityType
    <3>4. /\ Cardinality(lasting \ ToSet(got)) <= Cardinality(Missed \union Ahead)
          /\ Cardinality(lasting \ ToSet(got)) \in Nat
      BY <3>1, <3>2, FS_Subset, FS_CardinalityType
    <3>5. QED
      BY <2>1, <2>2, <2>3, <2>4, <3>2, <3>3, <3>4
  <2>6. \A name \in lasting : Cardinality(Positions(name)) <= 1 + added
    <3> SUFFICES ASSUME NEW name \in lasting PROVE Cardinality(Positions(name)) <= 1 + added
      OBVIOUS
    <3>1. Cardinality(Positions(name)) <= IF name \in Ahead THEN added ELSE 1 + added
      BY <2>1 DEF Counted
    <3>2. Cardinality(Positions(name)) \in Nat
      BY CountsAreFinite
    <3>3. QED
      BY <2>1, <3>1, <3>2
  <2>7. Beyond = removed
    BY <2>1, <2>2 DEF Beyond
  <2>8. key # NoHandle => /\ Len(got) - Cardinality(ToSet(got)) <= added + removed
                          /\ Cardinality(Positions(Blank)) <= added + removed
    BY <2>1, <2>2, <2>7 DEF Counted
  <2>9. QED
    BY <2>5, <2>6, <2>8 DEF NamesAccounted
<1>4. QED
  BY <1>1, <1>2, <1>3, PTL DEF Spec

-----------------------------------------------------------------------------
(* getProcesses and refresh.                                               *)

Objects == [of : Nat, times : Nat, memory : Nat, refreshed : BOOLEAN, failed : BOOLEAN]

\* FiguresOfOneProcess of one object, in its two halves.
Own(o) == ~o.refreshed => {o.times, o.memory} \subseteq {0, o.of, Garbage}
Agree(o) == ~o.failed => o.times = o.memory

\* The object that is made is of the process behind the handle that
\* getProcesses holds, whose pid nobody else is given meanwhile; that is all
\* that its refresh can find.
ProcessInv ==
    /\ running \in [ProcessIds -> Nat]
    /\ born \in Nat
    /\ unseen \subseteq ProcessIds
    /\ stage \in {"idle", "listed"} \union HandleNatives
    /\ current \in ProcessIds \union {NoPid}
    /\ outer \in Nat /\ inner \in Nat
    /\ object \in Objects
    /\ DOMAIN listed \subseteq ProcessIds
    /\ \A pid \in DOMAIN listed : listed[pid] \in Objects /\ Own(listed[pid]) /\ Agree(listed[pid])
    /\ current = NoPid => stage \in {"idle", "listed", "OpenProcess"} /\ outer = 0 /\ inner = 0
    /\ current # NoPid => stage \in HandleNatives /\ Own(object)
    /\ stage \in {"OpenProcess", "GetModuleBaseName"} => inner = 0
    /\ current # NoPid /\ stage \in {"OpenProcess", "GetModuleBaseName", "CloseHandle"} => Agree(object)
    /\ current # NoPid /\ ~object.refreshed /\ current \notin Refused =>
          outer = object.of /\ outer # 0 /\ running[current] \in {0, outer}
    /\ stage \in {"GetProcessTimes", "GetProcessMemoryInfo"} =>
          /\ ~object.refreshed => inner = object.of
          /\ stage = "GetProcessMemoryInfo" /\ ~object.failed => object.times = inner

\* The pids of processes that refuse to be opened are pids; the mark that there
\* is none is not.
LEMMA ProcessConstants == NoPid \notin ProcessIds /\ Refused \subseteq ProcessIds /\ Garbage \in Nat
<1>1. NoPid \notin ProcessIds
  BY ProcessListAssumption DEF ProcessListAssumption, NoPid
<1>2. Refused \subseteq ProcessIds
  BY ProcessListAssumption DEF ProcessListAssumption
<1>3. MaxBorn \in Nat
  BY ProcessListAssumption DEF ProcessListAssumption
<1>4. Garbage \in Nat
  BY <1>3 DEF Garbage
<1>5. QED
  BY <1>1, <1>2, <1>4

\* No process that ends or is born while the list is made, and no step of making
\* it, breaks ProcessInv.
LEMMA ProcessStep ==
    ProcessInv /\ (ProcessesMove \/ ProcessesFail \/ ProcessesCall \/ UNCHANGED processVars)
        => ProcessInv'
<1> SUFFICES ASSUME ProcessInv,
                    ProcessesMove \/ ProcessesFail \/ ProcessesCall \/ UNCHANGED processVars
             PROVE  ProcessInv'
  OBVIOUS
<1> USE DEF ProcessInv, HandleNatives
<1>n. NoPid \notin ProcessIds /\ Refused \subseteq ProcessIds /\ Garbage \in Nat
  BY ProcessConstants
<1>1. CASE ProcessStarts
  <2>1. PICK pid \in ProcessIds : ~Pinned(pid) /\ running' = [running EXCEPT ![pid] = born']
    BY <1>1 DEF ProcessStarts
  <2>2. /\ born' \in Nat
        /\ UNCHANGED <<stage, unseen, current, outer, inner, object, listed>>
    BY <1>1 DEF ProcessStarts
  <2>3. running' \in [ProcessIds -> Nat]
    BY <2>1, <2>2
  <2>4. current # NoPid /\ ~object.refreshed /\ current \notin Refused =>
            running'[current] = running[current]
    BY <1>n, <2>1 DEF Pinned
  <2>5. QED
    BY <2>2, <2>3, <2>4
<1>2. CASE ProcessEnds
  <2>1. PICK pid \in ProcessIds : running' = [running EXCEPT ![pid] = 0]
    BY <1>2 DEF ProcessEnds, Running
  <2>2. UNCHANGED <<born, stage, unseen, current, outer, inner, object, listed>>
    BY <1>2 DEF ProcessEnds
  <2>3. running' \in [ProcessIds -> Nat]
    BY <2>1
  <2>4. current # NoPid => running'[current] \in {0, running[current]}
    BY <1>n, <2>1
  <2>5. QED
    BY <2>2, <2>3, <2>4
<1>3. CASE ListProcesses
  <2>1. /\ stage \in {"idle", "listed"} /\ stage' = "OpenProcess"
        /\ listed' = << >> /\ unseen' \subseteq ProcessIds
        /\ UNCHANGED <<born, current, outer, inner, object>>
    BY <1>3 DEF ListProcesses
  <2>2. running' \in [ProcessIds -> Nat]
    <3>1. [ProcessIds -> {0, 1}] \subseteq [ProcessIds -> Nat]
      OBVIOUS
    <3>2. QED
      BY <1>3, <3>1 DEF ListProcesses
  <2>3. current = NoPid
    BY <2>1
  <2>4. QED
    BY <1>n, <2>1, <2>2, <2>3
<1>4. CASE OpenListed
  <2>1. PICK pid \in unseen :
           /\ unseen' = unseen \ {pid}
           /\ \/ \E process \in Behind(pid) :
                     /\ outer' = process
                     /\ object' = [NoObject EXCEPT !.of = process]
                     /\ current' = pid
                     /\ stage' = "GetModuleBaseName"
              \/ pid \in Refused
                     /\ current' = pid
                     /\ object' = [NoObject EXCEPT !.of = running[pid]]
                     /\ UNCHANGED <<outer, stage>>
              \/ pid \notin Refused
                     /\ UNCHANGED <<outer, object, current, stage>>
    BY <1>4 DEF OpenListed
  <2>2. /\ stage = "OpenProcess" /\ current = NoPid /\ pid \in ProcessIds
        /\ UNCHANGED <<running, born, inner, listed>>
    BY <1>4 DEF OpenListed, machineVars
  <2>3. ASSUME NEW process \in Nat
        PROVE  LET o == [NoObject EXCEPT !.of = process]
               IN  o \in Objects /\ o.of = process /\ ~o.refreshed /\ Own(o) /\ Agree(o)
    BY DEF NoObject, Objects, Own, Agree
  <2>4. CASE \E process \in Behind(pid) :
                 /\ outer' = process
                 /\ object' = [NoObject EXCEPT !.of = process]
                 /\ current' = pid
                 /\ stage' = "GetModuleBaseName"
    <3>1. PICK process \in Behind(pid) :
                 /\ outer' = process
                 /\ object' = [NoObject EXCEPT !.of = process]
                 /\ current' = pid
                 /\ stage' = "GetModuleBaseName"
      BY <2>4
    <3>2. process = running[pid] /\ process # 0 /\ process \in Nat
      BY <1>n, <2>2 DEF Behind
    <3>3. /\ object' \in Objects /\ object'.of = process /\ ~object'.refreshed
          /\ Own(object') /\ Agree(object')
      BY <2>3, <3>1, <3>2
    <3>4. Own(object)' /\ Agree(object)'
      BY <3>3 DEF Own, Agree, Garbage
    <3>5. QED
      BY <1>n, <2>1, <2>2, <3>1, <3>2, <3>3, <3>4 DEF Own, Agree, Garbage
  <2>5. CASE pid \in Refused
                 /\ current' = pid
                 /\ object' = [NoObject EXCEPT !.of = running[pid]]
                 /\ UNCHANGED <<outer, stage>>
    <3>1. /\ object' \in Objects /\ ~object'.refreshed
          /\ Own(object') /\ Agree(object')
      BY <2>2, <2>3, <2>5
    <3>2. Own(object)' /\ Agree(object)'
      BY <3>1 DEF Own, Agree, Garbage
    <3>3. QED
      BY <1>n, <2>1, <2>2, <2>5, <3>1, <3>2 DEF Own, Agree, Garbage
  <2>6. CASE UNCHANGED <<outer, object, current, stage>>
    BY <2>1, <2>2, <2>6 DEF Own, Agree, Garbage
  <2>7. QED
    BY <2>1, <2>4, <2>5, <2>6
<1>5. CASE GetModuleBaseName
  BY <1>5 DEF GetModuleBaseName, machineVars, Own, Agree, Garbage
<1>6. CASE ListedAll
  BY <1>6 DEF ListedAll, machineVars, Own, Agree, Garbage
<1>7. CASE ProcessesDone
  BY <1>7, <1>n DEF ProcessesDone, NoProcesses
<1>8. CASE RefreshKept
  <2>1. PICK pid \in DOMAIN listed :
            current' = pid /\ object' = [listed[pid] EXCEPT !.refreshed = TRUE]
    BY <1>8 DEF RefreshKept
  <2>2. /\ stage = "listed" /\ stage' = "OpenProcess"
        /\ UNCHANGED <<running, born, unseen, outer, inner, listed>>
    BY <1>8 DEF RefreshKept, machineVars
  <2>3. listed[pid] \in Objects /\ Agree(listed[pid])
    BY <2>1
  <2>4. object' \in Objects /\ object'.refreshed /\ Own(object') /\ Agree(object')
    BY <2>1, <2>3 DEF Objects, Own, Agree
  <2>5. Own(object)' /\ Agree(object)'
    BY <2>4 DEF Own, Agree, Garbage
  <2>6. QED
    BY <1>n, <2>1, <2>2, <2>4, <2>5 DEF Own, Agree, Garbage
<1>9. CASE OpenToRefresh
  <2>1. /\ stage = "OpenProcess" /\ current # NoPid /\ stage' = "GetProcessTimes"
        /\ inner' \in Behind(current)
        /\ object' = [object EXCEPT !.failed = FALSE]
        /\ UNCHANGED <<running, born, unseen, current, outer, listed>>
    BY <1>9 DEF OpenToRefresh, machineVars
  <2>2. /\ inner' \in Nat /\ current \notin Refused
        /\ ~object.refreshed => inner' = object.of
    BY <2>1 DEF Behind
  <2>3. /\ object' \in Objects /\ object'.of = object.of /\ object'.refreshed = object.refreshed
        /\ object'.times = object.times /\ object'.memory = object.memory
    BY <2>1 DEF Objects
  <2>4. Own(object)'
    BY <2>1, <2>3 DEF Own, Garbage
  <2>5. QED
    BY <2>1, <2>2, <2>3, <2>4 DEF Own, Agree, Garbage
<1>10. CASE OpenToRefreshFails
  BY <1>10 DEF OpenToRefreshFails, machineVars, Own, Agree, Garbage
<1>11. CASE GetProcessTimes \/ GetProcessTimesFails
  <2>1. /\ stage = "GetProcessTimes" /\ stage' = "GetProcessMemoryInfo" /\ current # NoPid
        /\ UNCHANGED <<running, born, unseen, current, outer, inner, listed>>
        /\ \/ object' = [object EXCEPT !.times = inner]
           \/ object' = [object EXCEPT !.failed = TRUE]
    BY <1>11 DEF GetProcessTimes, GetProcessTimesFails, SetLongRef, machineVars
  <2>2. /\ object' \in Objects /\ object'.of = object.of /\ object'.refreshed = object.refreshed
        /\ object'.times \in {object.times, inner} /\ object'.memory = object.memory
        /\ ~object'.failed => object'.times = inner
    BY <2>1 DEF Objects
  <2>3. Own(object)'
    BY <2>1, <2>2 DEF Own, Garbage
  <2>4. QED
    BY <2>1, <2>2, <2>3 DEF Own, Agree, Garbage
<1>12. CASE GetProcessMemoryInfo \/ GetProcessMemoryInfoFails
  <2>1. /\ stage = "GetProcessMemoryInfo" /\ stage' = "CloseHandle" /\ current # NoPid
        /\ UNCHANGED <<running, born, unseen, current, outer, inner, listed>>
        /\ \/ object' = [object EXCEPT !.memory = inner]
           \/ object' = [object EXCEPT !.memory = Garbage, !.failed = TRUE]
    BY <1>12 DEF GetProcessMemoryInfo, GetProcessMemoryInfoFails, SetLongRef, machineVars
  <2>2. /\ object' \in Objects /\ object'.of = object.of /\ object'.refreshed = object.refreshed
        /\ object'.memory \in {Garbage, inner} /\ object'.times = object.times
        /\ ~object'.failed => object'.memory = inner /\ ~object.failed
    BY <1>n, <2>1 DEF Objects
  <2>3. Own(object)' /\ Agree(object)'
    BY <2>1, <2>2 DEF Own, Agree, Garbage
  <2>4. QED
    BY <2>1, <2>2, <2>3 DEF Own, Agree, Garbage
<1>13. CASE CloseHandle
  <2>1. /\ stage = "CloseHandle" /\ current \in ProcessIds
        /\ inner' = 0 /\ outer' = 0 /\ current' = NoPid /\ object' = NoObject
        /\ listed' = [pid \in DOMAIN listed \union {current} |->
                          IF pid = current THEN object ELSE listed[pid]]
        /\ stage' \in {"listed", "OpenProcess"}
        /\ UNCHANGED <<running, born, unseen>>
    BY <1>13 DEF CloseHandle, machineVars
  <2>2. \A pid \in DOMAIN listed' :
            listed'[pid] \in Objects /\ Own(listed'[pid]) /\ Agree(listed'[pid])
    BY <1>n, <2>1
  <2>3. NoObject \in Objects
    BY DEF NoObject, Objects
  <2>4. QED
    BY <1>n, <2>1, <2>2, <2>3 DEF Own, Agree, Garbage
<1>14. CASE UNCHANGED processVars
  BY <1>14 DEF processVars, Own, Agree, Garbage
<1>15. QED
  BY <1>1, <1>2, <1>3, <1>4, <1>5, <1>6, <1>7, <1>8, <1>9, <1>10, <1>11, <1>12, <1>13, <1>14
  DEF ProcessesMove, ProcessesFail, ProcessesCall

\* ProcessInv holds whatever the other calls do.
LEMMA ProcessesAlways == Spec => []ProcessInv
<1>1. Init => ProcessInv
  <2> SUFFICES ASSUME Init PROVE ProcessInv
    OBVIOUS
  <2>1. /\ running = [pid \in ProcessIds |-> 0] /\ born = 1 /\ stage = "idle" /\ unseen = {}
        /\ current = NoPid /\ outer = 0 /\ inner = 0 /\ object = NoObject /\ listed = << >>
    BY DEF Init, ProcessesInit, NoProcesses
  <2>2. NoObject \in Objects
    BY DEF NoObject, Objects
  <2>3. DOMAIN listed = {}
    BY <2>1
  <2>4. running \in [ProcessIds -> Nat]
    BY <2>1
  <2>5. QED
    BY <2>1, <2>2, <2>3, <2>4 DEF ProcessInv
<1>2. ProcessInv /\ [Next]_vars => ProcessInv'
  BY Components, ProcessStep
<1>3. QED
  BY <1>1, <1>2, PTL DEF Spec

\* However pids change hands, a Process has the figures of the process it is
\* named after, and after a refresh without a failure those of one process.
THEOREM FiguresOfOne == Spec => []FiguresOfOneProcess
<1>1. ProcessInv => FiguresOfOneProcess
  BY DEF ProcessInv, FiguresOfOneProcess, Own, Agree
<1>2. QED
  BY <1>1, ProcessesAlways, PTL

-----------------------------------------------------------------------------
(* The listing of counters.                                                *)

\* A path is pinned by expandCounterPath alone, which connects to no machine.
NamesInv ==
    /\ asking \in {"connect", "length", "fetch"} =>
          IF native = "expandCounterPath" THEN asking # "connect" /\ chars \subseteq {"path"}
          ELSE chars \subseteq {"category", "machine"}
    /\ asking = "returned" =>
          \/ chars = {}
          \/ outcome.kind = "not connected" /\ chars \subseteq {"category"}
          \/ outcome.kind = "too long" /\ chars \subseteq {"path"}

\* No step of a listing of names breaks NamesInv.
LEMMA NamesKept ==
    NamesInv /\ (NamesChange \/ NamesFail \/ NamesStep \/ UNCHANGED namesVars) => NamesInv'
<1> SUFFICES ASSUME NamesInv, NamesChange \/ NamesFail \/ NamesStep \/ UNCHANGED namesVars
             PROVE  NamesInv'
  OBVIOUS
<1> USE DEF NamesInv
<1>1. CASE NamesChange
  BY <1>1 DEF NamesChange
<1>2. CASE PathTooLong
  BY <1>2 DEF PathTooLong, Returns, Failure
<1>3. CASE ConnectFails
  BY <1>3 DEF ConnectFails, Returns, Failure
<1>4. CASE AskLengthsFails
  BY <1>4 DEF AskLengthsFails, Returns, Failure
<1>5. ASSUME NEW of \in NameNatives, NEW other \in BOOLEAN, NamesCall(of, other),
             other => of # "expandCounterPath"
      PROVE  NamesInv'
  BY <1>5 DEF NamesCall
<1>6. CASE NamesCalls
  <2>1. "getCategories" \in NameNatives /\ "getCounters" \in NameNatives
    BY DEF NameNatives
  <2>2. QED
    BY <1>5, <1>6, <2>1 DEF NamesCalls
<1>7. CASE Connect
  BY <1>7 DEF Connect
<1>8. CASE AskLengths
  BY <1>8 DEF AskLengths, Returns
<1>9. CASE FetchNames \/ FetchNamesFails
  BY <1>9 DEF FetchNames, FetchNamesFails, Returns
<1>10. CASE NamesDone
  BY <1>10 DEF NamesDone
<1>11. CASE UNCHANGED namesVars
  BY <1>11 DEF namesVars
<1>12. QED
  BY <1>1, <1>2, <1>3, <1>4, <1>6, <1>7, <1>8, <1>9, <1>10, <1>11 DEF NamesFail, NamesStep

-----------------------------------------------------------------------------
(* A record of an event log.                                               *)

\* The key that getResource finds when nobody changes the registry.
First(key_) ==
    /\ key_ \in keys
    /\ \E try \in 1 .. 3 :
          /\ key_ = KeyTried(subject, try)
          /\ \A t \in 1 .. 3 : t < try => KeyTried(subject, t) \notin keys

\* At most one key is the first of those tried.
LEMMA OneFirst == \A a, b : First(a) /\ First(b) => a = b
<1> SUFFICES ASSUME NEW a, NEW b, First(a), First(b) PROVE a = b
  OBVIOUS
<1>1. PICK i \in 1 .. 3 : a = KeyTried(subject, i)
                          /\ \A t \in 1 .. 3 : t < i => KeyTried(subject, t) \notin keys
  BY DEF First
<1>2. PICK j \in 1 .. 3 : b = KeyTried(subject, j)
                          /\ \A t \in 1 .. 3 : t < j => KeyTried(subject, t) \notin keys
  BY DEF First
<1>3. a \in keys /\ b \in keys
  BY DEF First
<1>4. ~(i < j) /\ ~(j < i)
  BY <1>1, <1>2, <1>3
<1>5. i = j
  BY <1>4
<1>6. QED
  BY <1>1, <1>2, <1>5

\* As long as nothing changes every key is the first that there is, and a module
\* that stands for the program is one that was not loaded.
RecordInv ==
    /\ moved \in Nat
    /\ part \in Parts
    /\ attempt \in 1 .. 3
    /\ DOMAIN texts = Parts
    /\ \A p \in Parts : texts[p] = [key |-> texts[p].key, from |-> texts[p].from]
    /\ paths \in Seq(Files)
    /\ making = "idle" => attempt = 1 /\ \A p \in Parts : texts[p] = NoText
    /\ making \notin {"size", "value"} => opened = NoKey
    /\ making # "format" => modules = <<>>
    /\ moved = 0 =>
          /\ \A p \in Parts : texts[p].key # NoKey => First(texts[p].key)
          /\ opened # NoKey => First(opened)
          /\ making = "open" => \A t \in 1 .. 3 : t < attempt => KeyTried(subject, t) \notin keys
    /\ \A i \in DOMAIN modules : modules[i] = Host => unloaded
    /\ \A p \in Parts : texts[p].from = Host => unloaded

\* The value of a key is a sequence of files.
LEMMA PathListsAreSequences == PathLists \subseteq Seq(Files)
BY FS_CardinalityType, EventRecordAssumption DEF PathLists, EventRecordAssumption

\* The program itself is told from the files of a source.
LEMMA HostIsNoFile == Host \notin Files /\ None # Host
<1>1. "host" \notin Files
  BY EventRecordAssumption DEF EventRecordAssumption
<1>2. QED
  BY <1>1 DEF Host, None

\* No step of making a record, and no other program, breaks RecordInv.
LEMMA RecordStep == RecordInv /\ (RecordChange \/ RecordCall \/ UNCHANGED recordVars) => RecordInv'
<1> SUFFICES ASSUME RecordInv, RecordChange \/ RecordCall \/ UNCHANGED recordVars
             PROVE  RecordInv'
  OBVIOUS
<1> USE DEF RecordInv
<1>m. moved \in Nat
  OBVIOUS
<1>s. ASSUME moved' = moved + 1 PROVE moved' \in Nat /\ moved' # 0
  <2> HIDE DEF RecordInv
  <2>1. QED
    BY <1>m, <1>s
<1>1. CASE KeysChange
  BY <1>1 DEF KeysChange, textState, accountState
<1>2. CASE ValueChanges
  <2>1. /\ paths' \in Seq(Files) /\ moved' # 0 /\ moved' \in Nat
    BY <1>2, <1>s, PathListsAreSequences DEF ValueChanges
  <2>2. UNCHANGED <<making, opened, part, attempt, modules, texts, unloaded>>
    BY <1>2 DEF ValueChanges, textState
  <2>3. QED
    BY <2>1, <2>2
<1>3. CASE AccountChanges
  <2>1. moved' # 0 /\ moved' \in Nat
    BY <1>3, <1>s DEF AccountChanges
  <2>2. UNCHANGED <<making, opened, paths, part, attempt, modules, texts, unloaded>>
    BY <1>3 DEF AccountChanges, textState, registryState
  <2>3. QED
    BY <2>1, <2>2
<1>4. CASE OpenKey
  <2>1. /\ making = "open" /\ making' = "size" /\ KeyTried(subject, attempt) \in keys
        /\ opened' = KeyTried(subject, attempt) /\ paths' \in PathLists
        /\ UNCHANGED <<subject, keys, room, part, attempt, modules, texts, unloaded, moved>>
    BY <1>4 DEF OpenKey, textState
  <2>2. moved = 0 => First(opened')
    BY <2>1 DEF First
  <2>3. moved = 0 => First(opened)'
    BY <2>1, <2>2 DEF First, KeyTried
  <2>4. \A k : First(k) => First(k)'
    BY <2>1 DEF First, KeyTried
  <2>5. QED
    BY <2>1, <2>3, <2>4, PathListsAreSequences
\* The next part of the texts, with nothing open.
<1>n. ASSUME NEW text, NextPart(text), text = [key |-> text.key, from |-> text.from],
             moved = 0 /\ text.key # NoKey => First(text.key),
             text.from = Host => unloaded,
             opened' = NoKey,
             UNCHANGED <<subject, keys, paths, unloaded, moved>>
      PROVE  RecordInv'
  <2>1. /\ texts' = [texts EXCEPT ![part] = text]
        /\ making' \in {"open", "user"} /\ part' = "message" /\ attempt' = 1 /\ modules' = <<>>
    BY <1>n DEF NextPart
  <2>2. DOMAIN texts' = Parts /\ \A p \in Parts : texts'[p] = IF p = part THEN text ELSE texts[p]
    BY <2>1
  <2>3. \A k : First(k) => First(k)'
    BY <1>n DEF First, KeyTried
  <2>4. \A p \in Parts : texts'[p] = [key |-> texts'[p].key, from |-> texts'[p].from]
    BY <1>n, <2>2
  <2>5. moved' = 0 => \A p \in Parts : texts'[p].key # NoKey => First(texts[p].key)'
    <3> SUFFICES ASSUME moved = 0, NEW p \in Parts, texts'[p].key # NoKey PROVE First(texts'[p].key)
      BY <1>n, <2>3
    <3>1. QED
      BY <1>n, <2>2
  <2>6. \A p \in Parts : texts'[p].from = Host => unloaded'
    BY <1>n, <2>2
  <2>7. part' \in Parts /\ attempt' \in 1 .. 3
    BY <2>1 DEF Parts
  <2>8. QED
    BY <1>n, <2>1, <2>2, <2>4, <2>5, <2>6, <2>7
<1>e. NoText = [key |-> NoText.key, from |-> NoText.from] /\ NoText.key = NoKey /\ NoText.from # Host
  BY HostIsNoFile DEF NoText
<1>5. CASE OpenNextKey
  <2>1. /\ making = "open" /\ KeyTried(subject, attempt) \notin keys
        /\ UNCHANGED <<subject, keys, opened, paths, room, unloaded, moved>>
    BY <1>5 DEF OpenNextKey, registryState
  <2>2. CASE attempt < 3 /\ attempt' = attempt + 1 /\ UNCHANGED <<making, part, modules, texts>>
    <3>1. \A k : First(k) => First(k)'
      BY <2>1 DEF First, KeyTried
    <3>2. moved = 0 => \A t \in 1 .. 3 : t < attempt' => KeyTried(subject, t) \notin keys
      <4> SUFFICES ASSUME moved = 0, NEW t \in 1 .. 3, t < attempt' PROVE KeyTried(subject, t) \notin keys
        OBVIOUS
      <4>1. t < attempt \/ t = attempt
        BY <2>2
      <4>2. QED
        BY <2>1, <4>1
    <3>3. moved' = 0 => \A t \in 1 .. 3 : t < attempt' => KeyTried(subject, t)' \notin keys'
      BY <2>1, <3>2 DEF KeyTried
    <3>4. QED
      BY <2>1, <2>2, <3>1, <3>3
  <2>3. CASE NextPart(NoText)
    BY <1>n, <1>e, <2>1, <2>3
  <2>4. QED
    BY <1>5, <2>2, <2>3 DEF OpenNextKey
<1>6. CASE AskValueSize
  <2>1. /\ making = "size" /\ UNCHANGED <<subject, keys, paths, unloaded, moved>>
    BY <1>6 DEF AskValueSize
  <2>2. CASE making' = "value" /\ UNCHANGED <<opened, part, attempt, modules, texts>>
    <3>1. \A k : First(k) => First(k)'
      BY <2>1 DEF First, KeyTried
    <3>2. QED
      BY <2>1, <2>2, <3>1
  <2>3. CASE NextPart(NoText) /\ opened' = NoKey
    BY <1>n, <1>e, <2>1, <2>3
  <2>4. QED
    BY <1>6, <2>2, <2>3 DEF AskValueSize
<1>7. CASE LoadModules
  <2> DEFINE count == IF Len(FileNames) <= MaxModules THEN Len(FileNames) ELSE MaxModules
  <2>1. PICK loads \in SUBSET Files :
            /\ modules' = [i \in 1 .. count |-> IF FileNames[i] \in loads THEN FileNames[i] ELSE Host]
            /\ unloaded' = (unloaded \/ \E i \in 1 .. count : FileNames[i] \notin loads)
    BY <1>7 DEF LoadModules
  <2>2. /\ making = "value" /\ making' = "format"
        /\ texts' = [texts EXCEPT ![part].key = opened]
        /\ opened' = NoKey /\ paths' = <<>>
        /\ UNCHANGED <<subject, keys, part, attempt, moved>>
    BY <1>7 DEF LoadModules
  <2>3. \A i \in DOMAIN modules' : modules'[i] = Host => unloaded'
    BY <2>1, HostIsNoFile
  <2>4. texts' = [texts EXCEPT ![part] = [key |-> opened, from |-> texts[part].from]]
    <3>1. [texts[part] EXCEPT !.key = opened] = [key |-> opened, from |-> texts[part].from]
      <4>1. texts[part] = [key |-> texts[part].key, from |-> texts[part].from]
        OBVIOUS
      <4>2. QED
        BY <4>1
    <3>2. QED
      BY <2>2, <3>1
  <2>5. DOMAIN texts' = Parts
        /\ \A p \in Parts : texts'[p] = IF p = part THEN [key |-> opened, from |-> texts[p].from] ELSE texts[p]
    BY <2>4
  <2>6. \A k : First(k) => First(k)'
    BY <2>2 DEF First, KeyTried
  <2>7. moved' = 0 => \A p \in Parts : texts'[p].key # NoKey => First(texts[p].key)'
    <3> SUFFICES ASSUME moved = 0, NEW p \in Parts, texts'[p].key # NoKey PROVE First(texts'[p].key)
      BY <2>2, <2>6
    <3>1. QED
      BY <2>5
  <2>8. unloaded => unloaded'
    BY <2>1
  <2>9. \A p \in Parts : texts'[p].from = texts[p].from
    BY <2>5
  <2>10. \A p \in Parts : texts'[p] = [key |-> texts'[p].key, from |-> texts'[p].from]
    BY <2>5
  <2>11. <<>> \in Seq(Files)
    OBVIOUS
  <2>12. QED
    BY <2>2, <2>3, <2>5, <2>7, <2>8, <2>9, <2>10, <2>11
<1>8. CASE FormatMessage
  <2>1. /\ making = "format"
        /\ UNCHANGED <<subject, keys, opened, paths, room, unloaded, moved>>
    BY <1>8 DEF FormatMessage, registryState
  <2>2. PICK from : /\ NextPart([texts[part] EXCEPT !.from = from])
                    /\ from = None \/ \E i \in DOMAIN modules : from = modules[i]
    BY <1>8 DEF FormatMessage
  <2>3. [texts[part] EXCEPT !.from = from] = [key |-> texts[part].key, from |-> from]
    <3>1. texts[part] = [key |-> texts[part].key, from |-> texts[part].from]
      OBVIOUS
    <3>2. QED
      BY <3>1
  <2> DEFINE text == [key |-> texts[part].key, from |-> from]
  <2>4. text = [key |-> text.key, from |-> text.from] /\ text.key = texts[part].key /\ text.from = from
    OBVIOUS
  <2>5. from = Host => unloaded
    BY <2>2, HostIsNoFile
  <2>6. NextPart(text)
    BY <2>2, <2>3
  <2> HIDE DEF text
  <2>7. QED
    BY <1>n, <2>1, <2>4, <2>5, <2>6
\* Steps that leave the texts alone.
<1>k. ASSUME UNCHANGED <<subject, keys, opened, paths, part, attempt, modules, texts, unloaded, moved>>,
             making \in {"user", "account size", "account"},
             making' \in {"account size", "account", "returned"}
      PROVE  RecordInv'
  <2>1. \A k : First(k) => First(k)'
    BY <1>k DEF First, KeyTried
  <2>2. QED
    BY <1>k, <2>1
<1>9. CASE GetUser \/ NoSid
  BY <1>k, <1>9 DEF GetUser, NoSid, registryState, textState
<1>10. CASE NoSuchSid \/ AskNameSize \/ LookupAccountSid
  BY <1>k, <1>10 DEF NoSuchSid, AskNameSize, LookupAccountSid, registryState, textState
<1>11. CASE LookupSid
  BY <1>11, <1>e DEF LookupSid, registryState, textState
<1>12. CASE GetEventLogObject
  <2>1. /\ making = "idle" /\ making' = "open"
        /\ UNCHANGED <<opened, paths, part, attempt, modules, texts, unloaded, moved>>
    BY <1>12 DEF GetEventLogObject, textState
  <2>2. \A p \in Parts : texts'[p] = NoText
    BY <2>1
  <2>3. QED
    BY <2>1, <2>2, <1>e
<1>13. CASE RecordDone
  <2>1. /\ part' = "category" /\ attempt' = 1 /\ opened' = NoKey /\ paths' = <<>>
        /\ modules' = <<>> /\ texts' = [p \in Parts |-> NoText] /\ moved' = 0 /\ making' = "idle"
    BY <1>13 DEF RecordDone
  <2>2. part' \in Parts
    BY <2>1 DEF Parts
  <2>3. QED
    BY <2>1, <2>2, <1>e
<1>14. CASE UNCHANGED recordVars
  <2>1. UNCHANGED <<making, subject, keys, opened, paths, part, attempt, modules, texts, unloaded, moved>>
    BY <1>14 DEF recordVars
  <2>2. \A k : First(k) => First(k)'
    BY <2>1 DEF First, KeyTried
  <2>3. QED
    BY <2>1, <2>2 DEF KeyTried
<1>15. QED
  BY <1>1, <1>2, <1>3, <1>4, <1>5, <1>6, <1>7, <1>8, <1>9, <1>10, <1>11, <1>12, <1>13, <1>14
  DEF RecordChange, RecordCall

\* RecordInv holds whatever the other calls do.
LEMMA RecordsAlways == Spec => []RecordInv
<1>1. Init => RecordInv
  <2> SUFFICES ASSUME Init PROVE RecordInv
    OBVIOUS
  <2>1. /\ part = "category" /\ attempt = 1 /\ opened = NoKey /\ paths = <<>>
        /\ modules = <<>> /\ texts = [p \in Parts |-> NoText] /\ moved = 0 /\ making = "idle"
    BY DEF Init, RecordInit
  <2>2. part \in Parts
    BY <2>1 DEF Parts
  <2>3. NoText = [key |-> NoText.key, from |-> NoText.from] /\ NoText.key = NoKey /\ NoText.from # Host
    BY HostIsNoFile DEF NoText
  <2>4. QED
    BY <2>1, <2>2, <2>3 DEF RecordInv
<1>2. RecordInv /\ [Next]_vars => RecordInv'
  BY Components, RecordStep
<1>3. QED
  BY <1>1, <1>2, PTL DEF Spec

\* The category and the message of a record are looked up under one key, unless
\* the registry changes meanwhile, and come from the program only if a file of
\* the source could not be loaded.
THEOREM TextsOfOne == Spec => []TextsOfOneSource
<1>1. RecordInv => TextsOfOneSource
  <2> SUFFICES ASSUME RecordInv PROVE TextsOfOneSource
    OBVIOUS
  <2>1. "category" \in Parts /\ "message" \in Parts
    BY DEF Parts
  <2>2. QED
    BY <2>1, OneFirst DEF RecordInv, TextsOfOneSource
<1>2. QED
  BY <1>1, RecordsAlways, PTL

-----------------------------------------------------------------------------
\* Every call gives back what it took, however it ends, but for the two strings
\* that getCounters and expandCounterPath are known to keep.
THEOREM NothingIsKept == Spec => []NothingKept
<1>1. Init => NamesInv
  BY DEF Init, NamesInit, NamesInv
<1>2. NamesInv /\ [Next]_vars => NamesInv'
  BY Components, NamesKept
<1>3. Spec => []NamesInv
  BY <1>1, <1>2, PTL DEF Spec
<1>4. ProcessInv /\ NamesInv /\ RecordInv => NothingKept
  BY ProcessConstants DEF ProcessInv, NamesInv, RecordInv, NothingKept, HandleNatives
<1>5. QED
  BY <1>3, <1>4, ProcessesAlways, RecordsAlways, PTL

-----------------------------------------------------------------------------
(* SystemTime.                                                             *)

\* What rounding to the nearest of a percentage comes to.
LEMMA Rounding ==
    ASSUME NEW whole \in Nat \ {0}, NEW share \in Nat
    PROVE  /\ Percent(share, whole) \in Nat
           /\ 2 * whole * Percent(share, whole) <= 200 * share + whole
           /\ 200 * share + whole < 2 * whole * Percent(share, whole) + 2 * whole
<1> DEFINE n == 200 * share + whole
           d == 2 * whole
<1>1. n \in Nat /\ d \in Nat \ {0}
  OBVIOUS
<1> HIDE DEF n, d
<1>2. /\ n \div d \in Nat
      /\ d * (n \div d) <= n
      /\ n < d * (n \div d) + d
  BY <1>1
<1>3. Percent(share, whole) = n \div d
  BY DEF Percent, n, d
<1> HIDE DEF Percent
<1>4. QED
  BY <1>1, <1>2, <1>3 DEF n, d

\* A number that is at most 201/200 of a hundred is at most a hundred.
LEMMA AtMostHundred ==
    ASSUME NEW whole \in Nat \ {0}, NEW n \in Nat, 2 * whole * n <= 201 * whole
    PROVE  n <= 100
<1> SUFFICES ASSUME n >= 101 PROVE FALSE
  OBVIOUS
<1>1. whole * n >= whole * 101
  OBVIOUS
<1>2. QED
  BY <1>1

Times == [idle : Nat, kernel : Nat, user : Nat]

TimeInv ==
    /\ first \in Times
    /\ sampling = "sampled" =>
          LET system == first.kernel + first.user
              kernel == Percent(Busy(first.kernel, first.idle), system)
              userShare == Percent(first.user, system)
          IN  shares = [idle |-> 100 - userShare - kernel, kernel |-> kernel, user |-> userShare]

\* The first sample is of numbers, and the shares follow from the two samples.
LEMMA TimeStep == TimeInv /\ [TimeNext]_timeVars => TimeInv'
<1> SUFFICES ASSUME TimeInv, [TimeNext]_timeVars PROVE TimeInv'
  OBVIOUS
<1> USE DEF TimeInv
<1>1. CASE TimePasses
  <2>1. PICK idle \in {0, 1}, kernel \in {0, 1}, userTick \in {0, 1} :
            first' = [idle |-> first.idle + idle, kernel |-> first.kernel + kernel,
                      user |-> first.user + userTick]
    BY <1>1 DEF TimePasses
  <2>2. first' \in Times
    BY <2>1 DEF Times
  <2>3. sampling' # "sampled"
    BY <1>1 DEF TimePasses
  <2>4. QED
    BY <2>2, <2>3
<1>2. CASE FirstSample
  BY <1>2 DEF FirstSample
<1>3. CASE SecondSample
  BY <1>3 DEF SecondSample, Percent, Busy
<1>4. CASE TimeDone
  BY <1>4 DEF TimeDone, NoTimes, Times
<1>5. CASE UNCHANGED timeVars
  BY <1>5 DEF timeVars, Percent, Busy
<1>6. QED
  BY <1>1, <1>2, <1>3, <1>4, <1>5 DEF TimeNext, TimeCall

\* The arithmetic of SharesOfTheInterval, for times of any size.
LEMMA SharesOfTimes ==
    ASSUME NEW k \in Nat, NEW i \in Nat, NEW u \in Nat
    PROVE  LET system == k + u
               kernel == Percent(Busy(k, i), system)
               userShare == Percent(u, system)
               usage == IF userShare + kernel > 100 THEN 100 ELSE userShare + kernel
           IN  /\ kernel \in 0 .. 100 /\ userShare \in 0 .. 100
               /\ 100 - userShare - kernel \in -1 .. 100
               /\ usage \in 0 .. 100
               /\ system # 0 => /\ usage * system <= 100 * (u + Busy(k, i)) + system
                                /\ 100 * (u + Busy(k, i)) <= usage * system + system
<1> DEFINE w == k + u
           b == Busy(k, i)
           x == Percent(b, w)
           y == Percent(u, w)
<1>1. w \in Nat /\ b \in Nat /\ b + u <= w
  BY DEF Busy
<1>2. CASE w = 0
  <2>1. x = 0 /\ y = 0
    BY <1>2 DEF Percent
  <2> HIDE DEF x, y, b
  <2>2. QED
    BY <1>1, <1>2, <2>1 DEF x, y, b
<1>3. CASE w # 0
  <2> HIDE DEF w, b
  <2>1. /\ x \in Nat /\ 2 * w * x <= 200 * b + w /\ 200 * b + w < 2 * w * x + 2 * w
        /\ y \in Nat /\ 2 * w * y <= 200 * u + w /\ 200 * u + w < 2 * w * y + 2 * w
    BY <1>1, <1>3, Rounding
  <2> HIDE DEF x, y
  <2>2. 2 * w * x <= 201 * w /\ 2 * w * y <= 201 * w
    BY <1>1, <2>1
  <2>3. x <= 100 /\ y <= 100
    BY <1>1, <1>3, <2>1, <2>2, AtMostHundred
  <2>4. 2 * (w * (x + y)) <= 200 * (b + u) + 2 * w
    BY <1>1, <2>1
  <2>5. 200 * (b + u) < 2 * (w * (x + y)) + 2 * w
    BY <1>1, <2>1
  <2>6. x + y <= 101
    <3> SUFFICES ASSUME x + y >= 102 PROVE FALSE
      BY <2>1
    <3>1. w * (x + y) >= w * 102
      BY <1>1, <2>1
    <3>2. QED
      BY <1>1, <1>3, <2>1, <2>4, <3>1
  <2> DEFINE usage == IF y + x > 100 THEN 100 ELSE y + x
  <2>7. usage * w <= 100 * (u + b) + w
    <3>1. usage <= x + y /\ usage \in Nat
      BY <2>1
    <3> HIDE DEF usage
    <3>2. usage * w <= w * (x + y)
      BY <1>1, <2>1, <3>1
    <3>3. QED
      BY <1>1, <2>1, <2>4, <3>1, <3>2
  <2>8. 100 * (u + b) <= usage * w + w
    <3>1. CASE y + x > 100
      BY <1>1, <3>1
    <3>2. CASE ~(y + x > 100)
      <4>1. usage * w = w * (x + y)
        BY <1>1, <2>1, <3>2
      <4> HIDE DEF usage
      <4>2. usage * w \in Nat
        BY <1>1, <2>1, <4>1
      <4>3. QED
        BY <1>1, <2>1, <2>5, <4>1, <4>2
    <3>3. QED
      BY <3>1, <3>2
  <2>9. usage \in 0 .. 100 /\ 100 - y - x \in -1 .. 100
    BY <2>1, <2>3, <2>6
  <2> HIDE DEF usage
  <2>10. QED
    BY <2>1, <2>3, <2>7, <2>8, <2>9 DEF w, b, x, y, usage
<1>4. QED
  BY <1>2, <1>3

\* The shares that SystemTime computes are percentages of the interval, for
\* intervals of any length.
THEOREM SharesOfAnyInterval == Spec => []SharesOfTheInterval
<1>1. Init => TimeInv
  BY DEF Init, TimeInit, TimeInv, NoTimes, Times
<1>2. TimeInv /\ [Next]_vars => TimeInv'
  BY Components, TimeStep
<1>3. TimeInv => SharesOfTheInterval
  <2> SUFFICES ASSUME TimeInv, sampling = "sampled" PROVE SharesOfTheInterval
    BY DEF SharesOfTheInterval
  <2>1. first.kernel \in Nat /\ first.idle \in Nat /\ first.user \in Nat
    BY DEF TimeInv, Times
  <2> DEFINE kernel == Percent(Busy(first.kernel, first.idle), first.kernel + first.user)
             userShare == Percent(first.user, first.kernel + first.user)
  <2>2. shares.idle = 100 - userShare - kernel /\ shares.kernel = kernel /\ shares.user = userShare
    BY DEF TimeInv
  <2> HIDE DEF kernel, userShare
  <2>3. GetUsage = IF userShare + kernel > 100 THEN 100 ELSE userShare + kernel
    BY <2>2 DEF GetUsage
  <2> DEFINE system == first.kernel + first.user
             busy == Busy(first.kernel, first.idle)
  <2>4. /\ kernel \in 0 .. 100 /\ userShare \in 0 .. 100 /\ 100 - userShare - kernel \in -1 .. 100
        /\ GetUsage \in 0 .. 100
        /\ system # 0 => /\ GetUsage * system <= 100 * (first.user + busy) + system
                         /\ 100 * (first.user + busy) <= GetUsage * system + system
    BY <2>1, <2>3, SharesOfTimes DEF kernel, userShare
  <2> HIDE DEF busy, system
  <2>5. QED
    BY <2>2, <2>4 DEF SharesOfTheInterval, busy, system
<1>4. QED
  BY <1>1, <1>2, <1>3, PTL DEF Spec

-----------------------------------------------------------------------------
(* The name of an account is an answer in the sense of Query.              *)

Phase == CASE making \in {"account size", "account"} -> "asked"
           [] making = "returned" /\ accounts # {} -> "answered"
           [] OTHER -> "idle"

\* While an account is asked for it is among those that there were; there is
\* nothing of it before, and nothing after a call that asked for none.
AccountInv ==
    /\ account \in AccountNames
    /\ making \in {"account size", "account"} => account \in accounts
    /\ making # "returned" => user = NoUser
    /\ making \notin {"account size", "account", "returned"} => accounts = {}
    /\ accounts = {} => account = 0 /\ user = NoUser

QueryStep == [UserQuery!Next]_<<Phase, account, accounts, user>>

\* That there is no account is a state of the account.
LEMMA NoAccount == 0 \in AccountNames
  BY SMT DEF AccountNames

\* Every step of a record, and of the accounts, is one of Query or changes
\* nothing that Query sees.
LEMMA AccountStep ==
    AccountInv /\ (RecordChange \/ RecordCall \/ UNCHANGED recordVars)
        => AccountInv' /\ QueryStep
<1> SUFFICES ASSUME AccountInv, RecordChange \/ RecordCall \/ UNCHANGED recordVars
             PROVE  AccountInv' /\ QueryStep
  OBVIOUS
<1> USE DEF AccountInv
<1>p. /\ making \in {"account size", "account"} => Phase = "asked"
      /\ making = "returned" /\ accounts # {} => Phase = "answered"
      /\ making \notin {"account size", "account", "returned"} => Phase = "idle"
      /\ accounts = {} => Phase = "idle"
  BY DEF Phase
<1>q. /\ making' \in {"account size", "account"} => Phase' = "asked"
      /\ making' = "returned" /\ accounts' # {} => Phase' = "answered"
      /\ making' \notin {"account size", "account", "returned"} => Phase' = "idle"
      /\ AccountInv' /\ accounts' = {} => Phase' = "idle"
  BY DEF Phase
\* A step that the accounts are no part of.
<1>s. ASSUME UNCHANGED <<account, accounts, user>>,
             \/ making = making'
             \/ {making, making'} \subseteq {"account size", "account"}
             \/ /\ {making, making'} \intersect {"account size", "account"} = {}
                /\ making \notin {"returned"}
      PROVE  AccountInv' /\ QueryStep
  <2>1. AccountInv'
    BY <1>s
  <2>2. Phase' = Phase
    BY <1>s DEF Phase
  <2>3. QED
    BY <1>s, <2>1, <2>2 DEF QueryStep
<1>1. CASE KeysChange \/ ValueChanges
  BY <1>1, <1>s DEF KeysChange, ValueChanges, accountState
<1>2. CASE AccountChanges
  <2>1. /\ making \in {"account size", "account"} /\ making' = making
        /\ account' \in AccountNames /\ accounts' = accounts \union {account'} /\ user' = user
    BY <1>2 DEF AccountChanges
  <2>2. UserQuery!Change
    BY <1>p, <1>q, <2>1 DEF UserQuery!Change, Phase
  <2>3. QED
    BY <2>1, <2>2 DEF UserQuery!Next, QueryStep
<1>3. CASE OpenKey \/ OpenNextKey \/ AskValueSize \/ LoadModules \/ FormatMessage
  <2>1. /\ making \in {"open", "size", "value", "format"}
        /\ making' \in {"open", "size", "value", "format", "user"}
        /\ UNCHANGED <<account, accounts, user>>
    BY <1>3 DEF OpenKey, OpenNextKey, AskValueSize, LoadModules, FormatMessage, NextPart, accountState
  <2>2. QED
    BY <1>s, <2>1
<1>4. CASE GetUser \/ LookupSid
  <2>1. /\ making \in {"user", "idle"} /\ making' = "account size"
        /\ account' \in AccountNames /\ accounts' = {account'} /\ user' = user
    BY <1>4 DEF GetUser, LookupSid
  <2>2. UserQuery!Ask
    BY <1>p, <1>q, <2>1 DEF UserQuery!Ask, Phase
  <2>3. QED
    BY <2>1, <2>2 DEF UserQuery!Next, QueryStep
<1>5. CASE NoSid
  BY <1>5, <1>s DEF NoSid, accountState
<1>6. CASE AskNameSize
  BY <1>6, <1>s DEF AskNameSize
<1>7. CASE GetEventLogObject
  BY <1>7, <1>s DEF GetEventLogObject, accountState
<1>8. CASE NoSuchSid \/ LookupAccountSid
  <2>1. /\ making \in {"account size", "account"} /\ making' = "returned"
        /\ user' \in {account, NoUser}
        /\ UNCHANGED <<account, accounts>>
    BY <1>8 DEF NoSuchSid, LookupAccountSid, accountState
  <2>2. accounts # {}
    BY <2>1
  <2>3. UserQuery!Answer
    BY <1>p, <1>q, <2>1, <2>2 DEF UserQuery!Answer, Phase
  <2>4. QED
    BY <2>1, <2>2, <2>3 DEF UserQuery!Next, QueryStep
<1>9. CASE RecordDone
  <2>1. /\ making = "returned" /\ making' = "idle"
        /\ account' = 0 /\ accounts' = {} /\ user' = NoUser
    BY <1>9 DEF RecordDone
  <2>2. CASE accounts = {}
    <3>1. UNCHANGED <<Phase, account, accounts, user>>
      BY <1>p, <1>q, <2>1, <2>2 DEF Phase
    <3>2. QED
      BY NoAccount, <2>1, <3>1 DEF QueryStep
  <2>3. CASE accounts # {}
    <3>1. UserQuery!Forget
      BY NoAccount, <1>p, <1>q, <2>1, <2>3 DEF UserQuery!Forget, Phase
    <3>2. QED
      BY NoAccount, <2>1, <3>1 DEF UserQuery!Next, QueryStep
  <2>4. QED
    BY <2>2, <2>3
<1>10. CASE UNCHANGED recordVars
  BY <1>10, <1>s DEF recordVars
<1>11. QED
  BY <1>1, <1>2, <1>3, <1>4, <1>5, <1>6, <1>7, <1>8, <1>9, <1>10 DEF RecordChange, RecordCall

\* The name of the user of a record, and what lookupAccountSid returns, is a
\* name that the account had at some moment of the call, or none.
LEMMA UserIsAnAnswer == Spec => UserQuery!Spec
<1>1. Init => AccountInv /\ UserQuery!Init
  <2> SUFFICES ASSUME Init PROVE AccountInv /\ UserQuery!Init
    OBVIOUS
  <2>1. making = "idle" /\ account = 0 /\ accounts = {} /\ user = NoUser
    BY DEF Init, RecordInit
  <2>2. QED
    BY <2>1, NoAccount DEF AccountInv, UserQuery!Init
<1>2. AccountInv /\ [Next]_vars => AccountInv' /\ QueryStep
  BY Components, AccountStep
<1>3. QED
  BY <1>1, <1>2, PTL DEF Spec, UserQuery!Spec, QueryStep, Phase

-----------------------------------------------------------------------------
(* The lists of names are answers in the sense of Query.                   *)

\* A set of numbers that has 0 and each number's successor has them all.
LEMMA Induction ==
    ASSUME NEW S, 0 \in S, \A n \in Nat : n \in S => n + 1 \in S
    PROVE  Nat \subseteq S
<1> DEFINE T == Nat \ S
<1> SUFFICES ASSUME T # {} PROVE FALSE
  OBVIOUS
<1>1. \E x \in T : \A y \in T : ~(<<y, x>> \in OpToRel(<, Nat))
  <2>1. T \subseteq Nat
    OBVIOUS
  <2> HIDE DEF T
  <2>2. QED
    BY <2>1, NatLessThanWellFounded, WFMin
<1>2. PICK x \in T : \A y \in T : ~(<<y, x>> \in OpToRel(<, Nat))
  BY <1>1
<1>3. x \in Nat /\ x # 0 /\ x - 1 \in Nat /\ (x - 1) + 1 = x /\ x - 1 < x
  OBVIOUS
<1>4. x - 1 \in T
  BY <1>2, <1>3
<1>5. <<x - 1, x>> \in OpToRel(<, Nat)
  BY <1>3 DEF OpToRel
<1>6. QED
  BY <1>2, <1>4, <1>5

\* The string that the second loop of ConvertStringArray goes on to.
Following(strings, at) ==
    CHOOSE p \in Filled(strings) : p > at /\ \A q \in Filled(strings) : q > at => q >= p

Walks(f, strings) ==
    f = [i \in 1 .. Cardinality(Filled(strings)) |-> IF i = 1 THEN 1 ELSE Following(strings, f[i - 1])]

\* A strings whose first strings are filled is walked string by string.
LEMMA WalkFromTheStart ==
    ASSUME NEW strings, NEW n \in Nat, Filled(strings) = 1 .. n
    PROVE  ConvertStringArray(strings) = [i \in 1 .. n |-> strings[i]]
<1>1. Cardinality(Filled(strings)) = n
  BY FS_Interval
<1>2. ASSUME NEW i \in 1 .. n, i # 1 PROVE Following(strings, i - 1) = i
  <2>1. i > i - 1 /\ \A q \in 1 .. n : q > i - 1 => q >= i
    OBVIOUS
  <2>2. \A p \in 1 .. n : p > i - 1 /\ (\A q \in 1 .. n : q > i - 1 => q >= p) => p = i
    BY <2>1
  <2>3. QED
    BY <2>1, <2>2 DEF Following
<1>3. \E f : Walks(f, strings)
  <2> DEFINE f == [i \in 1 .. n |-> i]
  <2>1. ASSUME NEW i \in 1 .. n PROVE f[i] = IF i = 1 THEN 1 ELSE Following(strings, f[i - 1])
    <3>1. i # 1 => i - 1 \in 1 .. n
      OBVIOUS
    <3>2. f[i] = i /\ (i # 1 => f[i - 1] = i - 1)
      BY <3>1
    <3>3. QED
      BY <1>2, <3>2
  <2>2. f = [i \in 1 .. n |-> f[i]]
    OBVIOUS
  <2> HIDE DEF f
  <2>3. f = [i \in 1 .. n |-> IF i = 1 THEN 1 ELSE Following(strings, f[i - 1])]
    BY <2>1, <2>2
  <2>4. QED
    BY <1>1, <2>3 DEF Walks
<1> DEFINE walk[i \in 1 .. Cardinality(Filled(strings))] ==
               IF i = 1 THEN 1
               ELSE CHOOSE p \in Filled(strings) :
                        p > walk[i - 1] /\ \A q \in Filled(strings) : q > walk[i - 1] => q >= p
<1>4. ConvertStringArray(strings) = [i \in DOMAIN walk |-> strings[walk[i]]]
  BY DEF ConvertStringArray
<1>5. walk = CHOOSE f : Walks(f, strings)
  BY DEF walk, Walks, Following
<1> HIDE DEF walk
<1>6. walk = [i \in 1 .. n |-> IF i = 1 THEN 1 ELSE Following(strings, walk[i - 1])]
  BY <1>1, <1>3, <1>5 DEF Walks
<1> DEFINE S == {i \in Nat : i + 1 \in 1 .. n => walk[i + 1] = i + 1}
<1>7. 0 \in S
  BY <1>6
<1>8. ASSUME NEW i \in Nat, i \in S PROVE i + 1 \in S
  <2> SUFFICES ASSUME (i + 1) + 1 \in 1 .. n PROVE walk[(i + 1) + 1] = (i + 1) + 1
    OBVIOUS
  <2>1. i + 1 \in 1 .. n /\ (i + 1) + 1 # 1 /\ ((i + 1) + 1) - 1 = i + 1
    OBVIOUS
  <2>2. walk[i + 1] = i + 1
    BY <1>8, <2>1
  <2>3. walk[(i + 1) + 1] = Following(strings, walk[i + 1])
    BY <1>6, <2>1
  <2>4. QED
    BY <1>2, <2>1, <2>2, <2>3
<1> HIDE DEF S
<1>9. Nat \subseteq S
  BY <1>7, <1>8, Induction
<1>10. ASSUME NEW i \in 1 .. n PROVE walk[i] = i
  <2>1. i - 1 \in Nat /\ (i - 1) + 1 = i
    OBVIOUS
  <2>2. i - 1 \in S
    BY <1>9, <2>1
  <2>3. QED
    BY <2>1, <2>2 DEF S
<1>11. DOMAIN walk = 1 .. n
  BY <1>6
<1>12. QED
  BY <1>4, <1>10, <1>11

\* There are finitely many names.
LEMMA NumberOfNames == Cardinality(PdhNames) \in Nat
<1>1. IsFiniteSet(PdhNames)
  BY CounterNamesAssumption DEF CounterNamesAssumption
<1>2. QED
  BY <1>1, FS_CardinalityType

\* A list of names that a strings holds comes out of it as it is.
LEMMA NamesComeBack ==
    ASSUME NEW list \in NameLists, NEW length \in Nat, Len(list) <= length
    PROVE  ConvertStringArray(Buffer(list, length)) = list
<1>1. PICK n \in 0 .. Cardinality(PdhNames) : list \in [1 .. n -> PdhNames]
  BY DEF NameLists
<1>2. n \in Nat
  BY <1>1, NumberOfNames
<1>3. Len(list) = n /\ list = [i \in 1 .. n |-> list[i]]
  BY <1>1, <1>2
<1> DEFINE b == Buffer(list, length)
<1>4. DOMAIN b = 1 .. length /\ \A i \in 1 .. length : b[i] = IF i <= n THEN list[i] ELSE ""
  BY <1>3 DEF Buffer
<1> HIDE DEF b
<1>5. n <= length /\ 1 .. n \subseteq 1 .. length
  BY <1>2, <1>3
<1>6. \A i \in 1 .. n : list[i] # ""
  BY <1>1, CounterNamesAssumption DEF CounterNamesAssumption
<1>7. Filled(b) = 1 .. n
  <2>1. \A i \in 1 .. length : b[i] # "" <=> i <= n
    <3>1. ASSUME NEW i \in 1 .. length, i <= n PROVE b[i] # ""
      <4>1. i \in 1 .. n
        BY <1>2, <3>1
      <4>2. QED
        BY <1>4, <1>6, <3>1, <4>1
    <3>2. QED
      BY <1>4, <3>1
  <2>2. Filled(b) = {i \in 1 .. length : i <= n}
    BY <1>4, <2>1 DEF Filled
  <2>3. QED
    BY <1>2, <1>5, <2>2
<1>8. ConvertStringArray(b) = [i \in 1 .. n |-> b[i]]
  BY <1>2, <1>7, WalkFromTheStart
<1>9. ASSUME NEW i \in 1 .. n PROVE b[i] = list[i]
  <2>1. i \in 1 .. length /\ i <= n
    BY <1>2, <1>5
  <2>2. QED
    BY <1>4, <2>1
<1>10. QED
  BY <1>3, <1>8, <1>9 DEF b

\* That there are no names is something that there may be.
LEMMA NothingIsPair == <<>> \in NameLists /\ Nothing \in Pairs
<1>1. 0 \in 0 .. Cardinality(PdhNames)
  BY NumberOfNames
<1>2. <<>> \in [1 .. 0 -> PdhNames] /\ IsInjective(<<>>)
  BY DEF IsInjective
<1>3. QED
  BY <1>1, <1>2 DEF NameLists, Pairs, Nothing

NamesPhase == CASE asking = "idle" -> "idle"
                [] asking = "returned" -> "answered"
                [] OTHER -> "asked"

UnderWay == {"connect", "length", "fetch"}

\* While names are asked for, those that there are belong to what is asked and
\* are among those that there were; there is no answer before the call returns.
AnswerInv ==
    /\ asking \in UnderWay \union {"idle", "returned"}
    /\ existing \in Pairs
    /\ lengths \in Nat \X Nat
    /\ asking = "idle" => shown = {}
    /\ asking # "returned" => outcome = Failure("none")
    /\ asking \in UnderWay => existing \in PairsOf(native) \intersect shown

NamesQueryStep ==
    [NamesQuery!Next]_<<NamesPhase, Listed(existing), {Listed(pair) : pair \in shown}, outcome>>

\* What FetchNames takes out of its buffers is what was there.
LEMMA FetchedIsThere == AnswerInv /\ FetchNames => Fetched = existing
<1> SUFFICES ASSUME AnswerInv, FetchNames PROVE Fetched = existing
  OBVIOUS
<1>1. /\ existing \in PairsOf(native) /\ existing \in Pairs
      /\ existing.list \in NameLists /\ existing.instances \in NameLists
      /\ lengths[1] \in Nat /\ lengths[2] \in Nat
  BY DEF AnswerInv, FetchNames, UnderWay, Pairs
<1>2. /\ Needs(existing)[1] = Len(existing.list) + 1
      /\ Needs(existing)[2] = IF native = "getCounters" THEN Len(existing.instances) + 1 ELSE 0
      /\ Needs(existing)[1] <= lengths[1] /\ Needs(existing)[2] <= lengths[2]
  BY DEF FetchNames, Fits, Needs
<1>3. \A list \in NameLists : Len(list) \in Nat
  BY DEF NameLists
<1>4. Len(existing.list) <= lengths[1]
  <2>1. Len(existing.list) \in Nat
    BY <1>1, <1>3
  <2>2. QED
    BY <1>1, <1>2, <2>1
<1>5. Len(existing.instances) <= lengths[2]
  <2>1. Len(existing.instances) \in Nat
    BY <1>1, <1>3
  <2>2. CASE native = "getCounters"
    BY <1>1, <1>2, <2>1, <2>2
  <2>3. CASE native # "getCounters"
    BY <1>1, <2>3 DEF PairsOf
  <2>4. QED
    BY <2>2, <2>3
<1>6. /\ ConvertStringArray(Buffer(existing.list, lengths[1])) = existing.list
      /\ ConvertStringArray(Buffer(existing.instances, lengths[2])) = existing.instances
  <2>1. \A list \in NameLists, length \in Nat :
            Len(list) <= length => ConvertStringArray(Buffer(list, length)) = list
    BY NamesComeBack
  <2>2. QED
    BY <1>1, <1>4, <1>5, <2>1
<1>7. QED
  BY <1>1, <1>6, Zenon DEF Fetched, Pairs

\* Every step of a listing of names is one of Query or changes nothing that
\* Query sees.
LEMMA NamesAsked ==
    AnswerInv /\ (NamesChange \/ NamesFail \/ NamesStep \/ UNCHANGED namesVars)
        => AnswerInv' /\ NamesQueryStep
<1> SUFFICES ASSUME AnswerInv, NamesChange \/ NamesFail \/ NamesStep \/ UNCHANGED namesVars
             PROVE  AnswerInv' /\ NamesQueryStep
  OBVIOUS
<1> USE DEF AnswerInv, UnderWay
<1> DEFINE O == {Listed(pair) : pair \in shown}
<1>p. /\ asking = "idle" => NamesPhase = "idle" /\ O = {}
      /\ asking = "returned" => NamesPhase = "answered"
      /\ asking \in UnderWay => NamesPhase = "asked" /\ Listed(existing) \in O
  BY DEF NamesPhase
<1>q. /\ asking' = "idle" => NamesPhase' = "idle"
      /\ asking' = "returned" => NamesPhase' = "answered"
      /\ asking' \in UnderWay => NamesPhase' = "asked"
  BY DEF NamesPhase
<1>r. \A pair \in Pairs : Listed(pair) \in {Listed(other) : other \in Pairs}
  OBVIOUS
\* The call goes on to another question, and nothing is answered.
<1>s. ASSUME UNCHANGED <<native, existing, shown, outcome>>, lengths' \in Nat \X Nat,
             \/ asking \in UnderWay /\ asking' \in UnderWay
             \/ asking' = asking
      PROVE  AnswerInv' /\ NamesQueryStep
  <2>1. NamesPhase' = NamesPhase
    BY <1>p, <1>q, <1>s DEF NamesPhase
  <2>2. O' = O /\ Listed(existing)' = Listed(existing)
    BY <1>s DEF Listed
  <2>3. AnswerInv'
    BY <1>s
  <2>4. QED
    BY <1>s, <2>1, <2>2, <2>3 DEF NamesQueryStep
\* The call returns.
<1>a. ASSUME asking \in UnderWay, asking' = "returned", outcome' \in {Listed(existing)} \union Failures,
             UNCHANGED <<native, lengths, existing, shown>>
      PROVE  AnswerInv' /\ NamesQueryStep
  <2>1. O' = O /\ Listed(existing)' = Listed(existing)
    BY <1>a DEF Listed
  <2>2. NamesQuery!Answer
    BY <1>a, <1>p, <1>q, <2>1 DEF NamesQuery!Answer, NamesPhase
  <2>3. AnswerInv'
    BY <1>a
  <2>4. QED
    BY <2>2, <2>3 DEF NamesQueryStep, NamesQuery!Next
<1>f. \A why \in {"failed", "not connected", "too long", "not expanded"} : Failure(why) \in Failures
  BY DEF Failure, Failures
<1>1. CASE NamesChange
  <2>1. /\ asking \in UnderWay /\ asking' = asking /\ existing' \in PairsOf(native)
        /\ shown' = shown \union {existing'} /\ UNCHANGED <<native, lengths, outcome>>
    BY <1>1 DEF NamesChange
  <2>2. existing' \in Pairs
    BY <2>1 DEF PairsOf
  <2>3. O' = O \union {Listed(existing')}
    BY <2>1
  <2>4. NamesQuery!Change
    BY <1>p, <1>q, <1>r, <2>1, <2>2, <2>3 DEF NamesQuery!Change, NamesPhase
  <2>5. AnswerInv'
    BY <2>1, <2>2
  <2>6. QED
    BY <2>4, <2>5 DEF NamesQueryStep, NamesQuery!Next
<1>2. CASE PathTooLong
  BY <1>2, <1>a, <1>f DEF PathTooLong, Returns, worldVars
<1>3. CASE ConnectFails
  BY <1>3, <1>a, <1>f DEF ConnectFails, Returns, worldVars
<1>4. CASE AskLengthsFails
  <2>1. asking = "length" /\ UNCHANGED <<native, lengths, existing, shown>>
    BY <1>4 DEF AskLengthsFails, worldVars
  <2>2. CASE native = "getCounters"
    BY <1>4, <1>s, <2>1, <2>2 DEF AskLengthsFails
  <2>3. CASE native # "getCounters"
    <3>1. asking' = "returned" /\ outcome' \in {Failure("not expanded"), Failure("failed")}
      BY <1>4, <2>3 DEF AskLengthsFails, Returns
    <3>2. QED
      BY <1>a, <1>f, <2>1, <3>1
  <2>4. QED
    BY <2>2, <2>3
<1>5. ASSUME NEW of \in NameNatives, NEW other \in BOOLEAN, NamesCall(of, other)
      PROVE  AnswerInv' /\ NamesQueryStep
  <2>1. /\ asking = "idle" /\ asking' \in {"connect", "length"} /\ native' = of
        /\ existing' \in PairsOf(of) /\ shown' = {existing'} /\ UNCHANGED <<lengths, outcome>>
    BY <1>5 DEF NamesCall
  <2>2. existing' \in Pairs
    BY <2>1 DEF PairsOf
  <2>3. O' = {Listed(existing')}
    BY <2>1
  <2>4. NamesQuery!Ask
    BY <1>p, <1>q, <1>r, <2>1, <2>2, <2>3 DEF NamesQuery!Ask, NamesPhase
  <2>5. AnswerInv'
    BY <2>1, <2>2
  <2>6. QED
    BY <2>4, <2>5 DEF NamesQueryStep, NamesQuery!Next
<1>6. CASE NamesCalls
  <2>1. "getCategories" \in NameNatives /\ "getCounters" \in NameNatives
    BY DEF NameNatives
  <2>2. QED
    BY <1>5, <1>6, <2>1 DEF NamesCalls
<1>7. CASE Connect
  BY <1>7, <1>s DEF Connect, worldVars
<1>8. CASE AskLengths
  <2>1. asking = "length" /\ UNCHANGED <<native, existing, shown>>
    BY <1>8 DEF AskLengths, worldVars
  <2>2. CASE native = "expandCounterPath" /\ existing.list = <<>>
    <3>1. asking' = "returned" /\ outcome' = Listed(Nothing) /\ lengths' = lengths
      BY <1>8, <2>2 DEF AskLengths, Returns
    <3>2. existing = Nothing
      <4>1. existing \in Pairs /\ existing.list = <<>> /\ existing.instances = <<>>
        BY <2>1, <2>2 DEF PairsOf
      <4>2. QED
        BY <4>1 DEF Pairs, Nothing
    <3>3. QED
      BY <1>a, <2>1, <3>1, <3>2
  <2>3. CASE ~(native = "expandCounterPath" /\ existing.list = <<>>)
    <3>1. asking' = "fetch" /\ lengths' = Needs(existing) /\ outcome' = outcome
      BY <1>8, <2>3 DEF AskLengths
    <3>2. \A list \in NameLists : Len(list) \in Nat
      BY DEF NameLists
    <3>3. Len(existing.list) \in Nat /\ Len(existing.instances) \in Nat
      BY <3>2 DEF Pairs
    <3>4. Needs(existing) \in Nat \X Nat
      BY <3>3 DEF Needs
    <3>5. QED
      BY <1>s, <2>1, <3>1, <3>4
  <2>4. QED
    BY <2>2, <2>3
<1>9. CASE FetchNames
  <2>1. outcome' = Listed(existing)
    BY <1>9, FetchedIsThere DEF FetchNames, Returns
  <2>2. QED
    BY <1>9, <1>a, <2>1 DEF FetchNames, Returns, worldVars
<1>10. CASE FetchNamesFails
  BY <1>10, <1>a, <1>f DEF FetchNamesFails, Returns, worldVars
<1>11. CASE NamesDone
  <2>1. /\ asking = "returned" /\ asking' = "idle" /\ existing' = Nothing /\ lengths' = <<0, 0>>
        /\ outcome' = Failure("none") /\ shown' = {}
    BY <1>11 DEF NamesDone
  <2>2. Nothing \in Pairs
    BY NothingIsPair
  <2>3. O' = {}
    BY <2>1
  <2>4. NamesQuery!Forget
    BY <1>p, <1>q, <1>r, <2>1, <2>2, <2>3 DEF NamesQuery!Forget, NamesPhase
  <2>5. AnswerInv'
    BY <2>1, <2>2
  <2>6. QED
    BY <2>4, <2>5 DEF NamesQueryStep, NamesQuery!Next
<1>12. CASE UNCHANGED namesVars
  BY <1>12, <1>s DEF namesVars
<1>13. QED
  BY <1>1, <1>2, <1>3, <1>4, <1>6, <1>7, <1>8, <1>9, <1>10, <1>11, <1>12 DEF NamesFail, NamesStep

\* A list of names is the list at some moment of the call, or a refusal.
LEMMA NamesAreAnswers == Spec => NamesQuery!Spec
<1>1. Init => AnswerInv /\ NamesQuery!Init
  <2> SUFFICES ASSUME Init PROVE AnswerInv /\ NamesQuery!Init
    OBVIOUS
  <2>1. /\ asking = "idle" /\ existing = Nothing /\ lengths = <<0, 0>>
        /\ outcome = Failure("none") /\ shown = {}
    BY DEF Init, NamesInit
  <2>2. Nothing \in Pairs
    BY NothingIsPair
  <2>3. AnswerInv
    BY <2>1, <2>2 DEF AnswerInv, UnderWay
  <2>4. NamesQuery!Init
    BY <2>1, <2>2 DEF NamesQuery!Init
  <2>5. QED
    BY <2>3, <2>4
<1>2. AnswerInv /\ [Next]_vars => AnswerInv' /\ NamesQueryStep
  BY Components, NamesAsked
<1>3. QED
  BY <1>1, <1>2, PTL DEF Spec, NamesQuery!Spec, NamesQueryStep, NamesPhase

\* What PDH is asked for, and the account of a SID, is answered with something
\* that was true at some moment of the call, or with a refusal.
THEOREM AnswersInTime == Spec => AnswersOfTheTime
BY NamesAreAnswers, UserIsAnAnswer DEF AnswersOfTheTime
===========================================================================

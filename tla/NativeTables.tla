---------------------------- MODULE NativeTables ----------------------------
(***************************************************************************)
(* The tables of the IP Helper library: routingtable.c, arpcache.c,        *)
(* adapterinfo.c and ipglobalproperties.c. Every call asks for the size of *)
(* a table and then fetches it, while the system changes the table; the    *)
(* calls differ in what they make of the two return codes, in the address  *)
(* family of the two questions, in the index of the loop over the rows and *)
(* in what they call the kinds of a row (its state, type or protocol).     *)
(*                                                                         *)
(* A call sees one table, or for connections one of each family; what the  *)
(* tables hold between two calls is of no account.                         *)
(***************************************************************************)
EXTENDS Integers, FiniteSets

CONSTANTS
    Rows,       \* rows a table may have
    WordLimit   \* 2^16: the values of a WORD

ASSUME TablesAssumption ==
    /\ IsFiniteSet(Rows)
    /\ WordLimit \in Nat \ {0, 1}

VARIABLES
    step,       \* of the native call, "idle" between calls
    call,       \* what is asked for, and of which family
    table,      \* table[f]: the rows that the table of family f has
    size,       \* bytes of the buffer
    fetched,    \* the rows in the buffer, as the loop reads them
    index,      \* i of the loop over them
    answer,     \* what is returned: "list" of the rows in the buffer, or "null" or "thrown"
    miscalled,  \* the kind of some row was lost on the way to its object
    seen,       \* every content that table[f] has had during the call, for each f
    grown,      \* that table has grown during the call
    failed      \* the library has failed for reasons of its own

systemVars == <<table, seen, grown>>
tablesVars == <<step, call, size, fetched, index, answer, failed, miscalled, systemVars>>

Families == {"v4", "v6"}
Routes == "getRoutingEntries"
Neighbours == "getArpEntries"
Adapters == "nativeGetAdapterInfos"
IpGlobalNatives == [tcp |-> "getTcpConnections", udp |-> "getUdpListeners"]
Tcp == IpGlobalNatives.tcp
Udp == IpGlobalNatives.udp

Calls == [of : {Routes, Neighbours, Adapters}, family : {"v4"}]
           \union [of : {Tcp, Udp}, family : Families]
NoCall == [of |-> "none", family |-> "v4"]

TablesIdle == step = "idle"

NoTable == [f \in Families |-> {}]
Moment(tables) == [f \in Families |-> {tables[f]}]

TablesInit ==
    /\ step = "idle"
    /\ call = NoCall
    /\ table = NoTable
    /\ size = 0
    /\ fetched = {}
    /\ index = 0
    /\ answer = "none"
    /\ seen = NoTable
    /\ grown = FALSE
    /\ failed = FALSE
    /\ miscalled = FALSE

-----------------------------------------------------------------------------
(* The library.                                                            *)

\* Bytes for n rows: adapters are a list without a header, a row of IPv6 is
\* more than twice a row of IPv4.
Needed(of, family, n) ==
    CASE of = Adapters -> 640 * n
      [] of = Tcp -> 4 + (IF family = "v4" THEN 24 ELSE 56) * n
      [] of = Udp -> 4 + (IF family = "v4" THEN 12 ELSE 28) * n
      [] of = Neighbours -> 4 + 24 * n
      [] of = Routes -> 4 + 56 * n

NeededNow(family) == Needed(call.of, family, Cardinality(table[family]))

\* An empty table is an error, of all but the connections.
Empty(family) == table[family] = {} /\ call.of \in {Routes, Neighbours, Adapters}

Change ==
    /\ step \in {"size", "fetch"}
    /\ \E f \in Families, rows \in SUBSET Rows :
          /\ table' = [table EXCEPT ![f] = rows]
          /\ seen' = [seen EXCEPT ![f] = @ \union {rows}]
          /\ grown' = (grown \/ Cardinality(table'[call.family]) > Cardinality(table[call.family]))
    /\ UNCHANGED <<step, call, size, fetched, index, answer, failed, miscalled>>

-----------------------------------------------------------------------------
(* The calls.                                                              *)

\* The buffer the first question is asked with: none, one row or one adapter.
FirstSize(of) == CASE of = Tcp -> 28 [] of = Adapters -> 640 [] OTHER -> 0

NativeCall ==
    /\ step = "idle"
    /\ step' = "size"
    /\ call' \in Calls
    /\ table' \in [Families -> SUBSET Rows]
    /\ seen' = Moment(table')
    /\ size' = FirstSize(call'.of)
    /\ UNCHANGED <<fetched, index, answer, grown, failed, miscalled>>

Return(value) == step' = "returned" /\ answer' = value /\ UNCHANGED <<size, fetched>>
Fetching(bytes) == step' = "fetch" /\ size' = bytes /\ UNCHANGED <<fetched, answer>>
Listing(rows) == step' = "list" /\ fetched' = rows /\ UNCHANGED <<size, answer>>

\* TCP asks for IPv4 whatever it is for.
AskedFamily == IF call.of = Tcp THEN "v4" ELSE call.family

\* The first question. One that TCP's row answers is not asked again; one that
\* the adapter's answers is. ERROR_NO_DATA ends the routes, and the neighbours
\* if it left the size at 0.
AskSize ==
    /\ step = "size"
    /\ LET need == NeededNow(AskedFamily) IN
       CASE Empty(AskedFamily) /\ call.of = Routes -> Return("null")
         [] Empty(AskedFamily) /\ call.of = Neighbours -> Return("null") \/ Fetching(4)
         [] call.of = Tcp /\ need <= size -> Listing(table["v4"])
         [] OTHER -> Fetching(IF need <= size THEN size ELSE need)
    /\ UNCHANGED <<call, index, failed, miscalled, systemVars>>

\* UDP asks for one family and fetches IPv4.
FetchedFamily == IF call.of = Udp THEN "v4" ELSE call.family

\* The loop goes through every table of connections in steps of an IPv4 row. The
\* rows of IPv6, which only TCP fetches, are longer: it takes each from the bytes
\* of other rows or of an address, so that there are as many as in the table and
\* none of them is a row of it.
Misread(rows) == {"misread"} \X rows
AsRead(family, rows) == IF family = "v6" THEN Misread(rows) ELSE rows

\* The second question fails if the table does not fit any more. The routes and
\* the adapters look at the return code, TCP makes an empty list of it, the
\* others take the buffer as it was cleared.
Fallback == IF call.of \in {Routes, Adapters} THEN Return("null") ELSE Listing({})

\* Faulty Fetch: as many rows as fit.
FetchWhatFits ==
    /\ step = "fetch"
    /\ \E rows \in SUBSET table[FetchedFamily] :
          /\ Needed(call.of, FetchedFamily, Cardinality(rows)) <= size
          /\ NeededNow(FetchedFamily) <= size => rows = table[FetchedFamily]
          /\ Listing(AsRead(FetchedFamily, rows))
    /\ UNCHANGED <<call, index, failed, miscalled, systemVars>>

Fetch ==
    /\ step = "fetch"
    /\ IF NeededNow(FetchedFamily) <= size /\ ~Empty(FetchedFamily)
       THEN Listing(AsRead(FetchedFamily, table[FetchedFamily]))
       ELSE Fallback
    /\ UNCHANGED <<call, index, failed, miscalled, systemVars>>

\* Either question fails for another reason. With a size of 0 UDP has an empty
\* list if the family is not supported, and throws otherwise.
LibraryFails ==
    /\ failed' = TRUE
    /\ \/ step = "size" /\ call.of = Udp /\ (Return("thrown") \/ Listing({}))
       \/ step = "size" /\ call.of = Tcp /\ Listing({})
       \/ step = "size" /\ call.of \in {Routes, Neighbours} /\ Return("null")
       \/ step = "size" /\ call.of = Adapters /\ Fetching(size)
       \/ step = "fetch" /\ Fallback
    /\ UNCHANGED <<call, index, miscalled, systemVars>>

-----------------------------------------------------------------------------
(* The rows. A row's type, protocol or state is a number of the system, which *)
(* the native code calls by a name and the constructor of the Java object     *)
(* looks up in an enum: a name that the enum lacks would be thrown out.       *)

ForwardTypes == [DIRECT |-> "Direct", INDIRECT |-> "Indirect", INVALID |-> "Invalid", unnamed |-> "Other"]
ForwardProtocols ==
    [LOCAL |-> "Local", NETMGMT |-> "NetMgmt", ICMP |-> "ICMP", EGP |-> "EGP", GGP |-> "GGP",
     HELLO |-> "Hello", RIP |-> "RIP", IS_IS |-> "IS_IS", ES_IS |-> "ES_IS", CISCO |-> "IGRP",
     BBN |-> "BBN", OSPF |-> "OSPF", BGP |-> "BGP", NT_AUTOSTATIC |-> "Autostatic",
     NT_STATIC |-> "Static", NT_STATIC_NON_DOD |-> "StaticNonDOD", unnamed |-> "Other"]
ArpTypes == [STATIC |-> "Static", DYNAMIC |-> "Dynamic", INVALID |-> "Invalid", unnamed |-> "Other"]
TcpStates ==
    [CLOSED |-> "Closed", LISTEN |-> "Listen", SYN_SENT |-> "SynSent", SYN_RCVD |-> "SynReceived",
     ESTAB |-> "Established", FIN_WAIT1 |-> "FinWait1", FIN_WAIT2 |-> "FinWait2",
     CLOSE_WAIT |-> "CloseWait", CLOSING |-> "Closing", LAST_ACK |-> "LastACK",
     TIME_WAIT |-> "TimeWait", DELETE_TCB |-> "DeleteTCB", unnamed |-> "Unknown"]

RouteType == {"Direct", "Indirect", "Invalid", "Other"}
RouteProtocol == {"Other", "Local", "NetMgmt", "ICMP", "EGP", "GGP", "Hello", "RIP", "IS_IS", "ES_IS", "IGRP",
                  "BBN", "OSPF", "BGP", "Autostatic", "Static", "StaticNonDOD"}
ArpType == {"Static", "Dynamic", "Invalid", "Other"}
State == {"Unknown", "Closed", "Listen", "SynSent", "SynReceived", "Established", "FinWait1", "FinWait2",
          "CloseWait", "Closing", "LastACK", "TimeWait", "DeleteTCB"}

\* The number of an adapter's type is a place in the enum, from 0.
AdapterTypes == [Ethernet |-> 1, Tokenring |-> 2, FDDI |-> 3, PPP |-> 4, Loopback |-> 5, Slip |-> 6, Other |-> 0]
AdapterType == <<"Other", "Ethernet", "Tokenring", "FDDI", "PPP", "Loopback", "Slip">>

RowKinds(of) ==
    CASE of = Routes -> (DOMAIN ForwardTypes) \X (DOMAIN ForwardProtocols)
      [] of = Neighbours -> DOMAIN ArpTypes
      [] of = Adapters -> DOMAIN AdapterTypes
      [] of = Tcp -> DOMAIN TcpStates
      [] of = Udp -> {"listener"}

\* The object has the name that the native code calls the kind by, and no
\* other kind has it.
Keeps(called, enum, kind) ==
    called[kind] \in enum /\ \A other \in DOMAIN called : called[other] = called[kind] => other = kind

KeepsKind(of, kind) ==
    CASE of = Routes -> /\ Keeps(ForwardTypes, RouteType, kind[1])
                        /\ Keeps(ForwardProtocols, RouteProtocol, kind[2])
      [] of = Neighbours -> Keeps(ArpTypes, ArpType, kind)
      [] of = Adapters -> AdapterType[AdapterTypes[kind] + 1] = kind
      [] of = Tcp -> Keeps(TcpStates, State, kind)
      [] of = Udp -> TRUE

-----------------------------------------------------------------------------
(* The loop over the rows.                                                 *)

Rest == Cardinality(fetched)

\* Faulty NextIndex: the index is narrower still.
NextIndexByte(i) == (i + 1) % (WordLimit - 1)

\* The adapters are a linked list and the routes count in a DWORD.
NextIndex(i) == IF call.of \in {Adapters, Routes} THEN i + 1 ELSE (i + 1) % WordLimit

ListRow ==
    /\ step = "list"
    /\ index < Rest
    /\ index' = NextIndex(index)
    /\ \E kind \in RowKinds(call.of) : miscalled' = (miscalled \/ ~KeepsKind(call.of, kind))
    /\ UNCHANGED <<step, call, size, fetched, answer, failed, systemVars>>

ListEnd ==
    /\ step = "list"
    /\ index >= Rest
    /\ Return("list")
    /\ UNCHANGED <<call, index, failed, miscalled, systemVars>>

\* The caller has its answer.
TablesDone ==
    /\ step = "returned"
    /\ step' = "idle"
    /\ call' = NoCall
    /\ table' = NoTable
    /\ size' = 0
    /\ fetched' = {}
    /\ index' = 0
    /\ answer' = "none"
    /\ seen' = NoTable
    /\ grown' = FALSE
    /\ failed' = FALSE
    /\ miscalled' = FALSE

TablesCall == NativeCall \/ AskSize \/ Fetch \/ ListRow \/ ListEnd \/ TablesDone

TablesNext == Change \/ LibraryFails \/ TablesCall

-----------------------------------------------------------------------------
(* Properties.                                                             *)

\* What a call returns is the table that was asked for as it stood at some
\* moment of the call, and the name of every row's kind is that of its number;
\* or nothing, and then the table has grown between the two questions, so that a
\* caller cannot tell a busy table from an empty one. That is so for IPv4, and
\* for routes, neighbours and adapters. Of the connections of IPv6 a caller never
\* gets a row: UDP lists IPv4's, with 16 bytes for each address of 4, and so does
\* TCP if they are few; else it lists as many misread rows as the IPv6 table has
\* (ipglobalproperties.c:31, 37, 44 and 118).
SnapshotOrNothing ==
    step = "returned" /\ ~failed =>
        /\ ~miscalled
        /\ call.family = "v4" => fetched \in seen["v4"] \/ (fetched = {} /\ grown)
        /\ call.family = "v6" /\ fetched # {} =>
              \/ fetched \in seen["v4"]
              \/ call.of = Tcp /\ \E rows \in seen["v6"] : fetched = Misread(rows)

\* Every call returns, but for one that has more rows in hand than a WORD counts.
CallReturns == step # "idle" ~> (step = "idle" \/ Rest >= WordLimit)
=============================================================================

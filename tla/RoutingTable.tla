---------------------------- MODULE RoutingTable ----------------------------
(***************************************************************************)
(* RoutingTable.java and the route commands of LinuxApiScript.java: an     *)
(* address is looked up in what `route -een` prints, and entries are added *)
(* and deleted by the command `route`, from the arguments of the script    *)
(* command or from an entry that was found, while others change the table. *)
(*                                                                         *)
(* An address is a number of Width bits, a mask its length. Of an entry    *)
(* the model keeps the five fields by which the kernel tells entries apart.*)
(***************************************************************************)
EXTENDS Integers, Sequences, FiniteSets, SequencesExt

CONSTANTS
    Width,          \* bits of an address
    Routes,         \* entries that the table may have
    MaxRoutes,      \* bound: entries at a time
    MaxCommands     \* bound: changes of the table in one session of the client

Addresses == 0 .. 2^Width - 1
Masked(ip, len) == ip - (ip % 2^(Width - len))

ASSUME RoutesAssumption ==
    /\ Width \in Nat
    /\ Routes \subseteq [dst : Addresses, len : 0 .. Width, gw : Nat, metric : Nat, dev : Nat]
    /\ \A route \in Routes : Masked(route.dst, route.len) = route.dst
    /\ MaxRoutes \in Nat
    /\ MaxCommands \in Nat

VARIABLES
    routing,    \* the client's session, "idle" before and after
    routes,     \* the table, in the order that `route` prints it
    listed,     \* what `route` printed for findRoute
    found,      \* the address looked up and the entry found
    effect,     \* what the client's last command did, and what it named
    commands    \* changes of the table so far in the session

routesVars == <<routing, routes, listed, found, effect, commands>>

Null == -1
Fields == {"dst", "len", "gw", "metric", "dev"}
NoRoute == [f \in Fields |-> Null]
NoneFound == [ip |-> Null, entry |-> NoRoute]
NoEffect == [kind |-> "none", entry |-> NoRoute, named |-> NoRoute]

RoutesIdle == routing = "idle"

RoutesInit ==
    /\ routing = "idle"
    /\ routes = <<>>
    /\ listed = <<>>
    /\ found = NoneFound
    /\ effect = NoEffect
    /\ commands = 0

-----------------------------------------------------------------------------
(* The command `route` and the kernel.                                     *)

\* The mask is guessed from the address if none is named, and is full for a host.
Lengths(cmd) ==
    IF cmd.host THEN {Width}
    ELSE IF cmd.len # Null THEN {cmd.len}
    ELSE {len \in 0 .. Width : Masked(cmd.dst, len) = cmd.dst}

BadMask(cmd) ==
    /\ cmd.len # Null
    /\ Masked(cmd.dst, cmd.len) # cmd.dst \/ (cmd.host /\ cmd.len # Width)

\* A gateway or a metric of 0 is as good as none.
Unset(field) == {Null} \union (IF field \in {"gw", "metric"} THEN {0} ELSE {})

Matches(cmd, entry) ==
    /\ ~BadMask(cmd)
    /\ entry.dst = cmd.dst
    /\ entry.len \in Lengths(cmd)
    /\ \A f \in {"gw", "metric", "dev"} : cmd[f] \notin Unset(f) => entry[f] = cmd[f]

\* The entry that is made of a command.
Makes(cmd, entry) ==
    /\ Matches(cmd, entry)
    /\ cmd.gw # 0 /\ (cmd.gw = Null => entry.gw = 0 /\ cmd.dev # Null)
    /\ cmd.metric = Null => entry.metric = 0

Others ==
    /\ routing = "ready"
    /\ commands < MaxCommands
    /\ commands' = commands + 1
    /\ \/ \E i \in DOMAIN routes : routes' = RemoveAt(routes, i)
       \/ /\ Len(routes) < MaxRoutes
          /\ \E route \in Routes \ ToSet(routes), i \in 1 .. Len(routes) + 1 :
                routes' = InsertAt(routes, i, route)
    /\ UNCHANGED <<routing, listed, found, effect>>

-----------------------------------------------------------------------------
(* The client.                                                             *)

BeginRoutes ==
    /\ routing = "idle"
    /\ routing' = "ready"
    /\ routes' \in {s \in UNION {[1 .. n -> Routes] : n \in 0 .. MaxRoutes} : IsInjective(s)}
    /\ UNCHANGED <<listed, found, effect, commands>>

Covers(entry, ip) == entry.dst = Masked(ip, entry.len)

\* Faulty FirstMatch: the last entry that covers the address.
LastMatch(entries, ip) ==
    LET i == SelectLastInSeq(entries, LAMBDA entry : Covers(entry, ip)) IN
    IF i = 0 THEN NoRoute ELSE entries[i]

FirstMatch(entries, ip) ==
    LET i == SelectInSeq(entries, LAMBDA entry : Covers(entry, ip)) IN
    IF i = 0 THEN NoRoute ELSE entries[i]

\* findRoute, which calls getRoutingEntries.
FindRoute ==
    /\ routing = "ready"
    /\ \E ip \in Addresses : found' = [ip |-> ip, entry |-> FirstMatch(routes, ip)]
    /\ listed' = routes
    /\ effect' = NoEffect
    /\ UNCHANGED <<routing, routes, commands>>

\* What the client names: some fields of an entry of its own, or all fields of
\* the one it has found; with a net or a host.
Named ==
    {[f \in Fields |-> IF f \in given \union {"dst"} THEN route[f] ELSE Null] :
        given \in SUBSET Fields, route \in Routes}
    \union ({found.entry} \ {NoRoute})

\* addRoutingEntries and deleteRoutingEntries: the options of the command.
AddCommand(entry, isHost) ==
    [host |-> isHost, dst |-> entry.dst, len |-> entry.len, gw |-> entry.gw,
     metric |-> entry.metric, dev |-> entry.dev]

\* Faulty DeleteCommand: the device is left out.
DeleteCommandAnyDevice(entry, isHost) ==
    [host |-> isHost, dst |-> entry.dst, len |-> entry.len, gw |-> entry.gw,
     metric |-> entry.metric, dev |-> Null]

DeleteCommand(entry, isHost) ==
    [host |-> isHost, dst |-> entry.dst, len |-> entry.len, gw |-> entry.gw,
     metric |-> entry.metric, dev |-> entry.dev]

\* Whatever the kernel refuses leaves the table as it is, and only text returns.
\* The client has no further use for what it had found.
Effect(kind, entry, named) == effect' = [kind |-> kind, entry |-> entry, named |-> named]

AddRoutingEntry ==
    /\ routing = "ready"
    /\ commands < MaxCommands
    /\ commands' = commands + 1
    /\ \E named \in Named, isHost \in BOOLEAN :
          LET made == {route \in Routes \ ToSet(routes) : Makes(AddCommand(named, isHost), route)} IN
          \/ /\ Len(routes) < MaxRoutes
             /\ \E route \in made, i \in 1 .. Len(routes) + 1 :
                   routes' = InsertAt(routes, i, route) /\ Effect("added", route, named)
          \/ made = {} /\ Effect("refused", NoRoute, named) /\ UNCHANGED routes
    /\ listed' = <<>> /\ found' = NoneFound
    /\ UNCHANGED routing

DeleteRoutingEntry ==
    /\ routing = "ready"
    /\ commands < MaxCommands
    /\ commands' = commands + 1
    /\ \E named \in Named, isHost \in BOOLEAN :
          LET matching == {i \in DOMAIN routes : Matches(DeleteCommand(named, isHost), routes[i])} IN
          \/ \E i \in matching : routes' = RemoveAt(routes, i) /\ Effect("deleted", routes[i], named)
          \/ matching = {} /\ Effect("refused", NoRoute, named) /\ UNCHANGED routes
    /\ listed' = <<>> /\ found' = NoneFound
    /\ UNCHANGED routing

RoutesDone ==
    /\ routing = "ready"
    /\ routing' = "idle"
    /\ routes' = <<>>
    /\ listed' = <<>>
    /\ found' = NoneFound
    /\ effect' = NoEffect
    /\ commands' = 0

RoutesCall == BeginRoutes \/ FindRoute \/ AddRoutingEntry \/ DeleteRoutingEntry \/ RoutesDone

RoutesNext == Others \/ RoutesCall

-----------------------------------------------------------------------------
(* Properties.                                                             *)

\* findRoute finds the entry the kernel would use if `route` prints the entries
\* with the longest masks first, and none if no entry covers the address.
\* (Printed by address the default route, 0.0.0.0, comes first and is found for
\* every address.)
FoundIsTheLongest ==
    found # NoneFound =>
        LET covering == {route \in ToSet(listed) : Covers(route, found.ip)} IN
        /\ found.entry = NoRoute <=> covering = {}
        /\ (\A i, j \in DOMAIN listed : i < j => listed[i].len >= listed[j].len) =>
              \A route \in covering : route.len <= found.entry.len

\* A command adds or deletes an entry with the fields it names, but for those
\* of 0, and no other: what is deleted as found is the entry found, whatever
\* has changed since, if its gateway and its metric are not 0.
CommandsDoWhatIsNamed ==
    effect.kind \in {"added", "deleted"} =>
        \A f \in Fields : effect.named[f] \notin Unset(f) => effect.entry[f] = effect.named[f]
=============================================================================

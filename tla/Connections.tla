---------------------------- MODULE Connections ----------------------------
(***************************************************************************)
(* ConnectionInformation.java, TcpConnectionInformation.java and           *)
(* UdpConnectionInformation.java: the sockets of one protocol, read from   *)
(* /proc/net, each with the process that holds it. /proc/net names only    *)
(* the user of a socket, so the process is looked up by the user, in a map *)
(* made of the output of lsof before the first table is read.              *)
(***************************************************************************)
EXTENDS Integers, FiniteSets, FiniteSetsExt

CONSTANTS
    Sockets,    \* sockets of the protocol
    Sockets6,   \* those among them that /proc/net/tcp6 or udp6 lists
    Pids,       \* processes
    Uids,       \* users
    Passwd,     \* those whom /etc/passwd names
    MaxMoves    \* bound: sockets that change hands during one call

ASSUME ConnectionsAssumption ==
    /\ Sockets6 \subseteq Sockets
    /\ Pids \subseteq Nat \ {0} /\ Pids # {} /\ IsFiniteSet(Pids)
    /\ Uids \subseteq Nat /\ 0 \in Passwd /\ Passwd \subseteq Uids
    /\ MaxMoves \in Nat

VARIABLES
    viewing,    \* what the call is about to do, "idle" between calls
    tables,     \* the tables it has still to read
    runsAs,     \* runsAs[p]: the user process p runs as
    socket,     \* socket[s]: the user it belongs to and the process that holds it
    moves,      \* changes of socket so far
    uidToPid,   \* the map, as the set of its pairs
    listing,    \* the list returned, as a set
    atLsof      \* the sockets when lsof looked at them

viewVars == <<viewing, tables, runsAs, socket, moves, uidToPid, listing, atLsof>>

NoPid == 0  \* no process: a socket that waits for its time to run out
Closed == [uid |-> 0, pid |-> -1]

\* A socket belongs to the user who made it, whoever holds it now.
Open == [uid : Uids, pid : Pids \union {NoPid}]
AllClosed == [s \in Sockets |-> Closed]

ViewIdle == viewing = "idle"

ViewInit ==
    /\ viewing = "idle"
    /\ tables = {}
    /\ runsAs = [p \in Pids |-> 0]
    /\ socket = AllClosed
    /\ moves = 0
    /\ uidToPid = {}
    /\ listing = {}
    /\ atLsof = AllClosed

-----------------------------------------------------------------------------
\* A socket is opened, closed or handed over.
Move ==
    /\ viewing \in {"lsof", "tables"}
    /\ moves < MaxMoves
    /\ moves' = moves + 1
    /\ \E s \in Sockets, to \in Open \union {Closed} : socket' = [socket EXCEPT ![s] = to]
    /\ UNCHANGED <<viewing, tables, runsAs, uidToPid, listing, atLsof>>

\* getTcpInformations, getTcp6Informations or getAllTcpInformations.
GetInformations ==
    /\ viewing = "idle"
    /\ viewing' = "lsof"
    /\ tables' \in {{"v4"}, {"v6"}, {"v4", "v6"}}
    /\ runsAs' \in [Pids -> Uids]
    /\ socket' \in [Sockets -> Open \union {Closed}]
    /\ UNCHANGED <<moves, uidToPid, listing, atLsof>>

\* The processes of a user that lsof lists, one line for each of their sockets,
\* in the order of their numbers.
Listed(uid) == {p \in Pids : runsAs[p] = uid /\ \E s \in Sockets : socket[s].pid = p}

\* Faulty LastOfUser: users whom /etc/passwd does not name are taken for root.
LastOfUserOrRoot ==
    {<<uid, Max(Listed(uid))>> : uid \in {u \in Passwd \ {0} : Listed(u) # {}}} \union
    LET others == UNION {Listed(u) : u \in (Uids \ Passwd) \union {0}} IN
    IF others = {} THEN {} ELSE {<<0, Max(others)>>}

\* A later line of a user replaces the earlier ones.
LastOfUser == {<<uid, Max(Listed(uid))>> : uid \in {u \in Passwd : Listed(u) # {}}}

\* getUidToPidMap.
GetUidToPidMap ==
    /\ viewing = "lsof"
    /\ viewing' = "tables"
    /\ uidToPid' = LastOfUser
    /\ atLsof' = socket
    /\ UNCHANGED <<tables, runsAs, socket, moves, listing>>

\* lsof cannot be started: the map stays empty.
LsofFails ==
    /\ viewing = "lsof"
    /\ viewing' = "tables"
    /\ uidToPid' = {}
    /\ atLsof' = AllClosed
    /\ UNCHANGED <<tables, runsAs, socket, moves, listing>>

\* parse(): the pid of the user, or the 0 the field starts with.
Parse(s) ==
    [of |-> s, uid |-> socket[s].uid,
     pid |-> IF \E p \in Pids : <<socket[s].uid, p>> \in uidToPid
             THEN CHOOSE p \in Pids : <<socket[s].uid, p>> \in uidToPid
             ELSE 0]

\* The first table is read before the second.
ReadTable ==
    /\ viewing = "tables"
    /\ \E t \in tables :
          /\ t = "v6" => tables = {"v6"}
          /\ tables' = tables \ {t}
          /\ listing' = listing \union
                {Parse(s) : s \in {r \in Sockets : socket[r] # Closed /\ (r \in Sockets6 <=> t = "v6")}}
    /\ UNCHANGED <<viewing, runsAs, socket, moves, uidToPid, atLsof>>

ViewEnd ==
    /\ viewing = "tables"
    /\ tables = {}
    /\ viewing' = "viewed"
    /\ UNCHANGED <<tables, runsAs, socket, moves, uidToPid, listing, atLsof>>

\* There is no such file, or it cannot be read: the exception leaves the call
\* with nothing.
TableFails ==
    /\ viewing = "tables"
    /\ tables # {}
    /\ viewing' = "viewed"
    /\ tables' = {}
    /\ listing' = {}
    /\ UNCHANGED <<runsAs, socket, moves, uidToPid, atLsof>>

ViewDone ==
    /\ viewing = "viewed"
    /\ viewing' = "idle"
    /\ runsAs' = [p \in Pids |-> 0]
    /\ socket' = AllClosed
    /\ moves' = 0
    /\ uidToPid' = {}
    /\ listing' = {}
    /\ atLsof' = AllClosed
    /\ UNCHANGED tables

ViewCall == GetInformations \/ GetUidToPidMap \/ ReadTable \/ ViewEnd \/ ViewDone

ViewNext == Move \/ LsofFails \/ TableFails \/ ViewCall

-----------------------------------------------------------------------------
(* Properties.                                                             *)

\* The process a socket is listed with ran as the user of the socket and held
\* some socket when lsof looked. It is the one that held this socket if the
\* user had no other process with sockets and nothing changed hands since; with
\* more than one it may be any of them, and so may that of a socket which
\* another user's process holds.
PidIsOfTheUser ==
    viewing = "viewed" =>
        \A row \in listing : row.pid # 0 =>
            /\ runsAs[row.pid] = row.uid
            /\ \E s \in Sockets : atLsof[s].pid = row.pid
            /\ LET holder == atLsof[row.of].pid IN
               (/\ holder \in Pids /\ runsAs[holder] = row.uid
                /\ \A s \in Sockets : atLsof[s].pid \in Pids \ {holder} =>
                                        runsAs[atLsof[s].pid] # row.uid)
               => row.pid = holder
=============================================================================

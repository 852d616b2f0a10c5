---------------------------- MODULE CounterNames ----------------------------
(***************************************************************************)
(* The native calls of performancecounter.c that list names: getMachines,  *)
(* getCategories, getCounters and expandCounterPath. Each asks the PDH     *)
(* library for the length of a list of strings and then fetches it, while  *)
(* what it lists changes, and returns the strings, null, or an exception.  *)
(*                                                                         *)
(* Lengths count strings, the empty one at the end of a list included.     *)
(* expandCounterPath is never called with null, which it does not survive. *)
(***************************************************************************)
EXTENDS Naturals, Sequences, FiniteSets, SequencesExt

CONSTANTS
    PdhNames,       \* names of machines, categories, counters or instances
    MaxMoves        \* bound: changes during one call

ASSUME CounterNamesAssumption ==
    /\ IsFiniteSet(PdhNames)
    /\ "" \notin PdhNames
    /\ MaxMoves \in Nat

VARIABLES
    asking,         \* step of the call, "idle" between calls
    native,         \* which call it is
    existing,       \* what there is: names, and for getCounters their instances
    lengths,        \* lengths of the two buffers
    chars,          \* the strings of the caller that GetStringChars has pinned
    outcome,        \* what is returned
    shown,          \* every value of existing during the call
    moves           \* number of changes during the call

namesVars == <<asking, native, existing, lengths, chars, outcome, shown, moves>>
worldVars == <<existing, shown, moves>>

NameNatives == {"getMachines", "getCategories", "getCounters", "expandCounterPath"}

NameLists == UNION {{s \in [1 .. n -> PdhNames] : IsInjective(s)} : n \in 0 .. Cardinality(PdhNames)}
Pairs == [list : NameLists, instances : NameLists]
Nothing == [list |-> <<>>, instances |-> <<>>]

\* Only getCounters has a second list, and a machine has a name of its own.
PairsOf(of) ==
    {p \in Pairs : /\ of # "getCounters" => p.instances = <<>>
                   /\ of = "getMachines" => p.list # <<>>}

\* Answers that are no names: an exception or null after a failure of the
\* library, an exception from PdhConnectMachine, null for a path that is too
\* long, and the empty array of a path that could not be expanded, which the
\* caller cannot tell from a path that matches nothing.
Failures == [kind : {"failed", "not connected", "too long", "not expanded"}, names : {Nothing}]

Failure(why) == [kind |-> why, names |-> Nothing]
Listed(pair) == [kind |-> "names", names |-> pair]

NamesIdle == asking = "idle"

NamesInit ==
    /\ asking = "idle"
    /\ native = "none"
    /\ existing = Nothing
    /\ lengths = <<0, 0>>
    /\ chars = {}
    /\ outcome = Failure("none")
    /\ shown = {}
    /\ moves = 0

-----------------------------------------------------------------------------
(* The strings of a buffer.                                                *)

\* A list as the library writes it into a buffer that was cleared and holds
\* length strings.
Buffer(list, length) ==
    [i \in 1 .. length |-> IF i <= Len(list) THEN list[i] ELSE ""]

Filled(buffer) == {i \in DOMAIN buffer : buffer[i] # ""}

\* The first loop counts the strings that are not empty. The second takes the
\* string it stands at and goes on to the next that is not empty.
ConvertStringArray(buffer) ==
    LET walk[i \in 1 .. Cardinality(Filled(buffer))] ==
            IF i = 1 THEN 1
            ELSE CHOOSE p \in Filled(buffer) :
                     p > walk[i - 1] /\ \A q \in Filled(buffer) : q > walk[i - 1] => q >= p
    IN  [i \in DOMAIN walk |-> buffer[walk[i]]]

-----------------------------------------------------------------------------
NamesChange ==
    /\ asking \in {"connect", "length", "fetch"}
    /\ moves < MaxMoves
    /\ moves' = moves + 1
    /\ existing' \in PairsOf(native)
    /\ shown' = shown \union {existing'}
    /\ UNCHANGED <<asking, native, lengths, chars, outcome>>

\* The strings are pinned; without a machine there is nothing to connect to.
NamesCall(of, other) ==
    /\ asking = "idle"
    /\ asking' = IF other THEN "connect" ELSE "length"
    /\ native' = of
    /\ existing' \in PairsOf(of)
    /\ shown' = {existing'}
    /\ chars' = (IF of = "getCounters" THEN {"category"} ELSE {})
                  \union (IF of = "expandCounterPath" THEN {"path"} ELSE {})
                  \union (IF other THEN {"machine"} ELSE {})
    /\ UNCHANGED <<lengths, outcome, moves>>

Returns(value, pinned) ==
    /\ asking' = "returned"
    /\ outcome' = value
    /\ chars' = pinned

\* A path that is too long is returned from before anything else.
PathTooLong ==
    /\ native = "expandCounterPath"
    /\ asking = "length"
    /\ Returns(Failure("too long"), chars)
    /\ UNCHANGED <<native, lengths, worldVars>>

Connect ==
    /\ asking = "connect"
    /\ asking' = "length"
    /\ UNCHANGED <<native, lengths, chars, outcome, worldVars>>

\* throwExc, and the machine's name is given back.
ConnectFails ==
    /\ asking = "connect"
    /\ Returns(Failure("not connected"), chars \ {"machine"})
    /\ UNCHANGED <<native, lengths, worldVars>>

Needs(pair) == <<Len(pair.list) + 1, IF native = "getCounters" THEN Len(pair.instances) + 1 ELSE 0>>

\* A path that matches nothing is not PDH_MORE_DATA: the array is empty.
AskLengths ==
    /\ asking = "length"
    /\ IF native = "expandCounterPath" /\ existing.list = <<>>
       THEN Returns(Listed(Nothing), {}) /\ UNCHANGED lengths
       ELSE asking' = "fetch" /\ lengths' = Needs(existing) /\ UNCHANGED <<outcome, chars>>
    /\ UNCHANGED <<native, worldVars>>

\* The length stays 0. getCounters does not look at it and asks again with it.
AskLengthsFails ==
    /\ asking = "length"
    /\ CASE native = "getCounters" -> asking' = "fetch" /\ UNCHANGED <<outcome, chars>>
         [] native = "expandCounterPath" -> Returns(Failure("not expanded"), {})
         [] OTHER -> Returns(Failure("failed"), {})
    /\ UNCHANGED <<native, lengths, worldVars>>

Fetched ==
    [list |-> ConvertStringArray(Buffer(existing.list, lengths[1])),
     instances |-> ConvertStringArray(Buffer(existing.instances, lengths[2]))]

Fits == \A i \in {1, 2} : Needs(existing)[i] <= lengths[i]

\* Faulty FetchNames: what fits is taken for the whole.
FetchNamesThatFit ==
    /\ asking = "fetch"
    /\ Returns(Listed(Fetched), {})
    /\ UNCHANGED <<native, lengths, worldVars>>

\* The lists as they are now, if the buffers still hold them.
FetchNames ==
    /\ asking = "fetch"
    /\ Fits
    /\ native = "expandCounterPath" => existing.list # <<>>
    /\ Returns(Listed(Fetched), {})
    /\ UNCHANGED <<native, lengths, worldVars>>

\* They do not, or the library fails for reasons of its own: an exception, or
\* null from expandCounterPath.
FetchNamesFails ==
    /\ asking = "fetch"
    /\ Returns(Failure("failed"), {})
    /\ UNCHANGED <<native, lengths, worldVars>>

NamesDone ==
    /\ asking = "returned"
    /\ asking' = "idle"
    /\ native' = "none"
    /\ existing' = Nothing
    /\ lengths' = <<0, 0>>
    /\ chars' = {}
    /\ outcome' = Failure("none")
    /\ shown' = {}
    /\ moves' = 0

NamesCalls ==
    \/ \E of \in NameNatives : NamesCall(of, FALSE)
    \/ \E of \in {"getCategories", "getCounters"} : NamesCall(of, TRUE)

NamesStep == NamesCalls \/ Connect \/ AskLengths \/ FetchNames \/ FetchNamesFails \/ NamesDone

NamesFail == PathTooLong \/ ConnectFails \/ AskLengthsFails
=============================================================================

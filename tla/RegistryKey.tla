----------------------------- MODULE RegistryKey -----------------------------
(***************************************************************************)
(* RegistryKey.java and the part of winapi.c under it: a sub key is opened *)
(* and closed, the names of a key are read one by one by their index, up   *)
(* to a count taken before, and a value is asked for its size and then     *)
(* fetched, while other programs change the key.                           *)
(*                                                                         *)
(* A key is what one call sees of it: its names (of sub keys or of         *)
(* values), and the one value that getValue asks for. Of the data of a     *)
(* value the model keeps the length in bytes and which writing it is of.   *)
(***************************************************************************)
EXTENDS Integers, Sequences, FiniteSets, SequencesExt

CONSTANTS
    KeyNames,   \* names a key may have
    LongNames,  \* those that are longer than the others
    MaxNames,   \* bound: names at a time
    MaxChanges  \* bound: changes by others during one call

ASSUME RegistryAssumption ==
    /\ LongNames \subseteq KeyNames /\ "blank" \notin KeyNames
    /\ MaxNames \in Nat
    /\ MaxChanges \in Nat

VARIABLES
    doing,      \* what the call is about to do, "idle" between calls
    key,        \* hkey: a predefined key, a sub key, or what openSubKey makes of none
    names,      \* the names of the key, by index
    value,      \* the value that is asked for
    info,       \* QueryInfo: the count and whether a long name would fit
    got,        \* the array of names so far
    buffer,     \* of RegQueryValueEx: its size, and the type noted with it
    result,     \* what getValue returns
    added, removed,     \* names the others have added and removed during the call
    lasting,    \* names that the key has had all the time
    values      \* every value there was during the call

registryVars == <<doing, key, names, value, info, got, buffer, result, added, removed, lasting, values>>
othersVars == <<names, value, added, removed, lasting, values>>
callVars == <<doing, key, info, got, buffer, result>>

Types == {"REG_NONE", "REG_SZ", "REG_BINARY", "REG_DWORD", "REG_MULTI_SZ"}

\* A value, as RegSetValueEx was given it. REG_EXPAND_SZ is as REG_SZ,
\* REG_DWORD_BIG_ENDIAN as REG_DWORD, the types without a branch as REG_MULTI_SZ.
Values == [type : Types, length : {0, 2, 4}, writing : 0 .. MaxChanges]
Absent == [type |-> "absent", length |-> 0, writing |-> 0]

NoInfo == [count |-> 0, long |-> FALSE]
NoBuffer == [type |-> "none", length |-> 0]
Blank == "blank"    \* NUL characters, as many as the buffer has
NoResult == [kind |-> "none", data |-> 0]

KeySequences == {s \in UNION {[1 .. n -> KeyNames] : n \in 0 .. MaxNames} : IsInjective(s)}

RegistryIdle == doing = "idle"

\* A key without a handle: every call on it fails.
NoHandle == "nothing"

RegistryInit ==
    /\ doing = "idle"
    /\ key = "predefined"
    /\ names = <<>>
    /\ value = Absent
    /\ info = NoInfo
    /\ got = <<>>
    /\ buffer = NoBuffer
    /\ result = NoResult
    /\ added = 0
    /\ removed = 0
    /\ lasting = {}
    /\ values = {}

-----------------------------------------------------------------------------
(* The other programs, during a call.                                      *)

AddName ==
    /\ doing \in {"info", "names"}
    /\ key # NoHandle
    /\ added + removed < MaxChanges
    /\ Len(names) < MaxNames
    /\ \E name \in KeyNames \ ToSet(names), i \in 1 .. Len(names) + 1 :
          names' = InsertAt(names, i, name)
    /\ added' = added + 1
    /\ UNCHANGED <<value, removed, lasting, values, callVars>>

RemoveName ==
    /\ doing \in {"info", "names"}
    /\ key # NoHandle
    /\ added + removed < MaxChanges
    /\ \E i \in DOMAIN names :
          /\ names' = RemoveAt(names, i)
          /\ lasting' = lasting \ {names[i]}
    /\ removed' = removed + 1
    /\ UNCHANGED <<value, added, values, callVars>>

WriteValue ==
    /\ doing \in {"size", "fetch"}
    /\ key # NoHandle
    /\ added < MaxChanges
    /\ added' = added + 1
    /\ value' \in [type : Types, length : {0, 2, 4}, writing : {added'}] \union {Absent}
    /\ values' = values \union {value'}
    /\ UNCHANGED <<names, removed, lasting, callVars>>

-----------------------------------------------------------------------------
(* openSubKey and close.                                                   *)

\* Between calls on the same key.
Ready == IF key = "predefined" THEN "idle" ELSE "opened"

\* The result of RegOpenKeyEx is not looked at: a path that there is no key for
\* makes an object like any other, with what is left in the handle.
OpenSubKey ==
    /\ doing = "idle"
    /\ doing' = "opened"
    /\ key' \in {"sub key", NoHandle}
    /\ UNCHANGED <<info, got, buffer, result, othersVars>>

\* Closing a key that is none fails.
Close ==
    /\ doing = "opened"
    /\ doing' = "idle"
    /\ key' = "predefined"
    /\ UNCHANGED <<info, got, buffer, result, othersVars>>

-----------------------------------------------------------------------------
(* getSubKeyNames and getValueNames.                                       *)

GetNames ==
    /\ doing = Ready
    /\ doing' = "info"
    /\ names' \in IF key = NoHandle THEN {<<>>} ELSE KeySequences
    /\ lasting' = ToSet(names')
    /\ UNCHANGED <<key, value, info, got, buffer, result, added, removed, values>>

\* Faulty QueryInfo: the count is one too many.
QueryInfoAndDefault ==
    /\ doing = "info"
    /\ doing' = "names"
    /\ info' = [count |-> Len(names) + 1, long |-> ToSet(names) \intersect LongNames # {}]
    /\ UNCHANGED <<key, got, buffer, result, othersVars>>

\* The lengths that a failing RegQueryInfoKey leaves unset are whatever was there.
QueryInfo ==
    /\ doing = "info"
    /\ doing' = "names"
    /\ IF key = NoHandle
       THEN info' \in [count : 0 .. MaxNames, long : {FALSE}]
       ELSE info' = [count |-> Len(names), long |-> ToSet(names) \intersect LongNames # {}]
    /\ UNCHANGED <<key, got, buffer, result, othersVars>>

\* RegEnumKeyEx or RegEnumValue fails if there is no such index any more, or
\* the name is too long for the buffer; its result is not looked at.
NameAt(i) ==
    IF i <= Len(names) /\ (names[i] \in LongNames => info.long) THEN names[i] ELSE Blank

EnumName ==
    /\ doing = "names"
    /\ Len(got) < info.count
    /\ got' = Append(got, NameAt(Len(got) + 1))
    /\ UNCHANGED <<doing, key, info, buffer, result, othersVars>>

NamesEnd ==
    /\ doing = "names"
    /\ Len(got) = info.count
    /\ doing' = "named"
    /\ UNCHANGED <<key, info, got, buffer, result, othersVars>>

-----------------------------------------------------------------------------
(* getValue.                                                               *)

\* The object for a type and bytes, of one writing or of none that is known.
Decoded(type, length, writing) ==
    CASE type = "REG_NONE" -> [kind |-> "null", data |-> 0]
      [] type = "REG_SZ" /\ length < 2 -> [kind |-> "thrown", data |-> 0]
      [] type = "REG_DWORD" /\ length < 4 -> [kind |-> "thrown", data |-> 0]
      [] type = "REG_MULTI_SZ" -> [kind |-> "exception returned", data |-> 0]
      [] OTHER -> [kind |-> type, data |-> writing]

Zeros == -1     \* the buffer as it was cleared
Unknown == -2   \* what lies behind a buffer that is too small

GetValue ==
    /\ doing = Ready
    /\ doing' = "size"
    /\ value' \in IF key = NoHandle THEN {Absent} ELSE {v \in Values : v.writing = 0} \union {Absent}
    /\ values' = {value'}
    /\ UNCHANGED <<key, names, info, got, buffer, result, added, removed, lasting>>

\* RegQueryValueEx without a buffer. If there is no such value the size stays 0
\* and the type is not set.
AskLength ==
    /\ doing = "size"
    /\ doing' = "fetch"
    /\ IF value = Absent
       THEN \E type \in Types : buffer' = [type |-> type, length |-> 0]
       ELSE buffer' = [type |-> value.type, length |-> value.length]
    /\ UNCHANGED <<key, info, got, result, othersVars>>

\* Faulty FetchValue: the length is that of the first answer.
FetchValueOfLength ==
    /\ doing = "fetch"
    /\ doing' = "read"
    /\ result' = CASE value = Absent -> Decoded(buffer.type, buffer.length, Zeros)
                   [] value # Absent /\ value.length > buffer.length -> Decoded(value.type, value.length, Unknown)
                   [] OTHER -> Decoded(value.type, buffer.length, value.writing)
    /\ UNCHANGED <<key, info, got, buffer, othersVars>>

\* The second RegQueryValueEx, whose result is not looked at. A value that is
\* gone leaves the cleared buffer with the type and the length of before, one
\* that has grown has its type and length noted and no data.
FetchValue ==
    /\ doing = "fetch"
    /\ doing' = "read"
    /\ result' = CASE value = Absent -> Decoded(buffer.type, buffer.length, Zeros)
                   [] value # Absent /\ value.length > buffer.length -> Decoded(value.type, value.length, Unknown)
                   [] OTHER -> Decoded(value.type, value.length, value.writing)
    /\ UNCHANGED <<key, info, got, buffer, othersVars>>

RegistryDone ==
    /\ doing \in {"named", "read"}
    /\ doing' = Ready
    /\ UNCHANGED key
    /\ names' = <<>>
    /\ value' = Absent
    /\ info' = NoInfo
    /\ got' = <<>>
    /\ buffer' = NoBuffer
    /\ result' = NoResult
    /\ added' = 0
    /\ removed' = 0
    /\ lasting' = {}
    /\ values' = {}

Others == AddName \/ RemoveName \/ WriteValue

RegistryCall ==
    \/ OpenSubKey \/ Close
    \/ GetNames \/ QueryInfo \/ EnumName \/ NamesEnd
    \/ GetValue \/ AskLength \/ FetchValue \/ RegistryDone

RegistryNext == Others \/ RegistryCall

-----------------------------------------------------------------------------
(* Properties.                                                             *)

Positions(name) == {i \in DOMAIN got : got[i] = name}

\* However the key changes under the enumeration, every name that it loses or
\* gains costs the array one name that was there all the time at most; names
\* are listed twice only if some were added, and the array has blanks only
\* where names were removed or grew longer than the buffer. (Of a key that is
\* none there are blanks, as many as happen to be.)
NamesAccounted ==
    doing = "named" =>
        /\ Cardinality(lasting \ ToSet(got)) <= added + removed
        /\ \A name \in lasting : Cardinality(Positions(name)) <= 1 + added
        /\ key # NoHandle =>
              /\ Len(got) - Cardinality(ToSet(got)) <= added + removed
              /\ Cardinality(Positions(Blank)) <= added + removed

\* What getValue makes of a value is what it makes of one of those that were
\* there during the call, but for two that are made up: the zeros of a value
\* that was deleted between the two questions, and what is returned for one that
\* has grown between them or that never was.
ValueOfTheTime ==
    doing = "read" =>
        \/ \E v \in values \ {Absent} : result = Decoded(v.type, v.length, v.writing)
        \/ Absent \in values
        \/ \E v, w \in values : v.length < w.length /\ v.writing < w.writing
=============================================================================

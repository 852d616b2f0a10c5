----------------------------- MODULE EventRecord -----------------------------
(***************************************************************************)
(* What eventlogreader.c makes of a record (getEventLogObject): the texts  *)
(* of its category and of its message, each looked up in the files that    *)
(* the registry names for the source (getMessageString, getResource), and  *)
(* the name of its user; and EventLogApi.lookupAccountSid, which asks for  *)
(* an account in the same way. Other programs change the registry, the     *)
(* accounts and the files meanwhile.                                       *)
(*                                                                         *)
(* A source is the length of its name: the sources here are those whose    *)
(* names begin alike, which is all that matters to a name that is cut.     *)
(***************************************************************************)
EXTENDS Integers, Sequences, FiniteSets, SequencesExt

CONSTANTS
    LogNames,       \* logs that are read
    Sources,        \* lengths of the names of event sources
    Files,          \* message files
    MaxModules,     \* files that one lookup loads: 100
    MaxMoved        \* bound: changes of keys, values and the account in a call

ASSUME EventRecordAssumption ==
    /\ LogNames \subseteq {"Application", "Security", "System", "Setup"}
    /\ Sources \subseteq Nat \ {0}
    /\ IsFiniteSet(Files) /\ {"host", "none"} \intersect Files = {}
    /\ MaxModules \in Nat
    /\ MaxMoved \in Nat

VARIABLES
    making,         \* step of the call, "idle" between calls
    subject,        \* the log and the source of the record, NoKey for lookupAccountSid
    part,           \* text that is looked up: "category", then "message"
    attempt,        \* of RegOpenKeyEx: the log's own key, System's, Application's
    keys,           \* the keys there are
    opened,         \* the key that is open, or NoKey
    paths,          \* files that the value of that key names, <<>> if it is absent
    room,           \* answer to the question for its size, in files
    modules,        \* hResources
    texts,          \* for each part the key that was opened and where the text is from
    unloaded,       \* some file could not be loaded
    account,        \* the account behind the SID
    nameRoom,       \* size of the buffers for its name
    user,           \* the name that is found
    sidChars,       \* the string of lookupAccountSid is pinned
    accounts, moved \* every value of account since the question; changes in the call

recordVars == <<making, subject, part, attempt, keys, opened, paths, room, modules, texts, unloaded,
                account, nameRoom, user, sidChars, accounts, moved>>
registryState == <<keys, opened, paths, room>>
textState == <<part, attempt, modules, texts, unloaded>>
accountState == <<account, nameRoom, user, sidChars, accounts>>

NoKey == [log |-> "none", name |-> 0]

\* Where a text is from: a file, the program itself, or nowhere.
Host == "host"
None == "none"
NoText == [key |-> NoKey, from |-> None]
Parts == {"category", "message"}

PathLists == {s \in UNION {[1 .. n -> Files] : n \in 0 .. Cardinality(Files)} : IsInjective(s)}

\* An account is the length of its name, 0 if there is none.
AccountNames == 0 .. 2
NoUser == -1

RecordIdle == making = "idle"

RecordInit ==
    /\ making = "idle"
    /\ subject = NoKey
    /\ part = "category"
    /\ attempt = 1
    /\ keys = {}
    /\ opened = NoKey
    /\ paths = <<>>
    /\ room = 0
    /\ modules = <<>>
    /\ texts = [p \in Parts |-> NoText]
    /\ unloaded = FALSE
    /\ account = 0
    /\ nameRoom = 0
    /\ user = NoUser
    /\ sidChars = FALSE
    /\ accounts = {}
    /\ moved = 0

-----------------------------------------------------------------------------
(* The keys that getResource tries, one after the other.                   *)

LogLength == [Application |-> 11, Security |-> 8, System |-> 6, Setup |-> 5]

Fallbacks(log) == <<log, "System", "Application">>

\* The buffer for the name of the key has room for the log's own key. The names
\* of the fallbacks are cut where it ends.
KeyTried(record, try) ==
    LET log == Fallbacks(record.log)[try]
        cut == LogLength[log] - LogLength[record.log]
    IN  [log |-> log, name |-> record.name - (IF cut > 0 THEN cut ELSE 0)]

\* Those that may be there: nothing else is looked for.
KeysTried(record) == {key \in {KeyTried(record, try) : try \in 1 .. 3} : key.name \in Sources}

-----------------------------------------------------------------------------
(* The other programs.                                                     *)

KeysChange ==
    /\ making = "open"
    /\ moved < MaxMoved
    /\ moved' = moved + 1
    /\ keys' \in SUBSET KeysTried(subject)
    /\ UNCHANGED <<making, subject, opened, paths, room, textState, accountState>>

ValueChanges ==
    /\ making \in {"size", "value"}
    /\ moved < MaxMoved
    /\ moved' = moved + 1
    /\ paths' \in PathLists
    /\ UNCHANGED <<making, subject, keys, opened, room, textState, accountState>>

AccountChanges ==
    /\ making \in {"account size", "account"}
    /\ moved < MaxMoved
    /\ moved' = moved + 1
    /\ account' \in AccountNames
    /\ accounts' = accounts \union {account'}
    /\ UNCHANGED <<making, subject, nameRoom, user, sidChars, registryState, textState>>

-----------------------------------------------------------------------------
(* getResource and getMessageString.                                       *)

OpenKey ==
    /\ making = "open"
    /\ KeyTried(subject, attempt) \in keys
    /\ making' = "size"
    /\ opened' = KeyTried(subject, attempt)
    /\ paths' \in PathLists
    /\ UNCHANGED <<subject, keys, room, textState, accountState, moved>>

\* The texts of the record go on with the next part, or with the user.
NextPart(text) ==
    /\ texts' = [texts EXCEPT ![part] = text]
    /\ making' = IF part = "category" THEN "open" ELSE "user"
    /\ part' = "message"
    /\ attempt' = 1
    /\ modules' = <<>>

OpenNextKey ==
    /\ making = "open"
    /\ KeyTried(subject, attempt) \notin keys
    /\ IF attempt < 3
       THEN attempt' = attempt + 1 /\ UNCHANGED <<making, part, modules, texts>>
       ELSE NextPart(NoText)
    /\ UNCHANGED <<subject, registryState, unloaded, accountState, moved>>

\* Faulty AskValueSize: a value that is missing makes for a fallback as well.
AskValueSizeFallsBack ==
    /\ making = "size"
    /\ room' = Len(paths)
    /\ IF paths # <<>>
       THEN making' = "value" /\ UNCHANGED <<opened, part, attempt, modules, texts>>
       ELSE /\ opened' = NoKey
            /\ IF attempt < 3
               THEN making' = "open" /\ attempt' = attempt + 1 /\ UNCHANGED <<part, modules, texts>>
               ELSE NextPart(NoText)
    /\ UNCHANGED <<subject, keys, paths, unloaded, accountState, moved>>

\* A key without the value makes for no text; there is no fallback from it.
AskValueSize ==
    /\ making = "size"
    /\ room' = Len(paths)
    /\ IF paths # <<>>
       THEN making' = "value" /\ UNCHANGED <<opened, part, attempt, modules, texts>>
       ELSE NextPart(NoText) /\ opened' = NoKey
    /\ UNCHANGED <<subject, keys, paths, unloaded, accountState, moved>>

\* The second RegQueryValueEx, whose result is not looked at: of a value that
\* has grown or gone the buffer stays cleared. The key is closed.
FileNames == IF Len(paths) <= room THEN paths ELSE <<>>

\* The files are loaded in their order, and one that cannot be leaves a NULL.
LoadModules ==
    /\ making = "value"
    /\ LET count == IF Len(FileNames) <= MaxModules THEN Len(FileNames) ELSE MaxModules
       IN  \E loads \in SUBSET Files :
               /\ modules' = [i \in 1 .. count |-> IF FileNames[i] \in loads THEN FileNames[i] ELSE Host]
               /\ unloaded' = (unloaded \/ \E i \in 1 .. count : FileNames[i] \notin loads)
    /\ making' = "format"
    /\ texts' = [texts EXCEPT ![part].key = opened]
    /\ opened' = NoKey
    /\ paths' = <<>>
    /\ room' = 0
    /\ UNCHANGED <<subject, keys, part, attempt, accountState, moved>>

\* FormatMessage of one after the other until one has the text; a NULL module
\* stands for the program itself. All of them are freed.
FormatMessage ==
    /\ making = "format"
    /\ \E holders \in SUBSET (Files \union {Host}) :
          LET found == {i \in DOMAIN modules : modules[i] \in holders} IN
          \/ found = {} /\ NextPart([texts[part] EXCEPT !.from = None])
          \/ \E i \in found :
                 /\ \A j \in found : i <= j
                 /\ NextPart([texts[part] EXCEPT !.from = modules[i]])
    /\ UNCHANGED <<subject, registryState, unloaded, accountState, moved>>

-----------------------------------------------------------------------------
(* The user, and lookupAccountSid.                                         *)

GetUser ==
    /\ making = "user"
    /\ making' = "account size"
    /\ account' \in AccountNames
    /\ accounts' = {account'}
    /\ UNCHANGED <<subject, registryState, textState, nameRoom, user, sidChars, moved>>

\* A record without a SID.
NoSid ==
    /\ making = "user"
    /\ making' = "returned"
    /\ UNCHANGED <<subject, registryState, textState, accountState, moved>>

AskNameSize ==
    /\ making = "account size"
    /\ making' = "account"
    /\ nameRoom' = account
    /\ UNCHANGED <<subject, registryState, textState, account, user, sidChars, accounts, moved>>

\* It fails if the account is gone, or has been given a longer name.
LookupAccountSid ==
    /\ making = "account"
    /\ making' = "returned"
    /\ user' = IF account # 0 /\ account <= nameRoom THEN account ELSE NoUser
    /\ UNCHANGED <<subject, registryState, textState, account, nameRoom, sidChars, accounts, moved>>

-----------------------------------------------------------------------------
(* The calls.                                                              *)

GetEventLogObject ==
    /\ making = "idle"
    /\ making' = "open"
    /\ subject' \in [log : LogNames, name : Sources]
    /\ keys' \in SUBSET KeysTried(subject')
    /\ UNCHANGED <<opened, paths, room, textState, accountState, moved>>

\* The string is pinned, and never given back.
LookupSid ==
    /\ making = "idle"
    /\ making' = "account size"
    /\ sidChars' = TRUE
    /\ account' \in AccountNames
    /\ accounts' = {account'}
    /\ UNCHANGED <<subject, registryState, textState, nameRoom, user, moved>>

\* It does not read as a SID.
NoSuchSid ==
    /\ making = "account size"
    /\ subject = NoKey
    /\ making' = "returned"
    /\ UNCHANGED <<subject, registryState, textState, accountState, moved>>

RecordDone ==
    /\ making = "returned"
    /\ making' = "idle"
    /\ subject' = NoKey
    /\ part' = "category"
    /\ attempt' = 1
    /\ keys' = {}
    /\ opened' = NoKey
    /\ paths' = <<>>
    /\ room' = 0
    /\ modules' = <<>>
    /\ texts' = [p \in Parts |-> NoText]
    /\ unloaded' = FALSE
    /\ account' = 0
    /\ nameRoom' = 0
    /\ user' = NoUser
    /\ sidChars' = FALSE
    /\ accounts' = {}
    /\ moved' = 0

RecordCall ==
    \/ GetEventLogObject \/ OpenKey \/ OpenNextKey \/ AskValueSize \/ LoadModules \/ FormatMessage
    \/ GetUser \/ NoSid \/ LookupSid \/ NoSuchSid \/ AskNameSize \/ LookupAccountSid
    \/ RecordDone

RecordChange == KeysChange \/ ValueChanges \/ AccountChanges

-----------------------------------------------------------------------------
(* Properties.                                                             *)

\* The two texts of a record are of one source: the keys that they were looked
\* up under are the same unless the registry changed meanwhile; and a text is
\* the program's own only if a file could not be loaded.
TextsOfOneSource ==
    /\ moved = 0 /\ (\A p \in Parts : texts[p].key # NoKey) => texts["category"].key = texts["message"].key
    /\ \A p \in Parts : texts[p].from = Host => unloaded

\* "fallback to System", "fallback to Application": the key that is opened is
\* the key of the source of the record, in one log or another.
FallbackKeepsSource == opened # NoKey => opened.name = subject.name
=============================================================================

----------------------------- MODULE WinapiCalls -----------------------------
(***************************************************************************)
(* One thread of a client of araqne-winapi that calls the IP Helper        *)
(* tables, the registry, SystemTime, the lists of performance counters and *)
(* of processes, and makes a record of an event log into an object, one    *)
(* after the other, while the system changes what the call under way is    *)
(* about.                                                                  *)
(***************************************************************************)
EXTENDS NativeTables, RegistryKey, SystemTime, CounterNames, ProcessList, EventRecord

vars == <<tablesVars, registryVars, timeVars, namesVars, processVars, recordVars>>

Init ==
    /\ TablesInit /\ RegistryInit /\ TimeInit
    /\ NamesInit /\ ProcessesInit /\ RecordInit

\* Only one of the calls is under way.
InTables(act) ==
    /\ RegistryIdle /\ TimeIdle /\ NamesIdle /\ ProcessesIdle /\ RecordIdle
    /\ act
    /\ UNCHANGED <<registryVars, timeVars, namesVars, processVars, recordVars>>

InRegistry(act) ==
    /\ TablesIdle /\ TimeIdle /\ NamesIdle /\ ProcessesIdle /\ RecordIdle
    /\ act
    /\ UNCHANGED <<tablesVars, timeVars, namesVars, processVars, recordVars>>

InTime(act) ==
    /\ TablesIdle /\ RegistryIdle /\ NamesIdle /\ ProcessesIdle /\ RecordIdle
    /\ act
    /\ UNCHANGED <<tablesVars, registryVars, namesVars, processVars, recordVars>>

InNames(act) ==
    /\ TablesIdle /\ RegistryIdle /\ TimeIdle /\ ProcessesIdle /\ RecordIdle
    /\ act
    /\ UNCHANGED <<tablesVars, registryVars, timeVars, processVars, recordVars>>

InProcesses(act) ==
    /\ TablesIdle /\ RegistryIdle /\ TimeIdle /\ NamesIdle /\ RecordIdle
    /\ act
    /\ UNCHANGED <<tablesVars, registryVars, timeVars, namesVars, recordVars>>

InRecord(act) ==
    /\ TablesIdle /\ RegistryIdle /\ TimeIdle /\ NamesIdle /\ ProcessesIdle
    /\ act
    /\ UNCHANGED <<tablesVars, registryVars, timeVars, namesVars, processVars>>

System ==
    \/ InTables(Change \/ LibraryFails)
    \/ InRegistry(Others)
    \/ InTime(TimePasses)
    \/ InNames(NamesChange \/ NamesFail)
    \/ InProcesses(ProcessesMove \/ ProcessesFail)
    \/ InRecord(RecordChange)

Thread ==
    \/ InTables(TablesCall)
    \/ InRegistry(RegistryCall)
    \/ InTime(TimeCall)
    \/ InNames(NamesStep)
    \/ InProcesses(ProcessesCall)
    \/ InRecord(RecordCall)

Next == System \/ Thread

\* The thread is scheduled while it lists a table. The system owes nothing to
\* anybody, and the client chooses what to call.
Spec == Init /\ [][Next]_vars /\ WF_vars(InTables(TablesCall))

-----------------------------------------------------------------------------
(* What the calls have in common.                                          *)

\* The lists of names, and the account behind a SID, as questions.
NamesQuery ==
    INSTANCE Query WITH
        Contents <- {Listed(pair) : pair \in Pairs},
        Refusals <- Failures,
        NoReply <- Failure("none"),
        phase <- CASE asking = "idle" -> "idle"
                   [] asking = "returned" -> "answered"
                   [] OTHER -> "asked",
        content <- Listed(existing),
        offered <- {Listed(pair) : pair \in shown},
        reply <- outcome

UserQuery ==
    INSTANCE Query WITH
        Contents <- AccountNames,
        Refusals <- {NoUser},
        NoReply <- NoUser,
        phase <- CASE making \in {"account size", "account"} -> "asked"
                   [] making = "returned" /\ accounts # {} -> "answered"
                   [] OTHER -> "idle",
        content <- account,
        offered <- accounts,
        reply <- user

\* Every list of names that PDH is asked for, and every name of an account, is
\* one that was true at some moment of the call, however what is asked about
\* changes between the question for the size and the one for the text; or the
\* answer is one that says that there is none.
AnswersOfTheTime == NamesQuery!Spec /\ UserQuery!Spec

\* A call that has returned, in whatever way, has given back what it took: the
\* handles of processes, the key and the modules of an event source, and the
\* strings of the caller. What the code keeps is the category when the machine
\* cannot be connected to, and a path that is too long. (The string of
\* lookupAccountSid it keeps always.)
NothingKept ==
    /\ stage \in {"idle", "listed"} => outer = 0 /\ inner = 0
    /\ making \in {"idle", "returned"} => opened = NoKey /\ modules = <<>>
    /\ asking = "returned" => chars \subseteq (IF outcome.kind = "not connected" THEN {"category"} ELSE {})
                                                \union (IF outcome.kind = "too long" THEN {"path"} ELSE {})
=============================================================================

------------------------------ MODULE EvtLibrary ------------------------------
(***************************************************************************)
(* How eventLogApi.c comes by wevtapi.dll and what subscribe acquires.     *)
(* The first native call loads the library and fills eleven global         *)
(* function pointers, one assignment each; a later call only looks at      *)
(* hModule.  Neither is locked, so a second thread can pass the check      *)
(* while the first is still assigning.  A call through a pointer that is   *)
(* still NULL ends the process (NullCall).                                 *)
(*                                                                         *)
(* Of subscribe the module keeps the order in which the event object and   *)
(* the three wevtapi handles are opened and what each failure closes       *)
(* again; of getChannelPaths the enumerator.                               *)
(***************************************************************************)
EXTENDS Naturals, Sequences

CONSTANT Threads    \* Java threads that call into the library

ASSUME ThreadsAssumption == Threads # {}

\* The globals in the order in which loadLibrary assigns them.
Procs == << "Subscribe", "CreateBookmark", "UpdateBookmark", "Render", "Close", "Next",
            "CreateRenderContext", "FormatMessage", "OpenPublisherMetadata",
            "OpenChannelEnum", "NextChannelPath" >>
AllProcs == {Procs[i] : i \in 1 .. Len(Procs)}

\* wevtapi.dll on this machine: missing (before Vista), without one of the
\* functions, or whole.
Dlls == {"absent", "incomplete", "complete"}
Absent == "NextChannelPath"  \* the function an incomplete library lacks

Kinds == {"signal", "render", "bookmark", "subscription", "enum"}
Exits == {"load", "subscribe", "close"}  \* what a handle can be left behind by

VARIABLES
    dll,        \* what LoadLibrary finds, fixed for the machine
    hModule,    \* the global is not NULL
    resolved,   \* the function pointers that are not NULL
    pc,         \* pc[t]: where thread t is
    entry,      \* entry[t]: the native function t called
    next,       \* next[t]: the assignment t is at in loadLibrary
    held,       \* held[t]: handles t's call or t's object refers to
    leaked      \* <<exit, kind>>: an open handle of that kind was left behind there

globals == <<dll, hModule, resolved>>
vars == <<globals, pc, entry, next, held, leaked>>

Location == {"idle", "check", "load", "resolve", "verify", "render", "bookmark",
             "subscription", "cleanup", "enum", "nextPath", "closeEnum", "open"}

TypeOK ==
    /\ dll \in Dlls
    /\ hModule \in BOOLEAN
    /\ resolved \subseteq AllProcs
    /\ pc \in [Threads -> Location]
    /\ entry \in [Threads -> {"subscribe", "getChannelPaths"}]
    /\ next \in [Threads -> 1 .. Len(Procs)]
    /\ held \in [Threads -> SUBSET Kinds]
    /\ leaked \subseteq Exits \X Kinds

Init ==
    /\ dll \in Dlls
    /\ hModule = FALSE
    /\ resolved = {}
    /\ pc = [t \in Threads |-> "idle"]
    /\ entry = [t \in Threads |-> "subscribe"]
    /\ next = [t \in Threads |-> 1]
    /\ held = [t \in Threads |-> {}]
    /\ leaked = {}

Goto(t, place) == pc' = [pc EXCEPT ![t] = place]

\* t lets go of what it holds, having closed the handles of the kinds in closed.
Release(t, exit, closed) ==
    /\ held' = [held EXCEPT ![t] = {}]
    /\ leaked' = leaked \union ({exit} \X (held[t] \ closed))

-----------------------------------------------------------------------------
(* Entry, and loadLibrary.                                                 *)

\* subscribe creates the event object before anything else.
CallSubscribe(t) ==
    /\ pc[t] = "idle"
    /\ entry' = [entry EXCEPT ![t] = "subscribe"]
    /\ held' = [held EXCEPT ![t] = {"signal"}]
    /\ Goto(t, "check")
    /\ UNCHANGED <<globals, next, leaked>>

CallGetChannelPaths(t) ==
    /\ pc[t] = "idle"
    /\ entry' = [entry EXCEPT ![t] = "getChannelPaths"]
    /\ Goto(t, "check")
    /\ UNCHANGED <<globals, next, held, leaked>>

Loaded(t) == Goto(t, IF entry[t] = "subscribe" THEN "render" ELSE "enum")

\* The library cannot be used: an exception is pending and the caller returns
\* 0 from its first statement, which leaves subscribe's event object open.
LoadFails(t) ==
    /\ Goto(t, "idle")
    /\ Release(t, "load", {})

Check(t) ==
    /\ pc[t] = "check"
    /\ IF hModule THEN Loaded(t) ELSE Goto(t, "load")
    /\ UNCHANGED <<globals, entry, next, held, leaked>>

Load(t) ==
    /\ pc[t] = "load"
    /\ hModule' = (dll # "absent")
    /\ \/ dll = "absent" /\ LoadFails(t) /\ UNCHANGED next
       \/ /\ dll # "absent"
          /\ next' = [next EXCEPT ![t] = 1]
          /\ Goto(t, "resolve")
          /\ UNCHANGED <<held, leaked>>
    /\ UNCHANGED <<dll, resolved, entry>>

\* One GetProcAddress.  After another thread's failure hModule may be NULL, and
\* the function is then looked up in the executable, which has none of them.
Exported(p) == hModule /\ (dll = "complete" \/ p # Absent)

Resolve(t) ==
    /\ pc[t] = "resolve"
    /\ LET p == Procs[next[t]] IN
           resolved' = IF Exported(p) THEN resolved \union {p} ELSE resolved \ {p}
    /\ IF next[t] < Len(Procs)
       THEN next' = [next EXCEPT ![t] = @ + 1] /\ UNCHANGED pc
       ELSE Goto(t, "verify") /\ UNCHANGED next
    /\ UNCHANGED <<dll, hModule, entry, held, leaked>>

\* Faulty Verify: a library with a function missing stays in hModule.
VerifyKeepsModule(t) ==
    /\ pc[t] = "verify"
    /\ IF resolved = AllProcs
       THEN Loaded(t) /\ UNCHANGED <<held, leaked>>
       ELSE LoadFails(t)
    /\ UNCHANGED <<dll, hModule, resolved, entry, next>>

Verify(t) ==
    /\ pc[t] = "verify"
    /\ IF resolved = AllProcs
       THEN Loaded(t) /\ UNCHANGED <<hModule, held, leaked>>
       ELSE LoadFails(t) /\ hModule' = FALSE
    /\ UNCHANGED <<dll, resolved, entry, next>>

-----------------------------------------------------------------------------
(* subscribe and getChannelPaths through the pointers.                     *)

\* The function that t is about to call.
Callee(t) ==
    CASE pc[t] = "render"       -> "CreateRenderContext"
      [] pc[t] = "bookmark"     -> "CreateBookmark"
      [] pc[t] = "subscription" -> "Subscribe"
      [] pc[t] = "enum"         -> "OpenChannelEnum"
      [] pc[t] = "nextPath"     -> "NextChannelPath"
      [] OTHER                  -> "Close"

Calling(t) ==
    \/ pc[t] \in {"render", "bookmark", "subscription", "enum", "nextPath", "closeEnum", "open"}
    \/ pc[t] = "cleanup" /\ held[t] # {"signal"}

\* One handle of subscribe: opened, or the rest of the call is cleanup.
Open(t, place, following) ==
    /\ pc[t] = place
    /\ Callee(t) \in resolved
    /\ \/ held' = [held EXCEPT ![t] = @ \union {place}] /\ Goto(t, following)
       \/ UNCHANGED held /\ Goto(t, "cleanup")
    /\ UNCHANGED <<globals, entry, next, leaked>>

CreateRenderContext(t) == Open(t, "render", "bookmark")
CreateBookmark(t) == Open(t, "bookmark", "subscription")
EvtSubscribe(t) == Open(t, "subscription", "open")

\* Faulty CleanupCloses: _EvtClose(hRender) is missing, as it is in close().
CleanupForgetsRender == {"subscription", "bookmark", "signal"}

\* The handles that subscribe's cleanup closes if they were opened, and those
\* that close() does: it forgets hRender.
CleanupCloses == {"subscription", "bookmark", "render", "signal"}
CloseCloses == {"subscription", "bookmark", "signal"}

Cleanup(t) ==
    /\ pc[t] = "cleanup"
    /\ Calling(t) => "Close" \in resolved
    /\ Release(t, "subscribe", CleanupCloses)
    /\ Goto(t, "idle")
    /\ UNCHANGED <<globals, entry, next>>

\* close() on the object that subscribe returned.
Close(t) ==
    /\ pc[t] = "open"
    /\ "Close" \in resolved
    /\ Release(t, "close", CloseCloses)
    /\ Goto(t, "idle")
    /\ UNCHANGED <<globals, entry, next>>

OpenChannelEnum(t) ==
    /\ pc[t] = "enum"
    /\ Callee(t) \in resolved
    /\ \/ held' = [held EXCEPT ![t] = {"enum"}] /\ Goto(t, "nextPath")
       \/ UNCHANGED held /\ Goto(t, "idle")
    /\ UNCHANGED <<globals, entry, next, leaked>>

\* EvtNextChannelPath: another path, or the end of the list or an error.
NextChannelPath(t) ==
    /\ pc[t] = "nextPath"
    /\ Callee(t) \in resolved
    /\ UNCHANGED pc \/ Goto(t, "closeEnum")
    /\ UNCHANGED <<globals, entry, next, held, leaked>>

CloseEnum(t) ==
    /\ pc[t] = "closeEnum"
    /\ Callee(t) \in resolved
    /\ held' = [held EXCEPT ![t] = {}]
    /\ Goto(t, "idle")
    /\ UNCHANGED <<globals, entry, next, leaked>>

\* A call through a NULL pointer: the process is gone, a new one starts.
NullCall(t) ==
    /\ Calling(t)
    /\ Callee(t) \notin resolved
    /\ hModule' = FALSE
    /\ resolved' = {}
    /\ pc' = [u \in Threads |-> "idle"]
    /\ entry' = [u \in Threads |-> "subscribe"]
    /\ next' = [u \in Threads |-> 1]
    /\ held' = [u \in Threads |-> {}]
    /\ leaked' = {}
    /\ UNCHANGED dll

-----------------------------------------------------------------------------
Step(t) ==
    \/ CallSubscribe(t)
    \/ CallGetChannelPaths(t)
    \/ Check(t)
    \/ Load(t)
    \/ Resolve(t)
    \/ Verify(t)
    \/ CreateRenderContext(t)
    \/ CreateBookmark(t)
    \/ EvtSubscribe(t)
    \/ Cleanup(t)
    \/ Close(t)
    \/ OpenChannelEnum(t)
    \/ NextChannelPath(t)
    \/ CloseEnum(t)
    \/ NullCall(t)

Next == \E t \in Threads : Step(t)

Spec == Init /\ [][Next]_vars

-----------------------------------------------------------------------------
(* Properties.                                                             *)

Loading(t) == pc[t] \in {"resolve", "verify"}

\* A loaded library that nobody is still loading has every function: the test
\* of hModule alone is a sound test once the first call is over.
LoadedMeansResolved ==
    hModule /\ (\A t \in Threads : ~Loading(t)) => resolved = AllProcs

\* With a whole library, a thread can meet a NULL pointer only while another
\* thread is inside loadLibrary; a single thread never does.
NullOnlyWhileLoading ==
    dll = "complete" =>
        \A t \in Threads :
            Calling(t) /\ Callee(t) \notin resolved
                => \E u \in Threads \ {t} : Loading(u)

\* What the test of hModule is good for, without a lock: once nobody is loading
\* a module that is set has all its functions, and with a whole library nobody
\* calls a NULL pointer but in a race with the first call.
ModuleTestHolds == LoadedMeansResolved /\ NullOnlyWhileLoading

\* A subscribe that fails once the library is there closes every handle it
\* opened, in whatever order other threads load it or fail to; one that cannot
\* load the library leaves its event object open (eventLogApi.c:222), which a
\* whole library never does, and close() its render context (eventLogApi.c:294).
FailureLeaksNothing ==
    /\ leaked \subseteq {<<"load", "signal">>, <<"close", "render">>}
    /\ <<"load", "signal">> \in leaked => dll # "complete"
=============================================================================

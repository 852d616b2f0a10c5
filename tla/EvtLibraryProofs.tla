--------------------------- MODULE EvtLibraryProofs ---------------------------
(***************************************************************************)
(* What TLAPS proves of EvtLibrary, for any number of threads.             *)
(***************************************************************************)
EXTENDS EvtLibrary, TLAPS

\* The eleven assignments, as far as the proofs need to know them.
LEMMA ProcsFacts ==
    /\ Len(Procs) = 11
    /\ \A i \in 1 .. 11 : Procs[i] \in AllProcs
    /\ \A p \in AllProcs : \E i \in 1 .. 11 : p = Procs[i]
    /\ Absent \in AllProcs
<1>1. Len(Procs) = 11
  BY DEF Procs
<1>2. Absent = Procs[11]
  BY DEF Procs, Absent
<1>3. QED
  BY <1>1, <1>2 DEF AllProcs

LEMMA CalleeInProcs == \A t \in Threads : Callee(t) \in AllProcs
<1>1. {"CreateRenderContext", "CreateBookmark", "Subscribe", "OpenChannelEnum",
       "NextChannelPath", "Close"} \subseteq AllProcs
  <2>1. /\ "CreateRenderContext" = Procs[7]
        /\ "CreateBookmark" = Procs[2]
        /\ "Subscribe" = Procs[1]
        /\ "OpenChannelEnum" = Procs[10]
        /\ "NextChannelPath" = Procs[11]
        /\ "Close" = Procs[5]
    BY DEF Procs
  <2>2. QED
    BY <2>1, ProcsFacts
<1>2. QED
  BY <1>1 DEF Callee

-----------------------------------------------------------------------------
\* Values that a new process gives the variables of its threads.
LEMMA FreshTypes ==
    /\ [t \in Threads |-> "idle"] \in [Threads -> Location]
    /\ [t \in Threads |-> "subscribe"] \in [Threads -> {"subscribe", "getChannelPaths"}]
    /\ [t \in Threads |-> 1] \in [Threads -> 1 .. Len(Procs)]
    /\ [t \in Threads |-> {}] \in [Threads -> SUBSET Kinds]
<1>1. 1 \in 1 .. Len(Procs)
  BY ProcsFacts
<1>2. QED
  BY <1>1 DEF Location

\* Letting go of the handles of a call keeps the types.
LEMMA ReleaseTypes ==
    TypeOK => \A t \in Threads, exit \in Exits, closed \in SUBSET Kinds :
        Release(t, exit, closed) =>
            held' \in [Threads -> SUBSET Kinds] /\ leaked' \subseteq Exits \X Kinds
<1> SUFFICES ASSUME TypeOK, NEW t \in Threads, NEW exit \in Exits,
                    NEW closed \in SUBSET Kinds,
                    Release(t, exit, closed)
             PROVE  held' \in [Threads -> SUBSET Kinds] /\ leaked' \subseteq Exits \X Kinds
  OBVIOUS
<1>1. held[t] \ closed \subseteq Kinds
  BY DEF TypeOK
<1>2. QED
  BY <1>1 DEF TypeOK, Release

LEMMA TypeStep == TypeOK /\ [Next]_vars => TypeOK'
<1> SUFFICES ASSUME TypeOK, [Next]_vars PROVE TypeOK'
  OBVIOUS
<1> USE DEF TypeOK, Goto, globals, Location
<1>1. ASSUME NEW t \in Threads, Step(t) PROVE TypeOK'
  <2>1. CASE CallSubscribe(t)
    BY <2>1 DEF CallSubscribe, Kinds
  <2>2. CASE CallGetChannelPaths(t)
    BY <2>2 DEF CallGetChannelPaths
  <2>3. CASE Check(t)
    BY <2>3 DEF Check, Loaded
  <2>4. CASE Load(t)
    BY <2>4, ReleaseTypes, ProcsFacts DEF Load, LoadFails, Exits
  <2>5. CASE Resolve(t)
    BY <2>5, ProcsFacts DEF Resolve
  <2>6. CASE Verify(t)
    <3>1. CASE resolved = AllProcs
      BY <2>6, <3>1 DEF Verify, Loaded
    <3>2. CASE resolved # AllProcs
      <4>1. /\ Release(t, "load", {})
            /\ pc' = [pc EXCEPT ![t] = "idle"]
            /\ hModule' = FALSE
            /\ UNCHANGED <<dll, resolved, entry, next>>
        BY <2>6, <3>2 DEF Verify, LoadFails
      <4>2. held' \in [Threads -> SUBSET Kinds] /\ leaked' \subseteq Exits \X Kinds
        BY <4>1, ReleaseTypes DEF Exits
      <4>3. QED
        BY <4>1, <4>2
    <3>3. QED
      BY <3>1, <3>2
  <2>7. CASE CreateRenderContext(t) \/ CreateBookmark(t) \/ EvtSubscribe(t)
    <3>1. ASSUME NEW place \in {"render", "bookmark", "subscription"},
                 NEW following \in Location, Open(t, place, following)
          PROVE  TypeOK'
      <4>1. held' \in [Threads -> SUBSET Kinds]
        BY <3>1 DEF Open, Kinds
      <4>2. pc' \in [Threads -> Location]
        BY <3>1 DEF Open
      <4>3. QED
        BY <3>1, <4>1, <4>2 DEF Open
    <3>2. QED
      BY <2>7, <3>1 DEF CreateRenderContext, CreateBookmark, EvtSubscribe
  <2>8. CASE Cleanup(t) \/ Close(t)
    BY <2>8, ReleaseTypes DEF Cleanup, Close, Exits, Kinds, CleanupCloses, CloseCloses
  <2>9. CASE OpenChannelEnum(t)
    <3>1. held' \in [Threads -> SUBSET Kinds]
      BY <2>9 DEF OpenChannelEnum, Kinds
    <3>2. pc' \in [Threads -> Location]
      BY <2>9 DEF OpenChannelEnum
    <3>3. QED
      BY <2>9, <3>1, <3>2 DEF OpenChannelEnum
  <2>10. CASE NextChannelPath(t)
    BY <2>10 DEF NextChannelPath
  <2>11. CASE CloseEnum(t)
    BY <2>11 DEF CloseEnum
  <2>12. CASE NullCall(t)
    BY <2>12, FreshTypes DEF NullCall
  <2>13. QED
    BY <1>1, <2>1, <2>2, <2>3, <2>4, <2>5, <2>6, <2>7, <2>8, <2>9, <2>10, <2>11, <2>12
    DEF Step
<1>2. CASE UNCHANGED vars
  BY <1>2 DEF vars
<1>3. QED
  BY <1>1, <1>2 DEF Next

\* The globals of eventLogApi.c, the threads in its functions and the handles
\* they own keep their types.
THEOREM TypeCorrect == Spec => []TypeOK
<1>1. Init => TypeOK
  BY FreshTypes DEF Init, TypeOK
<1>2. QED
  BY <1>1, TypeStep, PTL DEF Spec

-----------------------------------------------------------------------------
(* A whole library stays loaded once it is, and a thread inside loadLibrary *)
(* has made the assignments before the one it is at; a library with a       *)
(* function missing is in hModule only while some thread is loading it.     *)
LoadInv ==
    /\ dll = "absent" => ~hModule /\ \A t \in Threads : ~Loading(t)
    /\ dll = "incomplete" =>
          /\ Absent \notin resolved
          /\ hModule => \E t \in Threads : Loading(t)
    /\ dll = "complete" =>
          /\ \A t \in Threads : Loading(t) \/ Calling(t) => hModule
          /\ \A t \in Threads : \A i \in 1 .. Len(Procs) :
                pc[t] = "resolve" /\ i < next[t] => Procs[i] \in resolved
          /\ \A t \in Threads : pc[t] = "verify" => resolved = AllProcs
          /\ hModule => resolved = AllProcs \/ \E t \in Threads : Loading(t)

LEMMA LoadStep == TypeOK /\ LoadInv /\ [Next]_vars => LoadInv'
<1> SUFFICES ASSUME TypeOK, LoadInv, [Next]_vars PROVE LoadInv'
  OBVIOUS
<1> USE DEF TypeOK, LoadInv, Loading, Calling, Goto, globals
<1>1. ASSUME NEW t \in Threads, Step(t) PROVE LoadInv'
  <2>1. CASE CallSubscribe(t) \/ CallGetChannelPaths(t)
    BY <2>1 DEF CallSubscribe, CallGetChannelPaths
  <2>2. CASE Check(t)
    BY <2>2 DEF Check, Loaded
  <2>3. CASE Load(t)
    <3>1. CASE dll = "absent"
      BY <2>3, <3>1 DEF Load, LoadFails, Release
    <3>2. CASE dll # "absent"
      <4>1. /\ hModule' = TRUE
            /\ pc' = [pc EXCEPT ![t] = "resolve"]
            /\ next' = [next EXCEPT ![t] = 1]
            /\ UNCHANGED <<dll, resolved>>
        BY <2>3, <3>2 DEF Load
      <4>2. QED
        BY <3>2, <4>1, ProcsFacts
    <3>3. QED
      BY <3>1, <3>2
  <2>4. CASE Resolve(t)
    <3>0. /\ Procs[next[t]] \in AllProcs
          /\ pc[t] = "resolve"
          /\ UNCHANGED <<dll, hModule, entry, held, leaked>>
      BY <2>4, ProcsFacts DEF Resolve
    <3>1. CASE dll = "absent"
      BY <3>0, <3>1
    <3>2. CASE dll = "incomplete"
      BY <2>4, <3>0, <3>2 DEF Resolve, Exported
    <3>3. CASE dll = "complete"
      <4>1. resolved' = resolved \union {Procs[next[t]]}
        BY <2>4, <3>0, <3>3 DEF Resolve, Exported
      <4>2. ASSUME next[t] = Len(Procs) PROVE resolved' = AllProcs
        BY <3>0, <3>3, <4>1, <4>2, ProcsFacts
      <4>3. CASE next[t] < Len(Procs)
        BY <2>4, <3>0, <3>3, <4>1, <4>3, ProcsFacts DEF Resolve
      <4>4. CASE ~(next[t] < Len(Procs))
        BY <2>4, <3>0, <3>3, <4>1, <4>2, <4>4, ProcsFacts DEF Resolve
      <4>5. QED
        BY <4>3, <4>4
    <3>4. QED
      BY <3>1, <3>2, <3>3 DEF Dlls
  <2>5. CASE Verify(t)
    BY <2>5, ProcsFacts DEF Verify, Loaded, LoadFails, Release
  <2>6. CASE CreateRenderContext(t) \/ CreateBookmark(t) \/ EvtSubscribe(t)
    BY <2>6 DEF CreateRenderContext, CreateBookmark, EvtSubscribe, Open
  <2>7. CASE Cleanup(t) \/ Close(t)
    BY <2>7 DEF Cleanup, Close, Release
  <2>8. CASE OpenChannelEnum(t) \/ NextChannelPath(t) \/ CloseEnum(t)
    BY <2>8 DEF OpenChannelEnum, NextChannelPath, CloseEnum
  <2>9. CASE NullCall(t)
    BY <2>9 DEF NullCall
  <2>10. QED
    BY <1>1, <2>1, <2>2, <2>3, <2>4, <2>5, <2>6, <2>7, <2>8, <2>9 DEF Step
<1>2. CASE UNCHANGED vars
  BY <1>2 DEF vars
<1>3. QED
  BY <1>1, <1>2 DEF Next

LEMMA LoadInvariant == Spec => []LoadInv
<1>1. Init => LoadInv
  BY DEF Init, LoadInv, Loading, Calling
<1>2. QED
  BY <1>1, LoadStep, TypeCorrect, PTL DEF Spec

\* hModule is a sound test outside loadLibrary: a library that it calls loaded
\* has all eleven functions, and with a whole library a thread meets a NULL
\* pointer only while another one is inside loadLibrary.
THEOREM ModuleTestIsSound == Spec => []ModuleTestHolds
<1>1. TypeOK /\ LoadInv => LoadedMeansResolved
  BY DEF TypeOK, LoadInv, LoadedMeansResolved, Dlls
<1>2. TypeOK /\ LoadInv => NullOnlyWhileLoading
  BY CalleeInProcs DEF TypeOK, LoadInv, NullOnlyWhileLoading, Loading, Calling
<1>3. TypeOK /\ LoadInv => ModuleTestHolds
  BY <1>1, <1>2 DEF ModuleTestHolds
<1>4. QED
  BY <1>3, TypeCorrect, LoadInvariant, PTL

\* A program with a single thread never calls a NULL pointer.
THEOREM OneThreadIsSafe ==
    ASSUME \A t, u \in Threads : t = u
    PROVE  Spec => [](dll = "complete" =>
                        \A t \in Threads : Calling(t) => Callee(t) \in resolved)
<1>1. ModuleTestHolds =>
        (dll = "complete" => \A t \in Threads : Calling(t) => Callee(t) \in resolved)
  BY DEF ModuleTestHolds, NullOnlyWhileLoading
<1>2. QED
  BY <1>1, ModuleTestIsSound, PTL

-----------------------------------------------------------------------------
(* Until the library is there a call holds at most subscribe's event        *)
(* object, later what subscribe's cleanup knows of, and a thread that is not *)
(* in a call holds nothing.                                                *)
HeldInv ==
    \A t \in Threads :
        /\ pc[t] \in {"idle", "enum"} => held[t] = {}
        /\ pc[t] \in {"check", "load", "resolve", "verify"} =>
              /\ held[t] \subseteq {"signal"}
              /\ entry[t] = "getChannelPaths" => held[t] = {}
        /\ pc[t] \in {"render", "bookmark", "subscription", "cleanup", "open"} =>
              held[t] \subseteq CleanupCloses

LEMMA HeldStep == TypeOK /\ HeldInv /\ [Next]_vars => HeldInv'
<1> SUFFICES ASSUME TypeOK, HeldInv, [Next]_vars PROVE HeldInv'
  OBVIOUS
<1> USE DEF TypeOK, HeldInv, Goto, globals
<1>1. ASSUME NEW t \in Threads, Step(t) PROVE HeldInv'
  <2>1. CASE CallSubscribe(t) \/ CallGetChannelPaths(t)
    BY <2>1 DEF CallSubscribe, CallGetChannelPaths
  <2>2. CASE Check(t)
    BY <2>2 DEF Check, Loaded, CleanupCloses
  <2>3. CASE Load(t)
    BY <2>3 DEF Load, LoadFails, Release
  <2>4. CASE Resolve(t)
    BY <2>4 DEF Resolve
  <2>5. CASE Verify(t)
    BY <2>5 DEF Verify, Loaded, LoadFails, Release, CleanupCloses
  <2>6. CASE CreateRenderContext(t) \/ CreateBookmark(t) \/ EvtSubscribe(t)
    <3>1. ASSUME NEW place \in {"render", "bookmark", "subscription"},
                 NEW following \in {"bookmark", "subscription", "open"},
                 Open(t, place, following)
          PROVE  HeldInv'
      <4>1. pc[t] = place /\ pc' \in {[pc EXCEPT ![t] = following], [pc EXCEPT ![t] = "cleanup"]}
        BY <3>1 DEF Open
      <4>2. held' \in {held, [held EXCEPT ![t] = @ \union {place}]}
        BY <3>1 DEF Open
      <4>3. held'[t] \subseteq CleanupCloses
        BY <4>1, <4>2 DEF CleanupCloses
      <4>4. QED
        BY <3>1, <4>1, <4>2, <4>3 DEF Open
    <3>2. QED
      BY <2>6, <3>1 DEF CreateRenderContext, CreateBookmark, EvtSubscribe
  <2>7. CASE Cleanup(t) \/ Close(t)
    BY <2>7 DEF Cleanup, Close, Release
  <2>8. CASE OpenChannelEnum(t) \/ NextChannelPath(t) \/ CloseEnum(t)
    BY <2>8 DEF OpenChannelEnum, NextChannelPath, CloseEnum
  <2>9. CASE NullCall(t)
    BY <2>9 DEF NullCall
  <2>10. QED
    BY <1>1, <2>1, <2>2, <2>3, <2>4, <2>5, <2>6, <2>7, <2>8, <2>9 DEF Step
<1>2. CASE UNCHANGED vars
  BY <1>2 DEF vars
<1>3. QED
  BY <1>1, <1>2 DEF Next

\* Only a library that is missing or incomplete makes a call fail with the event
\* object in hand: with a whole one every function is resolved at the end.
LEMMA LeakStep ==
    TypeOK /\ LoadInv /\ HeldInv /\ FailureLeaksNothing /\ [Next]_vars => FailureLeaksNothing'
<1> SUFFICES ASSUME TypeOK, LoadInv, HeldInv, FailureLeaksNothing, [Next]_vars
             PROVE  FailureLeaksNothing'
  OBVIOUS
<1> USE DEF FailureLeaksNothing, globals
<1>1. ASSUME NEW t \in Threads, Step(t) PROVE FailureLeaksNothing'
  <2>1. CASE Load(t)
    <3>1. ASSUME dll = "absent" PROVE leaked' \subseteq leaked \union {<<"load", "signal">>}
      BY <2>1, <3>1 DEF Load, LoadFails, Release, HeldInv
    <3>2. ASSUME dll # "absent" PROVE leaked' = leaked
      BY <2>1, <3>2 DEF Load
    <3>3. QED
      BY <2>1, <3>1, <3>2 DEF Load
  <2>2. CASE Verify(t)
    <3>1. CASE resolved = AllProcs
      BY <2>2, <3>1 DEF Verify
    <3>2. CASE resolved # AllProcs
      <4>1. dll # "complete"
        BY <2>2, <3>2 DEF Verify, LoadInv
      <4>2. held[t] \subseteq {"signal"}
        BY <2>2 DEF Verify, HeldInv
      <4>3. leaked' = leaked \union ({"load"} \X held[t])
        BY <2>2, <3>2 DEF Verify, LoadFails, Release
      <4>4. QED
        BY <2>2, <4>1, <4>2, <4>3 DEF Verify
    <3>3. QED
      BY <3>1, <3>2
  <2>3. CASE Cleanup(t) \/ Close(t)
    <3>1. held[t] \subseteq CleanupCloses
      BY <2>3 DEF Cleanup, Close, HeldInv
    <3>2. CASE Cleanup(t)
      <4>1. leaked' = leaked \union ({"subscribe"} \X (held[t] \ CleanupCloses))
        BY <3>2 DEF Cleanup, Release
      <4>2. leaked' = leaked
        BY <3>1, <4>1
      <4>3. QED
        BY <3>2, <4>2 DEF Cleanup
    <3>3. CASE Close(t)
      <4>1. leaked' = leaked \union ({"close"} \X (held[t] \ CloseCloses))
        BY <3>3 DEF Close, Release
      <4>2. held[t] \ CloseCloses \subseteq {"render"}
        BY <3>1 DEF CleanupCloses, CloseCloses
      <4>3. QED
        BY <3>3, <4>1, <4>2 DEF Close
    <3>4. QED
      BY <2>3, <3>2, <3>3
  <2>4. CASE NullCall(t)
    BY <2>4 DEF NullCall
  <2>5. CASE CallSubscribe(t) \/ CallGetChannelPaths(t) \/ Check(t) \/ Resolve(t)
    BY <2>5 DEF CallSubscribe, CallGetChannelPaths, Check, Resolve
  <2>6. CASE CreateRenderContext(t) \/ CreateBookmark(t) \/ EvtSubscribe(t)
    BY <2>6 DEF CreateRenderContext, CreateBookmark, EvtSubscribe, Open
  <2>7. CASE OpenChannelEnum(t) \/ NextChannelPath(t) \/ CloseEnum(t)
    BY <2>7 DEF OpenChannelEnum, NextChannelPath, CloseEnum
  <2>8. QED
    BY <1>1, <2>1, <2>2, <2>3, <2>4, <2>5, <2>6, <2>7 DEF Step
<1>2. CASE UNCHANGED vars
  BY <1>2 DEF vars
<1>3. QED
  BY <1>1, <1>2 DEF Next

\* However many threads load the library at the same time, a subscribe that
\* fails after it closes all it opened, the render context too; one that cannot
\* load the library leaves its event object, and close() the render context.
THEOREM NothingLeaks == Spec => []FailureLeaksNothing
<1>1. Init => HeldInv /\ FailureLeaksNothing
  BY DEF Init, HeldInv, FailureLeaksNothing
<1>2. QED
  BY <1>1, HeldStep, LeakStep, TypeCorrect, LoadInvariant, PTL DEF Spec
=============================================================================

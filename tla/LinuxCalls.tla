----------------------------- MODULE LinuxCalls -----------------------------
(***************************************************************************)
(* One thread of a client of araqne-linux-api that runs commands, lists    *)
(* partitions, logins and processes, samples the processors, lists sockets *)
(* and works on the routes, one call (or one session with the routes)      *)
(* after the other.                                                        *)
(***************************************************************************)
EXTENDS DiskPartition, Wtmp, LinuxProcesses, CpuSamples, Connections, RoutingTable

readerVars == <<runVars, diskVars>>
vars == <<readerVars, wtmpVars, processesVars, samplesVars, viewVars, routesVars>>

Init == RunInit /\ DiskInit /\ WtmpInit /\ WalkInit /\ SamplesInit /\ ViewInit /\ RoutesInit

\* Only one of the calls is under way.
InRun(act) ==
    /\ WtmpIdle /\ WalkIdle /\ SamplesIdle /\ ViewIdle /\ RoutesIdle
    /\ act
    /\ UNCHANGED <<wtmpVars, processesVars, samplesVars, viewVars, routesVars>>

InWtmp(act) ==
    /\ RunIdle /\ WalkIdle /\ SamplesIdle /\ ViewIdle /\ RoutesIdle
    /\ act
    /\ UNCHANGED <<readerVars, processesVars, samplesVars, viewVars, routesVars>>

InProcesses(act) ==
    /\ RunIdle /\ WtmpIdle /\ SamplesIdle /\ ViewIdle /\ RoutesIdle
    /\ act
    /\ UNCHANGED <<readerVars, wtmpVars, samplesVars, viewVars, routesVars>>

InSamples(act) ==
    /\ RunIdle /\ WtmpIdle /\ WalkIdle /\ ViewIdle /\ RoutesIdle
    /\ act
    /\ UNCHANGED <<readerVars, wtmpVars, processesVars, viewVars, routesVars>>

InView(act) ==
    /\ RunIdle /\ WtmpIdle /\ WalkIdle /\ SamplesIdle /\ RoutesIdle
    /\ act
    /\ UNCHANGED <<readerVars, wtmpVars, processesVars, samplesVars, routesVars>>

InRoutes(act) ==
    /\ RunIdle /\ WtmpIdle /\ WalkIdle /\ SamplesIdle /\ ViewIdle
    /\ act
    /\ UNCHANGED <<readerVars, wtmpVars, processesVars, samplesVars, viewVars>>

System ==
    \/ InRun(ChildCall \/ FailCall)
    \/ InWtmp(WtmpGrows)
    \/ InProcesses(Spawn \/ Exit)
    \/ InSamples(Tick \/ Hotplug)
    \/ InView(Move \/ LsofFails \/ TableFails)
    \/ InRoutes(Others)

Thread ==
    \/ InRun(RunCall) \/ InWtmp(EntriesCall) \/ InProcesses(WalkCall)
    \/ InSamples(SamplesCall) \/ InView(ViewCall) \/ InRoutes(RoutesCall)

Next == System \/ Thread

\* A thread that reads a command's output is scheduled, and so is its child.
\* Nobody need call anything, and of the other calls nothing is claimed that
\* needs fairness.
Spec ==
    /\ Init /\ [][Next]_vars
    /\ WF_vars(InRun(ReadCall)) /\ WF_vars(InRun(ChildCall))
=============================================================================

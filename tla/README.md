# oswrapper in TLA+

oswrapper wraps two operating systems for Java. `araqne-winapi` is a set of JNI
classes over the Windows API (`src/araqne-winapi/src/main/c/winapi` and the Java
classes in `org.araqne.winapi`); `araqne-linux-api` reads and writes the files
of a Linux system and runs its commands (`org.araqne.linux.api`). This directory
holds TLA+ modules of the parts that keep state or make a decision, TLC
configurations that check them on small instances, and proofs that TLAPS checks
for every value of their constants.

Contents: [Inventory](#inventory) - [Modules](#modules) - [Runs](#runs) -
[Proofs](#proofs) - [Fairness](#fairness) - [Findings](#findings-and-known-limits-of-the-code) -
[Not modelled](#not-modelled) - [Plan](#plan)

Run a configuration with `tlc -config X.cfg M`, a proof with `tlapm M.tla`; which
module goes with which configuration is in the table of runs.

## Inventory

The two libraries share no code and never call each other. Within one library the
components do not call each other either, with two exceptions: the script classes
call everything, and the Linux route and interface commands go through `Util.run`.
What each component interacts with is the operating system and the other threads
and programs that use it, so every module has two sides: the calls of the code,
and a small environment (a log that is written, a table that changes, an
administrator, a crash) marked external in the map of `PROJECT.json`.

| component | state it keeps | operations | what is hard | what makes it correct |
|---|---|---|---|---|
| `EventLogApi` subscription (`eventLogApi.c`, `EventLogApi.java`) | native handle, timeout, the service's cursor, the bookmark, an auto-reset event | subscribe, read, close | two threads share the object without a lock; the signal is consumed by one; an `EvtNext` that runs out of its 1 ms, whose result is not read; crash between reading and storing the bookmark; null slots for events that cannot be rendered | no event at or before the stored bookmark is lost; nobody sleeps over an event because of another thread; what is there is handed over in the end |
| loader of `wevtapi.dll` (`eventLogApi.c:96-200`) | the global `hModule` and eleven function pointers | `loadLibrary` on the first call of `subscribe` or `getChannelPaths`; `close` calls through the pointers without it | `hModule` is set before the pointers are; no lock; a library that is missing or lacks a function | a NULL pointer is called only while somebody else is loading; a failed call closes what it opened |
| `EventLogReader` (`eventlogreader.c`, `EventLogReader.java`) | the next record number, the record in hand | iterator, `readEventLog`, `readAllEventLogs` | the log is written, overwritten and cleared meanwhile; unsigned 32-bit numbers in a `jint` | no record skipped that is still there; the bulk read adds upwards and nothing twice, is complete when the log's end ended it, and ends once nobody writes |
| records of the event log (`getEventLogObject`, `getMessageString`, `getResource`, `lookupAccountSid`) | the keys, message files and account of a record, for the length of a call | make an object of a record | keys and files change between two looks; three keys are tried; message files that cannot be loaded | both texts of one source; the user is a name the account had; keys and modules are given back |
| `PerformanceCounter` | the query, the list of counters, a cached array of handles | `addCounter`, `nextValue`, `close` | threads share the object and an `ArrayList` without a lock; the cache is cleared before a counter is added and filled after it is published | no interleaving gives one counter's value at another's place |
| names of counters (`performancecounter.c:20-240`) | buffers for the length of a call | `getMachines`, `getCategories`, `getCounters`, `expandCounterPath` | size, then fetch, of lists that change; every failure leaves by its own way | a list is one of the time of the call; what was pinned is released |
| `Process` (`process.c`, `Process.java`) | two snapshots of all processes | `getCpuUsages`, `getProcesses`, `refresh` | processes end, start and take over pids between two looks; processes that cannot be opened; results of native calls that nobody tests; the clock is set; a buffer of 1024 | who ran throughout is there, with a usage its own samples bear out; the figures of an object are of one process; handles are closed |
| `RegistryKey` (`winapi.c`, `RegistryKey.java`) | a handle | open and close, names of keys and values, `getValue` | names by index against a count taken before; size, then fetch | names missing or doubled are accounted for by changes; a value is one that was there |
| native tables (`routingtable.c`, `arpcache.c`, `adapterinfo.c`, `ipglobalproperties.c`) | a buffer for the length of a call | list routes, neighbours, adapters, TCP and UDP sockets | size, then fetch, of a table that grows; 16-bit index; tables of IPv6 in loops made for IPv4 | a table as it stood at some moment, or nothing |
| `SystemTime` | two samples | the constructor | the three times are not sampled together; rounding | percentages of the interval |
| `DnsConfig` | an object with the lines of `/etc/resolv.conf` | load, add and remove, save | save truncates and writes in place; sessions overlap; limits | a save writes its object; a reload gets back what was saved; at most three name servers |
| `EthernetInterface` | an object with the files of one device and of its bindings | load, setters, `addAddressBinding`, `down`, save | several files, crash between them; names that start with another's; files that name another device; numbers taken from the files | a save that ends has written everything; files of other devices are left alone |
| `Util.run` | a child and its two pipes | run | the pipes are drained one after the other | it returns, with the whole output |
| `DiskPartition` | none | list partitions | `df` wraps long rows, once or twice; its lines are read while it writes | each row is one partition |
| `Wtmp` | an offset into `/var/log/wtmp`, for a call | `getEntries` | read field by field while records are appended, torn and cut; short reads unseen | each entry is one record, none that was there is missing |
| `Process` (Linux) | the list, for a call | `getProcesses` | two files for each pid, one after the other; processes end and give away their pids; a status that cannot be read or parsed | who ran throughout is listed once, with its own command line |
| `CpuStat`, `CpuUsage`, `KernelStat` | two samples of `/proc/stat` | `getCpuUsage` | a core is an index among those online | both samples are of one core; shares of what it has done |
| connections (`ConnectionInformation.java`, Tcp, Udp) | a map from user to process for one call | list TCP or UDP sockets with their processes | processes are found through the user, from an earlier reading of `lsof` | the process is one of the user's that had sockets |
| `RoutingTable` (Linux) | none | find, add and delete routes | first match; commands of partial arguments; others change the table | the longest mask, when listed first; a command touches the entry it names |
| `LinuxApiScript`, `WinapiScript`, `Test` | none | commands | a failure in the middle of `setNameserver` | actions of the modules of what they call |
| the rest | see [Not modelled](#not-modelled) | | | |

The hazards of this code, each at its line with the properties that would notice,
are in `PROJECT.json` under `hazards`.

## Modules

In the modules an action is a handler or the part of it between two points that
other threads, other programs or a crash can see; variables keep the names of the
source's fields and locals where there is one. Variables that the code does not
have are history, marked so where they are declared, and no guard of the code's
actions reads them. Definitions announced as *Faulty X* are wrong forms of `X`
that no behaviour uses: put in its place they show that a property can fail (the
pairs are under `mutants` in `PROJECT.json`).

| module | of | how it corresponds |
|---|---|---|
| `EventFeed` | what a client of a subscription relies on | abstract: publish, deliver the next batch, pass over what the channel discarded, acknowledge, restart. No handle, signal or thread. |
| `EventSubscription` | one `EventLogApi` object and the client around it | `read()` is `ReadCall`, `EvtNextSome`/`EvtNextNone`, `WaitEnds`, `BuildArray`, `UpdateBookmark`, `SaveBookmark`: one action for every native call, as between two of them another thread may call, close or crash. `EvtNextNone` is there whether or not events are pending, as `EvtNext` has a limit of 1 ms and its result is not read; `late` (history) remembers that it was so. `Deliver` and `Persist` are the client's use of the array: the events, then the bookmark in the last slot. Implements `EventFeed` (`ImplementsFeed`), with `delivered` mapped to the event before the batch that is on its way. |
| `EvtLibrary` | `loadLibrary`, the opening and closing of handles | one action for each `GetProcAddress`, in the order of the code; a call through a NULL pointer ends the process; `Release` notes what an exit leaves open (`CleanupCloses`, `CloseCloses`) |
| `ClassicLog` | the event log as `ReadEventLog` shows it | external: written, overwritten, cleared (numbers start again), numbers modulo 2^32 as `Modulus` |
| `EventLogIterator` | `EventLogIterator.hasNext/next` and `readEventLog` | the failed seek and the sequential read are two actions; extends `ClassicLog` |
| `EventLogReadAll` | `readAllEventLogs` | a call of `ReadEventLog` fills the buffer, `TakeRecord` goes through it and appends to the list, which is a sequence; extends `ClassicLog` |
| `EventLogReaders` | composes the two | one client, which uses an iterator or a bulk read, over one log |
| `PerformanceCounter` | one object and its threads | every access to a field without a lock is a step, those of `ArrayList.add` and of the list's iterator included (`ReadModCount` to `StoreHandle`, `Iterate`, `NextHandle`); arrays are objects with identity, as one is published before it is filled |
| `CpuUsages` | `Process.getCpuUsages` | each process is enumerated, opened (or denied) and refreshed in steps of its own, twice; the machine runs, ends and starts processes in between |
| `DnsConfig` | `DnsConfig.java` and the script's `setNameserver` | an object is a record of its lists; `save` writes a line at a time |
| `EthernetInterface` | `EthernetInterface.java` | an object has the fields of its main file and its bindings; where it is saved is what its files say in `DEVICE`, which need not be their names; `save` opens (and so empties) and writes one file after the other |
| `NativeTables` | the five native listings | one call, parameterised by what it lists and by the family; the differences of the five are the small operators `FirstSize`, `AskedFamily`, `FetchedFamily`, `Fallback` and `NextIndex`; what the loop makes of a table of IPv6 is `AsRead` |
| `RegistryKey` | a key, its names and its values | `openSubKey`, whose handle is not tested; `QueryInfo`, then one `EnumName` per index; `AskLength`, then `FetchValue` |
| `SystemTime` | the constructor of `SystemTime` | two samples; the differences grow while the thread sleeps |
| `CounterNames` | the listings of `performancecounter.c` | `AskLengths`, then `FetchNames`; a list of strings is a sequence of names, and `ConvertStringArray` walks it as the C does |
| `ProcessList` | `getProcesses` and `refresh` | one action for each native call on a handle; an object keeps whose name, times and memory counters it has |
| `EventRecord` | `getEventLogObject` and `lookupAccountSid` | for each of the two texts: open a key (three attempts), ask for the size of its value, fetch it, load the files, find the text, give all back; then the account in two questions. A source is the length of its name, as a key that does not fit its buffer is cut at the end |
| `Query` | a question that takes several looks at something that changes | abstract: an answer that was true at one moment since the question, or a refusal; `CounterNames` and `EventRecord` implement it |
| `WinapiCalls` | composes the six above | one thread, one call at a time, while the system changes everything; says what the calls have in common (`AnswersOfTheTime`, `NothingKept`) |
| `UtilRun` | `Util.run` and its child | a pipe holds `Capacity` lines; the child writes its output and its errors in any order |
| `DiskPartition` | `getDiskPartitions` over `UtilRun` | the same reader without the error pipe; a row is on one to three lines, and `ParseLine` joins lines until they are `Enough` |
| `Wtmp` | `Wtmp.getEntries` | the file is a sequence of cells; `raf.read` takes one field, filled or not; writers append in two steps, are killed between them, and cut what others left |
| `CpuSamples` | `getCpuUsage` | ticks and hotplug between the samples |
| `Connections` | the join of sockets with processes | `lsof`, then the table of IPv4, then that of IPv6; sockets move in between |
| `RoutingTable` | `findRoute`, adding and deleting | a session of a client; addresses are numbers of `Width` bits |
| `LinuxProcesses` | `Process.getProcesses` of the Linux library | `ReadStatus` and `ReadCmdLine` are a file each; processes start, end and take over pids before, between and after; a process is its pid and the number of its start, and a `Process` keeps whose status and whose command line it has |
| `LinuxCalls` | composes the seven above | one thread, one call at a time |
| `EventSubscriptionProofs`, `EvtLibraryProofs`, `EventLogReadersProofs`, `PerformanceCounterProofs`, `CpuUsagesProofs`, `ConfigFilesProofs`, `WinapiCallsProofs`, `LinuxCallsProofs` | theorems | see [Proofs](#proofs) |
| `MC...` | instances | constants for TLC and symmetry sets, nothing else |

`WinapiCalls` and `LinuxCalls` compose by conjunction: an action of one part is
taken while the others are idle, and leaves their variables alone. That is what
one client thread does with these classes, which keep nothing between two calls
(`ProcessList` is the exception: the client keeps its `Process` objects until it
lets go of them, and lists or refreshes while it has some).

## Runs

| run | module, configuration | bounds | what it shows |
|---|---|---|---|
| `subscription_one` | `MCEventSubscription`, `EventSubscriptionOne.cfg` | 4 events, batches of 2, the channel keeps 3, one thread | the object implements the feed and loses nothing; what an open subscription holds is handed over, also after an `EvtNext` that gave nothing |
| `subscription_shared` | `MCEventSubscription`, `EventSubscriptionTwo.cfg` | 3 events, batches of 2, 2 kept, two threads | no lost wake-up but after an `EvtNext` that gave nothing although it could have, and an event is lost only in a step that ends the process |
| `evt_library` | `MCEvtLibrary`, `EvtLibrary.cfg` | two threads; a missing, an incomplete and a whole library | when `hModule` is a sound test, when NULL is called, what a failure leaves open |
| `log_readers` | `MCEventLogReaders`, `EventLogReaders.cfg` | 9 records of which 3 are kept, 2 to a buffer, numbers modulo 32 from 1 or from just below the half, two clears, an oversized record | the iterator skips no record that is still there and returns every record that is not lost first; the bulk read adds them upwards and none twice, is complete when the end of the log ended it, and returns when nobody writes any more |
| `performance_counter` | `MCPerformanceCounter`, `PerformanceCounter.cfg` | two threads, two counters | values stay at their counters' places unless two adds overlap; calls that do not overlap are exact and never use a closed query |
| `cpu_usages` | `MCCpuUsages`, `CpuUsages.cfg` | three processes, two processors, a buffer of two, the clock set back by one | everybody who ran throughout and could be opened is counted, within their own samples |
| `dns` | `MCDnsConfig`, `DnsConfig.cfg` | two sessions, one address, a plain and a mixed file | a save that no other overlaps writes its object; a reload loses only the sort list |
| `dns_crowded` | `MCDnsConfig`, `DnsConfigCrowded.cfg` | a file with four name servers | the limit is not kept (see the findings) |
| `ethernet` | `MCEthernetInterface`, `EthernetInterface.cfg` | devices eth1 and eth10, one object with two bindings; seven sets of files, in six of which one file says another name than its own, or none | saves complete, other devices' files left alone, also after crashes |
| `winapi_calls` | `WinapiCalls`, `WinapiCalls.cfg` | tables of two rows, a `WORD` of two values; four key names of which one is long, three at a time, two changes; ten units of time; two names for counters, one change; three pids and two starts; two logs, two sources of unlike length, two message files of which one is loaded, one change | snapshots or nothing, names accounted for, values of the time, shares of the interval, texts of one source, figures of one process, answers that implement `Query`, nothing kept, every listing of a table ends |
| `winapi_fallback` | `WinapiCalls`, `WinapiFallback.cfg` | as above | the key a record falls back to is not that of its source (see the findings) |
| `linux_calls` | `MCLinuxCalls`, `LinuxCalls.cfg` | pipes of two lines and up to four written to each, two rows of `df` of one to three lines, two logins and two more during a call, two pids and two starts, three cores, two ticks, two sockets, two processes, three users, three routes in the table, two commands | outputs are whole and `run()` returns, partitions are rows, entries are records, processes that ran throughout are listed, shares of one core, processes of the user, routes as named |

Why the bounds are enough for the cases that matter: a channel that keeps fewer
events than are written discards some under the reader; batches smaller than the
channel leave some for the next; with five-bit record numbers that start below it
nine records cross the half at which a `jint` turns negative, and three kept ones are
overtaken by the reader or overtake it; a buffer of two processes for three hides one; a pipe of two
lines is filled by a child that writes four; two rows reach the limit of a `WORD`
of two values; three route entries on a table hold a default route, a net and a
host that all cover one address; the name `Setup` is shorter than `System` and
`Application`, and `Security` longer than one of them; two starts give one pid to a
second process, and on Linux to a third between two files; two records that are begun during a call include one that is torn
and one that cuts it off. Two threads suffice to show what two threads do to
each other; that a third adds nothing is what the proofs are for.

Deadlock is checked except where the modelled program really stops: the loop of
`eventLogs` that has had enough records or a call of `readAllEventLogs` that has
returned (`log_readers`), a call of `getCpuUsages` that has returned, and threads
whose calls on a `PerformanceCounter` are used up by the bound on `addCounter`.

## Proofs

TLAPS proves, for every set of threads and every value of the bounds:

| theorem | statement | argument |
|---|---|---|
| `EventSubscriptionProofs!TypeCorrect` | `Spec => []TypeOK` | inductive as it is; the one arithmetic fact, that a batch lies between the cursor and the newest event, is the lemma `BatchBounds` |
| `WakeupNeverLost` | `Spec => []NoLostWakeup` | `NoLostWakeup` is inductive next to `TypeOK` (`WakeupStep`). It needs no word about threads that are not waiting yet, as it claims something only once all of them wait: the step that sends the last one to wait is `EvtNextNone`, after which either nothing is pending or `late` is set, and whatever makes an event pending sets the signal. |
| `BookmarksBehind` | `Spec => []BookmarkBehindCursor` | a conjunct of `SharedInv`, by which also batches that are held are non-empty, end at or below the cursor, and lie on different sides of each other; the object's bookmark is taken from the end of a held batch, which lies at or below the cursor |
| `LossIsOfACrash` | `Spec => LossNeedsCrash`, for any number of threads | an action property, from the invariant `LossInv`: every event up to the cursor is in the array of a thread, handed over, discarded, or already lost, and nothing but `Crash` empties the arrays of threads that have not delivered them |
| `NothingIsLost` | `OneThread`: `Spec => []NothingLost` | `OneInv`: a held batch starts above the stored bookmark and ends at the cursor, a bookmark text lies between the two, and every event up to the cursor is held, handed over or discarded. `NothingLost` speaks of stored bookmarks only, and storing one keeps it because of what `OneInv` says of the text before it is stored |
| `Refinement` | `OneThread`: `Spec => ImplementsFeed` | initial state to initial state (`Init`), and each action to a step of `EventFeed` or a stutter (`FeedStep`), from `OneInv` before and after the step |
| `AckedIsHanded` | `ImplementsFeed => []NothingLost` | what every implementation of the feed gives its client, for a retention in `Nat`: what was delivered was handed over or discarded is inductive for the feed, and an acknowledgement moves to what was delivered |
| `EvtLibraryProofs!ModuleTestIsSound` | `Spec => []ModuleTestHolds` | both parts, `LoadedMeansResolved` and `NullOnlyWhileLoading`, follow from `LoadInv`, by the library there is. Missing: no module, nobody loading. Incomplete: the missing function is never resolved, and a module is set only while somebody loads. Whole: whoever loads or calls has a module, whoever resolves has made all assignments before the one it is at, and a module that is set has all functions unless somebody is loading |
| `OneThreadIsSafe` | with one thread and a whole library every function called is resolved | a corollary of `NullOnlyWhileLoading`: a single thread does not load while it calls |
| `NothingLeaks` | `Spec => []FailureLeaksNothing` | `HeldInv` says what a thread may hold at each step: nothing before it calls, and only the event object until the library is loaded. What an exit leaves open is what was held then and it does not close (`LeakStep`) |
| `EventLogReadersProofs!NoneTwice` | `Spec => []NoneTwiceNoneBelow` | three invariants in turn. `LogInv`: the numbers of a log stay below `Modulus`. `BufferInv`: the buffer holds records of the numbering its handle was opened under, above all that were taken. `ListInv`: the list is in the order of its numbers, which lie at or above the number asked for and below `begin` |
| `EndIsComplete` | `Spec => EndMeansComplete` | `BeginInv`: `begin` is one above the number taken last, as a signed number, so that once numbers pass the half it starts at its least value. `CoverInv`: of the records looked at that the log still has, the list holds those the call owes. What was overwritten is not there to be missed, and after a clear the handle no longer reads |
| `NothingLeftOut` | `Spec => NoSilentGap` | `IteratorInv`: what lies between the record returned last and the one in hand is either gone or, after a clear, numbered no higher than the one returned (`Adjacent`). `EntriesStay`: writing, overwriting and clearing keep what was said of an entry |
| `PerformanceCounterProofs!TypeCorrect`, `NeverShifted` | `Spec => []TypeOK`, `Spec => []Aligned` | both from the lemma `Invariance` of `IInv /\ InPlaces`. `IInv` has the types and what a thread carries to its next step (`Ready`: a handle that is not 0, a cursor within the slots of the list). As long as no two threads have been inside `ArrayList.add` at a time it also says that only the last slot of the list is ever null, and only until the thread that adds has stored its handle (`OneAdds`), and that an array ever made has at each place the handle of the list or 0 (`ArraysAligned`). `InPlaces`: so have results. Once two have been inside, only types are left of it |
| `SerialCallsExact` | `Spec => []SerialIsExact` | `SerialInv`: as long as nothing has overlapped, results are exact, a thread in a call is alone in one, and a thread that is alone finds the fields as the calls before it left them (`FieldsAgree`) and its locals agree with them (`CallAgrees`). Two threads inside `ArrayList.add` are two calls that overlap, so the list is whole. `SoloStep` goes through the steps of the thread that is alone; `BeginningKept` shows that a later `addCounter` leaves earlier results a prefix |
| `CpuUsagesProofs!UsageOfItsSamples` | `Spec => []UsageWithinSamples` | `SampleInv`: a sample of a process that still runs is of a time it had, since when it used no more than all processors (`FirstInv`); so it is between two samples of one process (`SecondInv`). The arithmetic of Java's three divisions is the lemma `UsageIsBounded` |
| `NoneLeftOut` | `Spec => []EveryoneCounted` | `CountInv`: while no enumeration was too long for the buffer, a process that was there from the start and not denied is still to come in the snapshot under way or in its map. An enumeration that fits has them all, as a subset of equal cardinality is the whole (`EnumerateHasAll`) |
| `ConfigFilesProofs!InterfaceTypes`, `KeepsToItsDevice` | `Spec => []TypeOK`, `Spec => StaysWithDevice` (of `EthernetInterface`) | `FilesInv`: the types of files. `ObjectInv`: the names of an object that was loaded from well named files go with the device that was asked for (`Fits`: none, or starting with it or with `null`), and the setters keep them (`ChangesGoWithDevice`). `SaveInv`: a save is of an object and has come to one of its files. Of names it is only used that each starts with itself and that a numbered name starts with whatever its name starts with (`NameFacts`) |
| `WhatIsSavedIsWritten` | `Spec => SavedMeansWritten` | `WrittenInv`: the parts a save has been through are in their files, unless a later part goes to the same file (`LastThere`). What is opened and written after a part therefore is either another file or not to be kept (`LaterFiles`) |
| `ResolvConfTypes`, `SaveIsOfItsObject` | `DnsSpec => []DnsTypeOK`, `DnsSpec => []SaveWritesItsObject` | `ResolvInv`: unless another session truncated the file meanwhile, what is written and what is still to be written are together the image of the object that is saved |
| `OnlySortlistIsLost` | `DnsSpec => []ReloadLosesOnlySortlist` | the lemmas on reading: the fields that `load` collects from a file are what its lines say one after the other, so an image is read back list by list, for lists of any length; by induction on the lines |
| `WinapiCallsProofs!TablesOfAMoment` | `Spec => []SnapshotOrNothing` | `TablesInv` relates the buffer, its length and the moments the table was seen at, for every step of the fetch loop; a table of TCP over IPv6 is listed as the loop reads it (`AsRead`), which is as many rows as the table had, each of them `Misread` |
| `ValuesOfTheTime` | `Spec => []ValueOfTheTime` | `ValueInv`: the length asked for is that of a value there was, and if the one fetched does not fit, it is longer and later |
| `SharesOfAnyInterval` | `Spec => []SharesOfTheInterval` | `TimeInv` bounds the sampled times; `Rounding` and `AtMostHundred` are the arithmetic |
| `FiguresOfOne` | `Spec => []FiguresOfOneProcess` | `ProcessInv`: while a handle is open its pid is not given away, so the times and the memory counters that are read are those of the process behind it |
| `TextsOfOne` | `Spec => []TextsOfOneSource` | `RecordInv`: without a change the attempts at a key give the same for both texts, and a module is the program itself only after a load that failed |
| `NothingIsKept` | `Spec => []NothingKept` | from `ProcessInv`, `RecordInv` and `NamesInv`, which say at each step what is open, loaded and pinned |
| `AnswersInTime` | `Spec => AnswersOfTheTime` | two refinements of `Query` for every value of the constants. For accounts (lemma `UserIsAnAnswer`) from `AccountInv`. For lists of names (lemma `NamesAreAnswers`) from `AnswerInv`: the names that there are belong to what is asked and are among those there were since; and a buffer that was filled with names is walked by `convertStringArray` name by name to the list that it was filled from (`NamesComeBack`, by induction on the place in the buffer). All other steps are questions, changes or stutter |
| `EveryNameAccounted` | `Spec => []NamesAccounted` | `ListingInv` counts while the listing goes on (`Counted`), so that the sums hold after every change and not only at the end: names missed for good are no more than were removed; a name is there as often as it was put there, and once more only if it is still ahead; names that will be read twice or in vain (`Spoilt`) and those that were, are no more than were added, and beyond these only indexes that the removals have left empty (`Beyond`). The lemmas `PastInsert` and `PastRemove` say how the names ahead change when a name moves in or out before or behind the index |
| `LinuxCallsProofs!OutputWhole` | `Spec => []OutputIsWhole` | `RunInv`: what was read, what is in the pipe and what is still to be written make up the output |
| `RowsOfAnyTable` | `Spec => []PartitionsAreRows` | the output of `df` is found again at the place its rows give it (`RunInv` for the pipe, `RowsBegin` and `LinesOfRows` for the lines). `RowJoined`: the loop that joins lines ends with the last line of a row and not before, as fewer columns are not enough; so `ParseLine` makes a partition of each row (`RowParsed`). `DiskInv`: parsing is between two rows, and the partitions made so far are of the rows above |
| `RecordsInOrder` | `Spec => []EntriesAreRecords` | `WtmpInv`: records follow on each other with numbers that grow and only the one begun last is torn (`FileInv`); unless an array was not filled the call is in the record after those of its entries, at the field it is at (`PositionInv`), and its entries are the records before it (`EntriesInv`); the records that were whole when it began stay where they are (`WholeInv`) |
| `SharesOfAnyCore` | `Spec => []SharesOfOneCore` | `SamplesInv`: counters have not gone back from the first sample, and the core at an index is the same while the same cores are online; what is left is that Java's quotients of parts of a sum lie where the property says |
| `ListedThroughout` | `Spec => []ListedAsTheyRan` | `WalkInv`: who has run since the listing is still to come, at hand or in the list; nobody in the list is still to come; starts are numbered upwards, so a second file is of a later start, or of none |
| `PidOfTheUser` | `Spec => []PidIsOfTheUser` | `ViewInv`: the map has for each user a process of the listing, which is the last one listed (`LastIsListed`) |
| `CommandsDoNoOther`, `FoundLongest` | `Spec => []CommandsDoWhatIsNamed`, `Spec => []FoundIsTheLongest` | `RoutesInv`; `FirstMatchIsFirst` and `MatchesWhatIsNamed` say what the search finds, `TableChanges` what others may do |

The theorems about `WinapiCalls` and `LinuxCalls` are compositional: in each module the
lemma `Components` says that a step of the whole is a step of one component that leaves
the others' variables alone, and each component has an inductive invariant of its own.
`Max` and `Min` of the community modules are defined by `CHOOSE`; the lemma `Extremes`
(`LinuxCallsProofs`) shows that a finite set of numbers has them. The induction theorems of
the library take an operator as parameter, which no prover here instantiates; where a loop
or a list needs an induction (the lemmas `Induction` of `WinapiCallsProofs` and
`ConfigFilesProofs`) it is done on sets of numbers, with a least
counterexample from the well-foundedness of `<`. The types of
`EventSubscription`, `EvtLibrary` and `PerformanceCounter` are theorems (`TypeCorrect`) and not run again.

The proofs assume what the modules assume of their constants (named assumptions,
which TLC evaluates in every run): sets of names and processes are finite where a
cardinality or a last element is taken, and the strings and numbers that stand for
"none" are not among them. `NothingIsLost` and `Refinement` assume that there is one
thread, which is stated in the theorem: with two the code keeps neither (a thread may
store a bookmark ahead of an array that another has not returned yet), and
`LossIsOfACrash` says what remains.

Some assumptions say more than types. The names of a key are not `"blank"`, which stands for
the NUL characters of a name that could not be read: a key of that name could not be told
from a failure, and the registry has none. The lines that a `resolv.conf` starts with have words, and
behind `nameserver` an address. Names of devices are compared only by `StartsWith`, which each
instance gives: a name starts with itself, and a name with a number behind it starts with whatever
the name does. `LastNum` bounds the numbers given after a name (-1: none is given).

Some properties are narrower than their names. `NoSilentGap` leaves out the step after the record
number 2^32-1: there `next` becomes 0 and the iterator starts again (see the known limits; the
attempt to prove it without this condition showed the case). `EntriesAreRecords` says nothing
of a call that has gone on behind an array that was not filled. `Aligned` says nothing once two
threads have been inside `ArrayList.add` together, `StaysWithDevice` nothing of an object loaded from
a file whose `DEVICE` line names another device, `EveryoneCounted` nothing of a process
that could not be opened, and `NoLostWakeup` nothing after an `EvtNext` that gave none of the events there
were: in these cases the code does what the property would forbid, and the models go there. The notes
of the hazards in `PROJECT.json` say the same line by line.

Only model-checked: liveness, that is `EventuallyHanded`, `EventuallyYielded`, `ReadAllReturns`,
`CallReturns` and `RunReturns`. They rest on fairness, and the prover does not know `ENABLED`. Every
other property of a passing run is stated by a theorem of the tables above. No module uses a
`RECURSIVE` operator.

## Fairness

* `EventSubscription!FairSpec`: each client thread takes its steps (weak fairness). The code
  under `EventuallyHanded` is a thread that calls `read()` in a loop; a wait whose signal is
  set or whose time is over returns, which is what Windows promises of
  `WaitForSingleObject`. Of the service it is assumed that not every `EvtNext` for events that it has
  comes away empty-handed (strong fairness of `EvtNextSome`: between two tries the thread
  is elsewhere). Nothing is assumed of `Write`, `Close` or `Crash`, nor that an
  infinite wait ends without a signal: a reader without a time limit that sleeps after such an `EvtNext`
  (`late`) is what `EventuallyHanded` allows beside handing over.
* `EventLogReaders`: the thread that reads is scheduled, in the iterator's loop and in the
  bulk read. The log owes nothing. `ReadAllReturns` says that a call of `readAllEventLogs` returns
  unless records are written for ever: the bound on records does not enter it, as a
  behaviour in which writing goes on is allowed not to return. (Under the bound writing ends,
  so TLC sees the first half; that the loop keeps up with a writer that keeps pace is not claimed,
  and the code does not.)
* `WinapiCalls`: the thread is scheduled while it lists a native table
  (`InTables(TablesCall)`), which is all that `CallReturns` speaks of. Failures of the
  library are not part of the fair action, so that no call is helped to its end by failing.
* `LinuxCalls`: a thread that reads a command's output, for `run()` or for the partitions,
  is scheduled, and so is its child. A child may wait for a full pipe for ever, and
  nobody need call anything.

## Findings and known limits of the code

*The fourth name server.* `addNameserver` refuses when the list holds exactly three name servers
(`DnsConfig.java:90`), and says "Nameserver count limit is up to 3"; an object loaded
from a file with four lets a fifth in. Run `dns_crowded`, property `NameserverLimit`.

*The fallback key that is cut.* `getResource` (`eventlogreader.c:404`) allocates its buffer for
the key of the record's own log and prints the keys of `System` and `Application` into the
same buffer (`:407-414`). For a log whose name is shorter, such as `Setup`, the name of the
source loses its end, and the key that is opened, if there is one, is that of another
source. Run `winapi_fallback`, property `FallbackKeepsSource`.

Behaviour that a reader may stumble over, and that the models have as the code does:

* With two threads on one `EventLogApi` object a stored bookmark may be ahead of
  an array that is not returned yet; a crash then loses it, and only a crash does
  (`LossNeedsCrash`).
* `EvtNext` is given 1 ms and its result is not read (`eventLogApi.c:556`): if it gives nothing although
  events are there, the reader has used up the signal and sleeps until the next event or the
  end of its time.
* The handles that `EvtNext` puts into `events[]` are never closed, `close()` leaves the render
  context open, and a `subscribe` that cannot load the library leaves its event object.
* An event that cannot be rendered is a null slot, and the bookmark moves past it.
* A record larger than the buffer makes `readAllEventLogs` return null and stops the
  iterator; an error other than the end of the log ends `readAllEventLogs` with what
  it has.
* After the record with the number 2^32-1 the field `next` of the iterator is 0, as it is before
  the first record, and the iterator starts again with the oldest one.
* `RegEnumKeyEx`'s result is not looked at: a name that is gone or too long is
  listed as NUL characters.
* For IPv6, UDP listeners are fetched from the table of IPv4 (`ipglobalproperties.c:118`), and
  TCP connections are those of IPv4 if these are few (`:32`). If they are of IPv6, the loop reads their rows,
  which have 56 bytes, as rows of IPv4 with 24 (`:37`, `:44`): what it lists are parts of
  addresses and remainders of rows (`Misread`), and `SnapshotOrNothing` says only how many.
* A process that `OpenProcess` is denied is left out of `getCpuUsages` (`Process.java:170`).
* Two threads inside `ArrayList.add` of a `PerformanceCounter` may overwrite or lose each other's handle, or
  shift it behind the values (`PerformanceCounter.java:148`). The model has the steps of
  the `ArrayList` of JDK 6 to 8; a handle that is lost when the array grows counts as lost at once, and
  the reorderings of Java's memory model are not there.
* A table that has grown between the two questions is returned as null (routes,
  adapters) or empty (the others), like one that is empty.
* `CpuUsage` of an interval without a tick is 100 % system.
* A child that writes more errors than its pipe holds, before it closes its
  output, hangs `Util.run` and itself.
* `IpGlobalProperties.getActiveTcpConnections` casts the `Object[]` of `toArray()` to an
  array of connections, which throws a `ClassCastException`.
* `ArpEntry` of the Windows library takes the names of adapters from a static list that is
  filled once and never again.
* `getEventLogObject` passes a string where the constructor of `EventLog` takes an
  `EventType`.
* `lookupAccountSid` never gives back the characters of its argument; `getCounters` keeps the
  category's when the machine cannot be connected to, `expandCounterPath` those of a path
  that is too long (`NothingKept` names these and excludes all others).
* A constructor of `PerformanceCounter` that throws, as its counter cannot be added, leaves
  its query open.
* A kept `Process` object that is refreshed after its pid has changed hands keeps its
  name and takes the other's figures.
* `Wtmp.getEntries` goes on in the middle of a record that is being written, and a user
  or host name that fills its field throws and loses all entries.
* `Process.getProcesses` of Linux leaves out a process one of whose sizes is 2^31 kB or more
  (`Integer.valueOf`, `Process.java:191`), and may give a `Process` the command line of the
  next one with its pid.
* `DiskPartition` cuts a path at its percent sign.
* An `ifcfg` file whose `DEVICE` line names another device is saved over that device's file
  (`EthernetInterface.java:191,235`).
* Two bindings that are added without a save in between have one number and one file.
* Sort list entries of `DnsConfig` are saved without their keyword and come back as
  unknown lines.

## Not modelled

* Text: formats of `/proc`, of commands, of event messages, of addresses. A parser that
  reads one text once and copies fields (`MemoryStat`, `NicStat`, `NetworkInterface`,
  `NetworkInterfaceInformation`, `ArpCache`, `Ipv6NeighborCache`, `EthernetToolInformation`)
  has no state to relate.
* Of `DiskPartition` the numbers, their unit, and a `df` whose header is in another language; of
  `Wtmp` byte order and the calendar; of an event record its type, times and data, which
  are copied.
* `MemoryStatus`: one system call, copied. `jni_common.c`: formats an exception.
* `IpGlobalProperties.getActiveTcpConnections` and the `getAll` methods: they
  concatenate or filter two lists that `NativeTables` models.
* A disk that is full: `PrintStream` swallows the failure of a write, so a save that ends would not notice.
* Of a binding that is edited, all fields but its address.
* `EthernetInterface.up` and `restart`: commands without an effect on what the object
  keeps.
* What memory holds after it was freed: a call on a closed `EventLogApi` either finds
  closed handles or ends the process.
* Vendored headers (`Include/jdk`) and generated ones. They are declarations, and two thirds
  of all lines of C in the repository (5546 of 8471); of the C that is written for
  this library the modules map about three quarters.

## Plan

Done, in this order: `EventFeed` and `EventSubscription` (the behaviour this library is for) with
their proofs; `EvtLibrary`; the event log; `DnsConfig`; `PerformanceCounter` with proofs;
`CpuUsages`; `EthernetInterface`; the calls without memory and their compositions; then
`CounterNames`, `ProcessList`, `EventRecord` and `Query`, `DiskPartition`, `Wtmp` and `LinuxProcesses` as further parts
of these, the composition `EventLogReaders`, `LossNeedsCrash` for shared subscriptions, and the
proofs about all compositions and `CpuUsages`; last, the proofs about the configuration files, what
the readers of the log leave out, the listings of names, rows, records and cores.

Left: more abstract specifications. An atomic file that a `DnsConfig` session loads and replaces,
which the line-by-line save implements as long as saves do not overlap and no crash
falls into one; an exact list of counters, which `PerformanceCounter` implements when calls
do not overlap (its content is `SerialIsExact`).

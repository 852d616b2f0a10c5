------------------------- MODULE PerformanceCounter -------------------------
(***************************************************************************)
(* PerformanceCounter.java and the native calls under it: one PDH query,   *)
(* the ArrayList of its counters' handles, and an array cached from it.    *)
(* Nothing is synchronized, so that calls of several threads interleave at *)
(* every access to the fields, those of the ArrayList included.            *)
(*                                                                         *)
(* A handle is the number of its counter in the order of PdhAddCounter; a  *)
(* value is the handle of the counter it was measured of, 0 if of none.    *)
(* The ArrayList is that of JDK 6 to 8. Each write is seen by all threads  *)
(* at once: what else Java lets a racy read return is not modelled.        *)
(***************************************************************************)
EXTENDS Naturals, Sequences

CONSTANTS
    Threads,    \* threads that share the object
    MaxAdds     \* bound: calls of addCounter

ASSUME CounterAssumption == MaxAdds \in Nat

VARIABLES
    query,          \* is the PDH query open
    counters,       \* counters added to it
    queryHandle,    \* is the field queryHandle not 0
    elementData,    \* slots of the ArrayList counterHandles, 0 for null
    size,           \* its size, which may be behind the slots
    modCount,       \* its count of modifications
    arrays,         \* the arrays made by getCounterHandleArray, by reference
    cache,          \* field counterHandleArray: a reference, Null for null
    adds,           \* calls of addCounter so far
    pc,             \* pc[t]: the step thread t takes next
    local,          \* local[t]: the variables of its call
    result,         \* result[t]: how its last call of nextValue ended
    contended,      \* some ArrayList.add began while another was under way
    overlapped      \* some call began while another was under way

listVars == <<elementData, size, modCount>>
objectVars == <<query, counters, queryHandle, listVars, arrays, cache>>
historyVars == <<contended, overlapped>>
threadVars == <<adds, pc, local, result, historyVars>>
vars == <<objectVars, threadVars>>

Null == 0
NoLocals == [size |-> 0, query |-> FALSE, array |-> Null, 
             cursor |-> 0, modCount |-> 0, catches |-> FALSE, handle |-> 0]
NoResult == [kind |-> "none", values |-> <<>>, due |-> 0]

Adding == {"modify", "place", "grow", "store"}
Steps == {"idle", "slept", "handle", "test", "make", "set", "iterate", "next", "put",
          "return", "collect", "add", "append", "close", "zero"} \union Adding
Kinds == {"none", "values", "no data", "exception", "crash"}

\* new PerformanceCounter(): the query is open.
Init ==
    /\ query = TRUE
    /\ counters = 0
    /\ queryHandle = TRUE
    /\ elementData = <<>>
    /\ size = 0
    /\ modCount = 0
    /\ arrays = <<>>
    /\ cache = Null
    /\ adds = 0
    /\ pc = [t \in Threads |-> "idle"]
    /\ local = [t \in Threads |-> NoLocals]
    /\ result = [t \in Threads |-> NoResult]
    /\ contended = FALSE
    /\ overlapped = FALSE

Goto(t, step) == pc' = [pc EXCEPT ![t] = step]

\* Thread t begins a call.
Begin(t, step) ==
    /\ pc[t] = "idle"
    /\ Goto(t, step)
    /\ overlapped' = (overlapped \/ \E u \in Threads : pc[u] # "idle")
    /\ UNCHANGED contended

\* Its call of nextValue ends; what the list held when it began is due.
Return(t, kind, values) ==
    /\ Goto(t, "idle")
    /\ result' = [result EXCEPT ![t].kind = kind, ![t].values = values]

\* An exception inside nextValue(interval) becomes an array of zeros.
Throw(t) ==
    IF local[t].catches
    THEN Return(t, "values", [i \in 1 .. size |-> 0])
    ELSE Return(t, "exception", <<>>)

-----------------------------------------------------------------------------
(* nextValue() and nextValue(interval).                                    *)

\* A closed object throws "Already Closed": no call is made of that.
NextValue(t) ==
    /\ queryHandle
    /\ \E interval \in BOOLEAN :
           /\ Begin(t, "slept")
           /\ local' = [local EXCEPT ![t] = [NoLocals EXCEPT !.catches = interval]]
    /\ result' = [result EXCEPT ![t] = [NoResult EXCEPT !.due = size]]
    /\ UNCHANGED <<objectVars, adds>>

\* After the sleep, if any: the list's size decides, and sizes the values.
Size(t) ==
    /\ pc[t] = "slept"
    /\ IF size = 0
       THEN /\ Return(t, "values", <<>>)
            /\ UNCHANGED local
       ELSE /\ Goto(t, "handle")
            /\ local' = [local EXCEPT ![t].size = size]
            /\ UNCHANGED result
    /\ UNCHANGED <<objectVars, adds, historyVars>>

\* The first argument of queryAndGet is evaluated.
ReadHandle(t) ==
    /\ pc[t] = "handle"
    /\ local' = [local EXCEPT ![t].query = queryHandle]
    /\ Goto(t, "test")
    /\ UNCHANGED <<objectVars, adds, result, historyVars>>

\* getCounterHandleArray: the field is tested for null.
TestCache(t) ==
    /\ pc[t] = "test"
    /\ Goto(t, IF cache # Null THEN "return" ELSE "make")
    /\ UNCHANGED <<objectVars, adds, local, result, historyVars>>

\* The list's size is read, and sizes the array.
MakeArray(t) ==
    /\ pc[t] = "make"
    /\ arrays' = Append(arrays, [i \in 1 .. size |-> 0])
    /\ local' = [local EXCEPT ![t].array = Len(arrays')]
    /\ Goto(t, "set")
    /\ UNCHANGED <<query, counters, queryHandle, listVars, cache, adds, result, historyVars>>

\* The field is set before the array is filled.
SetCache(t) ==
    /\ pc[t] = "set"
    /\ cache' = local[t].array
    /\ Goto(t, "iterate")
    /\ UNCHANGED <<query, counters, queryHandle, listVars, arrays, adds, local, result, historyVars>>

\* The iterator of the loop is made, after the array.
Iterate(t) ==
    /\ pc[t] = "iterate"
    /\ local' = [local EXCEPT ![t].cursor = 0, ![t].modCount = modCount]
    /\ Goto(t, "next")
    /\ UNCHANGED <<objectVars, adds, result, historyVars>>

HasNext(t) == local[t].cursor # size

\* What stands at the cursor: 0 if that is null, or beyond the list.
AtCursor(t) == IF local[t].cursor < size THEN elementData[local[t].cursor + 1] ELSE 0

\* hasNext and next of the iterator. A list that was modified throws, and so
\* does a null that is made an int.
NextHandle(t) ==
    /\ pc[t] = "next"
    /\ \/ /\ ~HasNext(t)
          /\ Goto(t, "return")
          /\ UNCHANGED <<local, result>>
       \/ /\ HasNext(t)
          /\ local[t].modCount = modCount
          /\ AtCursor(t) # 0
          /\ local' = [local EXCEPT ![t].cursor = local[t].cursor + 1, ![t].handle = AtCursor(t)]
          /\ Goto(t, "put")
          /\ UNCHANGED result
       \/ /\ HasNext(t)
          /\ local[t].modCount # modCount \/ AtCursor(t) = 0
          /\ Throw(t)
          /\ UNCHANGED local
    /\ UNCHANGED <<objectVars, adds, historyVars>>

\* The loop writes through the field, which another thread may have cleared or
\* given a shorter array.
PutHandle(t) ==
    /\ pc[t] = "put"
    /\ \/ /\ cache # Null
          /\ local[t].cursor <= Len(arrays[cache])
          /\ arrays' = [arrays EXCEPT ![cache][local[t].cursor] = local[t].handle]
          /\ Goto(t, "next")
          /\ UNCHANGED result
       \/ /\ cache # Null => local[t].cursor > Len(arrays[cache])
          /\ Throw(t)
          /\ UNCHANGED arrays
    /\ UNCHANGED <<query, counters, queryHandle, listVars, cache, adds, local, historyVars>>

\* return counterHandleArray: the field is read once more.
ReturnArray(t) ==
    /\ pc[t] = "return"
    /\ local' = [local EXCEPT ![t].array = cache]
    /\ Goto(t, "collect")
    /\ UNCHANGED <<objectVars, adds, result, historyVars>>

-----------------------------------------------------------------------------
(* queryAndGet.                                                            *)

Usable(t) == query /\ local[t].query

\* PDH_NO_DATA
NoData(t) ==
    /\ pc[t] = "collect"
    /\ Usable(t)
    /\ Return(t, "no data", <<>>)
    /\ UNCHANGED <<objectVars, adds, local, historyVars>>

\* PdhCollectQueryData fails, as it does on a handle that is 0 or closed.
CollectFails(t) ==
    /\ pc[t] = "collect"
    /\ Throw(t)
    /\ UNCHANGED <<objectVars, adds, local, historyVars>>

\* GetArrayLength of a null array ends the process; the steps kept for the
\* other threads after it are more than it takes.
Collapse(t) ==
    /\ pc[t] = "collect"
    /\ Usable(t)
    /\ local[t].array = Null
    /\ Return(t, "crash", <<>>)
    /\ UNCHANGED <<objectVars, adds, local, historyVars>>

\* One value for every handle of the array; the rest of the buffer stays 0.
Collect(t) ==
    /\ pc[t] = "collect"
    /\ Usable(t)
    /\ local[t].array # Null
    /\ LET handles == arrays[local[t].array] IN
           IF local[t].size < Len(handles)
           THEN Throw(t)
           ELSE Return(t, "values", [i \in 1 .. local[t].size |->
                                         IF i <= Len(handles) THEN handles[i] ELSE 0])
    /\ UNCHANGED <<objectVars, adds, local, historyVars>>

-----------------------------------------------------------------------------
(* addCounter.                                                             *)

\* Faulty AddCounter: the cached array stays.
AddCounterKeepsCache(t) ==
    /\ adds < MaxAdds
    /\ Begin(t, "add")
    /\ adds' = adds + 1
    /\ UNCHANGED <<objectVars, local, result>>

AddCounter(t) ==
    /\ adds < MaxAdds
    /\ Begin(t, "add")
    /\ cache' = Null
    /\ adds' = adds + 1
    /\ UNCHANGED <<query, counters, queryHandle, listVars, arrays, local, result>>

\* addCounterN adds a counter to the query.
AddToQuery(t) ==
    /\ pc[t] = "add"
    /\ queryHandle
    /\ query
    /\ counters' = counters + 1
    /\ local' = [local EXCEPT ![t].handle = counters']
    /\ Goto(t, "append")
    /\ UNCHANGED <<query, queryHandle, listVars, arrays, cache, adds, result, historyVars>>

\* It throws and addCounter returns 0: PDH may refuse the path, and refuses a
\* handle that is 0 or closed.
AddRefused(t) ==
    /\ pc[t] = "add"
    /\ Goto(t, "idle")
    /\ UNCHANGED <<objectVars, adds, local, result, historyVars>>

\* ArrayList.add begins: modCount++ reads the count.
ReadModCount(t) ==
    /\ pc[t] = "append"
    /\ local' = [local EXCEPT ![t].modCount = modCount]
    /\ contended' = (contended \/ \E u \in Threads : pc[u] \in Adding)
    /\ Goto(t, "modify")
    /\ UNCHANGED <<objectVars, adds, result, overlapped>>

WriteModCount(t) ==
    /\ pc[t] = "modify"
    /\ modCount' = local[t].modCount + 1
    /\ Goto(t, "place")
    /\ UNCHANGED <<query, counters, queryHandle, elementData, size, arrays, cache>>
    /\ UNCHANGED <<adds, local, result, historyVars>>

\* elementData[size++] = e: the size is read,
ReadPlace(t) ==
    /\ pc[t] = "place"
    /\ local' = [local EXCEPT ![t].cursor = size]
    /\ Goto(t, "grow")
    /\ UNCHANGED <<objectVars, adds, result, historyVars>>

\* then written: from now on a null stands at the new place,
WriteSize(t) ==
    /\ pc[t] = "grow"
    /\ size' = local[t].cursor + 1
    /\ elementData' = IF local[t].cursor = Len(elementData) THEN Append(elementData, 0) ELSE elementData
    /\ Goto(t, "store")
    /\ UNCHANGED <<query, counters, queryHandle, modCount, arrays, cache>>
    /\ UNCHANGED <<adds, local, result, historyVars>>

\* Faulty StoreHandle: the newest counter comes first.
StoreHandleFirst(t) ==
    /\ pc[t] = "store"
    /\ elementData' = <<local[t].handle>> \o SubSeq(elementData, 1, Len(elementData) - 1)
    /\ Goto(t, "idle")
    /\ UNCHANGED <<query, counters, queryHandle, size, modCount, arrays, cache>>
    /\ UNCHANGED <<adds, local, result, historyVars>>

\* and the handle stored, unless another add replaces the slots meanwhile or
\* took the last of them: then it is lost (at once, in this model), whether
\* addCounter returns it or catches the exception and returns 0.
StoreHandle(t) ==
    /\ pc[t] = "store"
    /\ \/ elementData' = [elementData EXCEPT ![local[t].cursor + 1] = local[t].handle]
       \/ contended /\ UNCHANGED elementData
    /\ Goto(t, "idle")
    /\ UNCHANGED <<query, counters, queryHandle, size, modCount, arrays, cache>>
    /\ UNCHANGED <<adds, local, result, historyVars>>

-----------------------------------------------------------------------------
(* close().                                                                *)

Close(t) ==
    /\ queryHandle
    /\ Begin(t, "close")
    /\ UNCHANGED <<objectVars, adds, local, result>>

\* PdhCloseQuery; on a query that is closed already it throws out of close().
CloseQuery(t) ==
    /\ pc[t] = "close"
    /\ query' = FALSE
    /\ Goto(t, IF query THEN "zero" ELSE "idle")
    /\ UNCHANGED <<counters, queryHandle, listVars, arrays, cache, adds, local, result, historyVars>>

ClearHandle(t) ==
    /\ pc[t] = "zero"
    /\ queryHandle' = FALSE
    /\ Goto(t, "idle")
    /\ UNCHANGED <<query, counters, listVars, arrays, cache, adds, local, result, historyVars>>

-----------------------------------------------------------------------------
Step(t) ==
    \/ NextValue(t) \/ Size(t) \/ ReadHandle(t)
    \/ TestCache(t) \/ MakeArray(t) \/ SetCache(t)
    \/ Iterate(t) \/ NextHandle(t) \/ PutHandle(t) \/ ReturnArray(t)
    \/ NoData(t) \/ CollectFails(t) \/ Collapse(t) \/ Collect(t)
    \/ AddCounter(t) \/ AddToQuery(t) \/ AddRefused(t)
    \/ ReadModCount(t) \/ WriteModCount(t) \/ ReadPlace(t) \/ WriteSize(t) \/ StoreHandle(t)
    \/ Close(t) \/ CloseQuery(t) \/ ClearHandle(t)

Next == \E t \in Threads : Step(t)

Spec == Init /\ [][Next]_vars

-----------------------------------------------------------------------------
(* Properties.                                                             *)

TypeOK ==
    /\ query \in BOOLEAN
    /\ queryHandle \in BOOLEAN
    /\ counters \in Nat
    /\ elementData \in Seq(0 .. counters)
    /\ size \in 0 .. Len(elementData)
    /\ modCount \in Nat
    /\ arrays \in Seq(Seq(0 .. counters))
    /\ cache \in 0 .. Len(arrays)
    /\ adds \in 0 .. MaxAdds
    /\ pc \in [Threads -> Steps]
    /\ local \in [Threads -> [size : 0 .. Len(elementData), query : BOOLEAN,
                              array : 0 .. Len(arrays), cursor : 0 .. Len(elementData),
                              modCount : Nat, catches : BOOLEAN, handle : 0 .. counters]]
    /\ result \in [Threads -> [kind : Kinds, values : Seq(0 .. counters),
                               due : 0 .. Len(elementData)]]
    /\ contended \in BOOLEAN
    /\ overlapped \in BOOLEAN

\* As long as no two threads are inside ArrayList.add at a time, a value that
\* nextValue returns stands at its counter's place in the list, or there is no
\* value at that place, however the calls interleave: an array that is half
\* filled, stale or shared, or a list with a null at its end, never shifts the
\* counters. (Two adds at a time may lose a handle or overwrite one.)
Aligned ==
    ~contended => \A t \in Threads : \A i \in DOMAIN result[t].values :
        \/ result[t].values[i] = 0
        \/ i <= size /\ result[t].values[i] = elementData[i]

\* Calls that never overlap, from whatever threads, return a value for every
\* counter added before them (or zeros, for an error that is caught), never one
\* of a stale array; they never hand PDH a null array, nor collect data on a
\* query that is closed: the test for "Already Closed" at the start of nextValue
\* holds to its end.
SerialIsExact ==
    ~overlapped => \A t \in Threads :
        /\ result[t].kind # "crash"
        /\ result[t].kind = "values" =>
              \/ result[t].values = SubSeq(elementData, 1, result[t].due)
              \/ result[t].values = [i \in 1 .. result[t].due |-> 0]
        /\ pc[t] = "collect" => query /\ local[t].query
=============================================================================

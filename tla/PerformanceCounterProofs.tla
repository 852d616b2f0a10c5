---------------------- MODULE PerformanceCounterProofs ----------------------
(***************************************************************************)
(* PerformanceCounter, proved for any number of threads and of calls of    *)
(* addCounter. Without a lock, a place of the ArrayList is written once as *)
(* long as no two threads add at a time; an array holds handles at their   *)
(* places then, whoever made it and whoever fills it, and a call that no   *)
(* other overlaps finds the array of its own list.                         *)
(***************************************************************************)
EXTENDS PerformanceCounter, TLAPS

LEMMA SeqWiden ==
    ASSUME NEW S, NEW T, S \subseteq T, NEW s \in Seq(S)
    PROVE  s \in Seq(T)
OBVIOUS

LEMMA ElementIn ==
    ASSUME NEW S, NEW s \in Seq(S), NEW i \in 1 .. Len(s)
    PROVE  s[i] \in S
OBVIOUS

LEMMA Update ==
    ASSUME NEW R, NEW f \in [Threads -> R], NEW t \in Threads, NEW r \in R
    PROVE  [f EXCEPT ![t] = r] \in [Threads -> R]
OBVIOUS

\* A sequence with one element replaced.
LEMMA Replaced ==
    ASSUME NEW S, NEW s \in Seq(S), NEW i \in 1 .. Len(s), NEW x \in S
    PROVE  /\ [s EXCEPT ![i] = x] \in Seq(S)
           /\ Len([s EXCEPT ![i] = x]) = Len(s)
           /\ \A j \in 1 .. Len(s) : [s EXCEPT ![i] = x][j] = IF j = i THEN x ELSE s[j]
OBVIOUS

\* A step only ever adds to the slots, the arrays and the query.
Grows ==
    /\ counters <= counters'
    /\ Len(elementData) <= Len(elementData')
    /\ Len(arrays) <= Len(arrays')

\* The types of the shared fields and of the threads' variables, apart.
FieldsOK ==
    /\ query \in BOOLEAN
    /\ queryHandle \in BOOLEAN
    /\ counters \in Nat
    /\ elementData \in Seq(0 .. counters)
    /\ size \in 0 .. Len(elementData)
    /\ modCount \in Nat
    /\ arrays \in Seq(Seq(0 .. counters))
    /\ cache \in 0 .. Len(arrays)

Locals == [size : 0 .. Len(elementData), query : BOOLEAN,
           array : 0 .. Len(arrays), cursor : 0 .. Len(elementData),
           modCount : Nat, catches : BOOLEAN, handle : 0 .. counters]
LocalOK == local \in [Threads -> Locals]

Results == [kind : Kinds, values : Seq(0 .. counters), due : 0 .. Len(elementData)]
ResultOK == result \in [Threads -> Results]

RestOK ==
    /\ adds \in 0 .. MaxAdds
    /\ pc \in [Threads -> Steps]
    /\ contended \in BOOLEAN
    /\ overlapped \in BOOLEAN

LEMMA TypeParts == TypeOK <=> FieldsOK /\ LocalOK /\ ResultOK /\ RestOK
BY Zenon DEF TypeOK, FieldsOK, LocalOK, ResultOK, RestOK, Locals, Results

\* What a thread carries to its next step.
Ready(t) ==
    /\ pc[t] \in {"append", "put"} \union Adding => local[t].handle # 0
    /\ pc[t] = "put" => local[t].cursor # 0
    /\ pc[t] = "store" => local[t].cursor < Len(elementData)

\* While no two threads add at a time, only the last slot is ever null, and
\* that only before the one thread that adds has stored its handle.
OneAdds ==
    /\ size = Len(elementData)
    /\ \A t, u \in Threads : pc[t] \in Adding /\ pc[u] \in Adding => t = u
    /\ \A t \in Threads :
          /\ pc[t] = "grow" => local[t].cursor = size
          /\ pc[t] = "store" => local[t].cursor + 1 = size /\ elementData[size] = 0

\* What an array holds at a place is the handle at that place, once it is
\* written, and so is what a thread is about to write there.
ArraysAligned ==
    /\ \A k \in DOMAIN arrays : \A i \in DOMAIN arrays[k] :
          arrays[k][i] # 0 => i <= size /\ arrays[k][i] = elementData[i]
    /\ \A t \in Threads : pc[t] = "put" =>
          local[t].cursor <= size /\ local[t].handle = elementData[local[t].cursor]

IInv ==
    /\ TypeOK
    /\ \A t \in Threads : Ready(t)
    /\ ~contended => OneAdds /\ ArraysAligned

LEMMA InitIInv == Init => IInv
<1> SUFFICES ASSUME Init PROVE IInv
  OBVIOUS
<1>1. FieldsOK
  BY DEF Init, FieldsOK, Null
<1>2. LocalOK
  BY DEF Init, NoLocals, Null, LocalOK, Locals
<1>3. ResultOK
  BY DEF Init, NoResult, Kinds, ResultOK, Results
<1>4. RestOK
  <2>1. adds = 0 /\ contended = FALSE /\ overlapped = FALSE
    BY DEF Init
  <2>2. pc \in [Threads -> Steps]
    BY DEF Init, Steps
  <2>3. QED
    BY <2>1, <2>2, CounterAssumption, 0 \in 0 .. MaxAdds DEF RestOK, CounterAssumption
<1>5. \A t \in Threads : pc[t] = "idle"
  BY DEF Init
<1>6. \A t \in Threads : Ready(t)
  BY <1>5 DEF Ready, Adding
<1>7. OneAdds /\ ArraysAligned
  BY <1>5 DEF Init, OneAdds, ArraysAligned, Adding
<1>8. QED
  BY <1>1, <1>2, <1>3, <1>4, <1>6, <1>7, TypeParts DEF IInv

-----------------------------------------------------------------------------
(* Types.                                                                  *)

\* The steps that touch no field, the list or an array.
Looks(t) ==
    \/ NextValue(t) \/ Size(t) \/ ReadHandle(t) \/ TestCache(t) \/ Iterate(t)
    \/ NextHandle(t) \/ ReturnArray(t) \/ NoData(t) \/ CollectFails(t) \/ Collapse(t)
    \/ Collect(t) \/ AddRefused(t) \/ ReadModCount(t) \/ ReadPlace(t) \/ Close(t)

Writes(t) ==
    \/ MakeArray(t) \/ SetCache(t) \/ PutHandle(t) \/ AddCounter(t) \/ AddToQuery(t)
    \/ WriteModCount(t) \/ WriteSize(t) \/ StoreHandle(t) \/ CloseQuery(t) \/ ClearHandle(t)

LEMMA StepParts == \A t \in Threads : Step(t) => Looks(t) \/ Writes(t)
BY DEF Step, Looks, Writes

LEMMA LookStep == \A t \in Threads : Looks(t) => UNCHANGED objectVars
<1> TAKE t \in Threads
<1>1. NextValue(t) \/ Size(t) \/ ReadHandle(t) \/ TestCache(t) \/ Iterate(t) => UNCHANGED objectVars
  BY DEF NextValue, Size, ReadHandle, TestCache, Iterate
<1>2. NextHandle(t) \/ ReturnArray(t) \/ NoData(t) \/ CollectFails(t) \/ Collapse(t)
          => UNCHANGED objectVars
  BY DEF NextHandle, ReturnArray, NoData, CollectFails, Collapse
<1>3. Collect(t) \/ AddRefused(t) \/ ReadModCount(t) \/ ReadPlace(t) \/ Close(t)
          => UNCHANGED objectVars
  BY DEF Collect, AddRefused, ReadModCount, ReadPlace, Close
<1>4. QED
  BY <1>1, <1>2, <1>3 DEF Looks

LEMMA FieldsStep == IInv /\ [Next]_vars => FieldsOK' /\ Grows
<1> SUFFICES ASSUME IInv, [Next]_vars PROVE FieldsOK' /\ Grows
  OBVIOUS
<1> USE DEF FieldsOK, Grows, Null
<1>0. FieldsOK /\ LocalOK /\ \A t \in Threads : Ready(t)
  BY TypeParts DEF IInv
<1>1. CASE UNCHANGED objectVars
  BY <1>0, <1>1 DEF objectVars, listVars
<1>2. ASSUME NEW t \in Threads, Writes(t)
      PROVE  FieldsOK' /\ Grows
  <2>0. local[t] \in Locals
    BY <1>0 DEF LocalOK
  <2>1. CASE MakeArray(t)
    <3> DEFINE zeros == [i \in 1 .. size |-> 0]
    <3>1. /\ arrays' = Append(arrays, zeros)
          /\ UNCHANGED <<query, counters, queryHandle, elementData, size, modCount, cache>>
      BY <2>1 DEF MakeArray, listVars
    <3>2. zeros \in Seq(0 .. counters)
      BY <1>0
    <3> HIDE DEF zeros
    <3>3. arrays' \in Seq(Seq(0 .. counters)) /\ Len(arrays') = Len(arrays) + 1
      BY <3>1, <3>2, <1>0
    <3>4. QED
      BY <3>1, <3>3, <1>0
  <2>2. CASE SetCache(t)
    <3>1. local[t].array \in 0 .. Len(arrays)
      BY <2>0 DEF Locals
    <3>2. cache' = local[t].array /\ UNCHANGED <<query, counters, queryHandle, elementData, size, modCount, arrays>>
      BY <2>2 DEF SetCache, listVars
    <3>3. QED
      BY <3>1, <3>2, <1>0
  <2>3. CASE PutHandle(t)
    <3>1. UNCHANGED <<query, counters, queryHandle, elementData, size, modCount, cache>>
      BY <2>3 DEF PutHandle, listVars
    <3>2. CASE UNCHANGED arrays
      BY <1>0, <3>1, <3>2
    <3>3. CASE arrays # arrays'
      <4> DEFINE c == local[t].cursor
                 h == local[t].handle
                 filled == [arrays[cache] EXCEPT ![c] = h]
      <4>1. /\ pc[t] = "put" /\ cache # Null /\ c <= Len(arrays[cache])
            /\ arrays' = [arrays EXCEPT ![cache][c] = h]
        BY <2>3, <3>3 DEF PutHandle
      <4>2. c \in Nat \ {0} /\ h \in 0 .. counters
        BY <4>1, <2>0, <1>0 DEF Ready, Locals
      <4>3. cache \in 1 .. Len(arrays) /\ arrays[cache] \in Seq(0 .. counters)
        BY <4>1, <1>0
      <4> HIDE DEF c, h
      <4>4. filled \in Seq(0 .. counters)
        BY <4>1, <4>2, <4>3, Replaced
      <4>5. arrays' = [arrays EXCEPT ![cache] = filled]
        BY <4>1
      <4> HIDE DEF filled
      <4>6. arrays' \in Seq(Seq(0 .. counters)) /\ Len(arrays') = Len(arrays)
        BY <4>3, <4>4, <4>5, <1>0, Replaced
      <4>7. QED
        BY <3>1, <4>6, <1>0
    <3>4. QED
      BY <3>2, <3>3
  <2>4. CASE AddCounter(t)
    BY <2>4, <1>0 DEF AddCounter, listVars
  <2>5. CASE AddToQuery(t)
    <3>1. /\ counters' = counters + 1
          /\ UNCHANGED <<query, queryHandle, elementData, size, modCount, arrays, cache>>
      BY <2>5 DEF AddToQuery, listVars
    <3>2. elementData \in Seq(0 .. counters + 1)
      BY <1>0, SeqWiden, 0 .. counters \subseteq 0 .. counters + 1
    <3>3. Seq(0 .. counters) \subseteq Seq(0 .. counters + 1)
      BY <1>0
    <3>4. arrays \in Seq(Seq(0 .. counters + 1))
      BY <1>0, <3>3, SeqWiden
    <3>5. QED
      BY <3>1, <3>2, <3>4, <1>0
  <2>6. CASE WriteModCount(t)
    <3>1. /\ modCount' = local[t].modCount + 1
          /\ UNCHANGED <<query, counters, queryHandle, elementData, size, arrays, cache>>
      BY <2>6 DEF WriteModCount
    <3>2. local[t].modCount \in Nat
      BY <2>0 DEF Locals
    <3>3. QED
      BY <3>1, <3>2, <1>0
  <2>7. CASE WriteSize(t)
    <3>1. /\ size' = local[t].cursor + 1
          /\ elementData' = IF local[t].cursor = Len(elementData) THEN Append(elementData, 0)
                            ELSE elementData
          /\ UNCHANGED <<query, counters, queryHandle, modCount, arrays, cache>>
      BY <2>7 DEF WriteSize
    <3>2. local[t].cursor \in 0 .. Len(elementData)
      BY <2>0 DEF Locals
    <3>3. CASE local[t].cursor = Len(elementData)
      <4>1. elementData' = Append(elementData, 0) /\ size' = Len(elementData) + 1
        BY <3>1, <3>3
      <4>2. elementData' \in Seq(0 .. counters) /\ Len(elementData') = Len(elementData) + 1
        BY <4>1, <1>0
      <4>3. Len(elementData) \in Nat
        BY <1>0
      <4>4. QED
        BY <3>1, <4>1, <4>2, <4>3, <1>0
    <3>4. CASE local[t].cursor # Len(elementData)
      BY <3>1, <3>2, <3>4, <1>0
    <3>5. QED
      BY <3>3, <3>4
  <2>8. CASE StoreHandle(t)
    <3>1. /\ elementData' = [elementData EXCEPT ![local[t].cursor + 1] = local[t].handle]
             \/ elementData' = elementData
          /\ pc[t] = "store" /\ UNCHANGED <<query, counters, queryHandle, size, modCount, arrays, cache>>
      BY <2>8 DEF StoreHandle
    <3>2. local[t].cursor \in Nat /\ local[t].cursor < Len(elementData)
      BY <3>1, <2>0, <1>0 DEF Ready, Locals
    <3>3. local[t].handle \in 0 .. counters
      BY <2>0 DEF Locals
    <3> DEFINE place == local[t].cursor + 1
    <3>4. place \in 1 .. Len(elementData)
      BY <3>2, <1>0
    <3> HIDE DEF place
    <3>5. elementData' \in Seq(0 .. counters) /\ Len(elementData') = Len(elementData)
      <4>1. elementData' = [elementData EXCEPT ![place] = local[t].handle] \/ elementData' = elementData
        BY <3>1 DEF place
      <4>2. elementData \in Seq(0 .. counters)
        BY <1>0
      <4>3. QED
        <5>1. CASE elementData' = elementData
          BY <4>2, <5>1
        <5>2. CASE elementData' = [elementData EXCEPT ![place] = local[t].handle]
          BY <3>3, <3>4, <4>2, <5>2, Replaced
        <5>3. QED
          BY <4>1, <5>1, <5>2
    <3>6. QED
      BY <3>1, <3>5, <1>0
  <2>9. CASE CloseQuery(t) \/ ClearHandle(t)
    <3>1. /\ query' \in BOOLEAN
          /\ queryHandle' \in BOOLEAN
          /\ UNCHANGED <<counters, elementData, size, modCount, arrays, cache>>
      BY <2>9, <1>0 DEF CloseQuery, ClearHandle, listVars
    <3>2. QED
      BY <3>1, <1>0
  <2>10. QED
    BY <1>2, <2>1, <2>2, <2>3, <2>4, <2>5, <2>6, <2>7, <2>8, <2>9 DEF Writes
<1>3. CASE UNCHANGED vars
  BY <1>1, <1>3 DEF vars
<1>4. QED
  BY <1>1, <1>2, <1>3, StepParts, LookStep DEF Next

-----------------------------------------------------------------------------
\* A thread's variables, of which one or two are set.
LEMMA LocalStep == IInv /\ [Next]_vars => LocalOK'
<1> SUFFICES ASSUME IInv, [Next]_vars PROVE LocalOK'
  OBVIOUS
<1>0. FieldsOK /\ LocalOK /\ FieldsOK' /\ Grows
  BY TypeParts, FieldsStep DEF IInv
<1>1. local \in [Threads -> Locals']
  BY <1>0 DEF LocalOK, FieldsOK, Grows, Locals
<1>2. /\ 0 \in 0 .. Len(elementData') /\ size \in 0 .. Len(elementData')
      /\ 0 \in 0 .. Len(arrays') /\ Len(arrays') \in 0 .. Len(arrays') /\ cache \in 0 .. Len(arrays')
      /\ 0 \in 0 .. counters' /\ counters' \in 0 .. counters'
      /\ modCount \in Nat /\ queryHandle \in BOOLEAN
  BY <1>0 DEF Grows, FieldsOK
<1>3. ASSUME UNCHANGED local PROVE LocalOK'
  BY <1>1, <1>3 DEF LocalOK
<1>4. ASSUME NEW t \in Threads, NEW record \in Locals', local' = [local EXCEPT ![t] = record]
      PROVE  LocalOK'
  BY <1>1, <1>4, Update DEF LocalOK
<1>5. ASSUME NEW t \in Threads, Step(t) PROVE LocalOK'
  <2>0. local[t] \in Locals'
    BY <1>1
  <2>1. CASE NextValue(t)
    <3>1. PICK interval \in BOOLEAN :
              local' = [local EXCEPT ![t] = [NoLocals EXCEPT !.catches = interval]]
      BY <2>1 DEF NextValue
    <3>2. [NoLocals EXCEPT !.catches = interval] \in Locals'
      BY <1>2 DEF NoLocals, Null, Locals
    <3>3. QED
      BY <1>4, <3>1, <3>2
  <2>2. CASE Size(t)
    <3>1. [local[t] EXCEPT !.size = size] \in Locals'
      BY <2>0, <1>2 DEF Locals
    <3>2. local' = [local EXCEPT ![t] = [local[t] EXCEPT !.size = size]] \/ UNCHANGED local
      BY <2>2 DEF Size
    <3>3. QED
      BY <1>3, <1>4, <3>1, <3>2
  <2>3. CASE ReadHandle(t)
    <3>1. [local[t] EXCEPT !.query = queryHandle] \in Locals'
      BY <2>0, <1>2 DEF Locals
    <3>2. local' = [local EXCEPT ![t] = [local[t] EXCEPT !.query = queryHandle]]
      BY <2>3 DEF ReadHandle
    <3>3. QED
      BY <1>4, <3>1, <3>2
  <2>4. CASE MakeArray(t)
    <3>1. [local[t] EXCEPT !.array = Len(arrays')] \in Locals'
      BY <2>0, <1>2 DEF Locals
    <3>2. local' = [local EXCEPT ![t] = [local[t] EXCEPT !.array = Len(arrays')]]
      BY <2>4 DEF MakeArray
    <3>3. QED
      BY <1>4, <3>1, <3>2
  <2>5. CASE Iterate(t)
    <3>1. [local[t] EXCEPT !.cursor = 0, !.modCount = modCount] \in Locals'
      BY <2>0, <1>2 DEF Locals
    <3>2. local' = [local EXCEPT ![t] = [local[t] EXCEPT !.cursor = 0, !.modCount = modCount]]
      BY <2>5 DEF Iterate
    <3>3. QED
      BY <1>4, <3>1, <3>2
  <2>6. CASE NextHandle(t)
    <3>1. CASE UNCHANGED local
      BY <1>3, <3>1
    <3>2. CASE ~UNCHANGED local
      <4> DEFINE c == local[t].cursor + 1
                 record == [local[t] EXCEPT !.cursor = c, !.handle = AtCursor(t)]
      <4>1. AtCursor(t) # 0 /\ local' = [local EXCEPT ![t] = record]
        BY <2>6, <3>2 DEF NextHandle
      <4>2. local[t].cursor < size
        BY <4>1 DEF AtCursor
      <4>3. local[t].cursor \in Nat
        BY <1>0 DEF LocalOK, Locals, FieldsOK
      <4>4. size \in Nat /\ Len(elementData) \in Nat /\ size <= Len(elementData)
        BY <1>0 DEF FieldsOK
      <4>5. c \in 1 .. Len(elementData)
        BY <4>2, <4>3, <4>4
      <4>6. AtCursor(t) \in 0 .. counters
        BY <4>2, <4>5, <1>0, ElementIn DEF AtCursor, FieldsOK
      <4>7. c \in 0 .. Len(elementData')
        <5>1. Len(elementData') \in Nat /\ Len(elementData) <= Len(elementData')
          BY <1>0 DEF Grows, FieldsOK
        <5>2. QED
          BY <4>4, <4>5, <5>1
      <4>8. AtCursor(t) \in 0 .. counters'
        BY <4>6, <1>0 DEF Grows, FieldsOK
      <4> HIDE DEF c
      <4>9. record \in Locals'
        BY <2>0, <4>7, <4>8 DEF Locals
      <4>10. QED
        BY <1>4, <4>1, <4>9
    <3>3. QED
      BY <3>1, <3>2
  <2>7. CASE ReturnArray(t)
    <3>1. [local[t] EXCEPT !.array = cache] \in Locals'
      BY <2>0, <1>2 DEF Locals
    <3>2. local' = [local EXCEPT ![t] = [local[t] EXCEPT !.array = cache]]
      BY <2>7 DEF ReturnArray
    <3>3. QED
      BY <1>4, <3>1, <3>2
  <2>8. CASE AddToQuery(t)
    <3>1. [local[t] EXCEPT !.handle = counters'] \in Locals'
      BY <2>0, <1>2 DEF Locals
    <3>2. local' = [local EXCEPT ![t] = [local[t] EXCEPT !.handle = counters']]
      BY <2>8 DEF AddToQuery
    <3>3. QED
      BY <1>4, <3>1, <3>2
  <2>9. CASE ReadModCount(t)
    <3>1. [local[t] EXCEPT !.modCount = modCount] \in Locals'
      BY <2>0, <1>2 DEF Locals
    <3>2. local' = [local EXCEPT ![t] = [local[t] EXCEPT !.modCount = modCount]]
      BY <2>9 DEF ReadModCount
    <3>3. QED
      BY <1>4, <3>1, <3>2
  <2>10. CASE ReadPlace(t)
    <3>1. [local[t] EXCEPT !.cursor = size] \in Locals'
      BY <2>0, <1>2 DEF Locals
    <3>2. local' = [local EXCEPT ![t] = [local[t] EXCEPT !.cursor = size]]
      BY <2>10 DEF ReadPlace
    <3>3. QED
      BY <1>4, <3>1, <3>2
  <2>11. CASE TestCache(t) \/ SetCache(t) \/ PutHandle(t) \/ AddCounter(t) \/ AddRefused(t)
    BY <2>11, <1>3 DEF TestCache, SetCache, PutHandle, AddCounter, AddRefused
  <2>12. CASE NoData(t) \/ CollectFails(t) \/ Collapse(t) \/ Collect(t)
    BY <2>12, <1>3 DEF NoData, CollectFails, Collapse, Collect
  <2>13. CASE WriteModCount(t) \/ WriteSize(t) \/ StoreHandle(t)
    BY <2>13, <1>3 DEF WriteModCount, WriteSize, StoreHandle
  <2>14. CASE Close(t) \/ CloseQuery(t) \/ ClearHandle(t)
    BY <2>14, <1>3 DEF Close, CloseQuery, ClearHandle
  <2>15. QED
    BY <1>5, <2>1, <2>2, <2>3, <2>4, <2>5, <2>6, <2>7, <2>8, <2>9, <2>10, <2>11, <2>12,
       <2>13, <2>14 DEF Step
<1>6. CASE UNCHANGED vars
  BY <1>3, <1>6 DEF vars, threadVars
<1>7. QED
  BY <1>5, <1>6 DEF Next

\* A step moves one thread, a call or an add begins only when no other is under
\* way or the threads have overlapped, and that is never forgotten.
LEMMA Frame ==
    ASSUME IInv, NEW t \in Threads, Step(t)
    PROVE  /\ \A u \in Threads : u # t =>
                 pc'[u] = pc[u] /\ result'[u] = result[u] /\ local'[u] = local[u]
           /\ overlapped => overlapped'
           /\ contended => contended'
           /\ pc[t] = "idle" /\ ~overlapped' => \A u \in Threads : u # t => pc[u] = "idle"
           /\ contended' /\ ~contended => \E u \in Threads : pc[t] = "append" /\ pc[u] \in Adding
<1>0. /\ pc \in [Threads -> Steps] /\ result \in [Threads -> Results] /\ local \in [Threads -> Locals]
      /\ overlapped \in BOOLEAN /\ contended \in BOOLEAN
  BY TypeParts DEF IInv, RestOK, ResultOK, LocalOK
<1>b. ASSUME NEW step, Begin(t, step)
      PROVE  /\ pc' = [pc EXCEPT ![t] = step] /\ contended' = contended
             /\ overlapped => overlapped'
             /\ ~overlapped' => \A u \in Threads : pc[u] = "idle"
  BY <1>0, <1>b, Zenon DEF Begin, Goto
<1>1. CASE NextValue(t)
  <2>1. Begin(t, "slept")
    BY <1>1 DEF NextValue
  <2>2. /\ \E r : local' = [local EXCEPT ![t] = r]
        /\ \E r : result' = [result EXCEPT ![t] = r]
    BY <1>1 DEF NextValue
  <2>3. QED
    BY <1>0, <1>b, <2>1, <2>2
<1>2. CASE AddCounter(t) \/ Close(t)
  <2>1. (Begin(t, "add") \/ Begin(t, "close")) /\ UNCHANGED <<local, result>>
    BY <1>2 DEF AddCounter, Close
  <2>2. QED
    BY <1>0, <1>b, <2>1
<1>3. CASE Size(t) \/ ReadHandle(t) \/ TestCache(t) \/ MakeArray(t) \/ SetCache(t)
  BY <1>0, <1>3 DEF Size, ReadHandle, TestCache, MakeArray, SetCache, Goto, Return, historyVars
<1>4. CASE Iterate(t) \/ NextHandle(t) \/ PutHandle(t) \/ ReturnArray(t)
  BY <1>0, <1>4 DEF Iterate, NextHandle, PutHandle, ReturnArray, Goto, Throw, Return, historyVars
<1>5. CASE NoData(t) \/ CollectFails(t) \/ Collapse(t) \/ Collect(t)
  <2>1. pc[t] = "collect" /\ UNCHANGED <<local, contended, overlapped>>
    BY <1>5 DEF NoData, CollectFails, Collapse, Collect, historyVars
  <2>2. \E kind, values : Return(t, kind, values)
    BY <1>5 DEF NoData, CollectFails, Collapse, Collect, Throw
  <2>3. QED
    BY <1>0, <2>1, <2>2 DEF Return, Goto
<1>6. CASE AddToQuery(t) \/ AddRefused(t)
  BY <1>0, <1>6 DEF AddToQuery, AddRefused, Goto, historyVars
<1>7. CASE ReadModCount(t) \/ WriteModCount(t) \/ ReadPlace(t)
  BY <1>0, <1>7 DEF ReadModCount, WriteModCount, ReadPlace, Goto, historyVars
<1>8. CASE WriteSize(t) \/ StoreHandle(t) \/ CloseQuery(t) \/ ClearHandle(t)
  BY <1>0, <1>8 DEF WriteSize, StoreHandle, CloseQuery, ClearHandle, Goto, historyVars
<1>9. QED
  BY <1>1, <1>2, <1>3, <1>4, <1>5, <1>6, <1>7, <1>8 DEF Step

\* Where a thread goes that does not go on adding or filling an array.
LEMMA Elsewhere ==
    ASSUME IInv, NEW t \in Threads, Step(t),
           ~(AddToQuery(t) \/ ReadModCount(t) \/ WriteModCount(t) \/ ReadPlace(t) \/ WriteSize(t))
    PROVE  /\ pc'[t] \notin {"append"} \union Adding
           /\ ~NextHandle(t) => pc'[t] # "put"
<1>0. pc \in [Threads -> Steps]
  BY TypeParts DEF IInv, RestOK
<1> USE DEF Goto, Adding
<1>1. CASE NextValue(t) \/ Size(t) \/ ReadHandle(t) \/ TestCache(t) \/ MakeArray(t)
  BY <1>0, <1>1 DEF NextValue, Size, ReadHandle, TestCache, MakeArray, Begin, Return
<1>2. CASE SetCache(t) \/ Iterate(t) \/ NextHandle(t) \/ PutHandle(t) \/ ReturnArray(t)
  BY <1>0, <1>2 DEF SetCache, Iterate, NextHandle, PutHandle, ReturnArray, Throw, Return
<1>3. CASE NoData(t) \/ CollectFails(t) \/ Collapse(t) \/ Collect(t)
  BY <1>0, <1>3 DEF NoData, CollectFails, Collapse, Collect, Throw, Return
<1>4. CASE AddCounter(t) \/ AddRefused(t) \/ StoreHandle(t)
  BY <1>0, <1>4 DEF AddCounter, AddRefused, StoreHandle, Begin
<1>5. CASE Close(t) \/ CloseQuery(t) \/ ClearHandle(t)
  BY <1>0, <1>5 DEF Close, CloseQuery, ClearHandle, Begin
<1>6. QED
  BY <1>1, <1>2, <1>3, <1>4, <1>5 DEF Step

\* The steps of an add, and what they carry.
LEMMA AddSteps ==
    ASSUME IInv, NEW t \in Threads
    PROVE  /\ AddToQuery(t) => pc'[t] = "append" /\ local'[t].handle # 0
           /\ ReadModCount(t) => /\ pc[t] = "append" /\ pc'[t] = "modify"
                                 /\ local'[t].handle = local[t].handle
           /\ WriteModCount(t) => /\ pc[t] = "modify" /\ pc'[t] = "place"
                                  /\ local'[t] = local[t]
           /\ ReadPlace(t) => /\ pc[t] = "place" /\ pc'[t] = "grow"
                              /\ local'[t].handle = local[t].handle /\ local'[t].cursor = size
           /\ WriteSize(t) => /\ pc[t] = "grow" /\ pc'[t] = "store" /\ local'[t] = local[t]
                              /\ local[t].cursor < Len(elementData')
<1>0. /\ pc \in [Threads -> Steps] /\ local \in [Threads -> Locals] /\ counters \in Nat
      /\ elementData \in Seq(0 .. counters)
  BY TypeParts DEF IInv, RestOK, LocalOK, FieldsOK
<1>1. AddToQuery(t) => pc'[t] = "append" /\ local'[t].handle # 0
  BY <1>0 DEF AddToQuery, Goto, Locals
<1>2. ReadModCount(t) => /\ pc[t] = "append" /\ pc'[t] = "modify"
                         /\ local'[t].handle = local[t].handle
  BY <1>0 DEF ReadModCount, Goto, Locals
<1>3. WriteModCount(t) => pc[t] = "modify" /\ pc'[t] = "place" /\ local'[t] = local[t]
  BY <1>0 DEF WriteModCount, Goto
<1>4. ReadPlace(t) => /\ pc[t] = "place" /\ pc'[t] = "grow"
                      /\ local'[t].handle = local[t].handle /\ local'[t].cursor = size
  BY <1>0 DEF ReadPlace, Goto, Locals
<1>5. ASSUME WriteSize(t)
      PROVE  /\ pc[t] = "grow" /\ pc'[t] = "store" /\ local'[t] = local[t]
             /\ local[t].cursor < Len(elementData')
  <2>1. /\ pc[t] = "grow" /\ pc'[t] = "store" /\ local'[t] = local[t]
        /\ elementData' = IF local[t].cursor = Len(elementData) THEN Append(elementData, 0)
                          ELSE elementData
    BY <1>0, <1>5 DEF WriteSize, Goto
  <2>2. local[t].cursor \in 0 .. Len(elementData) /\ Len(elementData) \in Nat
    BY <1>0 DEF Locals
  <2>3. Len(Append(elementData, 0)) = Len(elementData) + 1
    BY <1>0
  <2>4. QED
    BY <2>1, <2>2, <2>3
<1>6. QED
  BY <1>1, <1>2, <1>3, <1>4, <1>5

\* What the iterator hands to the loop.
LEMMA NextStep ==
    ASSUME IInv, NEW t \in Threads, NextHandle(t), pc'[t] = "put"
    PROVE  /\ local[t].cursor \in Nat /\ local[t].cursor < size
           /\ local'[t].cursor = local[t].cursor + 1
           /\ local'[t].handle = elementData[local[t].cursor + 1] /\ local'[t].handle # 0
<1>0. pc \in [Threads -> Steps] /\ local \in [Threads -> Locals] /\ size \in Nat
  BY TypeParts DEF IInv, RestOK, LocalOK, FieldsOK
<1>1. /\ AtCursor(t) # 0
      /\ local' = [local EXCEPT ![t].cursor = local[t].cursor + 1, ![t].handle = AtCursor(t)]
  BY <1>0 DEF NextHandle, Throw, Return, Goto
<1>2. local'[t].cursor = local[t].cursor + 1 /\ local'[t].handle = AtCursor(t)
  BY <1>0, <1>1 DEF Locals
<1>3. local[t].cursor \in Nat
  <2>1. local[t].cursor \in 0 .. Len(elementData) /\ Len(elementData) \in Nat
    BY <1>0, TypeParts DEF IInv, FieldsOK, Locals
  <2>2. QED
    BY <2>1
<1>4. QED
  BY <1>1, <1>2, <1>3 DEF AtCursor

LEMMA ReadyStep == IInv /\ [Next]_vars => \A u \in Threads : Ready(u)'
<1> SUFFICES ASSUME IInv, [Next]_vars, NEW u \in Threads PROVE Ready(u)'
  OBVIOUS
<1>0. /\ Ready(u) /\ Len(elementData) \in Nat /\ Len(elementData') \in Nat
      /\ Len(elementData) <= Len(elementData')
      /\ local[u].cursor \in 0 .. Len(elementData)
  BY FieldsStep, TypeParts DEF IInv, FieldsOK, Grows, LocalOK, Locals
<1>1. CASE pc'[u] = pc[u] /\ local'[u] = local[u]
  BY <1>0, <1>1 DEF Ready
<1>2. CASE UNCHANGED vars
  <2>1. pc' = pc /\ local' = local
    BY <1>2 DEF vars, threadVars
  <2>2. QED
    BY <1>1, <2>1
<1>3. ASSUME NEW t \in Threads, Step(t), u # t PROVE Ready(u)'
  BY <1>1, <1>3, Frame
<1>4. CASE Step(u)
  <2>1. CASE AddToQuery(u) \/ ReadModCount(u) \/ WriteModCount(u) \/ ReadPlace(u) \/ WriteSize(u)
    <3>1. /\ pc'[u] \in {"append"} \union Adding
          /\ local'[u].handle # 0
          /\ pc'[u] = "store" => local'[u].cursor < Len(elementData')
      BY <1>0, <2>1, AddSteps DEF Ready, Adding
    <3>2. QED
      BY <3>1 DEF Ready, Adding
  <2>2. CASE NextHandle(u)
    <3>1. pc'[u] \notin {"append"} \union Adding
      <4>1. pc[u] = "next"
        BY <2>2 DEF NextHandle
      <4>2. QED
        BY <1>4, <4>1, Elsewhere DEF AddToQuery, ReadModCount, WriteModCount, ReadPlace, WriteSize
    <3>2. CASE pc'[u] = "put"
      BY <2>2, <3>1, <3>2, NextStep DEF Ready, Adding
    <3>3. CASE pc'[u] # "put"
      BY <3>1, <3>3 DEF Ready, Adding
    <3>4. QED
      BY <3>2, <3>3
  <2>3. CASE ~(\/ AddToQuery(u) \/ ReadModCount(u) \/ WriteModCount(u) \/ ReadPlace(u)
               \/ WriteSize(u) \/ NextHandle(u))
    BY <1>4, <2>3, Elsewhere DEF Ready, Adding
  <2>4. QED
    BY <2>1, <2>2, <2>3
<1>5. QED
  BY <1>2, <1>3, <1>4 DEF Next

-----------------------------------------------------------------------------
(* As long as no two threads add at a time.                                *)

\* A handle stays where it is.
Stays ==
    /\ size <= size'
    /\ \A i \in DOMAIN elementData :
          elementData[i] # 0 => i \in DOMAIN elementData' /\ elementData'[i] = elementData[i]

\* What the two writes of an add do to the list.
LEMMA ListStep ==
    ASSUME IInv, NEW t \in Threads, Step(t), ~contended'
    PROVE  /\ size' = Len(elementData')
           /\ Stays
           /\ WriteSize(t) => local[t].cursor + 1 = size' /\ elementData' = Append(elementData, 0)
           /\ StoreHandle(t) => /\ size' = size /\ Len(elementData') = Len(elementData)
                                /\ elementData' = [elementData EXCEPT ![size] = local[t].handle]
           /\ ~(WriteSize(t) \/ StoreHandle(t)) => UNCHANGED <<elementData, size>>
<1>0. /\ ~contended /\ OneAdds /\ Ready(t)
      /\ elementData \in Seq(0 .. counters) /\ Len(elementData) \in Nat /\ size = Len(elementData)
      /\ local[t] \in Locals
  BY Frame, TypeParts DEF IInv, FieldsOK, LocalOK, OneAdds
<1>1. CASE WriteSize(t)
  <2>1. local[t].cursor = size
    BY <1>0, <1>1 DEF WriteSize, OneAdds
  <2>2. size' = size + 1 /\ elementData' = Append(elementData, 0)
    BY <1>0, <1>1, <2>1 DEF WriteSize
  <2>3. /\ Len(elementData') = Len(elementData) + 1 /\ DOMAIN elementData' = 1 .. Len(elementData')
        /\ \A i \in 1 .. Len(elementData) : elementData'[i] = elementData[i]
    BY <1>0, <2>2
  <2>4. size' = Len(elementData') /\ size <= size' /\ local[t].cursor + 1 = size'
    BY <1>0, <2>1, <2>2, <2>3
  <2>5. Stays
    BY <1>0, <2>3, <2>4 DEF Stays
  <2>6. ~StoreHandle(t)
    BY <1>1 DEF WriteSize, StoreHandle
  <2>7. QED
    BY <1>1, <2>2, <2>4, <2>5, <2>6
<1>2. CASE StoreHandle(t)
  <2>1. local[t].cursor + 1 = size /\ elementData[size] = 0 /\ local[t].cursor < Len(elementData)
    BY <1>0, <1>2 DEF StoreHandle, OneAdds, Ready
  <2>2. local[t].cursor \in Nat /\ local[t].handle \in 0 .. counters
    BY <1>0 DEF Locals
  <2>3. size' = size /\ elementData' = [elementData EXCEPT ![size] = local[t].handle]
    BY <1>0, <1>2, <2>1, Frame DEF StoreHandle
  <2>4. size \in 1 .. Len(elementData)
    BY <1>0, <2>1, <2>2
  <2>5. /\ elementData' \in Seq(0 .. counters) /\ Len(elementData') = Len(elementData)
        /\ \A i \in 1 .. Len(elementData) : i # size => elementData'[i] = elementData[i]
    BY <1>0, <2>2, <2>3, <2>4, Replaced
  <2>6. Stays
    BY <1>0, <2>1, <2>3, <2>5 DEF Stays
  <2>7. ~WriteSize(t)
    BY <1>2 DEF WriteSize, StoreHandle
  <2>8. QED
    BY <1>0, <1>2, <2>3, <2>5, <2>6, <2>7
<1>3. CASE ~(WriteSize(t) \/ StoreHandle(t))
  <2>1. Looks(t) => UNCHANGED <<elementData, size>>
    BY LookStep DEF objectVars, listVars
  <2>2. Writes(t) => UNCHANGED <<elementData, size>>
    BY <1>3 DEF Writes, MakeArray, SetCache, PutHandle, AddCounter, AddToQuery, WriteModCount,
       CloseQuery, ClearHandle, listVars
  <2>3. UNCHANGED <<elementData, size>>
    BY <2>1, <2>2, StepParts
  <2>4. QED
    BY <1>0, <1>3, <2>3 DEF Stays
<1>4. QED
  BY <1>1, <1>2, <1>3

LEMMA OneAddsStep ==
    ASSUME IInv, NEW t \in Threads, Step(t), ~contended'
    PROVE  OneAdds'
<1>0. /\ ~contended /\ OneAdds /\ size \in Nat /\ size = Len(elementData)
      /\ elementData \in Seq(0 .. counters)
  BY Frame, TypeParts DEF IInv, FieldsOK, OneAdds
<1>1. size' = Len(elementData')
  BY ListStep
<1>2. pc'[t] \in Adding => (pc[t] \in Adding \/ \A u \in Threads : pc[u] \notin Adding)
  <2>1. CASE ReadModCount(t)
    BY <1>0, <2>1 DEF ReadModCount
  <2>2. CASE WriteModCount(t) \/ ReadPlace(t) \/ WriteSize(t)
    BY <2>2 DEF WriteModCount, ReadPlace, WriteSize, Adding
  <2>3. CASE AddToQuery(t)
    BY <2>3, AddSteps DEF Adding
  <2>4. QED
    BY <2>1, <2>2, <2>3, Elsewhere
<1>3. \A u \in Threads : u # t => pc'[u] = pc[u] /\ local'[u] = local[u]
  BY Frame
<1>4. \A v, u \in Threads : pc'[v] \in Adding /\ pc'[u] \in Adding => v = u
  BY <1>0, <1>2, <1>3 DEF OneAdds
<1>5. ASSUME NEW u \in Threads, u # t, pc'[u] \in {"grow", "store"}
      PROVE  /\ pc'[u] = "grow" => local'[u].cursor = size'
             /\ pc'[u] = "store" => local'[u].cursor + 1 = size' /\ elementData'[size'] = 0
  <2>1. pc[u] \in Adding /\ pc[t] \notin Adding
    BY <1>0, <1>3, <1>5 DEF OneAdds, Adding
  <2>2. UNCHANGED <<elementData, size>>
    BY <2>1, ListStep DEF WriteSize, StoreHandle, Adding
  <2>3. QED
    BY <1>0, <1>3, <1>5, <2>2 DEF OneAdds
<1>6. pc'[t] = "grow" => local'[t].cursor = size'
  <2>1. CASE ReadPlace(t)
    <3>1. UNCHANGED <<elementData, size>>
      BY <2>1 DEF ReadPlace, objectVars, listVars
    <3>2. QED
      BY <2>1, <3>1, AddSteps
  <2>2. CASE ~ReadPlace(t)
    BY <2>2, AddSteps, Elsewhere DEF Adding
  <2>3. QED
    BY <2>1, <2>2
<1>7. pc'[t] = "store" => local'[t].cursor + 1 = size' /\ elementData'[size'] = 0
  <2>1. CASE WriteSize(t)
    <3>1. local'[t] = local[t] /\ local[t].cursor + 1 = size' /\ elementData' = Append(elementData, 0)
      BY <2>1, AddSteps, ListStep
    <3>2. elementData'[Len(elementData) + 1] = 0 /\ Len(elementData') = Len(elementData) + 1
      BY <1>0, <3>1
    <3>3. QED
      BY <1>1, <3>1, <3>2
  <2>2. CASE ~WriteSize(t)
    BY <2>2, AddSteps, Elsewhere DEF Adding
  <2>3. QED
    BY <2>1, <2>2
<1>8. QED
  BY <1>1, <1>4, <1>5, <1>6, <1>7 DEF OneAdds

\* A value at its place stays there.
LEMMA PlaceStays ==
    ASSUME FieldsOK, Stays, size' \in Nat,
           NEW i \in Nat \ {0}, i <= size, elementData[i] # 0
    PROVE  i <= size' /\ elementData'[i] = elementData[i]
<1>1. size \in Nat /\ Len(elementData) \in Nat /\ size <= Len(elementData)
  BY DEF FieldsOK
<1>2. i \in DOMAIN elementData
  BY <1>1 DEF FieldsOK
<1>3. QED
  BY <1>1, <1>2 DEF Stays

LEMMA AlignedStep ==
    ASSUME IInv, NEW t \in Threads, Step(t), ~contended'
    PROVE  ArraysAligned'
<1>0. /\ ~contended /\ ArraysAligned /\ FieldsOK /\ Stays /\ size' \in Nat
      /\ \A u \in Threads : Ready(u) /\ local[u] \in Locals
  BY Frame, ListStep, FieldsStep, TypeParts DEF IInv, FieldsOK, LocalOK, Next
<1>1. \A k \in DOMAIN arrays : \A i \in DOMAIN arrays[k] :
          arrays[k][i] # 0 => i <= size' /\ arrays[k][i] = elementData'[i]
  <2> SUFFICES ASSUME NEW k \in DOMAIN arrays, NEW i \in DOMAIN arrays[k], arrays[k][i] # 0
               PROVE  i <= size' /\ arrays[k][i] = elementData'[i]
    OBVIOUS
  <2>1. i <= size /\ arrays[k][i] = elementData[i]
    BY <1>0 DEF ArraysAligned
  <2>2. i \in Nat \ {0}
    BY <1>0 DEF FieldsOK
  <2>3. QED
    BY <1>0, <2>1, <2>2, PlaceStays
<1>2. ASSUME NEW u \in Threads, pc[u] = "put"
      PROVE  /\ local[u].cursor \in Nat \ {0} /\ local[u].cursor <= size'
             /\ local[u].handle = elementData'[local[u].cursor]
  <2>1. local[u].cursor \in Nat \ {0} /\ local[u].handle # 0
    <3>1. local[u].cursor \in 0 .. Len(elementData) /\ Len(elementData) \in Nat
      BY <1>0 DEF Locals, FieldsOK
    <3>2. QED
      BY <1>0, <1>2, <3>1 DEF Ready
  <2>2. local[u].cursor <= size /\ local[u].handle = elementData[local[u].cursor]
    BY <1>0, <1>2 DEF ArraysAligned
  <2>3. QED
    BY <1>0, <2>1, <2>2, PlaceStays
<1>3. ASSUME NEW u \in Threads, pc'[u] = "put"
      PROVE  local'[u].cursor <= size' /\ local'[u].handle = elementData'[local'[u].cursor]
  <2>1. CASE u # t
    BY <1>2, <1>3, <2>1, Frame
  <2>2. CASE u = t
    <3>1. NextHandle(t)
      BY <1>3, <2>2, AddSteps, Elsewhere DEF Adding
    <3>2. /\ local[t].cursor \in Nat /\ local[t].cursor < size
          /\ local'[t].cursor = local[t].cursor + 1
          /\ local'[t].handle = elementData[local[t].cursor + 1] /\ local'[t].handle # 0
      BY <1>3, <2>2, <3>1, NextStep
    <3>3. size \in Nat
      BY <1>0 DEF FieldsOK
    <3> DEFINE c == local[t].cursor + 1
    <3>4. c \in Nat \ {0} /\ c <= size /\ elementData[c] # 0
      BY <3>2, <3>3
    <3> HIDE DEF c
    <3>5. c <= size' /\ elementData'[c] = elementData[c]
      BY <1>0, <3>4, PlaceStays
    <3>6. QED
      BY <2>2, <3>2, <3>5 DEF c
  <2>3. QED
    BY <2>1, <2>2
<1>4. \A k \in DOMAIN arrays' : \A i \in DOMAIN arrays'[k] :
          arrays'[k][i] # 0 => i <= size' /\ arrays'[k][i] = elementData'[i]
  <2>1. CASE MakeArray(t)
    <3> DEFINE zeros == [i \in 1 .. size |-> 0]
    <3>1. arrays' = Append(arrays, zeros) /\ arrays \in Seq(Seq(0 .. counters))
      BY <1>0, <2>1 DEF MakeArray, FieldsOK
    <3>2. zeros \in Seq(0 .. counters) /\ \A i \in DOMAIN zeros : zeros[i] = 0
      BY <1>0 DEF FieldsOK
    <3> HIDE DEF zeros
    <3>3. /\ \A k \in DOMAIN arrays : arrays'[k] = arrays[k]
          /\ \A k \in DOMAIN arrays' : k \in DOMAIN arrays \/ arrays'[k] = zeros
      BY <3>1, <3>2
    <3>4. QED
      BY <1>1, <3>2, <3>3
  <2>2. CASE PutHandle(t)
    <3>1. CASE UNCHANGED arrays
      BY <1>1, <3>1
    <3>2. CASE arrays' # arrays
      <4> DEFINE c == local[t].cursor
                 h == local[t].handle
                 filled == [arrays[cache] EXCEPT ![c] = h]
      <4>1. /\ pc[t] = "put" /\ cache # Null /\ c <= Len(arrays[cache])
            /\ arrays' = [arrays EXCEPT ![cache][c] = h]
        BY <2>2, <3>2 DEF PutHandle
      <4>2. c \in Nat \ {0} /\ c <= size' /\ h = elementData'[c]
        BY <1>2, <4>1
      <4>3. cache \in DOMAIN arrays /\ arrays[cache] \in Seq(0 .. counters)
        BY <1>0, <4>1 DEF FieldsOK, Null
      <4> HIDE DEF c, h
      <4>4. /\ DOMAIN filled = DOMAIN arrays[cache] /\ filled[c] = h
            /\ \A i \in DOMAIN filled : i # c => filled[i] = arrays[cache][i]
        BY <4>1, <4>2, <4>3
      <4>5. arrays' = [arrays EXCEPT ![cache] = filled]
        BY <4>1
      <4> HIDE DEF filled
      <4>6. /\ DOMAIN arrays' = DOMAIN arrays
            /\ \A k \in DOMAIN arrays : arrays'[k] = IF k = cache THEN filled ELSE arrays[k]
        BY <4>3, <4>5, <1>0 DEF FieldsOK
      <4>7. \A i \in DOMAIN filled : filled[i] # 0 => i <= size' /\ filled[i] = elementData'[i]
        BY <1>1, <4>2, <4>3, <4>4
      <4>8. QED
        BY <1>1, <4>3, <4>6, <4>7
    <3>3. QED
      BY <3>1, <3>2
  <2>3. CASE ~(MakeArray(t) \/ PutHandle(t))
    <3>1. Looks(t) => UNCHANGED arrays
      BY LookStep DEF objectVars
    <3>2. Writes(t) => UNCHANGED arrays
      BY <2>3 DEF Writes, SetCache, AddCounter, AddToQuery, WriteModCount, WriteSize, StoreHandle,
         CloseQuery, ClearHandle
    <3>3. UNCHANGED arrays
      BY <3>1, <3>2, StepParts
    <3>4. QED
      BY <1>1, <3>3
  <2>4. QED
    BY <2>1, <2>2, <2>3
<1>5. QED
  BY <1>3, <1>4 DEF ArraysAligned

-----------------------------------------------------------------------------
(* What the calls of nextValue return.                                     *)

\* How a call of nextValue ends: with nothing, with zeros, or with a value for
\* each handle of an array of handles.
Ending(values) ==
    \/ values = <<>>
    \/ values = [i \in 1 .. size |-> 0]
    \/ \E k \in DOMAIN arrays, n \in 0 .. Len(elementData) :
          values = [i \in 1 .. n |-> IF i <= Len(arrays[k]) THEN arrays[k][i] ELSE 0]

InPlace(values) ==
    \A i \in DOMAIN values : values[i] # 0 => i <= size /\ values[i] = elementData[i]

LEMMA EndingAligned ==
    ASSUME FieldsOK, NEW values, Ending(values)
    PROVE  /\ values \in Seq(0 .. counters)
           /\ ArraysAligned => InPlace(values)
<1>0. Len(elementData) \in Nat /\ size \in Nat /\ 0 \in 0 .. counters
  BY DEF FieldsOK
<1>1. CASE values = <<>>
  BY <1>1 DEF InPlace
<1>2. CASE values = [i \in 1 .. size |-> 0]
  <2>1. values \in Seq(0 .. counters)
    BY <1>0, <1>2
  <2>2. InPlace(values)
    BY <1>2 DEF InPlace
  <2>3. QED
    BY <2>1, <2>2
<1>3. ASSUME NEW k \in DOMAIN arrays, NEW n \in 0 .. Len(elementData),
             values = [i \in 1 .. n |-> IF i <= Len(arrays[k]) THEN arrays[k][i] ELSE 0]
      PROVE  values \in Seq(0 .. counters) /\ (ArraysAligned => InPlace(values))
  <2>1. arrays[k] \in Seq(0 .. counters) /\ n \in Nat /\ Len(arrays[k]) \in Nat
    BY <1>0 DEF FieldsOK
  <2>2. ASSUME NEW i \in 1 .. n, i <= Len(arrays[k])
        PROVE  i \in DOMAIN arrays[k] /\ arrays[k][i] \in 0 .. counters
    <3>1. i \in 1 .. Len(arrays[k])
      BY <2>1, <2>2
    <3>2. arrays[k][i] \in 0 .. counters
      BY <3>1, <2>1, ElementIn
    <3>3. QED
      BY <3>1, <3>2, <2>1
  <2>3. values \in Seq(0 .. counters)
    <3>1. \A i \in 1 .. n : (IF i <= Len(arrays[k]) THEN arrays[k][i] ELSE 0) \in 0 .. counters
      BY <1>0, <2>2
    <3>2. QED
      BY <1>3, <2>1, <3>1
  <2>4. ASSUME ArraysAligned, NEW i \in DOMAIN values, values[i] # 0
        PROVE  i <= size /\ values[i] = elementData[i]
    <3>1. i \in 1 .. n /\ i <= Len(arrays[k]) /\ values[i] = arrays[k][i]
      BY <1>3, <2>4
    <3>2. QED
      BY <2>2, <2>4, <3>1 DEF ArraysAligned
  <2>5. QED
    BY <2>3, <2>4 DEF InPlace
<1>4. QED
  BY <1>1, <1>2, <1>3 DEF Ending

\* What a step does to the results.
LEMMA ResultChange ==
    ASSUME IInv, NEW t \in Threads, Step(t)
    PROVE  \/ UNCHANGED result
           \/ result' = [result EXCEPT ![t] = [NoResult EXCEPT !.due = size]]
           \/ \E kind \in Kinds : \E values :
                 /\ Ending(values)
                 /\ result' = [result EXCEPT ![t].kind = kind, ![t].values = values]
<1>0. FieldsOK /\ local[t] \in Locals
  BY TypeParts DEF IInv, LocalOK
<1>1. ASSUME NEW kind \in Kinds, NEW values, Ending(values), Return(t, kind, values)
      PROVE  \E k \in Kinds : \E v :
                 /\ Ending(v)
                 /\ result' = [result EXCEPT ![t].kind = k, ![t].values = v]
  BY <1>1 DEF Return
<1>2. ASSUME Throw(t)
      PROVE  \E kind \in Kinds : \E values : Ending(values) /\ Return(t, kind, values)
  BY <1>2 DEF Throw, Ending, Kinds
<1>3. CASE NextValue(t)
  BY <1>3 DEF NextValue
<1>4. CASE Size(t)
  <2>1. UNCHANGED result \/ Return(t, "values", <<>>)
    BY <1>4 DEF Size
  <2>2. Ending(<<>>) /\ "values" \in Kinds
    BY DEF Ending, Kinds
  <2>3. QED
    BY <1>1, <2>1, <2>2
<1>5. CASE NextHandle(t) \/ PutHandle(t)
  <2>1. UNCHANGED result \/ Throw(t)
    BY <1>5 DEF NextHandle, PutHandle
  <2>2. QED
    BY <1>1, <1>2, <2>1
<1>6. CASE NoData(t) \/ Collapse(t)
  <2>1. Return(t, "no data", <<>>) \/ Return(t, "crash", <<>>)
    BY <1>6 DEF NoData, Collapse
  <2>2. Ending(<<>>) /\ "no data" \in Kinds /\ "crash" \in Kinds
    BY DEF Ending, Kinds
  <2>3. QED
    BY <1>1, <2>1, <2>2
<1>7. CASE CollectFails(t)
  BY <1>1, <1>2, <1>7 DEF CollectFails
<1>8. CASE Collect(t)
  <2> DEFINE k == local[t].array
             n == local[t].size
             values == [i \in 1 .. n |-> IF i <= Len(arrays[k]) THEN arrays[k][i] ELSE 0]
  <2>1. Throw(t) \/ Return(t, "values", values)
    BY <1>8 DEF Collect
  <2>2. k \in DOMAIN arrays /\ n \in 0 .. Len(elementData)
    BY <1>0, <1>8 DEF Collect, Locals, FieldsOK, Null
  <2>3. Ending(values)
    BY <2>2 DEF Ending
  <2>4. QED
    BY <1>1, <1>2, <2>1, <2>3 DEF Kinds
<1>9. CASE ReadHandle(t) \/ TestCache(t) \/ MakeArray(t) \/ SetCache(t) \/ Iterate(t) \/ ReturnArray(t)
  BY <1>9 DEF ReadHandle, TestCache, MakeArray, SetCache, Iterate, ReturnArray
<1>10. CASE AddCounter(t) \/ AddToQuery(t) \/ AddRefused(t) \/ ReadModCount(t) \/ WriteModCount(t)
  BY <1>10 DEF AddCounter, AddToQuery, AddRefused, ReadModCount, WriteModCount
<1>11. CASE ReadPlace(t) \/ WriteSize(t) \/ StoreHandle(t)
  BY <1>11 DEF ReadPlace, WriteSize, StoreHandle
<1>12. CASE Close(t) \/ CloseQuery(t) \/ ClearHandle(t)
  BY <1>12 DEF Close, CloseQuery, ClearHandle
<1>13. QED
  BY <1>3, <1>4, <1>5, <1>6, <1>7, <1>8, <1>9, <1>10, <1>11, <1>12 DEF Step

LEMMA ResultStep ==
    ASSUME IInv, NEW t \in Threads, Step(t)
    PROVE  /\ ResultOK'
           /\ ~contended' /\ (\A u \in Threads : InPlace(result[u].values))
                 => \A u \in Threads : InPlace(result[u].values)'
<1>0. FieldsOK /\ ResultOK /\ FieldsOK' /\ Grows /\ [Next]_vars
  <2>1. [Next]_vars
    BY DEF Next
  <2>2. QED
    BY <2>1, TypeParts, FieldsStep DEF IInv
<1>1. Seq(0 .. counters) \subseteq Seq(0 .. counters')
  BY <1>0 DEF Grows, FieldsOK
<1>2. 0 .. Len(elementData) \subseteq 0 .. Len(elementData') /\ size \in 0 .. Len(elementData)
  BY <1>0 DEF Grows, FieldsOK
<1>3. result \in [Threads -> Results'] /\ result \in [Threads -> Results]
  BY <1>0, <1>1, <1>2 DEF ResultOK, Results
<1>4. ASSUME NEW values \in Seq(0 .. counters), ~contended', InPlace(values)
      PROVE  \A i \in DOMAIN values : values[i] # 0 => i <= size' /\ values[i] = elementData'[i]
  <2> SUFFICES ASSUME NEW i \in DOMAIN values, values[i] # 0
               PROVE  i <= size' /\ values[i] = elementData'[i]
    OBVIOUS
  <2>1. i <= size /\ values[i] = elementData[i] /\ i \in Nat \ {0}
    BY <1>4 DEF InPlace
  <2>2. Stays /\ size' \in Nat
    BY <1>0, <1>4, ListStep DEF FieldsOK
  <2>3. QED
    BY <1>0, <2>1, <2>2, PlaceStays
<1>5. ASSUME UNCHANGED result
      PROVE  /\ ResultOK'
             /\ ~contended' /\ (\A u \in Threads : InPlace(result[u].values))
                   => \A u \in Threads : InPlace(result[u].values)'
  <2>1. ResultOK'
    BY <1>3, <1>5 DEF ResultOK
  <2>2. \A u \in Threads : result[u].values \in Seq(0 .. counters)
    BY <1>3 DEF Results
  <2>3. QED
    BY <1>4, <1>5, <2>1, <2>2 DEF InPlace
<1>6. ASSUME NEW record \in Results', result' = [result EXCEPT ![t] = record],
             record.values \in Seq(0 .. counters), ~contended => InPlace(record.values)
      PROVE  /\ ResultOK'
             /\ ~contended' /\ (\A u \in Threads : InPlace(result[u].values))
                   => \A u \in Threads : InPlace(result[u].values)'
  <2>1. ResultOK'
    BY <1>3, <1>6, Update DEF ResultOK
  <2>2. \A u \in Threads : result'[u] = IF u = t THEN record ELSE result[u]
    BY <1>3, <1>6
  <2>3. \A u \in Threads : result[u].values \in Seq(0 .. counters)
    BY <1>3 DEF Results
  <2>4. contended => contended'
    BY Frame
  <2>5. ASSUME ~contended', \A u \in Threads : InPlace(result[u].values), NEW u \in Threads
        PROVE  InPlace(result[u].values)'
    <3>1. CASE u = t
      BY <1>4, <1>6, <2>2, <2>4, <2>5, <3>1 DEF InPlace
    <3>2. CASE u # t
      BY <1>4, <2>2, <2>3, <2>5, <3>2 DEF InPlace
    <3>3. QED
      BY <3>1, <3>2
  <2>6. QED
    BY <2>1, <2>5
<1>7. CASE UNCHANGED result
  BY <1>5, <1>7
<1>8. CASE result' = [result EXCEPT ![t] = [NoResult EXCEPT !.due = size]]
  <2> DEFINE record == [NoResult EXCEPT !.due = size]
  <2>1. record.values = <<>>
    BY DEF NoResult
  <2>2. record \in Results'
    <3>1. <<>> \in Seq(0 .. counters') /\ size \in 0 .. Len(elementData') /\ "none" \in Kinds
      BY <1>2 DEF Kinds
    <3>2. QED
      BY <3>1 DEF NoResult, Results
  <2> HIDE DEF record
  <2>3. record.values \in Seq(0 .. counters) /\ InPlace(record.values)
    BY <2>1 DEF InPlace
  <2>4. result' = [result EXCEPT ![t] = record]
    BY <1>8 DEF record
  <2>5. QED
    BY <1>6, <2>2, <2>3, <2>4
<1>9. ASSUME NEW kind \in Kinds, NEW values, Ending(values),
             result' = [result EXCEPT ![t].kind = kind, ![t].values = values]
      PROVE  /\ ResultOK'
             /\ ~contended' /\ (\A u \in Threads : InPlace(result[u].values))
                   => \A u \in Threads : InPlace(result[u].values)'
  <2> DEFINE record == [result[t] EXCEPT !.kind = kind, !.values = values]
  <2>1. values \in Seq(0 .. counters) /\ (~contended => InPlace(values))
    BY <1>0, <1>9, EndingAligned DEF IInv
  <2>2. values \in Seq(0 .. counters')
    BY <2>1, <1>1
  <2>3. result[t] \in Results'
    BY <1>3
  <2>4. record \in Results' /\ record.values = values
    BY <2>2, <2>3 DEF Results
  <2>5. result' = [result EXCEPT ![t] = record]
    BY <1>9, <1>3
  <2> HIDE DEF record
  <2>6. QED
    BY <1>6, <2>1, <2>4, <2>5
<1>10. QED
  BY <1>7, <1>8, <1>9, ResultChange

LEMMA RestStep == IInv /\ [Next]_vars => RestOK'
<1> SUFFICES ASSUME IInv, [Next]_vars PROVE RestOK'
  OBVIOUS
<1>0. RestOK
  BY TypeParts DEF IInv
<1>1. ASSUME NEW t \in Threads, Step(t) PROVE RestOK'
  <2>1. contended' \in BOOLEAN /\ overlapped' \in BOOLEAN
    <3>1. Looks(t) => contended' \in BOOLEAN /\ overlapped' \in BOOLEAN
      BY <1>0, Zenon DEF Looks, NextValue, Size, ReadHandle, TestCache, Iterate, NextHandle, ReturnArray,
         NoData, CollectFails, Collapse, Collect, AddRefused, ReadModCount, ReadPlace, Close, Begin,
         historyVars, RestOK
    <3>2. Writes(t) => contended' \in BOOLEAN /\ overlapped' \in BOOLEAN
      BY <1>0, Zenon DEF Writes, MakeArray, SetCache, PutHandle, AddCounter, AddToQuery, WriteModCount,
         WriteSize, StoreHandle, CloseQuery, ClearHandle, Begin, historyVars, RestOK
    <3>3. QED
      BY <1>1, <3>1, <3>2, StepParts
  <2>2. adds' \in 0 .. MaxAdds
    <3>1. AddCounter(t) => adds' \in 0 .. MaxAdds
      BY <1>0, CounterAssumption DEF AddCounter, RestOK, CounterAssumption
    <3>2. ~AddCounter(t) => adds' = adds
      <4>1. Looks(t) => adds' = adds
        BY DEF Looks, NextValue, Size, ReadHandle, TestCache, Iterate, NextHandle, ReturnArray,
           NoData, CollectFails, Collapse, Collect, AddRefused, ReadModCount, ReadPlace, Close
      <4>2. Writes(t) /\ ~AddCounter(t) => adds' = adds
        BY DEF Writes, MakeArray, SetCache, PutHandle, AddToQuery, WriteModCount,
           WriteSize, StoreHandle, CloseQuery, ClearHandle
      <4>3. QED
        BY <1>1, <4>1, <4>2, StepParts
    <3>3. QED
      BY <1>0, <3>1, <3>2 DEF RestOK
  <2>3. pc' \in [Threads -> Steps]
    <3>1. \E step \in Steps : pc' = [pc EXCEPT ![t] = step]
      <4> USE DEF Begin, Return, Goto, Steps, Adding
      <4>1. CASE NextValue(t) \/ Size(t) \/ ReadHandle(t) \/ TestCache(t) \/ MakeArray(t) \/ SetCache(t)
        BY <4>1 DEF NextValue, Size, ReadHandle, TestCache, MakeArray, SetCache
      <4>2. CASE Iterate(t) \/ NextHandle(t) \/ PutHandle(t) \/ ReturnArray(t)
        BY <4>2 DEF Iterate, NextHandle, PutHandle, ReturnArray, Throw
      <4>3. CASE NoData(t) \/ CollectFails(t) \/ Collapse(t) \/ Collect(t)
        BY <4>3 DEF NoData, CollectFails, Collapse, Collect, Throw
      <4>4. CASE AddCounter(t) \/ AddToQuery(t) \/ AddRefused(t) \/ ReadModCount(t) \/ WriteModCount(t)
        BY <4>4 DEF AddCounter, AddToQuery, AddRefused, ReadModCount, WriteModCount
      <4>5. CASE ReadPlace(t) \/ WriteSize(t) \/ StoreHandle(t)
        BY <4>5 DEF ReadPlace, WriteSize, StoreHandle
      <4>6. CASE Close(t) \/ CloseQuery(t) \/ ClearHandle(t)
        BY <4>6 DEF Close, CloseQuery, ClearHandle
      <4>7. QED
        BY <1>1, <4>1, <4>2, <4>3, <4>4, <4>5, <4>6 DEF Step
    <3>2. QED
      BY <1>0, <3>1 DEF RestOK
  <2>4. QED
    BY <2>1, <2>2, <2>3 DEF RestOK
<1>2. CASE UNCHANGED vars
  BY <1>0, <1>2 DEF vars, threadVars, historyVars, RestOK
<1>3. QED
  BY <1>1, <1>2 DEF Next

InPlaces == ~contended => \A t \in Threads : InPlace(result[t].values)

\* The invariant of all threads: types, arrays that agree with the list, and
\* results that do.
LEMMA InvarianceStep == IInv /\ InPlaces /\ [Next]_vars => (IInv /\ InPlaces)'
<1> SUFFICES ASSUME IInv, InPlaces, [Next]_vars PROVE IInv' /\ InPlaces'
  OBVIOUS
<1>1. FieldsOK' /\ LocalOK' /\ RestOK' /\ \A t \in Threads : Ready(t)'
  BY FieldsStep, LocalStep, RestStep, ReadyStep
<1>2. CASE UNCHANGED vars
  <2>1. UNCHANGED <<elementData, size, arrays, pc, local, result, contended, counters>>
    BY <1>2 DEF vars, objectVars, listVars, threadVars, historyVars
  <2>2. ResultOK'
    BY <2>1, TypeParts DEF IInv, ResultOK, Results
  <2>3. (~contended => OneAdds /\ ArraysAligned)'
    BY <2>1 DEF IInv, OneAdds, ArraysAligned
  <2>4. InPlaces'
    BY <2>1 DEF InPlaces, InPlace
  <2>5. TypeOK'
    BY <1>1, <2>2, TypeParts, PTL
  <2>6. QED
    BY <1>1, <2>3, <2>4, <2>5 DEF IInv
<1>3. ASSUME NEW t \in Threads, Step(t) PROVE IInv' /\ InPlaces'
  <2>1. ResultOK'
    BY <1>3, ResultStep
  <2>2. ~contended' => OneAdds' /\ ArraysAligned'
    BY <1>3, OneAddsStep, AlignedStep
  <2>3. InPlaces'
    <3>1. contended => contended'
      BY <1>3, Frame
    <3>2. QED
      BY <1>3, <3>1, ResultStep DEF InPlaces
  <2>4. TypeOK'
    BY <1>1, <2>1, TypeParts, PTL
  <2>5. QED
    BY <1>1, <2>2, <2>3, <2>4 DEF IInv
<1>4. QED
  BY <1>2, <1>3 DEF Next

LEMMA Invariance == Spec => [](IInv /\ InPlaces)
<1>1. Init => IInv /\ InPlaces
  BY InitIInv DEF Init, InPlaces, InPlace, NoResult
<1>2. QED
  BY <1>1, InvarianceStep, PTL DEF Spec

\* Types hold in every state, of the shared fields as of what each thread has
\* read of them, two threads inside ArrayList.add or not.
THEOREM TypeCorrect == Spec => []TypeOK
BY Invariance, PTL DEF IInv

\* As long as no two threads are inside ArrayList.add at a time, a value that
\* nextValue returns stands at the place of its counter in the list, or is none,
\* whatever calls of whatever threads interleave.
THEOREM NeverShifted == Spec => []Aligned
<1>1. InPlaces => Aligned
  BY DEF InPlaces, InPlace, Aligned
<1>2. QED
  BY <1>1, Invariance, PTL
-----------------------------------------------------------------------------
(* Calls that never overlap.                                               *)

CallSteps == {"slept", "handle", "test", "make", "set", "iterate", "next", "put", "return", "collect"}
Filling == {"iterate", "next", "put"}

\* How a call of nextValue ended, if it did: SerialIsExact of one thread.
Exact(t) ==
    /\ result[t].kind # "crash"
    /\ result[t].kind = "values" =>
          \/ result[t].values = SubSeq(elementData, 1, result[t].due)
          \/ result[t].values = [i \in 1 .. result[t].due |-> 0]

Alone(t) == \A u \in Threads : u # t => pc[u] = "idle"

\* The fields agree with one another wherever no other thread stands.
FieldsAgree(t) ==
    /\ pc[t] # "zero" => (queryHandle => query)
    /\ pc[t] = "close" => queryHandle
    /\ pc[t] \in {"add", "append"} \union Adding => cache = Null
    /\ pc[t] \notin Filling => cache = Null \/ arrays[cache] = elementData
    /\ \A i \in DOMAIN elementData : elementData[i] # 0 \/ (pc[t] = "store" /\ i = size)
    /\ pc[t] = "store" => \A u \in Threads : result[u].due <= local[t].cursor

\* What a call of nextValue has read is what the fields still hold.
CallAgrees(t) ==
    /\ pc[t] \in CallSteps => queryHandle /\ query /\ result[t].due = size
    /\ pc[t] \in CallSteps \ {"slept"} => local[t].size = size
    /\ pc[t] \in CallSteps \ {"slept", "handle"} => local[t].query
    /\ pc[t] = "set" => local[t].array # Null /\ Len(arrays[local[t].array]) = size
    /\ pc[t] \in Filling \union {"return"} => cache # Null
    /\ pc[t] \in Filling => Len(arrays[cache]) = size
    /\ pc[t] \in {"next", "put"} => local[t].modCount = modCount
    /\ pc[t] = "next" => \A i \in 1 .. local[t].cursor : arrays[cache][i] = elementData[i]
    /\ pc[t] = "put" =>
          \A i \in 1 .. local[t].cursor : i < local[t].cursor => arrays[cache][i] = elementData[i]
    /\ pc[t] = "collect" => local[t].array # Null /\ arrays[local[t].array] = elementData

SerialInv ==
    ~overlapped =>
        /\ ~contended
        /\ \A t \in Threads :
              /\ Exact(t)
              /\ pc[t] # "idle" => Alone(t)
              /\ Alone(t) => FieldsAgree(t) /\ CallAgrees(t)

LEMMA WholeList ==
    ASSUME NEW S, NEW s \in Seq(S)
    PROVE  SubSeq(s, 1, Len(s)) = s
OBVIOUS

LEMMA SequenceAsFunction ==
    ASSUME NEW S, NEW s \in Seq(S)
    PROVE  s = [i \in 1 .. Len(s) |-> s[i]]
OBVIOUS

\* An array as long as the list that agrees with it everywhere is the list.
LEMMA SameSequence ==
    ASSUME NEW S, NEW T, NEW r \in Seq(S), NEW s \in Seq(T), Len(r) = Len(s),
           \A i \in 1 .. Len(s) : r[i] = s[i]
    PROVE  r = s
OBVIOUS

\* Lists that agree up to a place begin with the same.
LEMMA SameBeginning ==
    ASSUME NEW S, NEW T, NEW r \in Seq(S), NEW s \in Seq(T), NEW n \in Nat,
           n <= Len(r), n <= Len(s), \A i \in 1 .. n : r[i] = s[i]
    PROVE  SubSeq(r, 1, n) = SubSeq(s, 1, n)
OBVIOUS

\* How a call ended stays what it was while the list grows behind it.
LEMMA ExactKept ==
    ASSUME IInv, FieldsOK', Grows, NEW u \in Threads, Exact(u), result'[u] = result[u],
           \A i \in 1 .. result[u].due : elementData'[i] = elementData[i]
    PROVE  Exact(u)'
<1> DEFINE n == result[u].due
<1>1. /\ elementData \in Seq(0 .. counters) /\ elementData' \in Seq(0 .. counters')
      /\ n \in Nat /\ n <= Len(elementData) /\ Len(elementData) <= Len(elementData')
      /\ Len(elementData) \in Nat /\ Len(elementData') \in Nat
  BY TypeParts DEF IInv, FieldsOK, ResultOK, Results, Grows
<1>2. n <= Len(elementData')
  BY <1>1
<1>3. SubSeq(elementData', 1, n) = SubSeq(elementData, 1, n)
  BY <1>1, <1>2, SameBeginning
<1>4. QED
  BY <1>3 DEF Exact

\* An exception in a call that agrees with the fields ends it exactly.
LEMMA ThrowExact ==
    ASSUME IInv, NEW t \in Threads, Throw(t), result[t].due = size
    PROVE  Exact(t)'
<1>0. result \in [Threads -> Results]
  BY TypeParts DEF IInv, ResultOK
<1>1. CASE local[t].catches
  <2>1. result' = [result EXCEPT ![t].kind = "values", ![t].values = [i \in 1 .. size |-> 0]]
    BY <1>1 DEF Throw, Return
  <2>2. /\ result'[t].kind = "values"
        /\ result'[t].due = size
        /\ result'[t].values = [i \in 1 .. size |-> 0]
    BY <1>0, <2>1 DEF Results
  <2>3. QED
    BY <2>2 DEF Exact
<1>2. CASE ~local[t].catches
  <2>1. result'[t].kind = "exception"
    BY <1>0, <1>2 DEF Throw, Return, Results
  <2>2. QED
    BY <2>1 DEF Exact
<1>3. QED
  BY <1>1, <1>2

\* A step of the only thread under way keeps it in agreement with the fields.
LEMMA SoloStep ==
    ASSUME IInv, ~contended, NEW t \in Threads, Step(t), ~contended',
           Exact(t), FieldsAgree(t), CallAgrees(t)
    PROVE  Exact(t)' /\ FieldsAgree(t)' /\ CallAgrees(t)'
<1>0. /\ FieldsOK
      /\ pc \in [Threads -> Steps]
      /\ local \in [Threads -> Locals]
      /\ result \in [Threads -> Results]
  BY TypeParts DEF IInv, RestOK, LocalOK, ResultOK
<1>q. /\ elementData \in Seq(0 .. counters)
      /\ Len(elementData) \in Nat /\ size = Len(elementData)
      /\ query \in BOOLEAN /\ queryHandle \in BOOLEAN
  BY <1>0 DEF FieldsOK, IInv, OneAdds
<1>g. FieldsOK' /\ Grows
  BY FieldsStep DEF Next
<1> USE DEF FieldsAgree, CallAgrees, CallSteps, Filling, Adding
\* A step that leaves the fields alone and ends the call.
<1>e. ASSUME UNCHANGED objectVars, pc'[t] = "idle", pc[t] \notin Filling \union {"zero", "store"}
      PROVE  FieldsAgree(t)' /\ CallAgrees(t)'
  BY <1>e DEF objectVars, listVars
\* A step that leaves the list and the results alone.
<1>k. ASSUME UNCHANGED elementData, result'[t] = result[t]
      PROVE  Exact(t)'
  BY <1>k DEF Exact
<1>1. CASE NextValue(t)
  <2>1. /\ UNCHANGED objectVars
        /\ pc[t] = "idle" /\ pc'[t] = "slept" /\ queryHandle
        /\ result'[t] = [NoResult EXCEPT !.due = size]
    BY <1>0, <1>1 DEF NextValue, Begin, Goto
  <2>2. result'[t].kind = "none" /\ result'[t].due = size
    BY <2>1 DEF NoResult
  <2>3. Exact(t)'
    BY <2>2 DEF Exact
  <2>4. QED
    BY <2>1, <2>2, <2>3 DEF objectVars, listVars
<1>2. CASE Size(t)
  <2>1. UNCHANGED objectVars /\ pc[t] = "slept"
    BY <1>2 DEF Size
  <2>2. CASE size = 0
    <3>1. /\ pc'[t] = "idle"
          /\ result' = [result EXCEPT ![t].kind = "values", ![t].values = <<>>]
      BY <1>0, <1>2, <2>2 DEF Size, Return, Goto
    <3>2. result'[t].values = <<>> /\ result'[t].due = 0 /\ result'[t].kind = "values"
      BY <1>0, <2>1, <2>2, <3>1 DEF Results
    <3>3. [i \in 1 .. 0 |-> 0] = <<>>
      OBVIOUS
    <3>4. Exact(t)'
      BY <3>2, <3>3 DEF Exact
    <3>5. QED
      BY <1>e, <2>1, <3>1, <3>4
  <2>3. CASE size # 0
    <3>1. /\ pc'[t] = "handle"
          /\ local'[t].size = size
          /\ UNCHANGED result
      BY <1>0, <1>2, <2>3 DEF Size, Goto, Locals
    <3>2. QED
      BY <1>k, <2>1, <3>1 DEF objectVars, listVars
  <2>4. QED
    BY <2>2, <2>3
<1>3. CASE ReadHandle(t)
  <2>1. /\ pc[t] = "handle" /\ pc'[t] = "test"
        /\ local'[t].query = queryHandle /\ local'[t].size = local[t].size
        /\ UNCHANGED <<objectVars, result>>
    BY <1>0, <1>3 DEF ReadHandle, Goto, Locals
  <2>2. QED
    BY <1>k, <2>1 DEF objectVars, listVars
<1>4. CASE TestCache(t)
  <2>1. /\ pc[t] = "test" /\ pc'[t] = IF cache # Null THEN "return" ELSE "make"
        /\ UNCHANGED <<objectVars, local, result>>
    BY <1>0, <1>4 DEF TestCache, Goto
  <2>2. QED
    BY <1>k, <2>1 DEF objectVars, listVars
<1>5. CASE MakeArray(t)
  <2> DEFINE zeros == [i \in 1 .. size |-> 0]
  <2>1. /\ pc[t] = "make" /\ pc'[t] = "set" /\ arrays' = Append(arrays, zeros)
        /\ local'[t].array = Len(arrays')
        /\ local'[t].query = local[t].query /\ local'[t].size = local[t].size
        /\ UNCHANGED <<query, queryHandle, elementData, size, cache, result>>
    BY <1>0, <1>5 DEF MakeArray, Goto, Locals, listVars
  <2>2. zeros \in Seq(0 .. counters) /\ Len(zeros) = size
    BY <1>0 DEF FieldsOK
  <2> HIDE DEF zeros
  <2>3. arrays \in Seq(Seq(0 .. counters)) /\ cache \in 0 .. Len(arrays)
    BY <1>0 DEF FieldsOK
  <2>4. /\ Len(arrays') = Len(arrays) + 1 /\ arrays'[Len(arrays) + 1] = zeros
        /\ \A k \in 1 .. Len(arrays) : arrays'[k] = arrays[k]
    BY <2>1, <2>2, <2>3
  <2>5. local'[t].array # Null /\ Len(arrays'[local'[t].array]) = size
    BY <2>1, <2>2, <2>3, <2>4 DEF Null
  <2>6. cache # Null => arrays'[cache] = arrays[cache]
    BY <2>3, <2>4 DEF Null
  <2>7. QED
    BY <1>k, <2>1, <2>5, <2>6
<1>6. CASE SetCache(t)
  <2>1. /\ pc[t] = "set" /\ pc'[t] = "iterate" /\ cache' = local[t].array
        /\ UNCHANGED <<query, queryHandle, elementData, size, arrays, local, result>>
    BY <1>0, <1>6 DEF SetCache, Goto, listVars
  <2>2. QED
    BY <1>k, <2>1
<1>7. CASE Iterate(t)
  <2>1. /\ pc[t] = "iterate" /\ pc'[t] = "next"
        /\ local'[t].cursor = 0 /\ local'[t].modCount = modCount
        /\ local'[t].query = local[t].query /\ local'[t].size = local[t].size
        /\ UNCHANGED <<objectVars, result>>
    BY <1>0, <1>7 DEF Iterate, Goto, Locals
  <2>2. QED
    BY <1>k, <2>1 DEF objectVars, listVars
<1>8. CASE NextHandle(t)
  <2> DEFINE n == local[t].cursor
  <2>1. /\ pc[t] = "next" /\ n \in Nat /\ n <= Len(elementData)
        /\ UNCHANGED <<query, queryHandle, elementData, size, modCount, arrays, cache>>
    BY <1>0, <1>q, <1>8 DEF NextHandle, objectVars, listVars, Locals
  <2>2. cache \in DOMAIN arrays /\ arrays[cache] \in Seq(0 .. counters)
    BY <1>0, <2>1 DEF FieldsOK, Null
  <2>3. /\ Len(arrays[cache]) = size
        /\ \A i \in 1 .. n : arrays[cache][i] = elementData[i]
    BY <2>1
  <2>4. CASE n = size
    <3>1. pc'[t] = "return" /\ UNCHANGED <<local, result>>
      BY <1>0, <1>8, <2>4 DEF NextHandle, HasNext, Goto
    <3>2. arrays[cache] = elementData
      BY <1>q, <2>2, <2>3, <2>4, SameSequence
    <3>3. QED
      BY <1>k, <2>1, <3>1, <3>2
  <2>5. CASE n # size
    <3>1. n < size /\ n + 1 \in DOMAIN elementData
      BY <1>q, <2>1, <2>5
    <3>2. AtCursor(t) = elementData[n + 1] /\ AtCursor(t) # 0
      BY <2>1, <3>1 DEF AtCursor
    <3>3. /\ pc' = [pc EXCEPT ![t] = "put"] /\ UNCHANGED result
          /\ local' = [local EXCEPT ![t].cursor = local[t].cursor + 1, ![t].handle = AtCursor(t)]
      BY <1>8, <2>1, <2>5, <3>2 DEF NextHandle, HasNext, Goto
    <3>4. /\ local'[t].cursor = n + 1 /\ local'[t].modCount = local[t].modCount /\ pc'[t] = "put"
          /\ local'[t].query = local[t].query /\ local'[t].size = local[t].size
      BY <1>0, <3>3 DEF Locals
    <3>5. \A i \in 1 .. n + 1 : i < n + 1 => arrays[cache][i] = elementData[i]
      BY <2>1, <2>3
    <3>6. QED
      BY <1>k, <2>1, <3>3, <3>4, <3>5
  <2>6. QED
    BY <2>4, <2>5
<1>9. CASE PutHandle(t)
  <2> DEFINE n == local[t].cursor
             h == local[t].handle
  <2>1. /\ pc[t] = "put"
        /\ UNCHANGED <<query, queryHandle, elementData, size, modCount, cache, local>>
    BY <1>9 DEF PutHandle, listVars
  <2>2. /\ cache \in DOMAIN arrays /\ arrays[cache] \in Seq(0 .. counters)
        /\ arrays \in Seq(Seq(0 .. counters)) /\ Len(arrays[cache]) = size
    BY <1>0, <2>1 DEF FieldsOK, Null
  <2>3. n \in Nat \ {0} /\ n <= size /\ h = elementData[n]
    <3>1. n \in 0 .. Len(elementData) /\ n # 0
      BY <1>0, <2>1 DEF IInv, Ready, Locals
    <3>2. QED
      BY <1>q, <2>1, <3>1 DEF IInv, ArraysAligned
  <2>4. /\ arrays' = [arrays EXCEPT ![cache][n] = h]
        /\ pc' = [pc EXCEPT ![t] = "next"] /\ UNCHANGED result
    BY <1>9, <1>q, <2>1, <2>2, <2>3 DEF PutHandle, Goto
  <2>5. arrays'[cache] = [arrays[cache] EXCEPT ![n] = h]
    BY <2>2, <2>4
  <2>6. n \in 1 .. Len(arrays[cache])
    BY <1>q, <2>2, <2>3
  <2>7. h \in 0 .. counters
    BY <1>0 DEF Locals
  <2> HIDE DEF n, h
  <2>8. /\ Len(arrays'[cache]) = size
        /\ \A i \in 1 .. size : arrays'[cache][i] = IF i = n THEN h ELSE arrays[cache][i]
    BY <2>2, <2>5, <2>6, <2>7, Replaced
  <2>9. \A i \in 1 .. n : arrays'[cache][i] = elementData[i]
    <3> TAKE i \in 1 .. n
    <3>1. i \in 1 .. size /\ (i < n \/ i = n)
      BY <1>q, <2>3
    <3>2. i < n => arrays[cache][i] = elementData[i]
      BY <2>1 DEF n
    <3>3. QED
      BY <2>3, <2>8, <3>1, <3>2
  <2>10. pc'[t] = "next"
    BY <1>0, <2>4
  <2>11. QED
    BY <1>k, <2>1, <2>4, <2>8, <2>9, <2>10 DEF n
<1>10. CASE ReturnArray(t)
  <2>1. /\ pc[t] = "return" /\ pc'[t] = "collect"
        /\ local'[t].array = cache
        /\ local'[t].query = local[t].query /\ local'[t].size = local[t].size
        /\ UNCHANGED <<objectVars, result>>
    BY <1>0, <1>10 DEF ReturnArray, Goto, Locals
  <2>2. QED
    BY <1>k, <2>1 DEF objectVars, listVars
<1>11. CASE NoData(t)
  <2>1. pc[t] = "collect" /\ pc'[t] = "idle" /\ UNCHANGED objectVars /\ result'[t].kind = "no data"
    BY <1>0, <1>11 DEF NoData, Return, Goto, Results
  <2>2. Exact(t)'
    BY <2>1 DEF Exact
  <2>3. QED
    BY <1>e, <2>1, <2>2
<1>12. CASE CollectFails(t)
  <2>1. pc[t] = "collect" /\ pc'[t] = "idle" /\ UNCHANGED objectVars /\ Throw(t)
    BY <1>0, <1>12 DEF CollectFails, Throw, Return, Goto
  <2>2. Exact(t)'
    BY <2>1, ThrowExact
  <2>3. QED
    BY <1>e, <2>1, <2>2
<1>13. CASE Collapse(t)
  BY <1>13 DEF Collapse
<1>14. CASE Collect(t)
  <2> DEFINE handles == arrays[local[t].array]
             values == [i \in 1 .. local[t].size |->
                            IF i <= Len(handles) THEN handles[i] ELSE 0]
  <2>1. /\ pc[t] = "collect" /\ UNCHANGED objectVars
        /\ handles = elementData /\ local[t].size = size
        /\ result[t].due = size
    BY <1>14 DEF Collect
  <2>2. Return(t, "values", values)
    BY <1>14, <1>q, <2>1 DEF Collect
  <2>3. values = elementData
    <3>1. values = [i \in 1 .. Len(elementData) |-> elementData[i]]
      BY <1>q, <2>1
    <3> HIDE DEF values
    <3>2. QED
      BY <1>q, <3>1, SequenceAsFunction
  <2> HIDE DEF values
  <2>4. /\ pc'[t] = "idle"
        /\ result'[t].kind = "values" /\ result'[t].values = elementData
        /\ result'[t].due = Len(elementData)
    BY <1>0, <1>q, <2>1, <2>2, <2>3 DEF Return, Goto, Results
  <2>5. elementData' = elementData
    BY <2>1 DEF objectVars, listVars
  <2>6. Exact(t)'
    BY <1>q, <2>4, <2>5, WholeList DEF Exact
  <2>7. QED
    BY <1>e, <2>1, <2>4, <2>6
<1>15. CASE AddCounter(t)
  <2>1. /\ pc[t] = "idle" /\ pc'[t] = "add" /\ cache' = Null
        /\ UNCHANGED <<query, queryHandle, elementData, arrays, result>>
    BY <1>0, <1>15 DEF AddCounter, Begin, Goto, listVars
  <2>2. QED
    BY <1>k, <2>1
<1>16. CASE AddToQuery(t)
  <2>1. /\ pc[t] = "add" /\ pc'[t] = "append"
        /\ UNCHANGED <<query, queryHandle, elementData, arrays, cache, result>>
    BY <1>0, <1>16 DEF AddToQuery, Goto, listVars
  <2>2. QED
    BY <1>k, <2>1
<1>17. CASE AddRefused(t)
  <2>1. pc[t] = "add" /\ pc'[t] = "idle" /\ UNCHANGED <<objectVars, result>>
    BY <1>0, <1>17 DEF AddRefused, Goto
  <2>2. QED
    BY <1>e, <1>k, <2>1 DEF objectVars, listVars
<1>18. CASE ReadModCount(t) \/ WriteModCount(t) \/ ReadPlace(t)
  <2>1. /\ pc[t] \in {"append", "modify", "place"} /\ pc'[t] \in {"modify", "place", "grow"}
        /\ UNCHANGED <<query, queryHandle, elementData, arrays, cache, result>>
    BY <1>0, <1>18 DEF ReadModCount, WriteModCount, ReadPlace, Goto, objectVars, listVars
  <2>2. QED
    BY <1>k, <2>1
<1>19. CASE WriteSize(t)
  <2>1. /\ pc[t] = "grow" /\ pc'[t] = "store"
        /\ UNCHANGED <<query, queryHandle, arrays, cache, result, local>>
    BY <1>0, <1>19 DEF WriteSize, Goto
  <2>2. local[t].cursor = size
    BY <2>1 DEF IInv, OneAdds
  <2>3. elementData' = Append(elementData, 0)
    BY <1>19, ListStep
  <2>4. \A u \in Threads : result[u].due \in Nat /\ result[u].due <= Len(elementData)
    BY <1>0, <1>q DEF Results
  <2>5. \A i \in 1 .. result[t].due : elementData'[i] = elementData[i]
    BY <1>q, <2>3, <2>4
  <2>6. Exact(t)'
    BY <1>g, <2>1, <2>5, ExactKept
  <2>7. \A u \in Threads : result'[u].due <= local'[t].cursor
    BY <1>q, <2>1, <2>2, <2>4
  <2>8. size' = Len(elementData) + 1
    BY <1>q, <1>19, <2>2 DEF WriteSize
  <2>9. \A i \in DOMAIN elementData' : elementData'[i] # 0 \/ i = size'
    BY <1>q, <2>1, <2>3, <2>8
  <2>10. QED
    BY <2>1, <2>6, <2>7, <2>9
<1>20. CASE StoreHandle(t)
  <2>1. /\ pc[t] = "store" /\ pc'[t] = "idle" /\ cache = Null
        /\ UNCHANGED <<query, queryHandle, arrays, cache, result, local>>
    BY <1>0, <1>20 DEF StoreHandle, Goto
  <2>2. /\ elementData' = [elementData EXCEPT ![size] = local[t].handle]
        /\ Len(elementData') = Len(elementData) /\ Stays
    BY <1>20, ListStep
  <2>3. local[t].cursor + 1 = size /\ local[t].handle # 0 /\ local[t].cursor \in Nat
    BY <1>0, <1>q, <2>1 DEF IInv, OneAdds, Ready, Locals
  <2>4. size \in 1 .. Len(elementData)
    BY <1>q, <2>3
  <2>5. \A i \in 1 .. Len(elementData) : i # size => elementData[i] # 0
    BY <1>q
  <2>6. \A i \in DOMAIN elementData' : elementData'[i] # 0
    BY <1>q, <2>2, <2>3, <2>4, <2>5
  <2>7. result[t].due \in Nat /\ result[t].due <= local[t].cursor
    BY <1>0, <1>q, <2>1 DEF Results
  <2>8. \A i \in 1 .. result[t].due : elementData'[i] = elementData[i]
    BY <1>q, <2>2, <2>3, <2>7
  <2>9. Exact(t)'
    BY <1>g, <2>1, <2>8, ExactKept
  <2>10. QED
    BY <2>1, <2>6, <2>9
<1>21. CASE Close(t)
  <2>1. /\ pc[t] = "idle" /\ pc'[t] = "close" /\ queryHandle
        /\ UNCHANGED <<objectVars, result>>
    BY <1>0, <1>21 DEF Close, Begin, Goto
  <2>2. QED
    BY <1>k, <2>1 DEF objectVars, listVars
<1>22. CASE CloseQuery(t)
  <2>1. /\ pc[t] = "close" /\ pc'[t] = (IF query THEN "zero" ELSE "idle") /\ ~query'
        /\ UNCHANGED <<queryHandle, elementData, arrays, cache, result>>
    BY <1>0, <1>22 DEF CloseQuery, Goto, listVars
  <2>2. QED
    BY <1>k, <2>1
<1>23. CASE ClearHandle(t)
  <2>1. /\ pc[t] = "zero" /\ pc'[t] = "idle" /\ ~queryHandle'
        /\ UNCHANGED <<query, elementData, arrays, cache, result>>
    BY <1>0, <1>23 DEF ClearHandle, Goto, listVars
  <2>2. QED
    BY <1>k, <2>1
<1>24. QED
  BY <1>1, <1>2, <1>3, <1>4, <1>5, <1>6, <1>7, <1>8, <1>9, <1>10, <1>11, <1>12, <1>13,
     <1>14, <1>15, <1>16, <1>17, <1>18, <1>19, <1>20, <1>21, <1>22, <1>23 DEF Step

\* What stood in the list when a call began still stands there.
LEMMA BeginningKept ==
    ASSUME IInv, NEW t \in Threads, Step(t), ~contended', FieldsAgree(t), NEW u \in Threads
    PROVE  \A i \in 1 .. result[u].due : elementData'[i] = elementData[i]
<1> SUFFICES ASSUME NEW i \in 1 .. result[u].due PROVE elementData'[i] = elementData[i]
  OBVIOUS
<1>1. FieldsOK /\ LocalOK /\ ResultOK
  BY TypeParts DEF IInv
<1>2. elementData \in Seq(0 .. counters)
  BY <1>1 DEF FieldsOK
<1>3. Len(elementData) \in Nat
  BY <1>2
<1>4. result[u].due \in 0 .. Len(elementData)
  BY <1>1 DEF ResultOK, Results
<1>5. local[t].cursor \in Nat
  <2>1. local[t] \in Locals
    BY <1>1 DEF LocalOK
  <2>2. local[t].cursor \in 0 .. Len(elementData)
    BY <2>1 DEF Locals
  <2>3. QED
    BY <1>3, <2>2
<1>6. /\ result[u].due \in 0 .. Len(elementData) /\ Len(elementData) \in Nat
      /\ elementData \in Seq(0 .. counters) /\ local[t].cursor \in Nat
  BY <1>2, <1>3, <1>4, <1>5
<1>7. i \in DOMAIN elementData
  BY <1>6
<1>8. elementData[i] # 0
  <2>1. CASE pc[t] = "store"
    <3>1. result[u].due <= local[t].cursor /\ local[t].cursor + 1 = size
      BY <2>1, Frame DEF FieldsAgree, IInv, OneAdds
    <3>2. i # size
      BY <1>6, <3>1
    <3>3. QED
      BY <1>7, <3>2 DEF FieldsAgree
  <2>2. CASE pc[t] # "store"
    BY <1>7, <2>2 DEF FieldsAgree
  <2>3. QED
    BY <2>1, <2>2
<1>9. QED
  BY <1>7, <1>8, ListStep DEF Stays

LEMMA SerialStep == IInv /\ SerialInv /\ [Next]_vars => SerialInv'
<1> SUFFICES ASSUME IInv, SerialInv, [Next]_vars PROVE SerialInv'
  OBVIOUS
<1>1. ASSUME NEW t \in Threads, Step(t), ~overlapped' PROVE SerialInv'
  <2>1. ~overlapped /\ ~contended
    BY <1>1, Frame DEF SerialInv
  <2>2. \A u \in Threads : u # t => pc'[u] = pc[u] /\ result'[u] = result[u]
    BY <1>1, Frame
  <2>3. Alone(t)
    BY <1>1, <2>1, Frame DEF SerialInv, Alone
  <2>4. ~contended'
    BY <1>1, <2>1, <2>3, Frame DEF Alone, Adding
  <2>5. Exact(t)' /\ FieldsAgree(t)' /\ CallAgrees(t)'
    BY <1>1, <2>1, <2>3, <2>4, SoloStep DEF SerialInv
  <2>6. Alone(t)'
    BY <2>2, <2>3 DEF Alone
  <2>7. ASSUME NEW u \in Threads, u # t
        PROVE  /\ Exact(u)'
               /\ pc'[u] # "idle" => Alone(u)'
               /\ Alone(u)' => FieldsAgree(u)' /\ CallAgrees(u)'
    <3>1. \A i \in 1 .. result[u].due : elementData'[i] = elementData[i]
      BY <1>1, <2>1, <2>3, <2>4, <2>7, BeginningKept DEF SerialInv
    <3>2. Exact(u)'
      BY <1>1, <2>1, <2>2, <2>7, <3>1, ExactKept, FieldsStep DEF SerialInv
    <3>3. pc'[u] = "idle"
      BY <2>6, <2>7 DEF Alone
    <3>4. Alone(u)' => pc'[t] = "idle"
      BY <2>7 DEF Alone
    <3>5. pc'[t] = "idle" => FieldsAgree(u)' /\ CallAgrees(u)'
      BY <2>5, <3>3 DEF FieldsAgree, CallAgrees, CallSteps, Filling, Adding
    <3>6. QED
      BY <3>2, <3>3, <3>4, <3>5
  <2>8. QED
    BY <2>4, <2>5, <2>6, <2>7 DEF SerialInv
<1>2. CASE UNCHANGED vars
  BY <1>2 DEF vars, objectVars, listVars, threadVars, historyVars, SerialInv, Exact, Alone,
     FieldsAgree, CallAgrees
<1>3. QED
  BY <1>1, <1>2 DEF Next, SerialInv

\* Calls that never overlap return a value for every counter added before them
\* (or zeros), from the array of their own list, on a query that is open.
THEOREM SerialCallsExact == Spec => []SerialIsExact
<1>1. Init => SerialInv
  <2> SUFFICES ASSUME Init
               PROVE  /\ ~contended
                      /\ \A t \in Threads : Exact(t) /\ pc[t] = "idle" /\ FieldsAgree(t) /\ CallAgrees(t)
    BY DEF SerialInv
  <2>1. ~contended /\ query /\ cache = Null /\ elementData = <<>>
    BY DEF Init
  <2>2. \A t \in Threads : pc[t] = "idle" /\ result[t].kind = "none"
    BY DEF Init, NoResult
  <2>3. QED
    BY <2>1, <2>2 DEF Exact, FieldsAgree, CallAgrees, CallSteps, Filling, Adding
<1>2. SerialInv => SerialIsExact
  <2>1. ASSUME SerialInv, ~overlapped, NEW t \in Threads, pc[t] = "collect"
        PROVE  query /\ local[t].query
    BY <2>1 DEF SerialInv, CallAgrees, CallSteps
  <2>2. QED
    BY <2>1 DEF SerialInv, SerialIsExact, Exact
<1>3. QED
  BY <1>1, <1>2, SerialStep, Invariance, PTL DEF Spec
=============================================================================

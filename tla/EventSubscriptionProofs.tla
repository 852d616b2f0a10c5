----------------------- MODULE EventSubscriptionProofs -----------------------
(***************************************************************************)
(* What TLAPS proves of EventSubscription, for every set of readers, every *)
(* batch size, retention and number of events.                             *)
(***************************************************************************)
EXTENDS EventSubscription, TLAPS

-----------------------------------------------------------------------------
(* Type correctness.                                                       *)

\* What EvtNext hands out is a non-empty interval of events that the channel
\* has received and the subscription has not passed yet.
LEMMA BatchBounds ==
    ASSUME TypeOK, Pending
    PROVE  /\ FirstAvailable \in Nat \ {0}
           /\ LastOfBatch \in 0 .. MaxEvents
           /\ cursor < FirstAvailable
           /\ FirstAvailable <= LastOfBatch
           /\ LastOfBatch <= written
BY ConstantsAssumption DEF TypeOK, Pending, FirstAvailable, LastOfBatch

\* The empty batch that a thread starts with is a batch.
LEMMA NoBatchType == NoBatch \in [lo : Nat \ {0}, hi : 0 .. MaxEvents]
BY ConstantsAssumption DEF NoBatch

LEMMA TypeStep == TypeOK /\ [Next]_vars => TypeOK'
<1> SUFFICES ASSUME TypeOK, [Next]_vars PROVE TypeOK'
  OBVIOUS
<1> USE ConstantsAssumption
<1>1. CASE Write
  <2>1. written' \in 0 .. MaxEvents /\ signal' \in BOOLEAN /\ late' \in BOOLEAN
    <3>1. written' \in 0 .. MaxEvents
      BY <1>1 DEF TypeOK, Write
    <3>2. signal' \in BOOLEAN
      BY <1>1 DEF Write
    <3>3. late' \in BOOLEAN
      BY <1>1 DEF Write
    <3>4. QED
      BY <3>1, <3>2, <3>3
  <2>2. QED
    BY <1>1, <2>1 DEF TypeOK, Write, objectVars, threadVars, clientVars
<1>2. CASE Subscribe
  BY <1>2 DEF TypeOK, Subscribe, HandleValue, threadVars, clientVars
<1>3. CASE SubscribeFails
  BY <1>3 DEF TypeOK, SubscribeFails, HandleValue, channelVars, threadVars, clientVars
<1>4. CASE Close
  BY <1>4 DEF TypeOK, Close, HandleValue, threadVars, clientVars
<1>5. CASE Crash
  BY <1>5, NoBatchType DEF TypeOK, Crash, HandleValue, Location, clientVars
<1>6. ASSUME NEW r \in Readers, ReaderStep(r) PROVE TypeOK'
  <2>1. CASE ReadCall(r)
    BY <2>1 DEF TypeOK, ReadCall, Location, channelVars, objectVars, clientVars
  <2>2. CASE EvtNextSome(r)
    BY <2>2, BatchBounds DEF TypeOK, EvtNextSome, Location, channelVars, clientVars
  <2>3. CASE EvtNextNone(r)
    BY <2>3 DEF TypeOK, EvtNextNone, Location, channelVars, objectVars, clientVars
  <2>4. CASE WaitEnds(r)
    BY <2>4 DEF TypeOK, WaitEnds, Location, objectVars, clientVars
  <2>5. CASE BuildArray(r)
    <3>1. Events(batch[r]) \subseteq 1 .. MaxEvents
      BY DEF TypeOK, Events
    <3>2. QED
      BY <2>5, <3>1 DEF TypeOK, BuildArray, Unrendered, Location, channelVars, objectVars, clientVars
  <2>6. CASE UpdateBookmark(r)
    BY <2>6 DEF TypeOK, UpdateBookmark, Location, channelVars, clientVars
  <2>7. CASE SaveBookmark(r)
    BY <2>7 DEF TypeOK, SaveBookmark, Location, channelVars, objectVars, clientVars
  <2>8. CASE Deliver(r)
    <3>1. Events(batch[r]) \subseteq 1 .. MaxEvents
      BY DEF TypeOK, Events
    <3>2. QED
      BY <2>8, <3>1 DEF TypeOK, Deliver, Location, channelVars, objectVars
  <2>9. CASE Persist(r)
    BY <2>9 DEF TypeOK, Persist, Location, NoBatch, NoMark, channelVars, objectVars
  <2>10. QED
    BY <1>6, <2>1, <2>2, <2>3, <2>4, <2>5, <2>6, <2>7, <2>8, <2>9 DEF ReaderStep
<1>7. CASE UNCHANGED vars
  BY <1>7 DEF TypeOK, vars, channelVars, objectVars, threadVars, clientVars
<1>8. QED
  BY <1>1, <1>2, <1>3, <1>4, <1>5, <1>6, <1>7 DEF Next

LEMMA TypeInit == Init => TypeOK
<1> SUFFICES ASSUME Init PROVE TypeOK
  OBVIOUS
<1>1. /\ pc \in [Readers -> Location]
      /\ mayWait \in [Readers -> BOOLEAN]
  BY DEF Init, Location
<1>2. /\ batch \in [Readers -> [lo : Nat \ {0}, hi : 0 .. MaxEvents]]
      /\ blanks \in [Readers -> SUBSET (1 .. MaxEvents)]
      /\ mark \in [Readers -> {NoMark} \union (0 .. MaxEvents)]
  BY NoBatchType DEF Init
<1>3. /\ signal \in BOOLEAN
      /\ late \in BOOLEAN
      /\ handle \in HandleValue
      /\ timeout \in Timeouts \union {"zero"}
  BY DEF Init, HandleValue
<1>4. /\ {written, cursor, bookmark, persisted} \subseteq 0 .. MaxEvents
      /\ {seen, blank} \subseteq SUBSET (1 .. MaxEvents)
  BY ConstantsAssumption DEF Init
<1>5. QED
  BY <1>1, <1>2, <1>3, <1>4 DEF TypeOK

\* Every variable keeps its type (the fields of the Java object, of the native
\* structure and of the threads inside read).
THEOREM TypeCorrect == Spec => []TypeOK
<1>1. Init => TypeOK
  BY TypeInit
<1>2. QED
  BY <1>1, TypeStep, PTL DEF Spec

-----------------------------------------------------------------------------
(* Any number of threads on one object.                                    *)

\* Where a thread holds events that the client has not been given yet.
Holding == {"build", "update", "save", "deliver"}

\* A thread that holds a batch holds a non-empty one that the cursor is past;
\* two threads hold batches on different sides of each other; a bookmark text
\* exists only between SaveBookmark and Persist.
SharedInv ==
    /\ TypeOK
    /\ BookmarkBehindCursor
    /\ \A r \in Readers :
          pc[r] \in Holding => batch[r].lo <= batch[r].hi /\ batch[r].hi <= cursor
    /\ \A r, q \in Readers :
          r # q /\ pc[r] \in Holding /\ pc[q] \in Holding
              => batch[r].hi < batch[q].lo \/ batch[q].hi < batch[r].lo
    /\ \A r \in Readers : pc[r] \notin {"deliver", "persist"} => mark[r] = NoMark

\* What OneInv needs to know of the only thread: the batch it holds ends at the
\* cursor and starts after the stored bookmark, a bookmark text lies between the
\* two, and every event up to the cursor is held, handed over or discarded.
OneInv ==
    /\ TypeOK
    /\ cursor <= written
    /\ persisted <= cursor
    /\ handle = "open" => bookmark \in persisted .. cursor
    /\ pc[Reader] \in Holding =>
          /\ batch[Reader].lo <= batch[Reader].hi
          /\ batch[Reader].hi = cursor
          /\ persisted < batch[Reader].lo
    /\ pc[Reader] \in Holding \ {"build"} => blanks[Reader] \subseteq Events(batch[Reader])
    /\ mark[Reader] # NoMark =>
          /\ pc[Reader] \in {"deliver", "persist"}
          /\ mark[Reader] \in persisted .. cursor
          /\ handle = "open" => mark[Reader] <= bookmark
    /\ \A e \in 1 .. cursor :
          \/ e \in Handed
          \/ Discarded(e)
          \/ pc[Reader] \in Holding /\ e \in Events(batch[Reader])

-----------------------------------------------------------------------------
(* No lost wake-up.                                                        *)

LEMMA WakeupStep == TypeOK /\ NoLostWakeup /\ [Next]_vars => NoLostWakeup'
<1> SUFFICES ASSUME TypeOK, NoLostWakeup, [Next]_vars PROVE NoLostWakeup'
  OBVIOUS
<1> USE ConstantsAssumption DEF NoLostWakeup, Asleep
<1>1. CASE Write
  BY <1>1 DEF Write, objectVars, threadVars
<1>2. CASE Subscribe
  BY <1>2 DEF Subscribe, AllIdle, threadVars
<1>3. CASE SubscribeFails \/ Close \/ Crash
  BY <1>3 DEF SubscribeFails, Close, Crash
<1>4. ASSUME NEW r \in Readers, ReaderStep(r) PROVE NoLostWakeup'
  <2>1. CASE EvtNextNone(r)
    <3>1. handle' = handle /\ cursor' = cursor /\ written' = written
      BY <2>1 DEF EvtNextNone, objectVars
    <3>2. late' = (handle = "open" /\ Pending)
      BY <2>1 DEF EvtNextNone
    <3>3. QED
      BY <3>1, <3>2 DEF Pending
  <2>2. CASE ReadCall(r) \/ EvtNextSome(r) \/ WaitEnds(r) \/ BuildArray(r)
             \/ UpdateBookmark(r) \/ SaveBookmark(r) \/ Deliver(r) \/ Persist(r)
    <3>1. pc'[r] # "wait"
      BY <2>2 DEF TypeOK, ReadCall, EvtNextSome, WaitEnds, BuildArray, Unrendered, UpdateBookmark,
                  SaveBookmark, Deliver, Persist
    <3>2. QED
      BY <3>1
  <2>3. QED
    BY <1>4, <2>1, <2>2 DEF ReaderStep
<1>5. CASE UNCHANGED vars
  BY <1>5 DEF Pending, vars, channelVars, objectVars, threadVars
<1>6. QED
  BY <1>1, <1>2, <1>3, <1>4, <1>5 DEF Next

\* However many threads share the object and whatever the timeout, they all
\* sleep on an event that the subscription holds and nobody signals only after
\* an EvtNext that gave nothing although the last event had come.
THEOREM WakeupNeverLost == Spec => []NoLostWakeup
<1>1. Init => NoLostWakeup
  BY ConstantsAssumption DEF Init, NoLostWakeup, Asleep
<1>2. QED
  BY <1>1, WakeupStep, TypeCorrect, PTL DEF Spec

-----------------------------------------------------------------------------
(* Batches and bookmarks of many threads.                                  *)

LEMMA SharedStep == SharedInv /\ TypeOK' /\ [Next]_vars => SharedInv'
<1> SUFFICES ASSUME SharedInv, TypeOK', [Next]_vars PROVE SharedInv'
  OBVIOUS
<1> USE ConstantsAssumption DEF SharedInv, TypeOK, BookmarkBehindCursor, Holding
<1>1. CASE Write
  BY <1>1 DEF Write, objectVars, threadVars, clientVars
<1>2. CASE Subscribe
  BY <1>2 DEF Subscribe, AllIdle, threadVars, clientVars, NoMark
<1>3. CASE SubscribeFails
  BY <1>3 DEF SubscribeFails, channelVars, threadVars, clientVars
<1>4. CASE Close
  BY <1>4 DEF Close, threadVars, clientVars
<1>5. CASE Crash
  BY <1>5 DEF Crash, clientVars, NoMark
<1>6. ASSUME NEW r \in Readers, ReaderStep(r) PROVE SharedInv'
  <2>1. CASE ReadCall(r)
    BY <2>1 DEF ReadCall, channelVars, objectVars, clientVars
  <2>2. CASE EvtNextSome(r)
    <3>1. /\ batch' = [batch EXCEPT ![r] = [lo |-> FirstAvailable, hi |-> LastOfBatch]]
          /\ cursor' = LastOfBatch
          /\ pc' = [pc EXCEPT ![r] = "build"]
          /\ pc[r] = "next"
          /\ UNCHANGED <<written, bookmark, mark, persisted>>
      BY <2>2 DEF EvtNextSome, clientVars
    <3>0. \A q \in Readers \ {r} : pc'[q] = pc[q] /\ batch'[q] = batch[q]
      BY <3>1
    <3>b. /\ batch'[r].lo = FirstAvailable
          /\ batch'[r].hi = LastOfBatch
          /\ pc'[r] = "build"
      BY <3>1
    <3>2. /\ cursor < FirstAvailable
          /\ FirstAvailable <= LastOfBatch
          /\ LastOfBatch <= written
          /\ {FirstAvailable, LastOfBatch} \subseteq Nat
      BY <2>2, BatchBounds DEF EvtNextSome
    <3>c. cursor <= LastOfBatch /\ UNCHANGED <<written, bookmark, mark, persisted>>
      BY <3>1, <3>2
    <3>3. BookmarkBehindCursor'
      <4>1. \A q \in Readers : mark[q] \in Int /\ mark[q] <= cursor
        BY DEF NoMark
      <4>2. {cursor, bookmark, persisted, LastOfBatch, written} \subseteq Int
        BY <3>2
      <4>3. cursor' <= written' /\ bookmark' <= cursor' /\ persisted' <= cursor'
        BY <3>1, <3>2, <3>c, <4>2
      <4>4. \A q \in Readers : mark'[q] <= cursor'
        BY <3>1, <3>c, <4>1, <4>2
      <4>5. QED
        BY <4>3, <4>4
    <3>4. ASSUME NEW q \in Readers, pc'[q] \in Holding
          PROVE  batch'[q].lo <= batch'[q].hi /\ batch'[q].hi <= cursor'
      BY <3>0, <3>b, <3>1, <3>2, <3>4
    <3>5. ASSUME NEW p \in Readers, NEW q \in Readers,
                 p # q, pc'[p] \in Holding, pc'[q] \in Holding
          PROVE  batch'[p].hi < batch'[q].lo \/ batch'[q].hi < batch'[p].lo
      <4>1. CASE p = r
        BY <3>0, <3>b, <3>1, <3>2, <3>5, <4>1
      <4>2. CASE q = r
        BY <3>0, <3>b, <3>1, <3>2, <3>5, <4>2
      <4>3. CASE p # r /\ q # r
        BY <3>0, <3>5, <4>3
      <4>4. QED
        BY <4>1, <4>2, <4>3
    <3>6. \A q \in Readers : pc'[q] \notin {"deliver", "persist"} => mark'[q] = NoMark
      <4>1. mark[r] = NoMark
        BY <3>1
      <4>2. QED
        BY <3>0, <3>1, <4>1
    <3>7. QED
      BY <3>3, <3>4, <3>5, <3>6
  <2>3. CASE EvtNextNone(r)
    BY <2>3 DEF EvtNextNone, channelVars, objectVars, clientVars
  <2>4. CASE WaitEnds(r)
    BY <2>4 DEF WaitEnds, objectVars, clientVars
  <2>5. CASE BuildArray(r)
    BY <2>5 DEF BuildArray, Unrendered, channelVars, objectVars, clientVars
  <2>6. CASE UpdateBookmark(r)
    BY <2>6 DEF UpdateBookmark, channelVars, clientVars
  <2>7. CASE SaveBookmark(r)
    BY <2>7 DEF SaveBookmark, channelVars, objectVars, clientVars, NoMark
  <2>8. CASE Deliver(r)
    BY <2>8 DEF Deliver, channelVars, objectVars
  <2>9. CASE Persist(r)
    BY <2>9 DEF Persist, channelVars, objectVars, NoMark
  <2>10. QED
    BY <1>6, <2>1, <2>2, <2>3, <2>4, <2>5, <2>6, <2>7, <2>8, <2>9 DEF ReaderStep
<1>7. CASE UNCHANGED vars
  BY <1>7 DEF vars, channelVars, objectVars, threadVars, clientVars
<1>8. QED
  BY <1>1, <1>2, <1>3, <1>4, <1>5, <1>6, <1>7 DEF Next

LEMMA SharedInvariant == Spec => []SharedInv
<1>1. Init => SharedInv
  <2> SUFFICES ASSUME Init, TypeOK PROVE SharedInv
    BY TypeInit
  <2> QED
    BY DEF Init, SharedInv, BookmarkBehindCursor, Holding, NoMark
<1>2. QED
  BY <1>1, SharedStep, TypeCorrect, PTL DEF Spec

\* No bookmark, in the object, in a returned array or stored, is ahead of what
\* EvtNext gave out, in any interleaving of EvtUpdateBookmark and SaveBookmark.
THEOREM BookmarksBehind == Spec => []BookmarkBehindCursor
<1>1. SharedInv => BookmarkBehindCursor
  BY DEF SharedInv
<1>2. QED
  BY <1>1, SharedInvariant, PTL

-----------------------------------------------------------------------------
(* Losses of many threads.                                                 *)

\* An event that the client was given, that the channel has discarded, or that
\* is in an array on its way.
Accounted(e) ==
    \/ e \in Handed
    \/ Discarded(e)
    \/ \E r \in Readers : pc[r] \in Holding /\ e \in Events(batch[r])

\* An event that every bookmark there is, or that an array will make, is at or
\* beyond: it stays where it is.
Sunk(e) ==
    /\ e <= persisted
    /\ handle = "open" => e <= bookmark
    /\ \A r \in Readers : mark[r] # NoMark => e <= mark[r]
    /\ \A r \in Readers : pc[r] \in Holding => e <= batch[r].hi

LossInv ==
    /\ SharedInv
    /\ \A r \in Readers : pc[r] \in Holding \ {"build"} => blanks[r] \subseteq Events(batch[r])
    /\ \A e \in 1 .. cursor : Accounted(e) \/ Sunk(e)

\* What is accounted for stays so, unless the process ends.
LEMMA AccountedStep ==
    ASSUME LossInv, Next, ~Crash, NEW e \in Nat, Accounted(e)
    PROVE  Accounted(e)'
<1> USE ConstantsAssumption DEF LossInv, SharedInv, TypeOK, Holding, Handed, Discarded, Events
<1>1. CASE Write
  BY <1>1 DEF Write, Accounted, objectVars, threadVars, clientVars
<1>2. CASE Subscribe \/ SubscribeFails \/ Close
  BY <1>2 DEF Subscribe, SubscribeFails, Close, Accounted, channelVars, threadVars, clientVars
<1>3. ASSUME NEW r \in Readers, ReaderStep(r) PROVE Accounted(e)'
  <2>1. CASE Deliver(r)
    <3>1. Handed \union Events(batch[r]) \subseteq Handed'
      BY <2>1 DEF Deliver
    <3>2. \A q \in Readers : q # r => pc'[q] = pc[q] /\ batch'[q] = batch[q]
      BY <2>1 DEF Deliver
    <3>3. written' = written
      BY <2>1 DEF Deliver, channelVars
    <3>4. QED
      BY <3>1, <3>2, <3>3 DEF Accounted
  <2>2. CASE ReadCall(r) \/ EvtNextNone(r) \/ WaitEnds(r) \/ EvtNextSome(r) \/ BuildArray(r)
             \/ UpdateBookmark(r) \/ SaveBookmark(r) \/ Persist(r)
    <3>1. Handed \subseteq Handed' /\ written' = written
      BY <2>2 DEF ReadCall, EvtNextNone, WaitEnds, EvtNextSome, BuildArray, UpdateBookmark,
                  SaveBookmark, Persist, channelVars, clientVars
    <3>2. \A q \in Readers : pc[q] \in Holding => pc'[q] \in Holding /\ batch'[q] = batch[q]
      BY <2>2 DEF ReadCall, EvtNextNone, WaitEnds, EvtNextSome, BuildArray, UpdateBookmark,
                  SaveBookmark, Persist
    <3>3. QED
      BY <3>1, <3>2 DEF Accounted
  <2>3. QED
    BY <1>3, <2>1, <2>2 DEF ReaderStep
<1>4. QED
  BY <1>1, <1>2, <1>3 DEF Next

\* What is sunk stays so, even if the process ends.
LEMMA SunkStep ==
    ASSUME LossInv, Next, NEW e \in Nat, Sunk(e)
    PROVE  Sunk(e)'
<1> USE ConstantsAssumption DEF LossInv, SharedInv, TypeOK, BookmarkBehindCursor, Holding, Sunk
<1>1. CASE Write \/ SubscribeFails \/ Close
  BY <1>1 DEF Write, SubscribeFails, Close, objectVars, channelVars, threadVars, clientVars
<1>2. CASE Subscribe
  BY <1>2 DEF Subscribe, threadVars, clientVars
<1>3. CASE Crash
  BY <1>3 DEF Crash, clientVars
<1>4. ASSUME NEW r \in Readers, ReaderStep(r) PROVE Sunk(e)'
  <2>1. CASE ReadCall(r) \/ EvtNextNone(r) \/ WaitEnds(r) \/ BuildArray(r) \/ Deliver(r)
    BY <2>1 DEF ReadCall, EvtNextNone, WaitEnds, BuildArray, Unrendered, Deliver, channelVars, objectVars, clientVars
  <2>2. CASE EvtNextSome(r)
    BY <2>2, BatchBounds DEF EvtNextSome, channelVars, clientVars
  <2>3. CASE UpdateBookmark(r)
    BY <2>3 DEF UpdateBookmark, channelVars, clientVars
  <2>4. CASE SaveBookmark(r)
    BY <2>4 DEF SaveBookmark, channelVars, objectVars, clientVars, NoMark
  <2>5. CASE Persist(r)
    BY <2>5 DEF Persist, channelVars, objectVars, NoMark
  <2>6. QED
    BY <1>4, <2>1, <2>2, <2>3, <2>4, <2>5 DEF ReaderStep
<1>5. QED
  BY <1>1, <1>2, <1>3, <1>4 DEF Next

LEMMA LossStep == LossInv /\ SharedInv' /\ [Next]_vars => LossInv'
<1> SUFFICES ASSUME LossInv, SharedInv', [Next]_vars PROVE LossInv'
  OBVIOUS
<1>1. CASE UNCHANGED vars
  BY <1>1 DEF LossInv, Accounted, Sunk, Handed, Discarded, vars, channelVars, objectVars, threadVars, clientVars
<1>2. CASE Next
  <2>1. \A r \in Readers : pc'[r] \in Holding \ {"build"} => blanks'[r] \subseteq Events(batch'[r])
    <3> USE ConstantsAssumption DEF LossInv, SharedInv, TypeOK, Holding, Events
    <3>1. CASE Write \/ Subscribe \/ SubscribeFails \/ Close \/ Crash
      BY <3>1 DEF Write, Subscribe, SubscribeFails, Close, Crash, threadVars
    <3>2. ASSUME NEW r \in Readers, ReaderStep(r)
          PROVE  \A q \in Readers : pc'[q] \in Holding \ {"build"} => blanks'[q] \subseteq Events(batch'[q])
      BY <3>2 DEF ReaderStep, ReadCall, EvtNextSome, EvtNextNone, WaitEnds, BuildArray, Unrendered, UpdateBookmark,
                  SaveBookmark, Deliver, Persist
    <3>3. QED
      BY <1>2, <3>1, <3>2 DEF Next
  <2>2. ASSUME NEW e \in 1 .. cursor' PROVE Accounted(e)' \/ Sunk(e)'
    <3>1. CASE e <= cursor /\ ~Crash
      <4>1. Accounted(e) \/ Sunk(e)
        BY <3>1 DEF LossInv, SharedInv, TypeOK
      <4>2. QED
        BY <1>2, <3>1, <4>1, AccountedStep, SunkStep
    <3>2. CASE Crash
      BY <3>2 DEF Crash, Sunk, clientVars, Holding, LossInv, SharedInv, TypeOK
    <3>3. CASE e > cursor
      <4> USE ConstantsAssumption DEF LossInv, SharedInv, TypeOK, BookmarkBehindCursor
      <4>1. PICK r \in Readers : EvtNextSome(r)
        BY <1>2, <3>3 DEF Next, ReaderStep, Write, Subscribe, SubscribeFails, Close, Crash, ReadCall,
              EvtNextNone, WaitEnds, BuildArray, Unrendered, UpdateBookmark, SaveBookmark, Deliver, Persist, objectVars
      <4>2. e <= LastOfBatch
        BY <4>1 DEF EvtNextSome
      <4>3. CASE e < FirstAvailable
        BY <3>3, <4>1, <4>3 DEF EvtNextSome, FirstAvailable, Accounted, Discarded, channelVars
      <4>4. CASE FirstAvailable <= e
        BY <4>1, <4>2, <4>4 DEF EvtNextSome, Accounted, Events, Holding
      <4>5. QED
        BY <4>3, <4>4, <4>1, BatchBounds DEF EvtNextSome
    <3>4. QED
      BY <3>1, <3>2, <3>3 DEF LossInv, SharedInv, TypeOK
  <2>3. QED
    BY <2>1, <2>2 DEF LossInv
<1>3. QED
  BY <1>1, <1>2

LEMMA LossInvariant == Spec => []LossInv
<1>1. Init => LossInv
  <2> SUFFICES ASSUME Init, SharedInv PROVE LossInv
    <3>1. Init => SharedInv
      BY TypeInit DEF Init, SharedInv, BookmarkBehindCursor, Holding, NoMark, TypeOK
    <3>2. QED
      BY <3>1
  <2> QED
    BY DEF Init, LossInv, Holding
<1>2. QED
  BY <1>1, LossStep, SharedInvariant, PTL DEF Spec

LEMMA LossAction ==
    ASSUME LossInv, LossInv', [Next]_vars, NEW e \in 1 .. MaxEvents, Lost(e)'
    PROVE  Lost(e) \/ Crash
<1> USE ConstantsAssumption
<1>0. /\ e \in Nat \ {0} /\ e <= persisted' /\ persisted' <= cursor'
      /\ ~Accounted(e)'
  BY DEF LossInv, SharedInv, TypeOK, BookmarkBehindCursor, Lost, Accounted, InFlight, Holding
<1>1. CASE UNCHANGED vars
  BY <1>1 DEF Lost, Handed, Discarded, InFlight, vars, channelVars, objectVars, threadVars, clientVars
<1>2. CASE Next /\ ~Crash
  <2>1. ~Accounted(e)
    BY <1>0, <1>2, AccountedStep
  <2>2. CASE e <= cursor
    <3>1. Sunk(e)
      BY <1>0, <2>1, <2>2 DEF LossInv, SharedInv, TypeOK
    <3>2. QED
      BY <2>1, <3>1 DEF Sunk, Lost, Accounted, InFlight, Holding
  <2>3. CASE e > cursor
    <3> USE DEF LossInv, SharedInv, TypeOK, BookmarkBehindCursor
    <3>1. PICK r \in Readers : EvtNextSome(r)
      BY <1>0, <1>2, <2>3 DEF Next, ReaderStep, Write, Subscribe, SubscribeFails, Close, Crash, ReadCall,
            EvtNextNone, WaitEnds, BuildArray, Unrendered, UpdateBookmark, SaveBookmark, Deliver, Persist, objectVars
    <3>2. persisted' = persisted
      BY <3>1 DEF EvtNextSome, clientVars
    <3>3. QED
      BY <1>0, <2>3, <3>2
  <2>4. QED
    BY <1>0, <2>2, <2>3 DEF LossInv, SharedInv, TypeOK
<1>3. QED
  BY <1>1, <1>2

\* Threads that share an object lose an event only if the process ends between
\* the return of one's array and the bookmark of another: no close, failure or
\* order of the calls to read() does it, for any number of threads.
THEOREM LossIsOfACrash == Spec => LossNeedsCrash
<1>1. LossInv /\ LossInv' /\ [Next]_vars => [\A e \in 1 .. MaxEvents : Lost(e)' => Lost(e) \/ Crash]_vars
  BY LossAction
<1>2. QED
  BY <1>1, LossInvariant, PTL DEF Spec, LossNeedsCrash

-----------------------------------------------------------------------------
(* One thread on one object.                                               *)

OneThread == \A r, q \in Readers : r = q

LEMMA OneStep ==
    ASSUME OneThread
    PROVE  OneInv /\ TypeOK' /\ [Next]_vars => OneInv'
<1> SUFFICES ASSUME OneInv, TypeOK', [Next]_vars PROVE OneInv'
  OBVIOUS
<1>0. Reader \in Readers /\ \A r \in Readers : r = Reader
  BY ConstantsAssumption DEF OneThread, Reader
<1> HIDE DEF Reader
<1> USE ConstantsAssumption, <1>0 DEF OneInv, TypeOK, Holding, Events, Handed, Discarded
<1>1. CASE Write
  BY <1>1 DEF Write, objectVars, threadVars, clientVars
<1>2. CASE Subscribe
  BY <1>2 DEF Subscribe, AllIdle, threadVars, clientVars
<1>3. CASE SubscribeFails
  BY <1>3 DEF SubscribeFails, channelVars, threadVars, clientVars
<1>4. CASE Close
  BY <1>4 DEF Close, threadVars, clientVars
<1>5. CASE Crash
  BY <1>5 DEF Crash, clientVars
<1>6. ASSUME ReaderStep(Reader) PROVE OneInv'
  <2>1. CASE ReadCall(Reader)
    BY <2>1 DEF ReadCall, channelVars, objectVars, clientVars
  <2>2. CASE EvtNextSome(Reader)
    <3>1. \A e \in (cursor + 1) .. (FirstAvailable - 1) : Discarded(e)
      BY DEF FirstAvailable
    <3>2. QED
      BY <2>2, <3>1, BatchBounds DEF EvtNextSome, channelVars, clientVars
  <2>3. CASE EvtNextNone(Reader)
    BY <2>3 DEF EvtNextNone, channelVars, objectVars, clientVars
  <2>4. CASE WaitEnds(Reader)
    BY <2>4 DEF WaitEnds, objectVars, clientVars
  <2>5. CASE BuildArray(Reader)
    BY <2>5 DEF BuildArray, Unrendered, channelVars, objectVars, clientVars
  <2>6. CASE UpdateBookmark(Reader)
    BY <2>6 DEF UpdateBookmark, channelVars, clientVars
  <2>7. CASE SaveBookmark(Reader)
    BY <2>7 DEF SaveBookmark, channelVars, objectVars, clientVars, NoMark
  <2>8. CASE Deliver(Reader)
    BY <2>8 DEF Deliver, channelVars, objectVars
  <2>9. CASE Persist(Reader)
    BY <2>9 DEF Persist, channelVars, objectVars, NoMark
  <2>10. QED
    BY <1>6, <2>1, <2>2, <2>3, <2>4, <2>5, <2>6, <2>7, <2>8, <2>9 DEF ReaderStep
<1>7. CASE UNCHANGED vars
  BY <1>7 DEF vars, channelVars, objectVars, threadVars, clientVars
<1>8. QED
  BY <1>1, <1>2, <1>3, <1>4, <1>5, <1>6, <1>7 DEF Next

LEMMA OneInvariant ==
    ASSUME OneThread
    PROVE  Spec => []OneInv
<1>1. Init => OneInv
  <2> SUFFICES ASSUME Init, TypeOK PROVE OneInv
    BY TypeInit
  <2>1. Reader \in Readers
    BY ConstantsAssumption DEF Reader
  <2> QED
    BY <2>1 DEF Init, OneInv, Holding, NoMark
<1>2. OneInv /\ TypeOK' /\ [Next]_vars => OneInv'
  BY OneStep
<1>3. QED
  BY <1>1, <1>2, TypeCorrect, PTL DEF Spec

\* One thread that stores the last slot of each array after it has used the
\* others never resumes past an event it has not been given, whatever failed,
\* crashed or was closed in between.
THEOREM NothingIsLost ==
    ASSUME OneThread
    PROVE  Spec => []NothingLost
<1>1. OneInv => NothingLost
  <2>1. Reader \in Readers
    BY ConstantsAssumption DEF Reader
  <2>2. QED
    BY ConstantsAssumption, <2>1 DEF OneInv, TypeOK, NothingLost, Events
<1>2. QED
  BY <1>1, OneInvariant, PTL

-----------------------------------------------------------------------------
(* Refinement of EventFeed.                                                *)

LEMMA FeedStep ==
    ASSUME OneThread
    PROVE  OneInv /\ OneInv' /\ [Next]_vars => [Feed!Next]_Feed!vars
<1> SUFFICES ASSUME OneInv, OneInv', [Next]_vars PROVE [Feed!Next]_Feed!vars
  OBVIOUS
<1>0. Reader \in Readers /\ \A r \in Readers : r = Reader
  BY ConstantsAssumption DEF OneThread, Reader
<1>d. Delivered = IF pc[Reader] \in Holding THEN batch[Reader].lo - 1 ELSE cursor
  BY <1>0 DEF Delivered, InFlight, Holding, Events, OneInv, TypeOK
<1>e. Delivered' = IF pc'[Reader] \in Holding THEN batch'[Reader].lo - 1 ELSE cursor'
  BY <1>0 DEF Delivered, InFlight, Holding, Events, OneInv, TypeOK
<1> HIDE DEF Reader, Delivered
<1> USE ConstantsAssumption, <1>0, <1>d, <1>e DEF OneInv, TypeOK, Holding
<1>1. CASE Write
  <2>1. Feed!Publish
    BY <1>1 DEF Write, Feed!Publish, Handed, objectVars, threadVars, clientVars
  <2>2. QED
    BY <2>1 DEF Feed!Next
<1>2. CASE Subscribe \/ Crash
  <2>1. Feed!Restart
    BY <1>2 DEF Subscribe, Crash, AllIdle, Feed!Restart, Handed, threadVars, clientVars
  <2>2. QED
    BY <2>1 DEF Feed!Next
<1>3. CASE SubscribeFails \/ Close \/ UNCHANGED vars
  BY <1>3 DEF SubscribeFails, Close, vars, Feed!vars, Handed,
              channelVars, objectVars, threadVars, clientVars
<1>4. ASSUME ReaderStep(Reader) PROVE [Feed!Next]_Feed!vars
  <2>1. CASE ReadCall(Reader) \/ EvtNextNone(Reader) \/ WaitEnds(Reader)
    BY <2>1 DEF ReadCall, EvtNextNone, WaitEnds, Feed!vars, Handed,
                channelVars, objectVars, clientVars
  <2>2. CASE BuildArray(Reader) \/ UpdateBookmark(Reader) \/ SaveBookmark(Reader)
    BY <2>2 DEF BuildArray, UpdateBookmark, SaveBookmark, Feed!vars, Handed,
                channelVars, objectVars, clientVars
  <2>3. CASE EvtNextSome(Reader)
    <3>1. CASE cursor < written - Retention
      <4>1. Delivered' = written - Retention /\ Delivered = cursor
        BY <2>3, <3>1 DEF EvtNextSome, FirstAvailable
      <4>2. Feed!PassOver
        BY <2>3, <3>1, <4>1 DEF EvtNextSome, Feed!PassOver, Feed!Discarded, Handed,
                                channelVars, clientVars
      <4>3. QED
        BY <4>2 DEF Feed!Next
    <3>2. CASE ~(cursor < written - Retention)
      BY <2>3, <3>2 DEF EvtNextSome, FirstAvailable, Feed!vars, Handed,
                        channelVars, clientVars
    <3>3. QED
      BY <3>1, <3>2
  <2>4. CASE Deliver(Reader)
    <3>1. Handed' = Handed \union ((Delivered + 1) .. cursor)
      BY <2>4 DEF Deliver, Handed, Events
    <3>2. Feed!Deliver
      BY <2>4, <3>1 DEF Deliver, Feed!Deliver, channelVars, objectVars
    <3>3. QED
      BY <3>2 DEF Feed!Next
  <2>5. CASE Persist(Reader)
    <3>1. Feed!Acknowledge
      BY <2>5 DEF Persist, Feed!Acknowledge, Handed, channelVars, objectVars, NoMark
    <3>2. QED
      BY <3>1 DEF Feed!Next
  <2>6. QED
    BY <1>4, <2>1, <2>2, <2>3, <2>4, <2>5 DEF ReaderStep
<1>5. QED
  BY <1>1, <1>2, <1>3, <1>4 DEF Next

\* One thread's EventLogApi object, with its crashes, failures and discarded
\* records, implements the in-order, at-least-once feed of EventFeed.
THEOREM Refinement ==
    ASSUME OneThread
    PROVE  Spec => ImplementsFeed
<1>1. Init => Feed!Init
  BY ConstantsAssumption DEF Init, Feed!Init, Delivered, InFlight, Reader, Handed
<1>2. OneInv /\ OneInv' /\ [Next]_vars => [Feed!Next]_Feed!vars
  BY FeedStep
<1>3. QED
  BY <1>1, <1>2, OneInvariant, PTL DEF Spec, ImplementsFeed, Feed!Spec

\* The state of the feed: it delivers no further than what is published, and
\* what it has delivered it has handed over or the channel has discarded.
FeedInv ==
    /\ Feed!TypeOK
    /\ \A e \in 1 .. Delivered : e \in Handed \/ Feed!Discarded(e)

\* Whatever implements the feed loses nothing on resume: what EventFeed
\* promises is enough, and no other invariant of the object is needed for it.
THEOREM AckedIsHanded == ImplementsFeed => []NothingLost
<1> USE ConstantsAssumption DEF ConstantsAssumption
<1>1. Feed!Init => FeedInv
  BY DEF Feed!Init, FeedInv, Feed!TypeOK
<1>2. FeedInv /\ [Feed!Next]_Feed!vars => FeedInv'
  <2> SUFFICES ASSUME FeedInv, [Feed!Next]_Feed!vars PROVE FeedInv'
    OBVIOUS
  <2> HIDE DEF Delivered, Handed
  <2> USE DEF FeedInv, Feed!TypeOK, Feed!Discarded
  <2>1. CASE Feed!Publish
    BY <2>1 DEF Feed!Publish
  <2>2. CASE Feed!PassOver
    <3>1. PICK last \in (Delivered + 1) .. written : Delivered' = last /\ Feed!Discarded(last)
      BY <2>2 DEF Feed!PassOver
    <3>2. \A e \in (Delivered + 1) .. last : Feed!Discarded(e)
      BY <3>1
    <3>3. UNCHANGED <<written, persisted, Handed>>
      BY <2>2 DEF Feed!PassOver
    <3>4. Feed!TypeOK'
      BY <3>1, <3>3
    <3>5. \A e \in 1 .. last : e \in Handed \/ Feed!Discarded(e)
      BY <3>1, <3>2
    <3>6. QED
      BY <3>1, <3>3, <3>4, <3>5
  <2>3. CASE Feed!Deliver
    BY <2>3 DEF Feed!Deliver
  <2>4. CASE Feed!Acknowledge
    BY <2>4 DEF Feed!Acknowledge
  <2>5. CASE Feed!Restart
    BY <2>5 DEF Feed!Restart
  <2>6. CASE UNCHANGED Feed!vars
    BY <2>6 DEF Feed!vars
  <2>7. QED
    BY <2>1, <2>2, <2>3, <2>4, <2>5, <2>6 DEF Feed!Next
<1>3. FeedInv => Feed!AckedWasHanded
  BY DEF FeedInv, Feed!TypeOK, Feed!AckedWasHanded
<1>4. Feed!AckedWasHanded => NothingLost
  BY DEF Feed!AckedWasHanded, Feed!Discarded, NothingLost, Discarded
<1>5. QED
  BY <1>1, <1>2, <1>3, <1>4, PTL DEF ImplementsFeed, Feed!Spec
=============================================================================

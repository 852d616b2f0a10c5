-------------------------- MODULE EventSubscription --------------------------
(***************************************************************************)
(* One EventLogApi object of araqne-winapi: the native functions           *)
(* subscribe, read and close of eventLogApi.c, the Java fields handle and  *)
(* timeout that guard them, the threads of the client that share the       *)
(* object (neither half takes a lock), and around them the event channel,  *)
(* the auto-reset event the service signals, and the client's stored       *)
(* bookmark, which survives a crash of the process.                        *)
(*                                                                         *)
(* Events are numbered in the order the channel receives them.  The        *)
(* subscription hands out each event once, in order; a bookmark is the     *)
(* number of the event it was taken at.                                    *)
(*                                                                         *)
(* After close the Java field keeps the address of the freed structure.    *)
(* A call that goes on using it either finds the closed handles, whose     *)
(* calls fail, or ends the process: the first is HandleValue = "freed"     *)
(* below, the second is the action Crash.                                  *)
(***************************************************************************)
EXTENDS Integers

CONSTANTS
    Readers,    \* client threads that call read() on the shared object
    MaxLog,     \* events one EvtNext returns at most (maxlog, 128)
    Retention,  \* newest events the channel keeps
    MaxEvents,  \* bound: events the channel receives in a behaviour
    Timeouts    \* values of the constructor's timeout that are explored

ASSUME ConstantsAssumption ==
    /\ Readers # {}
    /\ MaxLog \in Nat \ {0}
    /\ Retention \in Nat \ {0}
    /\ MaxEvents \in Nat
    /\ Timeouts \subseteq {"zero", "finite", "infinite"}

VARIABLES
    written,    \* the channel has received events 1 .. written
    signal,     \* the auto-reset event hSignal
    late,       \* an EvtNext gave nothing although there were events, and since
                \*   then none has given any and no new event has come (history)
    handle,     \* what the Java field handle refers to
    timeout,    \* the Java field timeout
    cursor,     \* last event that hSubscription has handed out
    bookmark,   \* event hBookmark points at, 0 for an empty bookmark
    pc,         \* pc[r]: where thread r is in read() and in its use of it
    mayWait,    \* mayWait[r]: the local copy of timeout is not yet 0
    batch,      \* batch[r]: the events[] of r's EvtNext
    blanks,     \* blanks[r]: events of the batch left as two null slots
    mark,       \* mark[r]: last slot of the array that read() returns
    seen,       \* events the client was given the text of
    blank,      \* events the client was given null slots for
    persisted   \* bookmark the client has stored, 0 when it has none

channelVars == <<written, signal, late>>
objectVars  == <<handle, timeout, cursor, bookmark>>
threadVars  == <<pc, mayWait, batch, blanks, mark>>
clientVars  == <<seen, blank, persisted>>
vars == <<channelVars, objectVars, threadVars, clientVars>>

HandleValue == {"none", "open", "freed"}
Location == {"idle", "next", "wait", "build", "update", "save", "deliver", "persist"}
NoBatch == [lo |-> 1, hi |-> 0]
NoMark == -1  \* a null bookmark string

Events(b) == b.lo .. b.hi
Discarded(e) == e <= written - Retention
Pending == written > cursor

TypeOK ==
    /\ written \in 0 .. MaxEvents
    /\ signal \in BOOLEAN
    /\ late \in BOOLEAN
    /\ handle \in HandleValue
    /\ timeout \in Timeouts \union {"zero"}
    /\ cursor \in 0 .. MaxEvents
    /\ bookmark \in 0 .. MaxEvents
    /\ pc \in [Readers -> Location]
    /\ mayWait \in [Readers -> BOOLEAN]
    /\ batch \in [Readers -> [lo : Nat \ {0}, hi : 0 .. MaxEvents]]
    /\ blanks \in [Readers -> SUBSET (1 .. MaxEvents)]
    /\ mark \in [Readers -> {NoMark} \union (0 .. MaxEvents)]
    /\ seen \in SUBSET (1 .. MaxEvents)
    /\ blank \in SUBSET (1 .. MaxEvents)
    /\ persisted \in 0 .. MaxEvents

Init ==
    /\ written = 0
    /\ signal = FALSE
    /\ late = FALSE
    /\ handle = "none"
    /\ timeout = "zero"
    /\ cursor = 0
    /\ bookmark = 0
    /\ pc = [r \in Readers |-> "idle"]
    /\ mayWait = [r \in Readers |-> FALSE]
    /\ batch = [r \in Readers |-> NoBatch]
    /\ blanks = [r \in Readers |-> {}]
    /\ mark = [r \in Readers |-> NoMark]
    /\ seen = {}
    /\ blank = {}
    /\ persisted = 0

-----------------------------------------------------------------------------
(* The channel.                                                            *)

\* The service stores an event and signals the event object it was given.
Write ==
    /\ written < MaxEvents
    /\ written' = written + 1
    /\ signal' = (signal \/ handle = "open")
    /\ late' = FALSE
    /\ UNCHANGED <<objectVars, threadVars, clientVars>>

-----------------------------------------------------------------------------
(* The constructor and close().                                            *)

AllIdle == \A r \in Readers : pc[r] = "idle"

\* Faulty Subscribe: the subscription starts at the oldest record.
SubscribeAtOldest ==
    /\ handle # "open"
    /\ AllIdle
    /\ handle' = "open"
    /\ timeout' \in Timeouts
    /\ bookmark' = persisted
    /\ cursor' = 0
    /\ signal' \in BOOLEAN
    /\ late' = FALSE
    /\ UNCHANGED <<written, threadVars, clientVars>>

\* Faulty Subscribe: the subscription starts with future events.
SubscribeToFuture ==
    /\ handle # "open"
    /\ AllIdle
    /\ handle' = "open"
    /\ timeout' \in Timeouts
    /\ bookmark' = persisted
    /\ cursor' = written
    /\ signal' \in BOOLEAN
    /\ late' = FALSE
    /\ UNCHANGED <<written, threadVars, clientVars>>

\* new EventLogApi(..., persisted, t) when every native step succeeds.  The
\* subscription starts after the bookmark; the service may signal at once.
Subscribe ==
    /\ handle # "open"
    /\ AllIdle
    /\ handle' = "open"
    /\ timeout' \in Timeouts
    /\ bookmark' = persisted
    /\ cursor' = persisted
    /\ signal' \in BOOLEAN
    /\ late' = FALSE
    /\ UNCHANGED <<written, threadVars, clientVars>>

\* A step of subscribe fails: its cleanup closes what it had opened and the
\* constructor leaves handle 0 without an exception.
SubscribeFails ==
    /\ handle # "open"
    /\ AllIdle
    /\ handle' = "none"
    /\ UNCHANGED <<channelVars, timeout, cursor, bookmark, threadVars, clientVars>>

\* close() by any thread of the client, also while others are inside read().
Close ==
    /\ handle = "open"
    /\ handle' = "freed"
    /\ signal' = FALSE
    /\ late' = FALSE
    /\ UNCHANGED <<written, timeout, cursor, bookmark, threadVars, clientVars>>

-----------------------------------------------------------------------------
(* read(), one action per native call that other threads can see.          *)

\* Faulty ReadCall: the wait comes before the first EvtNext.
ReadCallWaitsFirst(r) ==
    /\ pc[r] = "idle"
    /\ handle # "none"
    /\ pc' = [pc EXCEPT ![r] = IF timeout = "zero" THEN "next" ELSE "wait"]
    /\ mayWait' = [mayWait EXCEPT ![r] = timeout # "zero"]
    /\ UNCHANGED <<channelVars, objectVars, batch, blanks, mark, clientVars>>

\* read(): a null handle returns null at once and changes nothing, so only
\* the call that enters the native function is a step.
ReadCall(r) ==
    /\ pc[r] = "idle"
    /\ handle # "none"
    /\ pc' = [pc EXCEPT ![r] = "next"]
    /\ mayWait' = [mayWait EXCEPT ![r] = timeout # "zero"]
    /\ UNCHANGED <<channelVars, objectVars, batch, blanks, mark, clientVars>>

\* First event the subscription still can hand out, and the last of a batch.
FirstAvailable == IF cursor < written - Retention THEN written - Retention + 1
                                                   ELSE cursor + 1
LastOfBatch == IF written < FirstAvailable + MaxLog - 1 THEN written
                                                        ELSE FirstAvailable + MaxLog - 1

\* EvtNext, with a time limit of 1 ms, gives the next events in time.
EvtNextSome(r) ==
    /\ pc[r] = "next"
    /\ handle = "open"
    /\ Pending
    /\ batch' = [batch EXCEPT ![r] = [lo |-> FirstAvailable, hi |-> LastOfBatch]]
    /\ cursor' = LastOfBatch
    /\ late' = FALSE
    /\ pc' = [pc EXCEPT ![r] = "build"]
    /\ UNCHANGED <<written, signal, handle, timeout, bookmark, mayWait, blanks, mark, clientVars>>

\* EvtNext gives nothing: there is nothing, the time limit is over first, or it
\* fails (on a closed handle it always does).  Its result is not looked at: in
\* each case the thread waits if it has not waited yet, else read returns null.
EvtNextNone(r) ==
    /\ pc[r] = "next"
    /\ late' = (handle = "open" /\ Pending)
    /\ pc' = [pc EXCEPT ![r] = IF mayWait[r] THEN "wait" ELSE "idle"]
    /\ UNCHANGED <<written, signal, objectVars, mayWait, batch, blanks, mark, clientVars>>

\* WaitForSingleObject: the signal is taken (auto-reset), the time is over, or
\* the object was closed under the wait, which then may return.
WaitEnds(r) ==
    /\ pc[r] = "wait"
    /\ \/ signal /\ signal' = FALSE
       \/ (timeout = "finite" \/ handle # "open") /\ UNCHANGED signal
    /\ mayWait' = [mayWait EXCEPT ![r] = FALSE]
    /\ pc' = [pc EXCEPT ![r] = "next"]
    /\ UNCHANGED <<written, late, objectVars, batch, blanks, mark, clientVars>>

\* GetXMLString, GetProvider and GetMessageString: any event of a batch may be
\* one whose XML cannot be rendered. (Without a provider or a message the slot
\* after the XML stays null, and the XML is there all the same.)
Unrendered(b) == SUBSET Events(b)

\* Faulty BuildArray: an event that cannot be rendered ends the call.
BuildArrayGivesUp(r) ==
    /\ pc[r] = "build"
    /\ \E failed \in Unrendered(batch[r]) :
           /\ blanks' = [blanks EXCEPT ![r] = failed]
           /\ pc' = [pc EXCEPT ![r] = IF failed = {} THEN "update" ELSE "idle"]
    /\ UNCHANGED <<channelVars, objectVars, mayWait, batch, mark, clientVars>>

\* The array is filled; an event whose XML cannot be rendered is skipped.
BuildArray(r) ==
    /\ pc[r] = "build"
    /\ \E failed \in Unrendered(batch[r]) :
           blanks' = [blanks EXCEPT ![r] = failed]
    /\ pc' = [pc EXCEPT ![r] = "update"]
    /\ UNCHANGED <<channelVars, objectVars, mayWait, batch, mark, clientVars>>

\* Faulty UpdateBookmark: events[out] instead of events[out - 1].
UpdateBookmarkPastEnd(r) ==
    /\ pc[r] = "update"
    /\ \/ handle = "open" /\ bookmark' = batch[r].hi + 1
       \/ UNCHANGED bookmark
    /\ pc' = [pc EXCEPT ![r] = "save"]
    /\ UNCHANGED <<channelVars, handle, timeout, cursor, mayWait, batch, blanks, mark, clientVars>>

\* EvtUpdateBookmark, whose result is ignored.
UpdateBookmark(r) ==
    /\ pc[r] = "update"
    /\ \/ handle = "open" /\ bookmark' = batch[r].hi
       \/ UNCHANGED bookmark
    /\ pc' = [pc EXCEPT ![r] = "save"]
    /\ UNCHANGED <<channelVars, handle, timeout, cursor, mayWait, batch, blanks, mark, clientVars>>

\* SaveBookmark: the text of the shared bookmark as it is now, or null.
SaveBookmark(r) ==
    /\ pc[r] = "save"
    /\ \/ handle = "open" /\ mark' = [mark EXCEPT ![r] = bookmark]
       \/ mark' = [mark EXCEPT ![r] = NoMark]
    /\ pc' = [pc EXCEPT ![r] = "deliver"]
    /\ UNCHANGED <<channelVars, objectVars, mayWait, batch, blanks, clientVars>>

-----------------------------------------------------------------------------
(* The client: it uses the events, then stores the bookmark.               *)

Deliver(r) ==
    /\ pc[r] = "deliver"
    /\ seen' = seen \union (Events(batch[r]) \ blanks[r])
    /\ blank' = blank \union blanks[r]
    /\ pc' = [pc EXCEPT ![r] = "persist"]
    /\ UNCHANGED <<channelVars, objectVars, mayWait, batch, blanks, mark, persisted>>

Persist(r) ==
    /\ pc[r] = "persist"
    /\ persisted' = IF mark[r] = NoMark THEN persisted ELSE mark[r]
    /\ pc' = [pc EXCEPT ![r] = "idle"]
    /\ batch' = [batch EXCEPT ![r] = NoBatch]
    /\ blanks' = [blanks EXCEPT ![r] = {}]
    /\ mark' = [mark EXCEPT ![r] = NoMark]
    /\ UNCHANGED <<channelVars, objectVars, mayWait, seen, blank>>

\* The process ends; what the client stored and the channel remain.
Crash ==
    /\ handle' = "none"
    /\ timeout' = "zero"
    /\ signal' = FALSE
    /\ late' = FALSE
    /\ cursor' = persisted
    /\ bookmark' = persisted
    /\ pc' = [r \in Readers |-> "idle"]
    /\ mayWait' = [r \in Readers |-> FALSE]
    /\ batch' = [r \in Readers |-> NoBatch]
    /\ blanks' = [r \in Readers |-> {}]
    /\ mark' = [r \in Readers |-> NoMark]
    /\ UNCHANGED <<written, clientVars>>

-----------------------------------------------------------------------------
ReaderStep(r) ==
    \/ ReadCall(r)
    \/ EvtNextSome(r)
    \/ EvtNextNone(r)
    \/ WaitEnds(r)
    \/ BuildArray(r)
    \/ UpdateBookmark(r)
    \/ SaveBookmark(r)
    \/ Deliver(r)
    \/ Persist(r)

Next ==
    \/ Write
    \/ Subscribe
    \/ SubscribeFails
    \/ Close
    \/ Crash
    \/ \E r \in Readers : ReaderStep(r)

Spec == Init /\ [][Next]_vars

\* A client thread that calls read() in a loop is scheduled, a wait whose signal
\* is set or whose time is over returns, and the service does not let every
\* EvtNext for events that it has come away empty-handed.
FairSpec ==
    /\ Spec
    /\ \A r \in Readers : WF_vars(ReaderStep(r)) /\ SF_vars(EvtNextSome(r))

-----------------------------------------------------------------------------
(* Properties.                                                             *)

InFlight(r) == IF pc[r] \in {"build", "update", "save", "deliver"}
               THEN Events(batch[r]) ELSE {}

Handed == seen \union blank

\* Every thread waits on a signal that is not set while the subscription holds
\* an event.
Asleep ==
    /\ handle = "open"
    /\ Pending
    /\ \A r \in Readers : pc[r] = "wait"
    /\ ~signal

\* The threads of an object do not all sleep over an event: not one that comes
\* between a thread's EvtNext and its wait, nor one whose signal another thread
\* took.  The only way there is an EvtNext that gave nothing although it could
\* have, after the last event had come (its result is not read,
\* eventLogApi.c:556), and the next event ends it.
NoLostWakeup == Asleep => late

\* A bookmark, rendered or stored, is never ahead of what EvtNext gave out, so
\* a subscription resumed from it cannot start beyond an unread event of the
\* channel (EvtUpdateBookmark and SaveBookmark after EvtNext).
BookmarkBehindCursor ==
    /\ cursor <= written
    /\ bookmark <= cursor
    /\ persisted <= cursor
    /\ \A r \in Readers : mark[r] <= cursor

\* An event that a subscription resumed from the stored bookmark will not hand
\* out again, that no array holds, and that the client was never given.
Lost(e) ==
    /\ e <= persisted
    /\ e \notin Handed
    /\ ~Discarded(e)
    /\ \A r \in Readers : e \notin InFlight(r)

\* Threads that share an object may store bookmarks ahead of arrays that others
\* have still to return, or behind them; but an event is lost by this only if
\* the process ends in between, and by no close, failure or order of the calls
\* (the bookmark of read() against its array).
LossNeedsCrash == [][\A e \in 1 .. MaxEvents : Lost(e)' => Lost(e) \/ Crash]_vars

\* With one thread, an event at or before the stored bookmark was given to the
\* client, as text or as two null slots, unless the channel discarded it: a
\* crash, a close or a failure at any point loses nothing on resume.
NothingLost == \A e \in 1 .. persisted : e \in Handed \/ Discarded(e)

\* An event that an open subscription has yet to hand out reaches the client,
\* unless the channel discards it or the subscription ends; or read, without a
\* time limit of its own, waits for the event after it, because EvtNext gave
\* nothing in time and the signal had been taken.
EventuallyHanded ==
    \A e \in 1 .. MaxEvents :
        (handle = "open" /\ cursor < e /\ e <= written)
            ~> \/ e \in Handed \/ Discarded(e)
               \/ handle # "open"
               \/ timeout = "infinite" /\ late /\ Asleep

-----------------------------------------------------------------------------
(* One thread's object implements the feed.                                *)

Reader == CHOOSE r \in Readers : TRUE

\* The feed has delivered what precedes the array still on its way.
Delivered == IF InFlight(Reader) = {} THEN cursor ELSE batch[Reader].lo - 1

Feed == INSTANCE EventFeed WITH
            published <- written,
            delivered <- Delivered,
            acked     <- persisted,
            handed    <- Handed

\* subscribe, read and close, used by one thread that stores the last slot of
\* each array after it has used the others, deliver what EventFeed promises.
ImplementsFeed == Feed!Spec
=============================================================================

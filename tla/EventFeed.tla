------------------------------ MODULE EventFeed ------------------------------
(***************************************************************************)
(* What a client of org.araqne.winapi.EventLogApi relies on, with no       *)
(* handle, signal, bookmark object or thread in sight: the events of a     *)
(* channel are handed over in order, each batch starts where the previous  *)
(* one ended, and a position that the client has acknowledged (persisted)  *)
(* is where the feed resumes after the client stops for any reason.  An    *)
(* event is passed over only if the channel itself has discarded it.       *)
(***************************************************************************)
EXTENDS Integers

CONSTANT Retention  \* how many of its newest events the channel keeps

VARIABLES
    published,  \* events are numbered 1 .. published
    delivered,  \* last event handed over since the feed was (re)started
    acked,      \* position the client has stored
    handed      \* every event handed over so far

vars == <<published, delivered, acked, handed>>

TypeOK ==
    /\ published \in Nat
    /\ delivered \in 0 .. published
    /\ acked \in 0 .. delivered
    /\ handed \subseteq 1 .. published

Init ==
    /\ published = 0
    /\ delivered = 0
    /\ acked = 0
    /\ handed = {}

\* The channel no longer holds event e.
Discarded(e) == e <= published - Retention

Publish ==
    /\ published' = published + 1
    /\ UNCHANGED <<delivered, acked, handed>>

\* The next event was discarded before it could be handed over.
PassOver ==
    \E last \in (delivered + 1) .. published :
        /\ Discarded(last)
        /\ delivered' = last
        /\ UNCHANGED <<published, acked, handed>>

\* A batch that starts right after the previous one.
Deliver ==
    \E last \in (delivered + 1) .. published :
        /\ delivered' = last
        /\ handed' = handed \union ((delivered + 1) .. last)
        /\ UNCHANGED <<published, acked>>

Acknowledge ==
    /\ acked' \in acked .. delivered
    /\ UNCHANGED <<published, delivered, handed>>

\* The client is stopped and started again, or opens the feed anew.
Restart ==
    /\ delivered' = acked
    /\ UNCHANGED <<published, acked, handed>>

Next == Publish \/ PassOver \/ Deliver \/ Acknowledge \/ Restart

Spec == Init /\ [][Next]_vars

\* Whatever the client acknowledged, it has been given, unless the channel
\* discarded it first.
AckedWasHanded == \A e \in 1 .. acked : e \in handed \/ Discarded(e)
=============================================================================

-------------------------------- MODULE Query --------------------------------
(***************************************************************************)
(* What a caller may expect of a question that takes the library more than *)
(* one look at something that changes: an answer that was true at one      *)
(* moment between the question and the answer, or a refusal. CounterNames  *)
(* and EventRecord implement it.                                           *)
(***************************************************************************)
CONSTANTS
    Contents,   \* what may be asked about
    Refusals,   \* answers that say nothing of it
    NoReply     \* there is no answer

VARIABLES
    phase,      \* "idle", "asked" or "answered"
    content,    \* as it is now
    offered,    \* every content since the question
    reply       \* the answer

Init ==
    /\ phase = "idle"
    /\ content \in Contents
    /\ offered = {}
    /\ reply = NoReply

Ask ==
    /\ phase = "idle"
    /\ phase' = "asked"
    /\ content' \in Contents
    /\ offered' = {content'}
    /\ reply' = NoReply

Change ==
    /\ phase = "asked"
    /\ content' \in Contents
    /\ offered' = offered \union {content'}
    /\ UNCHANGED <<phase, reply>>

Answer ==
    /\ phase = "asked"
    /\ phase' = "answered"
    /\ reply' \in offered \union Refusals
    /\ UNCHANGED <<content, offered>>

Forget ==
    /\ phase = "answered"
    /\ phase' = "idle"
    /\ content' \in Contents
    /\ offered' = {}
    /\ reply' = NoReply

Next == Ask \/ Change \/ Answer \/ Forget

Spec == Init /\ [][Next]_<<phase, content, offered, reply>>
=============================================================================

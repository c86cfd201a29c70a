---------------------------- MODULE ReplyPromise ----------------------------
(***************************************************************************)
(* What the reply fence promises a contact, with none of the files that    *)
(* keep the promise: the life of one reply per request id, and how many    *)
(* copies of it the channel took.  ReplyFence implements this module.      *)
(***************************************************************************)
EXTENDS Naturals

CONSTANTS
    Requests,   \* request ids
    Managed,    \* those answered in the management conversation
    Claimed     \* those that carry an action claim of the records service

VARIABLES
    status,     \* the life of each reply
    copies      \* copies the channel took: none, one, or 2 for several

vars == <<status, copies>>

Settled  == {"sent", "unknown", "failed"}

\* Counting copies stops at two: the promise only tells none, one and more apart.
OneMore(n) == IF n = 0 THEN 1 ELSE 2

Init == /\ status = [r \in Requests |-> "absent"]
        /\ copies = [r \in Requests |-> 0]

\* A reply is written once; in the management conversation it is held.
Write(r) ==
    /\ status[r] = "absent"
    /\ status' = [status EXCEPT ![r] =
                    IF r \in Managed THEN "pending-teach-check" ELSE "pending"]
    /\ UNCHANGED copies

\* A held reply is let go by the turn that wrote it.
LetGo(r) ==
    /\ status[r] = "pending-teach-check"
    /\ status' = [status EXCEPT ![r] = "pending"]
    /\ UNCHANGED copies

\* The channel takes a copy of a reply that is queued and nothing else.  Of a
\* reply with a claim it takes one.
Take(r) ==
    /\ status[r] = "pending"
    /\ r \in Claimed => copies[r] = 0
    /\ copies' = [copies EXCEPT ![r] = OneMore(@)]
    /\ UNCHANGED status

\* A queued reply is settled once, and sent only when a copy was taken.
Settle(r, s) ==
    /\ status[r] = "pending"
    /\ s = "sent" => copies[r] > 0
    /\ status' = [status EXCEPT ![r] = s]
    /\ UNCHANGED copies

Next == \E r \in Requests :
          \/ Write(r) \/ LetGo(r) \/ Take(r)
          \/ \E s \in Settled : Settle(r, s)

Spec == Init /\ [][Next]_vars
=============================================================================

------------------------------ MODULE Typing ------------------------------
(***************************************************************************)
(* The signal that a turn is running (runtime/typing.ts): one handle, its   *)
(* timer, and the calls it has made to a provider that takes each of them   *)
(* in its own time, or never answers.                                       *)
(***************************************************************************)
EXTENDS Integers, FiniteSets

CONSTANT MaxCalls  \* bound: the calls one handle makes

VARIABLES
    started, ended, \* the handle is there; state.stopped
    inFlight,
    calls,    \* on their way: [n, asked, landed, bounded]
    made,
    shown,    \* what the provider was last told
    refused   \* a "paused" came to nothing at the provider

typingVars == <<started, ended, inFlight, calls, made, shown, refused>>

Init ==
    /\ started = FALSE /\ ended = FALSE /\ inFlight = FALSE /\ calls = {} /\ made = 0
    /\ shown = "paused" /\ refused = FALSE

Issue(asked, others) ==
    /\ made < MaxCalls /\ made' = made + 1
    /\ calls' = others \cup {[n |-> made, asked |-> asked, landed |-> FALSE, bounded |-> asked = "composing"]}

Begin ==
    /\ ~started /\ started' = TRUE /\ inFlight' = TRUE /\ Issue("composing", calls)
    /\ UNCHANGED <<ended, shown, refused>>

(* The interval: one call at a time, but for those given up on.             *)
Tick ==
    /\ started /\ ~ended /\ ~inFlight /\ inFlight' = TRUE /\ Issue("composing", calls)
    /\ UNCHANGED <<started, ended, shown, refused>>

Stop ==
    /\ started /\ ~ended /\ ended' = TRUE /\ Issue("paused", calls)
    /\ UNCHANGED <<started, inFlight, shown, refused>>

Bound(c) ==
    /\ c \in calls /\ c.bounded
    /\ calls' = (calls \ {c}) \cup {[c EXCEPT !.bounded = FALSE]} /\ inFlight' = FALSE
    /\ UNCHANGED <<started, ended, made, shown, refused>>

Land(c) ==
    /\ c \in calls /\ ~c.landed
    /\ calls' = (calls \ {c}) \cup {[c EXCEPT !.landed = TRUE]} /\ shown' = c.asked
    /\ UNCHANGED <<started, ended, inFlight, made, refused>>

AfterStopNothing(c) == FALSE    \* a slip: a late answer is taken for the end of it
Repeats(c) == c.asked = "composing" /\ ended

(* The call answers, or fails before or after the provider took it.         *)
Settle(c) ==
    /\ c \in calls
    /\ inFlight' = IF c.asked = "composing" THEN FALSE ELSE inFlight
    /\ refused' = (refused \/ (c.asked = "paused" /\ ~c.landed))
    /\ IF Repeats(c) THEN Issue("paused", calls \ {c}) ELSE calls' = calls \ {c} /\ UNCHANGED made
    /\ UNCHANGED <<started, ended, shown>>

Next == Begin \/ Tick \/ Stop \/ \E c \in calls : Bound(c) \/ Land(c) \/ Settle(c)

Spec == Init /\ [][Next]_typingVars

(* When the handle is stopped and every call has answered, the provider was *)
(* not last told that the agent is typing (typing.ts:19), unless it refused *)
(* to be told otherwise.                                                    *)
EndsPaused == ended /\ calls = {} => shown = "paused" \/ refused
=============================================================================

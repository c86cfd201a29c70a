------------------------------- MODULE Turns --------------------------------
(***************************************************************************)
(* The records service's queue of turns (runtime/records-tool.ts): one turn *)
(* is current, the others wait in the order they asked; a turn whose        *)
(* runtime died is passed over; the service drains, and starts again with   *)
(* nothing.  A runtime takes one turn at a time, and a call the service     *)
(* refuses ends its process, whose unit starts it again.                    *)
(***************************************************************************)
EXTENDS Naturals, Sequences, SequencesExt

CONSTANTS Runtimes,    \* the processes that ask for turns
          MaxReleases, \* bound: the releases of one runtime
          MaxDeaths,   \* bound: deaths of runtimes the service did not cause
          MaxStops     \* bound: stops and kills of the service

VARIABLES
    service,  \* "starting", "up", "draining" or "down"
    active,   \* the current turn's context, or Nobody
    waiting,  \* the contexts that wait
    at,       \* per runtime: where its release is
    rel,      \* per runtime: the release it is at
    older,    \* the runtimes whose turn an earlier run of the service admitted
    deaths, stops

vars == <<service, active, waiting, at, rel, older, deaths, stops>>
queue == <<service, active, waiting>>

(* A context lives while the process generation it names does.              *)
Nobody == [of |-> "nobody", rel |-> 0, live |-> FALSE]
Context(r) == [of |-> r, rel |-> rel[r], live |-> TRUE]
Dead(c, r) == IF c.of = r THEN [c EXCEPT !.live = FALSE] ELSE c

Init ==
    /\ service = "starting" /\ active = Nobody /\ waiting = <<>>
    /\ at = [r \in Runtimes |-> "idle"] /\ rel = [r \in Runtimes |-> 1]
    /\ older = {} /\ deaths = 0 /\ stops = 0

Go(r, there) == at' = [at EXCEPT ![r] = there]

(* The end of a runtime's process: what it had in the queue is dead, and    *)
(* its connections close.                                                   *)
Ends(r) ==
    /\ Go(r, "down")
    /\ active' = Dead(active, r)
    /\ waiting' = [i \in DOMAIN waiting |-> Dead(waiting[i], r)]
    /\ older' = older \ {r}

Die(r) ==
    /\ at[r] # "down" /\ deaths < MaxDeaths /\ deaths' = deaths + 1
    /\ Ends(r)
    /\ UNCHANGED <<service, rel, stops>>

Restart(r) ==
    /\ at[r] = "down" /\ Go(r, "idle")
    /\ UNCHANGED <<queue, rel, older, deaths, stops>>

----------------------------------------------------------------------------
(* A turn asked for, taken and ended.                                       *)

(* syncCollectedOrHold held the release while the service did not answer.   *)
Ask(r) ==
    /\ at[r] = "idle" /\ rel[r] <= MaxReleases /\ service = "up"
    /\ Go(r, "asked")
    /\ UNCHANGED <<queue, rel, older, deaths, stops>>

Known(r) == \E c \in Range(<<active>> \o waiting) : c.of = r /\ c.rel = rel[r]

Start(r) ==
    /\ at[r] = "asked" /\ service = "up" /\ ~Known(r)
    /\ IF active = Nobody THEN active' = Context(r) /\ Go(r, "granted") /\ UNCHANGED waiting
       ELSE waiting' = Append(waiting, Context(r)) /\ Go(r, "queued") /\ UNCHANGED active
    /\ UNCHANGED <<service, rel, older, deaths, stops>>

StartRefused(r) ==
    /\ at[r] = "asked" /\ (service # "up" \/ Known(r))
    /\ Ends(r)
    /\ UNCHANGED <<service, rel, deaths, stops>>

Granted(r) ==
    /\ at[r] = "granted" /\ Go(r, "turn")
    /\ UNCHANGED <<queue, rel, older, deaths, stops>>

TurnDone(r) ==
    /\ at[r] = "turn" /\ Go(r, "ending")
    /\ UNCHANGED <<queue, rel, older, deaths, stops>>

(* The next waiting turn becomes the current one, its runtime alive or not. *)
Advances(alsoAt) ==
    IF waiting = <<>> THEN active' = Nobody /\ at' = alsoAt /\ UNCHANGED waiting
    ELSE LET next == Head(waiting) IN
         /\ active' = next /\ waiting' = Tail(waiting)
         /\ at' = IF next.live THEN [alsoAt EXCEPT ![next.of] = "granted"] ELSE alsoAt

(* A slip: whoever ends a turn ends the current one.                        *)
EndAny(r) ==
    /\ at[r] = "ending" /\ service \in {"up", "draining"} /\ active # Nobody
    /\ Advances([at EXCEPT ![r] = "idle"])
    /\ rel' = [rel EXCEPT ![r] = @ + 1] /\ older' = older \ {r}
    /\ UNCHANGED <<service, deaths, stops>>

End(r) ==
    /\ at[r] = "ending" /\ service \in {"up", "draining"}
    /\ active.of = r /\ active.rel = rel[r]
    /\ Advances([at EXCEPT ![r] = "idle"])
    /\ rel' = [rel EXCEPT ![r] = @ + 1] /\ older' = older \ {r}
    /\ UNCHANGED <<service, deaths, stops>>

(* Refused, or the service does not answer: the turn was taken and the      *)
(* process ends before it closes the release.  The next start closes it if  *)
(* it had a reply and asks again if it had none.                            *)
EndRefused(r) ==
    /\ at[r] = "ending"
    /\ service # "up" \/ active.of # r \/ active.rel # rel[r]
    /\ Ends(r)
    /\ rel' = [rel EXCEPT ![r] = @ + 1] \/ UNCHANGED rel
    /\ UNCHANGED <<service, deaths, stops>>

----------------------------------------------------------------------------
(* The service's own watch, and its ending.                                 *)

Monitor ==
    /\ service = "up" /\ active # Nobody /\ ~active.live
    /\ Advances(at)
    /\ UNCHANGED <<service, rel, older, deaths, stops>>

Cancelled ==
    /\ \E i \in DOMAIN waiting :
         ~waiting[i].live /\ waiting' = RemoveAt(waiting, i)
    /\ UNCHANGED <<service, active, at, rel, older, deaths, stops>>

(* Those who wait are told, and end; the turn that is current goes on.      *)
Rejected == {waiting[i].of : i \in {i \in DOMAIN waiting : waiting[i].live}}

Stops == stops < MaxStops /\ stops' = stops + 1

Drain ==
    /\ service = "up" /\ Stops
    /\ service' = "draining" /\ waiting' = <<>>
    /\ at' = [r \in Runtimes |-> IF r \in Rejected THEN "down" ELSE at[r]]
    /\ UNCHANGED <<active, rel, older, deaths>>

(* The HTTP servers closed, with the answers that were under way.           *)
Drained ==
    /\ service = "draining" /\ service' = "down"
    /\ older' = {r \in Runtimes : at[r] \in {"granted", "turn", "ending"}}
    /\ active' = Nobody
    /\ UNCHANGED <<waiting, at, rel, deaths, stops>>

KillService ==
    /\ service \in {"up", "draining"} /\ Stops
    /\ service' = "down" /\ active' = Nobody /\ waiting' = <<>>
    /\ \E lost \in SUBSET {r \in Runtimes : at[r] = "granted"} :
         LET down == lost \cup Rejected IN
         /\ at' = [r \in Runtimes |-> IF r \in down THEN "down" ELSE at[r]]
         /\ older' = {r \in Runtimes \ down : at[r] \in {"granted", "turn", "ending"}}
    /\ UNCHANGED <<rel, deaths>>

StartService ==
    /\ service = "down" /\ service' = "starting"
    /\ UNCHANGED <<active, waiting, at, rel, older, deaths, stops>>

(* waitForDatabase: the database answers, or the process ends and its unit  *)
(* starts it again.                                                         *)
Ready ==
    /\ service = "starting" /\ service' = "up"
    /\ UNCHANGED <<active, waiting, at, rel, older, deaths, stops>>

NotReady ==
    /\ service = "starting" /\ service' = "down" /\ Stops
    /\ UNCHANGED <<active, waiting, at, rel, older, deaths>>

Runtime(r) == Ask(r) \/ Granted(r) \/ TurnDone(r)
Call(r) == Start(r) \/ StartRefused(r) \/ End(r) \/ EndRefused(r)

Next ==
    \/ \E r \in Runtimes : Runtime(r) \/ Call(r) \/ Die(r) \/ Restart(r)
    \/ Monitor \/ Cancelled
    \/ Drain \/ Drained \/ KillService \/ StartService \/ Ready \/ NotReady

(* A turn ends (the harness has its own limit), calls are answered, the     *)
(* monitor's timer fires, and the units start what ended.                   *)
Fairness ==
    /\ \A r \in Runtimes : WF_vars(Runtime(r)) /\ WF_vars(Call(r)) /\ WF_vars(Restart(r))
    /\ WF_vars(Monitor) /\ WF_vars(Drained) /\ WF_vars(StartService) /\ WF_vars(Ready)

Spec == Init /\ [][Next]_vars /\ Fairness

----------------------------------------------------------------------------
(* What the queue promises.                                                 *)

(* While the service runs, a runtime that is in a turn is the current one,  *)
(* and so no two are (records-tool.ts:148), over deaths, cancelled waits    *)
(* and late ends; a turn an earlier run of the service let in is excepted,  *)
(* which the service no longer knows.                                       *)
TurnIsCurrent == \A r \in Runtimes :
    (at[r] \in {"granted", "turn", "ending"} /\ r \notin older)
        => active.of = r /\ active.rel = rel[r] /\ active.live

(* A release gets its turn in the end, over deaths, a drain and the         *)
(* refusals that come of a context its own dead process left.               *)
EachGetsItsTurn == \A r \in Runtimes : <>(rel[r] > MaxReleases)
=============================================================================

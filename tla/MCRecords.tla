------------------------------ MODULE MCRecords -----------------------------
(* The two parts of the records service, each with its own variables; one  *)
(* of them moves in a behaviour.  The job is an order with a bill: a send,  *)
(* a reminder that leaves the order where it is, a payment that moves both  *)
(* tracks, and a customer's answer and second thoughts, which come by mail. *)
EXTENDS Jobs

MCInitial == [order |-> "new", bill |-> "open"]
MCPlaces == [order |-> {"new", "sent", "done"}, bill |-> {"open", "paid"}]
Move(track, from, to) == [track |-> track, from |-> from, to |-> to]
Step(via, moves, requires, actions) ==
    [via |-> via, moves |-> moves, requires |-> requires, actions |-> actions]

MCSop == [
    send |-> Step("agent_action", <<Move("order", {"new"}, "sent")>>, {}, {"carbon-send", "ledger"}),
    remind |-> Step("agent_action", <<>>, {<<"order", "sent">>}, {"ledger"}),
    settle |-> Step("agent_action", <<Move("bill", {"open"}, "paid"), Move("order", {"sent"}, "done")>>, {}, {"ledger"}),
    answer |-> Step("mail", <<Move("order", {"new", "sent"}, "done"), Move("order", {"done"}, "new")>>, {}, {})]
MCCauses == {-1}

CONSTANTS Runtimes, MaxReleases, MaxRuntimeDeaths, MaxStops
VARIABLES service, active, waiting, where, rel, older, runtimeDeaths, stops, part

Queue == INSTANCE Turns WITH at <- where, deaths <- runtimeDeaths, MaxDeaths <- MaxRuntimeDeaths
queueVars == <<service, active, waiting, where, rel, older, runtimeDeaths, stops>>

(* The queue that stands still has no release left to ask for.              *)
Still == /\ service = "up" /\ active = Queue!Nobody /\ waiting = <<>> /\ older = {}
         /\ where = [r \in Runtimes |-> "idle"] /\ rel = [r \in Runtimes |-> MaxReleases + 1]
         /\ runtimeDeaths = 0 /\ stops = 0

BothInit == Init /\ \/ part = "jobs" /\ Still
                    \/ part = "turns" /\ Queue!Init
BothNext ==
    /\ UNCHANGED part
    /\ \/ part = "jobs" /\ Next /\ UNCHANGED queueVars
       \/ part = "turns" /\ Queue!Next /\ UNCHANGED vars
BothSpec == BothInit /\ [][BothNext]_<<vars, queueVars, part>> /\ Fairness /\ Queue!Fairness

TurnIsCurrent == Queue!TurnIsCurrent
\* Who waits gets a turn, and a claimed send comes to be recorded.
WaitingIsServed == Queue!EachGetsItsTurn /\ SentIsRecorded
=============================================================================

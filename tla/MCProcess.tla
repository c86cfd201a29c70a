----------------------------- MODULE MCProcess -----------------------------
(* The process of an agent in three parts, side by side: the sweep over its *)
(* channels, the start under its locks and beside its tool servers, and the *)
(* session with its app-server.  One of them moves in a behaviour and the   *)
(* others stand as they begin.                                              *)
EXTENDS Sweep

\* The first message is of a mailbox, the others of a browser.
MCLoopOf == [m \in Messages |-> IF m = 1 THEN 1 ELSE 2]

\* They are of one conversation.
MCUnitOf == MCLoopOf

CONSTANTS Processes, ByHand, Channels, Servers, Units, Window, MaxTrouble
VARIABLES file, at, channel, saw, locks, kept, children, unit, clock, port, app, told, refused,
          orphans, abrupt, raced, trouble
Unit == INSTANCE Unit WITH signal <- told
unitVars == <<file, at, channel, saw, locks, kept, children, unit, clock, port, app, told, refused,
              orphans, abrupt, raced, trouble>>

VARIABLES route, child, signalled, stage, socket, attached, letGo, closing, lines, cut, table, talk,
          finished, deaf
Session == INSTANCE Session WITH at <- stage, turn <- talk
sessionVars == <<route, child, signalled, stage, socket, attached, letGo, closing, lines, cut, table,
                 talk, finished, deaf>>

VARIABLE part

AllInit ==
    /\ part \in {"sweep", "unit", "session"}
    /\ Init /\ Unit!Init /\ Session!Init
    /\ part = "session" \/ route = "stdio"

AllNext ==
    /\ UNCHANGED part
    /\ \/ part = "sweep" /\ Next /\ UNCHANGED <<unitVars, sessionVars>>
       \/ part = "unit" /\ Unit!Next /\ UNCHANGED <<vars, sessionVars>>
       \/ part = "session" /\ Session!Next /\ UNCHANGED <<vars, unitVars>>

AllFair ==
    /\ WF_vars(part = "sweep" /\ Pass) /\ WF_vars(part = "sweep" /\ WakeUp)
    /\ WF_vars(part = "sweep" /\ Exit) /\ WF_vars(part = "sweep" /\ mode = "down" /\ Start)
    /\ WF_vars(part = "sweep" /\ ComesBack)
    /\ \A l \in Loops : /\ WF_vars(part = "sweep" /\ IntervalPasses(l))
                        /\ SF_vars(part = "sweep" /\ place = l /\ PollWorks)
    /\ \A p \in Processes : /\ WF_unitVars(part = "unit" /\ Unit!Run(p))
                            /\ WF_unitVars(part = "unit" /\ Unit!Restarts(p))
    /\ WF_sessionVars(part = "session" /\ Session!Moves)

AllSpec == AllInit /\ [][AllNext]_<<vars, unitVars, sessionVars, part>> /\ AllFair

\* The properties of the parts, of the behaviours in which the part moves.
OneHolder == Unit!OneHolder
RunsAgain == Unit!RefusedByTheLiving /\ (part = "unit" => Unit!StaysRunning)
SessionTellsAll ==
    /\ [](Session!TypeOK /\ Session!OwnerLetGoOnce) /\ Session!CompletionIsTold
    /\ part = "session" => Session!EverythingSettles
=============================================================================

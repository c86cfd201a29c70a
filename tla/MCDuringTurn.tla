---------------------------- MODULE MCDuringTurn ----------------------------
(* What happens while a turn runs, in parts side by side: what is said to   *)
(* the Codex harness in the middle of it, in two conversations or in one,   *)
(* and the end the program harness puts to it.  One of them moves in a      *)
(* behaviour.                                                               *)
EXTENDS Steering, TLC

\* Two inputs of one conversation and one of another.
CONSTANTS a, b, c
MCRoom == (a :> "x") @@ (b :> "x") @@ (c :> "y")

\* All three of one, so that two wait for the turn of the third: the safety of it, with
\* one mishap.
OneRoom == INSTANCE Steering WITH Room <- [i \in Inputs |-> "x"], MaxMishaps <- 1

\* A message with an edit, and one of another conversation.
MCItems == {"m", "edit", "other"}
MCMessageOf == [m |-> "m", edit |-> "m", other |-> "n"]
MCConversationOf == [m |-> 1, edit |-> 1, other |-> 2]
CONSTANTS Items, MessageOf, ConversationOf, Tracked, MaxEnds
VARIABLES up, stopping, ends, item, release, replies, sent, preparing, preparers, ready, jobs,
          prepared, taken, handlers, stray
Program == INSTANCE Program WITH turn <- taken
programVars == <<up, stopping, ends, item, release, replies, sent, preparing, preparers, ready,
                 jobs, prepared, taken, handlers, stray>>

VARIABLE part

AllInit == part \in {"two rooms", "one room", "program"} /\ Init /\ Program!Init

AllNext ==
    /\ UNCHANGED part
    /\ \/ part = "two rooms" /\ Next /\ UNCHANGED programVars
       \/ part = "one room" /\ OneRoom!Next /\ UNCHANGED programVars
       \/ part = "program" /\ Program!Next /\ UNCHANGED vars

AllFair ==
    /\ WF_vars(part = "two rooms" /\ Moves)
    /\ WF_programVars(part = "program" /\ (Program!Spawn \/ Program!Unspawned))
    /\ WF_programVars(part = "program" /\ Program!Expires)
    /\ WF_programVars(part = "program" /\ Program!Settle)

AllSpec == AllInit /\ [][AllNext]_<<vars, programVars, part>> /\ AllFair

\* What is said is settled, a turn ends, and its files do not change under it.
TurnsSettle ==
    /\ part = "one room" \/ InputsSettle
    /\ Program!TurnsEnd
=============================================================================

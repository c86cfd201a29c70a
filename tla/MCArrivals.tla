------------------------------ MODULE MCArrivals -----------------------------
(* What comes into the store, in three parts: the present, over the long    *)
(* poll of module Intake, and the past, by the two imports of a chat's      *)
(* history.  One moves in a behaviour and the others stand as they begin.   *)
EXTENDS MCIntake

\* One correction names both messages of the chat, the other the late one.
MCNames == [edit |-> {"a", "b"}, flag |-> {"b"}]

CONSTANTS Ids, Late, Arriving, Pictures, Corrections, Names, MaxRuns, MaxMishaps, Batch
VARIABLES held, raws, paired, rowsOf, corrected, import, runtime, heard, woken, sidecars, unlinked,
          runs, mishaps, claimed, crossed, reopened, slipped, overtaken, unread
Past == INSTANCE Imports WITH noted <- corrected
pastVars == <<held, raws, paired, rowsOf, corrected, import, runtime, heard, woken, sidecars,
              unlinked, runs, mishaps, claimed, crossed, reopened, slipped, overtaken, unread>>

(* Two sends close to each other, the first with all its marks and the      *)
(* second missing its capture for a while, a turn that says no time and is  *)
(* there from some moment on, and a capture in another chat.                *)
MCNoTime == 99
MCNoId == 0
Mark(kind, id, at) == [kind |-> kind, id |-> id, chat |-> "x", at |-> at, chosen |-> TRUE]
MCBefore == {Mark("event", 1, 2), Mark("turn", 3, 1), Mark("audit", 5, 2), Mark("turn", 9, 4),
             [Mark("event", 10, 2) EXCEPT !.chosen = FALSE], Mark("event", MCNoId, 2)}
MCLines == MCBefore \cup {Mark("event", 2, 3), Mark("turn", 4, 3), Mark("audit", 6, 4), Mark("turn", 8, MCNoTime),
                          [Mark("event", 7, 3) EXCEPT !.chat = "y"]}

CONSTANTS Lines, NoTime, NoId, Before, Ledger, Tolerance, MaxTries, MaxCuts
VARIABLES lines, stage, items, sends, joined, captures, tries, cuts
Outbound == INSTANCE Outbound
outboundVars == <<lines, stage, items, sends, joined, captures, tries, cuts>>

VARIABLE part

AllInit ==
    /\ part \in {"poll", "imports", "outbound"}
    /\ Init /\ Past!Init /\ Outbound!Init
    /\ part = "poll" \/ feed = CHOOSE f \in Feeds : TRUE

AllNext ==
    /\ UNCHANGED part
    /\ \/ part = "poll" /\ Next /\ UNCHANGED <<pastVars, outboundVars>>
       \/ part = "imports" /\ Past!Next /\ UNCHANGED <<vars, outboundVars>>
       \/ part = "outbound" /\ Outbound!Next /\ UNCHANGED <<vars, pastVars>>

AllSpec == AllInit /\ [][AllNext]_<<vars, pastVars, outboundVars, part>>

\* The properties of the imports, of the behaviours in which the part moves.
PastIsPast == part = "imports" => Past!PastIsPast
ImportsOnlyAdd == Past!ImportsOnlyAdd
JoinKeepsAll == part = "outbound" => Outbound!JoinKeepsAll
=============================================================================

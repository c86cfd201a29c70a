--------------------------- MODULE MCReplyFence -----------------------------
(* A reply and a release to their ends, side by side: the fence round the  *)
(* sending of a reply, and the loop from a captured message to a closed    *)
(* release.  One of them moves in a behaviour and the other stands as it   *)
(* begins, with nothing asked of it.                                       *)
EXTENDS ReplyFence

CONSTANTS plain, held, claimed, near, far

\* The claimed reply belongs to the second channel, where there is one.
MCChannelOf == [r \in Requests |-> IF r = claimed /\ far \in Channels THEN far ELSE near]

\* Message 2 is the management conversation's, the other the customer's.
CONSTANTS room, office
MCConvOf == [m \in 1..2 |-> IF m = 2 THEN office ELSE room]
CONSTANTS N, Conversations, Management, ConvOf, Operators, MaxEnds, MaxHolds
VARIABLES arrived, release, done, parked, refused, declared, reply, shelved, taught, latched,
          up, recovered, phase, chosen, group, todo, asking, stopping, restless, heldByOp,
          excused, stranded, ends, holds
Loop == INSTANCE ReleaseLoop WITH mode <- up, queue <- chosen, crashes <- ends, MaxCrashes <- MaxEnds
loopVars == <<arrived, release, done, parked, refused, declared, reply, shelved, taught, latched,
              up, recovered, phase, chosen, group, todo, asking, stopping, restless, heldByOp,
              excused, stranded, ends, holds>>

VARIABLE part

AllInit == part \in {"fence", "loop"} /\ Init /\ Loop!Init

AllNext ==
    /\ UNCHANGED part
    /\ \/ part = "fence" /\ Next /\ UNCHANGED loopVars
       \/ part = "loop" /\ Loop!Next /\ UNCHANGED vars

AllFair ==
    /\ WF_vars(part = "fence" /\ (Start \/ Recover \/ Deliver)) /\ SF_vars(part = "fence" /\ NoteDone)
    /\ WF_loopVars(part = "loop" /\ Loop!Process)

AllSpec == AllInit /\ [][AllNext]_<<vars, loopVars, part>> /\ AllFair

\* Every message of the loop's part comes to its end.
MessagesEnd == Loop!MessagesEnd
=============================================================================

-------------------------- MODULE ReleaseLoop_proofs -------------------------
(***************************************************************************)
(* LoopInv is inductive for every number of messages, every conversation   *)
(* and every bound on kills; what ReleaseLoop promises of a release, of a   *)
(* held reply and of a closed message follows from it.                      *)
(***************************************************************************)
EXTENDS ReleaseLoop, TLAPS, WellFoundedInduction

-----------------------------------------------------------------------------
(* The inductive invariant.                                                *)

Unanswered == {"absent", "failed", "pending-teach-check"}

\* The phases between the last write of a release and its last close.
InRelease == {"turn", "declaring", "parking", "checking", "closing", "failing"}

\* Only a process that has recovered is in a pass; outside a release there is no
\* group, and outside the choice and its releases there is no queue.
PassShape ==
    /\ mode # "up" => phase = "idle"
    /\ phase \notin {"idle", "selecting"} => recovered = {}
    /\ phase \in {"idle", "selecting", "delivering"} => queue = {}
    /\ phase \in {"idle", "selecting", "delivering", "releasing"} => group = {}
    /\ phase \in InRelease \cup {"writing"} => group # {} /\ todo \subseteq group
    /\ phase \in {"writing", "declaring", "parking", "closing"} => todo # {}
    /\ phase \in {"idle", "selecting", "releasing", "turn", "checking"} => todo = {}

\* A release is named by its first message, which carries it, and is of one
\* conversation; a reply is written under a release that exists.
ReleasesAreNamed ==
    /\ \A m \in Messages : release[m] # 0 =>
         release[release[m]] = release[m] /\ ConvOf[release[m]] = ConvOf[m]
    /\ \A r \in Messages : reply[r] # "absent" => release[r] = r
    /\ \A m \in done : release[m] # 0

\* Nobody holds m and it is not parked.
Free(m) ==
    /\ m \notin parked
    /\ HoldApplies(ConvOf[m]) => m \notin Operators /\ ConvOf[m] \notin heldByOp

\* What recover owes, and what the pass chose and has not reached, is unanswered,
\* and of another release than the one in progress.
QueueIsOpen ==
    /\ \A r \in recovered : reply[r] \in Unanswered
    /\ \A m \in queue :
         /\ m \notin done \cup group
         /\ release[m] = 0 => Free(m)
         /\ release[m] # 0 => reply[release[m]] \in Unanswered
         /\ group # {} => release[m] # Current

\* A fresh release goes on its messages one by one, the first of them first.
WritingIsFresh == phase = "writing" =>
    /\ asking = "answer" /\ Current = Min(group) /\ reply[Min(group)] = "absent"
    /\ \A m \in group :
         /\ ConvOf[m] = ConvOf[Min(group)]
         /\ m \in todo => release[m] = 0 /\ Free(m)
         /\ m \notin todo => release[m] = Min(group)

ReleaseIsWritten ==
    /\ phase \in InRelease => \A m \in group : release[m] = Current
    /\ phase \in InRelease \cup {"writing"} => group \cap done = {} \/ phase \in {"closing", "failing"}

Explained(m) ==
    \/ reply[release[m]] \notin {"absent", "pending-teach-check"}
    \/ release[m] \in shelved
    \/ m \in declared \cup parked \cup refused

\* How far the pass has come to the reply or the reason that a close needs.
EndIsExplained ==
    /\ phase = "turn" /\ asking = "teach" => reply[Current] = "pending-teach-check"
    /\ phase = "declaring" => group \ todo \subseteq declared
    /\ phase = "parking" => group \ todo \subseteq parked
    /\ phase = "checking" => reply[Current] # "absent" \/ group \subseteq declared \/ group \subseteq parked
    /\ phase = "closing" => \A m \in group : Explained(m)
    /\ phase = "delivering" => \A m \in todo : release[m] # 0 /\ reply[release[m]] = "sent"

LoopInv ==
    /\ TypeOK /\ PassShape /\ ReleasesAreNamed /\ QueueIsOpen /\ WritingIsFresh
    /\ ReleaseIsWritten /\ EndIsExplained /\ SpokenIsRecorded /\ ClosedIsExplained

-----------------------------------------------------------------------------
(* Facts about the numbers of messages.                                    *)

\* A set of messages that is not empty has a least one.
LEMMA Leasts == ASSUME NEW S \in SUBSET Messages, S # {}
                PROVE /\ Min(S) \in S /\ \A m \in S : Min(S) <= m
                      /\ Min(S) \in Messages /\ Min(S) # 0
<1>1. S \subseteq Nat
  BY LoopAssumption DEF Messages
<1>2. PICK x \in S : \A y \in S : ~(<<y, x>> \in OpToRel(<, Nat))
  BY <1>1, NatLessThanWellFounded, WFMin
<1>3. ASSUME NEW y \in S PROVE x <= y
  <2>1. x \in Nat /\ y \in Nat
    BY <1>1
  <2>2. ~(<<y, x>> \in {p \in Nat \X Nat : p[1] < p[2]})
    BY <1>2 DEF OpToRel
  <2>3. ~(y < x)
    BY <2>1, <2>2
  <2> QED
    BY <2>1, <2>3
<1>4. Min(S) \in S /\ \A m \in S : Min(S) <= m
  BY <1>3 DEF Min
<1>5. Min(S) \in Messages
  BY <1>4
<1>6. Min(S) # 0
  BY <1>5 DEF Messages
<1> QED
  BY <1>4, <1>5, <1>6

\* A release is named by a message, and none is named 0.
LEMMA Names == /\ \A x \in 0..N : x # 0 => x \in Messages
               /\ 0 \notin Messages /\ Messages \subseteq 0..N
  BY LoopAssumption DEF Messages

\* The release in progress is a message.
LEMMA CurrentIsNamed == ASSUME TypeOK, group # {}
                        PROVE Current \in Messages /\ Min(group) \in group
<1>1. Min(group) \in group /\ Min(group) \in Messages
  BY Leasts DEF TypeOK
<1>2. release[Min(group)] \in 0..N
  BY <1>1 DEF TypeOK
<1> QED
  BY <1>1, <1>2, Names DEF Current

\* What is captured is a message.
LEMMA CapturedAreMessages == ASSUME TypeOK PROVE Captured \subseteq Messages
BY LoopAssumption DEF TypeOK, Captured, Messages

-----------------------------------------------------------------------------
(* The first state, and the ends of a process.                             *)

\* At the start nothing is captured and nothing is owed.
LEMMA InitLoop == Init => LoopInv
<1> SUFFICES ASSUME Init PROVE LoopInv
  OBVIOUS
<1>1. TypeOK
  <2>1. arrived \in 0..N /\ release \in [Messages -> 0..N]
    BY LoopAssumption DEF Init
  <2>2. crashes \in 0..MaxCrashes /\ holds \in 0..MaxHolds
    BY LoopAssumption DEF Init
  <2>3. phase \in Phases
    BY DEF Init, Phases
  <2> QED
    BY <2>1, <2>2, <2>3 DEF Init, TypeOK
<1>2. PassShape /\ ReleasesAreNamed /\ QueueIsOpen
  BY DEF Init, PassShape, ReleasesAreNamed, QueueIsOpen, InRelease
<1>3. WritingIsFresh /\ ReleaseIsWritten /\ EndIsExplained
  BY DEF Init, WritingIsFresh, ReleaseIsWritten, EndIsExplained, InRelease
<1>4. SpokenIsRecorded /\ ClosedIsExplained
  BY DEF Init, SpokenIsRecorded, ClosedIsExplained
<1> QED
  BY <1>1, <1>2, <1>3, <1>4 DEF LoopInv

\* The end of a process, of whatever cause, leaves the store and ends the pass.
LEMMA DieLoop == ASSUME LoopInv, Die, UNCHANGED <<inbound, outbox, world, excused>>,
                        latched' \in BOOLEAN, crashes' \in 0..MaxCrashes
                 PROVE  LoopInv'
<1> USE DEF LoopInv, TypeOK, Die, inbound, outbox, world
<1>1. TypeOK'
  <2>1. phase' \in Phases
    BY DEF Phases
  <2> QED
    BY <2>1
<1>2. PassShape' /\ ReleasesAreNamed' /\ QueueIsOpen'
  BY DEF PassShape, ReleasesAreNamed, QueueIsOpen, InRelease
<1>3. WritingIsFresh' /\ ReleaseIsWritten' /\ EndIsExplained'
  BY DEF WritingIsFresh, ReleaseIsWritten, EndIsExplained, InRelease
<1>4. SpokenIsRecorded' /\ ClosedIsExplained'
  BY DEF SpokenIsRecorded, ClosedIsExplained
<1> QED
  BY <1>1, <1>2, <1>3, <1>4

\* A kill, a latch and a drain end it so.
LEMMA EndsLoop == ASSUME LoopInv, Crash \/ Latch \/ Drained PROVE LoopInv'
<1>1. CASE Crash
  BY <1>1, DieLoop, LoopAssumption DEF LoopInv, TypeOK, Crash, outbox, world
<1>2. CASE Latch
  BY <1>2, DieLoop DEF LoopInv, TypeOK, Latch, outbox, world
<1>3. CASE Drained
  BY <1>3, DieLoop DEF LoopInv, TypeOK, Drained, outbox, world
<1> QED
  BY <1>1, <1>2, <1>3

\* A stop changes nothing of the store or of the pass.
LEMMA SignalLoop == ASSUME LoopInv, Signal PROVE LoopInv'
<1> USE DEF LoopInv, TypeOK, PassShape, InRelease, Signal, inbound, outbox, pass, world,
            life, history
<1>1. TypeOK'
  BY LoopAssumption
<1>2. PassShape'
  OBVIOUS
<1>3. ReleasesAreNamed'
  BY DEF ReleasesAreNamed
<1>4. QueueIsOpen'
  BY DEF QueueIsOpen, Free, HoldApplies, Unanswered, Current
<1>5. WritingIsFresh'
  BY DEF WritingIsFresh, Free, HoldApplies, Current
<1>6. ReleaseIsWritten'
  BY DEF ReleaseIsWritten, Current
<1>7. EndIsExplained'
  BY DEF EndIsExplained, Explained, Current
<1>8. SpokenIsRecorded'
  BY DEF SpokenIsRecorded
<1>9. ClosedIsExplained'
  BY DEF ClosedIsExplained
<1> QED
  BY <1>1, <1>2, <1>3, <1>4, <1>5, <1>6, <1>7, <1>8, <1>9

\* A restart reads nothing yet.
LEMMA StartLoop == ASSUME LoopInv, Start PROVE LoopInv'
<1> USE DEF LoopInv, TypeOK, PassShape, InRelease, Start, inbound, outbox, pass, world,
            life, history
<1>1. TypeOK'
  OBVIOUS
<1>2. PassShape'
  OBVIOUS
<1>3. ReleasesAreNamed'
  BY DEF ReleasesAreNamed
<1>4. QueueIsOpen'
  BY DEF QueueIsOpen, Free, HoldApplies, Unanswered, Current
<1>5. WritingIsFresh'
  BY DEF WritingIsFresh, Free, HoldApplies, Current
<1>6. ReleaseIsWritten'
  BY DEF ReleaseIsWritten, Current
<1>7. EndIsExplained'
  BY DEF EndIsExplained, Explained, Current
<1>8. SpokenIsRecorded'
  BY DEF SpokenIsRecorded
<1>9. ClosedIsExplained'
  BY DEF ClosedIsExplained
<1> QED
  BY <1>1, <1>2, <1>3, <1>4, <1>5, <1>6, <1>7, <1>8, <1>9

\* An install clears the latch alone.
LEMMA InstallLoop == ASSUME LoopInv, Install PROVE LoopInv'
<1> USE DEF LoopInv, TypeOK, PassShape, InRelease, Install, inbound, outbox, pass, world,
            life, history
<1>1. TypeOK'
  OBVIOUS
<1>2. PassShape'
  OBVIOUS
<1>3. ReleasesAreNamed'
  BY DEF ReleasesAreNamed
<1>4. QueueIsOpen'
  BY DEF QueueIsOpen, Free, HoldApplies, Unanswered, Current
<1>5. WritingIsFresh'
  BY DEF WritingIsFresh, Free, HoldApplies, Current
<1>6. ReleaseIsWritten'
  BY DEF ReleaseIsWritten, Current
<1>7. EndIsExplained'
  BY DEF EndIsExplained, Explained, Current
<1>8. SpokenIsRecorded'
  BY DEF SpokenIsRecorded
<1>9. ClosedIsExplained'
  BY DEF ClosedIsExplained
<1> QED
  BY <1>1, <1>2, <1>3, <1>4, <1>5, <1>6, <1>7, <1>8, <1>9

-----------------------------------------------------------------------------
(* What a restart owes, and the choice of a pass.                          *)

\* What was sent is closed, and its reply is the reason.
LEMMA RecoverCloseLoop == ASSUME LoopInv, NEW m \in Messages, RecoverClose(m) PROVE LoopInv'
<1> USE DEF LoopInv, TypeOK, PassShape, InRelease, RecoverClose, inbound, outbox, pass,
            world, life, history, Answered, Open
<1>1. TypeOK'
  OBVIOUS
<1>2. PassShape'
  OBVIOUS
<1>3. ReleasesAreNamed'
  BY DEF ReleasesAreNamed
<1>4. QueueIsOpen'
  BY DEF QueueIsOpen, Free, HoldApplies, Unanswered, Current
<1>5. WritingIsFresh'
  BY DEF WritingIsFresh, Free, HoldApplies, Current
<1>6. ReleaseIsWritten'
  BY DEF ReleaseIsWritten, Current
<1>7. EndIsExplained'
  BY DEF EndIsExplained, Explained, Current
<1>8. SpokenIsRecorded'
  BY DEF SpokenIsRecorded
<1>9. ClosedIsExplained'
  BY DEF ClosedIsExplained
<1> QED
  BY <1>1, <1>2, <1>3, <1>4, <1>5, <1>6, <1>7, <1>8, <1>9

\* What is owed is unanswered.
LEMMA RecoverDoneLoop == ASSUME LoopInv, RecoverDone PROVE LoopInv'
<1> USE DEF LoopInv, TypeOK, PassShape, InRelease, RecoverDone, inbound, outbox, pass,
            world, life, history, Owed, Open
<1> USE CapturedAreMessages, Names
<1>1. TypeOK'
  OBVIOUS
<1>2. PassShape'
  OBVIOUS
<1>3. ReleasesAreNamed'
  BY DEF ReleasesAreNamed
<1>4. QueueIsOpen'
  BY DEF QueueIsOpen, Free, HoldApplies, Unanswered, Current
<1>5. WritingIsFresh'
  BY DEF WritingIsFresh, Free, HoldApplies, Current
<1>6. ReleaseIsWritten'
  BY DEF ReleaseIsWritten, Current
<1>7. EndIsExplained'
  BY DEF EndIsExplained, Explained, Current
<1>8. SpokenIsRecorded'
  BY DEF SpokenIsRecorded
<1>9. ClosedIsExplained'
  BY DEF ClosedIsExplained
<1> QED
  BY <1>1, <1>2, <1>3, <1>4, <1>5, <1>6, <1>7, <1>8, <1>9

\* A new message finds no queue that could hold it back.
LEMMA PassStartLoop == ASSUME LoopInv, PassStart PROVE LoopInv'
<1> USE DEF LoopInv, TypeOK, PassShape, InRelease, PassStart, inbound, outbox, pass, world,
            life, history
<1> DEFINE new == (arrived + 1)..arrived'
<1>a. new \subseteq Messages /\ arrived' \in 0..N
  BY LoopAssumption DEF Messages
<1>1. TypeOK'
  <2>1. phase' \in Phases
    BY DEF Phases
  <2>2. restless' \subseteq Conversations /\ heldByOp' \subseteq Conversations
    BY <1>a, LoopAssumption
  <2> QED
    BY <1>a, <2>1, <2>2
<1>2. PassShape'
  OBVIOUS
<1>3. ReleasesAreNamed'
  BY DEF ReleasesAreNamed
<1>4. QueueIsOpen'
  BY DEF QueueIsOpen, Free, HoldApplies, Unanswered, Current
<1>5. WritingIsFresh'
  BY DEF WritingIsFresh, Free, HoldApplies, Current
<1>6. ReleaseIsWritten'
  BY DEF ReleaseIsWritten, Current
<1>7. EndIsExplained'
  BY DEF EndIsExplained, Explained, Current
<1>8. SpokenIsRecorded'
  BY DEF SpokenIsRecorded
<1>9. ClosedIsExplained'
  BY DEF ClosedIsExplained
<1> QED
  BY <1>1, <1>2, <1>3, <1>4, <1>5, <1>6, <1>7, <1>8, <1>9

\* Nothing is chosen.
LEMMA SelectHeldLoop == ASSUME LoopInv, SelectHeld PROVE LoopInv'
<1> USE DEF LoopInv, TypeOK, PassShape, InRelease, SelectHeld, inbound, outbox, pass,
            world, life, history, FoundDown
<1>1. TypeOK'
  <2>1. phase' \in Phases
    BY DEF Phases
  <2> QED
    BY <2>1, LoopAssumption
<1>2. PassShape'
  OBVIOUS
<1>3. ReleasesAreNamed'
  BY DEF ReleasesAreNamed
<1>4. QueueIsOpen'
  BY DEF QueueIsOpen, Free, HoldApplies, Unanswered, Current
<1>5. WritingIsFresh'
  BY DEF WritingIsFresh, Free, HoldApplies, Current
<1>6. ReleaseIsWritten'
  BY DEF ReleaseIsWritten, Current
<1>7. EndIsExplained'
  BY DEF EndIsExplained, Explained, Current
<1>8. SpokenIsRecorded'
  BY DEF SpokenIsRecorded
<1>9. ClosedIsExplained'
  BY DEF ClosedIsExplained
<1> QED
  BY <1>1, <1>2, <1>3, <1>4, <1>5, <1>6, <1>7, <1>8, <1>9

\* What is chosen is free, or open and owed.
LEMMA SelectLoop == ASSUME LoopInv, Select PROVE LoopInv'
<1> USE DEF LoopInv, TypeOK, PassShape, InRelease, Select, inbound, outbox, pass, world,
            life, history, Releasable, Open
<1> USE CapturedAreMessages
<1>1. TypeOK'
  <2>1. phase' \in Phases
    BY DEF Phases
  <2> QED
    BY <2>1
<1>2. PassShape'
  OBVIOUS
<1>3. ReleasesAreNamed'
  BY DEF ReleasesAreNamed
<1>4. QueueIsOpen'
  <2>1. group' = {} /\ recovered' = {}
    OBVIOUS
  <2>2. ASSUME NEW m \in queue'
        PROVE  /\ m \notin done /\ (release[m] = 0 => Free(m))
               /\ release[m] # 0 => reply[release[m]] \in Unanswered
    BY DEF ReleasesAreNamed, QueueIsOpen, Free
  <2> QED
    BY <2>1, <2>2 DEF QueueIsOpen, Free, HoldApplies
<1>5. WritingIsFresh'
  BY DEF WritingIsFresh, Free, HoldApplies, Current
<1>6. ReleaseIsWritten'
  BY DEF ReleaseIsWritten, Current
<1>7. EndIsExplained'
  BY DEF EndIsExplained, Explained, Current
<1>8. SpokenIsRecorded'
  BY DEF SpokenIsRecorded
<1>9. ClosedIsExplained'
  BY DEF ClosedIsExplained
<1> QED
  BY <1>1, <1>2, <1>3, <1>4, <1>5, <1>6, <1>7, <1>8, <1>9

\* What waits leaves the queue.
LEMMA GroupHeldLoop == ASSUME LoopInv, GroupHeld PROVE LoopInv'
<1> USE DEF LoopInv, TypeOK, PassShape, InRelease, GroupHeld, inbound, outbox, pass, world,
            life, history, FoundDown
<1>a. queue' \subseteq queue
  OBVIOUS
<1>1. TypeOK'
  <2>1. {release[m] : m \in queue \ queue'} \ {0} \subseteq Messages
    BY Names
  <2> QED
    BY <1>a, <2>1, LoopAssumption
<1>2. PassShape'
  OBVIOUS
<1>3. ReleasesAreNamed'
  BY DEF ReleasesAreNamed
<1>4. QueueIsOpen'
  BY <1>a DEF QueueIsOpen, Free, HoldApplies, Unanswered, Current
<1>5. WritingIsFresh'
  BY DEF WritingIsFresh, Free, HoldApplies, Current
<1>6. ReleaseIsWritten'
  BY DEF ReleaseIsWritten, Current
<1>7. EndIsExplained'
  BY DEF EndIsExplained, Explained, Current
<1>8. SpokenIsRecorded'
  BY DEF SpokenIsRecorded
<1>9. ClosedIsExplained'
  BY DEF ClosedIsExplained
<1> QED
  BY <1>1, <1>2, <1>3, <1>4, <1>5, <1>6, <1>7, <1>8, <1>9

-----------------------------------------------------------------------------
(* A group, and the writing of its release.                                *)

\* The group is of one release or of none, and shares it with nobody in the queue.
LEMMA GroupStartLoop == ASSUME LoopInv, GroupStart PROVE LoopInv'
<1> USE DEF LoopInv, TypeOK, PassShape, InRelease, GroupStart, inbound, outbox, pass,
            world, life, history, NextGroup, GroupOf
<1>a. /\ Min(queue) \in queue /\ Min(queue) \in Messages
      /\ Min(group') \in group' /\ Min(group') \in Messages
      /\ group' # {} /\ group' \subseteq queue /\ queue' \subseteq queue \ group'
  BY Leasts
<1>b. \A m \in group' : ConvOf[m] = ConvOf[Min(queue)] /\ release[m] = release[Min(queue)]
  OBVIOUS
<1>c. Current' = IF release[Min(queue)] = 0 THEN Min(group') ELSE release[Min(queue)]
  BY <1>a, <1>b DEF Current
<1>1. TypeOK'
  <2>1. phase' \in Phases /\ asking' \in {"answer", "reply", "teach"}
    BY DEF Phases
  <2> QED
    BY <1>a, <2>1
<1>2. PassShape'
  BY <1>a
<1>3. ReleasesAreNamed'
  BY DEF ReleasesAreNamed
<1>4. QueueIsOpen'
  <2>1. ASSUME NEW m \in queue', release[m] # 0 PROVE release[m] # Current'
    <3>1. CASE release[Min(queue)] = 0
      <4>1. release[Min(group')] = 0
        BY <1>a, <1>b, <3>1
      <4>2. release[release[m]] # 0
        BY <1>a, <2>1 DEF ReleasesAreNamed
      <4> QED
        BY <1>c, <3>1, <4>1, <4>2
    <3>2. CASE release[Min(queue)] # 0
      <4>1. SUFFICES ASSUME release[m] = release[Min(queue)] PROVE FALSE
        BY <1>c, <3>2
      <4>2. ConvOf[m] = ConvOf[Min(queue)]
        BY <1>a, <2>1, <4>1, <3>2 DEF ReleasesAreNamed
      <4> QED
        BY <1>a, <4>1, <4>2
    <3> QED
      BY <3>1, <3>2
  <2>2. ASSUME NEW m \in queue', release[m] = 0 PROVE release[m] # Current'
    BY <1>a, <1>c, <2>2, Names
  <2>3. \A m \in queue' : m \in queue /\ m \notin group'
    BY <1>a
  <2> QED
    BY <2>1, <2>2, <2>3 DEF QueueIsOpen, Free, HoldApplies
<1>5. WritingIsFresh'
  <2> SUFFICES ASSUME phase' = "writing" PROVE WritingIsFresh'
    BY DEF WritingIsFresh
  <2>1. release[Min(queue)] = 0 /\ todo' = group'
    OBVIOUS
  <2>2. reply[Min(group')] = "absent"
    <3>1. Min(group') \in Messages /\ release[Min(group')] = 0
      BY <1>a, <1>b, <2>1
    <3> QED
      BY <3>1, Names DEF ReleasesAreNamed
  <2>3. \A m \in group' : release[m] = 0 /\ Free(m)
    BY <1>a, <1>b, <2>1 DEF QueueIsOpen
  <2> QED
    BY <1>a, <1>b, <1>c, <2>1, <2>2, <2>3 DEF WritingIsFresh, Free, HoldApplies
<1>6. ReleaseIsWritten'
  <2>1. group' \cap done = {}
    BY <1>a DEF QueueIsOpen
  <2>2. phase' # "writing" => \A m \in group' : release[m] = Current'
    BY <1>b, <1>c
  <2> QED
    BY <2>1, <2>2 DEF ReleaseIsWritten
<1>7. EndIsExplained'
  BY DEF EndIsExplained, Explained, Current
<1>8. SpokenIsRecorded'
  BY DEF SpokenIsRecorded
<1>9. ClosedIsExplained'
  BY DEF ClosedIsExplained
<1> QED
  BY <1>1, <1>2, <1>3, <1>4, <1>5, <1>6, <1>7, <1>8, <1>9

\* The first message is written first, and names the release.
LEMMA WriteReleaseLoop == ASSUME LoopInv, NEW m \in Messages, WriteRelease(m) PROVE LoopInv'
<1> USE DEF LoopInv, TypeOK, PassShape, InRelease, WriteRelease, inbound, outbox, pass,
            world, life, history
<1>a. /\ phase = "writing" /\ todo \subseteq group /\ m \in todo /\ m \in group
      /\ \A n \in todo : m <= n
  BY Leasts
<1>b. Current = Min(group) /\ Min(group) \in group /\ Min(group) \in Messages
  BY <1>a, Leasts DEF WritingIsFresh
<1>c. Min(group) \in todo => m = Min(group)
  <2>1. Min(group) <= m
    BY <1>a, Leasts
  <2>2. Min(group) \in todo => m <= Min(group)
    BY <1>a
  <2>3. m \in Nat /\ Min(group) \in Nat
    BY <1>b, LoopAssumption DEF Messages
  <2> QED
    BY <2>1, <2>2, <2>3
<1>d. release' = [release EXCEPT ![m] = Min(group)] /\ release[m] = 0 /\ m \notin done
  BY <1>a, <1>b DEF WritingIsFresh, ReleaseIsWritten
<1>e. release'[Min(group)] = Min(group) /\ Min(group) # 0
  BY <1>a, <1>b, <1>c, <1>d, Names DEF WritingIsFresh
<1>f. Current' = Min(group)
  BY <1>b, <1>e DEF Current
<1>1. TypeOK'
  <2>1. phase' \in Phases
    BY DEF Phases
  <2>2. release' \in [Messages -> 0..N]
    BY <1>b, <1>d, Names
  <2> QED
    BY <2>1, <2>2
<1>2. PassShape'
  OBVIOUS
<1>3. ReleasesAreNamed'
  <2>1. ASSUME NEW n \in Messages, release'[n] # 0
        PROVE  release'[release'[n]] = release'[n] /\ ConvOf[release'[n]] = ConvOf[n]
    <3>1. CASE n = m
      BY <1>a, <1>d, <1>e, <3>1 DEF WritingIsFresh
    <3>2. CASE n # m
      <4>1. release'[n] = release[n] /\ release[n] \in Messages
        BY <1>d, <2>1, <3>2, Names
      <4>2. release[release[n]] = release[n] /\ ConvOf[release[n]] = ConvOf[n]
        BY <2>1, <4>1 DEF ReleasesAreNamed
      <4>3. release[n] # m
        BY <1>d, <2>1, <4>1, <4>2
      <4> QED
        BY <1>d, <4>1, <4>2, <4>3
    <3> QED
      BY <3>1, <3>2
  <2>2. \A r \in Messages : reply[r] # "absent" => release'[r] = r
    BY <1>d, Names DEF ReleasesAreNamed
  <2>3. \A n \in done : release'[n] # 0
    BY <1>d DEF ReleasesAreNamed
  <2> QED
    BY <2>1, <2>2, <2>3 DEF ReleasesAreNamed
<1>4. QueueIsOpen'
  <2>1. \A n \in queue : n # m /\ release'[n] = release[n]
    BY <1>a, <1>d DEF QueueIsOpen
  <2> QED
    BY <1>b, <1>f, <2>1 DEF QueueIsOpen, Free, HoldApplies
<1>5. WritingIsFresh'
  BY <1>a, <1>b, <1>d, <1>f DEF WritingIsFresh, Free, HoldApplies
<1>6. ReleaseIsWritten'
  <2>1. group' \cap done' = {}
    BY <1>a DEF ReleaseIsWritten
  <2>2. todo' = {} => \A n \in group : release'[n] = Min(group)
    BY <1>a, <1>d, <1>b DEF WritingIsFresh
  <2> QED
    BY <1>f, <2>1, <2>2 DEF ReleaseIsWritten
<1>7. EndIsExplained'
  BY <1>a DEF EndIsExplained, WritingIsFresh
<1>8. SpokenIsRecorded'
  BY DEF SpokenIsRecorded
<1>9. ClosedIsExplained'
  <2>1. \A n \in done : n # m /\ release'[n] = release[n]
    BY <1>d
  <2> QED
    BY <2>1 DEF ClosedIsExplained
<1> QED
  BY <1>1, <1>2, <1>3, <1>4, <1>5, <1>6, <1>7, <1>8, <1>9

-----------------------------------------------------------------------------
(* The turn and what the model does in it.                                 *)

\* A reply is written under the release in progress, and held in management.
LEMMA ModelRepliesLoop == ASSUME LoopInv, ModelReplies PROVE LoopInv'
<1> USE DEF LoopInv, TypeOK, PassShape, InRelease, ModelReplies, inbound, outbox, pass,
            world, life, history
<1>a. Current \in Messages /\ Min(group) \in group /\ group # {}
  BY CurrentIsNamed
<1>b. Current' = Current
  BY DEF Current

<1>c. release[Current] = Current /\ Current # 0
  BY <1>a, Names DEF ReleaseIsWritten, ReleasesAreNamed
<1>d. /\ reply'[Current] \in {"pending", "pending-teach-check"} /\ reply[Current] = "absent"
      /\ ConvOf[Current] \in Management => reply'[Current] = "pending-teach-check"
      /\ \A r \in Messages : r # Current => reply'[r] = reply[r]
  BY <1>a
<1>1. TypeOK'
  BY <1>a
<1>2. PassShape'
  OBVIOUS
<1>3. ReleasesAreNamed'
  BY <1>a, <1>c, <1>d DEF ReleasesAreNamed
<1>4. QueueIsOpen'
  <2>1. recovered = {}
    OBVIOUS
  <2>2. \A n \in queue : release[n] # 0 => reply'[release[n]] = reply[release[n]]
    BY <1>a, <1>d, Names DEF QueueIsOpen
  <2> QED
    BY <1>b, <2>1, <2>2 DEF QueueIsOpen, Free, HoldApplies
<1>5. WritingIsFresh'
  BY DEF WritingIsFresh, Free, HoldApplies, Current
<1>6. ReleaseIsWritten'
  BY <1>b DEF ReleaseIsWritten
<1>7. EndIsExplained'
  BY <1>b, <1>d DEF EndIsExplained
<1>8. SpokenIsRecorded'
  BY <1>a, <1>d DEF SpokenIsRecorded
<1>9. ClosedIsExplained'
  <2>1. ASSUME NEW n \in done, reply[release[n]] \notin {"absent", "pending-teach-check"}
        PROVE  reply'[release[n]] = reply[release[n]]
    BY <1>d, <2>1, Names DEF ReleasesAreNamed
  <2> QED
    BY <2>1 DEF ClosedIsExplained
<1> QED
  BY <1>1, <1>2, <1>3, <1>4, <1>5, <1>6, <1>7, <1>8, <1>9

\* A teaching adds a record.
LEMMA ModelTeachesLoop == ASSUME LoopInv, ModelTeaches PROVE LoopInv'
<1> USE DEF LoopInv, TypeOK, PassShape, InRelease, ModelTeaches, inbound, outbox, pass,
            world, life, history
<1>a. Current \in Messages /\ Min(group) \in group /\ group # {}
  BY CurrentIsNamed
<1>b. Current' = Current
  BY DEF Current
<1>1. TypeOK'
  BY <1>a
<1>2. PassShape'
  OBVIOUS
<1>3. ReleasesAreNamed'
  BY DEF ReleasesAreNamed
<1>4. QueueIsOpen'
  BY DEF QueueIsOpen, Free, HoldApplies, Unanswered, Current
<1>5. WritingIsFresh'
  BY DEF WritingIsFresh, Free, HoldApplies, Current
<1>6. ReleaseIsWritten'
  BY DEF ReleaseIsWritten, Current
<1>7. EndIsExplained'
  BY DEF EndIsExplained, Explained, Current
<1>8. SpokenIsRecorded'
  BY DEF SpokenIsRecorded
<1>9. ClosedIsExplained'
  BY DEF ClosedIsExplained
<1> QED
  BY <1>1, <1>2, <1>3, <1>4, <1>5, <1>6, <1>7, <1>8, <1>9

\* A turn that wrote no reply is asked for it.
LEMMA TurnCompletedLoop == ASSUME LoopInv, TurnCompleted PROVE LoopInv'
<1> USE DEF LoopInv, TypeOK, PassShape, InRelease, TurnCompleted, inbound, outbox, pass,
            world, life, history, Written
<1>a. Current \in Messages /\ Min(group) \in group /\ group # {}
  BY CurrentIsNamed
<1>b. Current' = Current
  BY DEF Current
<1>1. TypeOK'
  <2>1. phase' \in Phases
    BY DEF Phases
  <2> QED
    BY <2>1
<1>2. PassShape'
  OBVIOUS
<1>3. ReleasesAreNamed'
  BY DEF ReleasesAreNamed
<1>4. QueueIsOpen'
  BY <1>b DEF QueueIsOpen, Free, HoldApplies
<1>5. WritingIsFresh'
  BY DEF WritingIsFresh, Free, HoldApplies, Current
<1>6. ReleaseIsWritten'
  BY <1>b DEF ReleaseIsWritten
<1>7. EndIsExplained'
  BY <1>b DEF EndIsExplained
<1>8. SpokenIsRecorded'
  BY DEF SpokenIsRecorded
<1>9. ClosedIsExplained'
  BY DEF ClosedIsExplained
<1> QED
  BY <1>1, <1>2, <1>3, <1>4, <1>5, <1>6, <1>7, <1>8, <1>9

\* The release stays open and the pass goes on.
LEMMA TurnInterruptedLoop == ASSUME LoopInv, TurnInterrupted PROVE LoopInv'
<1> USE DEF LoopInv, TypeOK, PassShape, InRelease, TurnInterrupted, inbound, outbox, pass,
            world, life, history
<1>a. Current \in Messages
  BY CurrentIsNamed
<1>1. TypeOK'
  <2>1. phase' \in Phases
    BY DEF Phases
  <2> QED
    BY <1>a, <2>1
<1>2. PassShape'
  OBVIOUS
<1>3. ReleasesAreNamed'
  BY DEF ReleasesAreNamed
<1>4. QueueIsOpen'
  BY DEF QueueIsOpen, Free, HoldApplies
<1>5. WritingIsFresh'
  BY DEF WritingIsFresh, Free, HoldApplies, Current
<1>6. ReleaseIsWritten'
  BY DEF ReleaseIsWritten, Current
<1>7. EndIsExplained'
  BY DEF EndIsExplained, Explained, Current
<1>8. SpokenIsRecorded'
  BY DEF SpokenIsRecorded
<1>9. ClosedIsExplained'
  BY DEF ClosedIsExplained
<1> QED
  BY <1>1, <1>2, <1>3, <1>4, <1>5, <1>6, <1>7, <1>8, <1>9

\* The messages of the group are to be marked.
LEMMA TurnFailedLoop == ASSUME LoopInv, TurnFailed PROVE LoopInv'
<1> USE DEF LoopInv, TypeOK, PassShape, InRelease, TurnFailed, inbound, outbox, pass,
            world, life, history
<1>1. TypeOK'
  <2>1. phase' \in Phases
    BY DEF Phases
  <2> QED
    BY <2>1
<1>2. PassShape'
  OBVIOUS
<1>3. ReleasesAreNamed'
  BY DEF ReleasesAreNamed
<1>4. QueueIsOpen'
  BY DEF QueueIsOpen, Free, HoldApplies, Unanswered, Current
<1>5. WritingIsFresh'
  BY DEF WritingIsFresh, Free, HoldApplies, Current
<1>6. ReleaseIsWritten'
  BY DEF ReleaseIsWritten, Current
<1>7. EndIsExplained'
  BY DEF EndIsExplained, Explained, Current
<1>8. SpokenIsRecorded'
  BY DEF SpokenIsRecorded
<1>9. ClosedIsExplained'
  BY DEF ClosedIsExplained
<1> QED
  BY <1>1, <1>2, <1>3, <1>4, <1>5, <1>6, <1>7, <1>8, <1>9

\* Without a reply the messages are declared or parked.
LEMMA ReplyAskedLoop == ASSUME LoopInv, ReplyAsked PROVE LoopInv'
<1> USE DEF LoopInv, TypeOK, PassShape, InRelease, ReplyAsked, inbound, outbox, pass,
            world, life, history, Written
<1>a. Current \in Messages /\ Min(group) \in group /\ group # {}
  BY CurrentIsNamed
<1>b. Current' = Current
  BY DEF Current
<1>1. TypeOK'
  <2>1. phase' \in Phases
    BY DEF Phases
  <2> QED
    BY <2>1
<1>2. PassShape'
  OBVIOUS
<1>3. ReleasesAreNamed'
  BY DEF ReleasesAreNamed
<1>4. QueueIsOpen'
  BY <1>b DEF QueueIsOpen, Free, HoldApplies
<1>5. WritingIsFresh'
  BY DEF WritingIsFresh, Free, HoldApplies, Current
<1>6. ReleaseIsWritten'
  BY <1>b DEF ReleaseIsWritten
<1>7. EndIsExplained'
  BY <1>b DEF EndIsExplained
<1>8. SpokenIsRecorded'
  BY DEF SpokenIsRecorded
<1>9. ClosedIsExplained'
  BY DEF ClosedIsExplained
<1> QED
  BY <1>1, <1>2, <1>3, <1>4, <1>5, <1>6, <1>7, <1>8, <1>9

-----------------------------------------------------------------------------
(* The teaching check, and the marks on each message of the group.         *)

\* A held reply goes with a teaching behind it, or is asked about.
LEMMA TeachCheckLoop == ASSUME LoopInv, TeachCheck PROVE LoopInv'
<1> USE DEF LoopInv, TypeOK, PassShape, InRelease, TeachCheck, inbound, outbox, pass,
            world, life, history, Held, Close
<1>a. Current \in Messages /\ Min(group) \in group /\ group # {}
  BY CurrentIsNamed
<1>b. Current' = Current
  BY DEF Current

<1>c. release[Current] = Current /\ Current # 0 /\ (reply[Current] # "absent" \/ reply' = reply)
  BY <1>a, Names DEF ReleaseIsWritten, ReleasesAreNamed, EndIsExplained, Held, LetGo
<1>d. /\ \A r \in Messages : r # Current => reply'[r] = reply[r]
      /\ reply'[Current] = reply[Current] \/ reply'[Current] = "pending"
      /\ reply' \in [Messages -> {"absent", "pending", "pending-teach-check",
                                  "sent", "unknown", "failed"}]
  BY <1>a DEF LetGo
<1>1. TypeOK'
  <2>1. phase' \in Phases
    BY DEF Phases
  <2> QED
    BY <1>d, <2>1
<1>2. PassShape'
  OBVIOUS
<1>3. ReleasesAreNamed'
  BY <1>c, <1>d DEF ReleasesAreNamed
<1>4. QueueIsOpen'
  <2>1. \A n \in queue : release[n] # 0 => reply'[release[n]] = reply[release[n]]
    BY <1>a, <1>d, Names DEF QueueIsOpen
  <2> QED
    BY <1>b, <2>1 DEF QueueIsOpen, Free, HoldApplies
<1>5. WritingIsFresh'
  BY DEF WritingIsFresh, Free, HoldApplies, Current
<1>6. ReleaseIsWritten'
  BY <1>b DEF ReleaseIsWritten
<1>7. EndIsExplained'
  <2>1. CASE phase' = "closing"
    <3>1. \A n \in group : release[n] = Current
      BY DEF ReleaseIsWritten
    <3>2. reply'[Current] = "pending" \/ (reply' = reply /\ reply[Current] # "pending-teach-check")
      BY <1>a, <2>1 DEF LetGo
    <3> QED
      BY <2>1, <3>1, <3>2 DEF EndIsExplained, Explained
  <2>2. CASE phase' = "turn"
    BY <1>b, <2>2 DEF EndIsExplained
  <2> QED
    BY <2>1, <2>2
<1>8. SpokenIsRecorded'
  BY <1>a, <1>d DEF SpokenIsRecorded, LetGo
<1>9. ClosedIsExplained'
  <2>1. ASSUME NEW n \in done, reply[release[n]] \notin {"absent", "pending-teach-check"}
        PROVE  reply'[release[n]] \notin {"absent", "pending-teach-check"}
    BY <1>d, <2>1, Names DEF ReleasesAreNamed
  <2> QED
    BY <2>1 DEF ClosedIsExplained, Explained
<1> QED
  BY <1>1, <1>2, <1>3, <1>4, <1>5, <1>6, <1>7, <1>8, <1>9

\* A held reply goes with a teaching or an excuse, or is shelved.
LEMMA TeachAskedLoop == ASSUME LoopInv, TeachAsked PROVE LoopInv'
<1> USE DEF LoopInv, TypeOK, PassShape, InRelease, TeachAsked, inbound, outbox, pass,
            world, life, history, Close
<1>a. Current \in Messages /\ Min(group) \in group /\ group # {}
  BY CurrentIsNamed
<1>b. Current' = Current
  BY DEF Current

<1>c. release[Current] = Current /\ Current # 0 /\ (reply[Current] # "absent" \/ reply' = reply)
  BY <1>a, Names DEF ReleaseIsWritten, ReleasesAreNamed, EndIsExplained, Held, LetGo
<1>d. /\ \A r \in Messages : r # Current => reply'[r] = reply[r]
      /\ reply'[Current] = reply[Current] \/ reply'[Current] = "pending"
      /\ reply' \in [Messages -> {"absent", "pending", "pending-teach-check",
                                  "sent", "unknown", "failed"}]
  BY <1>a DEF LetGo
<1>1. TypeOK'
  <2>1. phase' \in Phases
    BY DEF Phases
  <2> QED
    BY <1>a, <1>d, <2>1
<1>2. PassShape'
  OBVIOUS
<1>3. ReleasesAreNamed'
  BY <1>c, <1>d DEF ReleasesAreNamed
<1>4. QueueIsOpen'
  <2>1. \A n \in queue : release[n] # 0 => reply'[release[n]] = reply[release[n]]
    BY <1>a, <1>d, Names DEF QueueIsOpen
  <2> QED
    BY <1>b, <2>1 DEF QueueIsOpen, Free, HoldApplies
<1>5. WritingIsFresh'
  BY DEF WritingIsFresh, Free, HoldApplies, Current
<1>6. ReleaseIsWritten'
  BY <1>b DEF ReleaseIsWritten
<1>7. EndIsExplained'
  <2>1. \A n \in group : release[n] = Current
    BY DEF ReleaseIsWritten
  <2>2. reply'[Current] = "pending" \/ Current \in shelved'
    BY <1>a DEF LetGo
  <2> QED
    BY <2>1, <2>2 DEF EndIsExplained, Explained
<1>8. SpokenIsRecorded'
  BY <1>a, <1>d DEF SpokenIsRecorded, LetGo
<1>9. ClosedIsExplained'
  <2>1. ASSUME NEW n \in done, reply[release[n]] \notin {"absent", "pending-teach-check"}
        PROVE  reply'[release[n]] \notin {"absent", "pending-teach-check"}
    BY <1>d, <2>1, Names DEF ReleasesAreNamed
  <2> QED
    BY <2>1 DEF ClosedIsExplained, Explained
<1> QED
  BY <1>1, <1>2, <1>3, <1>4, <1>5, <1>6, <1>7, <1>8, <1>9

\* A failed message is marked.
LEMMA FailMarkLoop == ASSUME LoopInv, NEW m \in Messages, FailMark(m) PROVE LoopInv'
<1> USE DEF LoopInv, TypeOK, PassShape, InRelease, FailMark, inbound, outbox, pass, world,
            life, history
<1>a. m \in todo /\ m \in group /\ m \in Messages /\ group # {}
  BY Leasts
<1>b. Current' = Current
  BY DEF Current
<1>1. TypeOK'
  <2>1. phase' \in Phases
    BY DEF Phases
  <2> QED
    BY <1>a, <2>1
<1>2. PassShape'
  OBVIOUS
<1>3. ReleasesAreNamed'
  BY DEF ReleasesAreNamed
<1>4. QueueIsOpen'
  BY <1>a, <1>b DEF QueueIsOpen, Free, HoldApplies
<1>5. WritingIsFresh'
  BY DEF WritingIsFresh, Free, HoldApplies, Current
<1>6. ReleaseIsWritten'
  BY <1>a, <1>b DEF ReleaseIsWritten
<1>7. EndIsExplained'
  BY <1>a, <1>b DEF EndIsExplained, Explained
<1>8. SpokenIsRecorded'
  BY DEF SpokenIsRecorded
<1>9. ClosedIsExplained'
  BY DEF ClosedIsExplained
<1> QED
  BY <1>1, <1>2, <1>3, <1>4, <1>5, <1>6, <1>7, <1>8, <1>9

\* A marked message is closed.
LEMMA FailCloseLoop == ASSUME LoopInv, NEW m \in Messages, FailClose(m) PROVE LoopInv'
<1> USE DEF LoopInv, TypeOK, PassShape, InRelease, FailClose, inbound, outbox, pass, world,
            life, history
<1>a. m \in todo /\ m \in group /\ m \in Messages /\ group # {}
  BY Leasts
<1>b. Current' = Current
  BY DEF Current
<1>1. TypeOK'
  <2>1. phase' \in Phases
    BY DEF Phases
  <2> QED
    BY <1>a, <2>1
<1>2. PassShape'
  OBVIOUS
<1>3. ReleasesAreNamed'
  BY <1>a, CurrentIsNamed, Names DEF ReleasesAreNamed, ReleaseIsWritten
<1>4. QueueIsOpen'
  BY <1>a, <1>b DEF QueueIsOpen, Free, HoldApplies
<1>5. WritingIsFresh'
  BY DEF WritingIsFresh, Free, HoldApplies, Current
<1>6. ReleaseIsWritten'
  BY <1>a, <1>b DEF ReleaseIsWritten
<1>7. EndIsExplained'
  BY <1>a, <1>b DEF EndIsExplained, Explained
<1>8. SpokenIsRecorded'
  BY DEF SpokenIsRecorded
<1>9. ClosedIsExplained'
  BY <1>a DEF ClosedIsExplained
<1> QED
  BY <1>1, <1>2, <1>3, <1>4, <1>5, <1>6, <1>7, <1>8, <1>9

\* The outcome goes on each message.
LEMMA DeclareLoop == ASSUME LoopInv, NEW m \in Messages, Declare(m) PROVE LoopInv'
<1> USE DEF LoopInv, TypeOK, PassShape, InRelease, Declare, inbound, outbox, pass, world,
            life, history
<1>a. m \in todo /\ m \in group /\ m \in Messages /\ group # {}
  BY Leasts
<1>b. Current' = Current
  BY DEF Current
<1>1. TypeOK'
  <2>1. phase' \in Phases
    BY DEF Phases
  <2> QED
    BY <1>a, <2>1
<1>2. PassShape'
  OBVIOUS
<1>3. ReleasesAreNamed'
  BY DEF ReleasesAreNamed
<1>4. QueueIsOpen'
  BY <1>a, <1>b DEF QueueIsOpen, Free, HoldApplies
<1>5. WritingIsFresh'
  BY DEF WritingIsFresh, Free, HoldApplies, Current
<1>6. ReleaseIsWritten'
  BY <1>a, <1>b DEF ReleaseIsWritten
<1>7. EndIsExplained'
  BY <1>a, <1>b DEF EndIsExplained, Explained
<1>8. SpokenIsRecorded'
  BY DEF SpokenIsRecorded
<1>9. ClosedIsExplained'
  BY DEF ClosedIsExplained
<1> QED
  BY <1>1, <1>2, <1>3, <1>4, <1>5, <1>6, <1>7, <1>8, <1>9

\* A message nobody answered is parked, and none of the queue with it.
LEMMA ParkLoop == ASSUME LoopInv, NEW m \in Messages, Park(m) PROVE LoopInv'
<1> USE DEF LoopInv, TypeOK, PassShape, InRelease, Park, inbound, outbox, pass, world,
            life, history
<1>a. m \in todo /\ m \in group /\ m \in Messages /\ group # {}
  BY Leasts
<1>b. Current' = Current
  BY DEF Current
<1>1. TypeOK'
  <2>1. phase' \in Phases
    BY DEF Phases
  <2> QED
    BY <1>a, <2>1
<1>2. PassShape'
  OBVIOUS
<1>3. ReleasesAreNamed'
  BY DEF ReleasesAreNamed
<1>4. QueueIsOpen'
  BY <1>a, <1>b DEF QueueIsOpen, Free, HoldApplies
<1>5. WritingIsFresh'
  BY DEF WritingIsFresh, Free, HoldApplies, Current
<1>6. ReleaseIsWritten'
  BY <1>a, <1>b DEF ReleaseIsWritten
<1>7. EndIsExplained'
  BY <1>a, <1>b DEF EndIsExplained, Explained
<1>8. SpokenIsRecorded'
  BY DEF SpokenIsRecorded
<1>9. ClosedIsExplained'
  BY DEF ClosedIsExplained
<1> QED
  BY <1>1, <1>2, <1>3, <1>4, <1>5, <1>6, <1>7, <1>8, <1>9

\* A message is closed with its reply or its reason.
LEMMA CloseOneLoop == ASSUME LoopInv, NEW m \in Messages, CloseOne(m) PROVE LoopInv'
<1> USE DEF LoopInv, TypeOK, PassShape, InRelease, CloseOne, inbound, outbox, pass, world,
            life, history
<1>a. m \in todo /\ m \in group /\ m \in Messages /\ group # {}
  BY Leasts
<1>b. group' # {} => Current' = Current
  BY DEF Current
<1>1. TypeOK'
  <2>1. phase' \in Phases
    BY DEF Phases
  <2> QED
    BY <1>a, <2>1
<1>2. PassShape'
  OBVIOUS
<1>3. ReleasesAreNamed'
  BY <1>a, CurrentIsNamed, Names DEF ReleasesAreNamed, ReleaseIsWritten
<1>4. QueueIsOpen'
  BY <1>a, <1>b DEF QueueIsOpen, Free, HoldApplies
<1>5. WritingIsFresh'
  BY DEF WritingIsFresh, Free, HoldApplies, Current
<1>6. ReleaseIsWritten'
  BY <1>a, <1>b DEF ReleaseIsWritten
<1>7. EndIsExplained'
  BY <1>a, <1>b DEF EndIsExplained, Explained
<1>8. SpokenIsRecorded'
  BY DEF SpokenIsRecorded
<1>9. ClosedIsExplained'
  BY <1>a DEF ClosedIsExplained, EndIsExplained, Explained
<1> QED
  BY <1>1, <1>2, <1>3, <1>4, <1>5, <1>6, <1>7, <1>8, <1>9

-----------------------------------------------------------------------------
(* The delivery, and the hold that passes.                                 *)

\* The queue is empty, or left for the next process.
LEMMA GroupsDoneLoop == ASSUME LoopInv, GroupsDone PROVE LoopInv'
<1> USE DEF LoopInv, TypeOK, PassShape, InRelease, GroupsDone, inbound, outbox, pass,
            world, life, history
<1>1. TypeOK'
  <2>1. phase' \in Phases
    BY DEF Phases
  <2> QED
    BY <2>1
<1>2. PassShape'
  OBVIOUS
<1>3. ReleasesAreNamed'
  BY DEF ReleasesAreNamed
<1>4. QueueIsOpen'
  BY DEF QueueIsOpen, Free, HoldApplies, Unanswered, Current
<1>5. WritingIsFresh'
  BY DEF WritingIsFresh, Free, HoldApplies, Current
<1>6. ReleaseIsWritten'
  BY DEF ReleaseIsWritten, Current
<1>7. EndIsExplained'
  BY DEF EndIsExplained, Explained, Current
<1>8. SpokenIsRecorded'
  BY DEF SpokenIsRecorded
<1>9. ClosedIsExplained'
  BY DEF ClosedIsExplained
<1> QED
  BY <1>1, <1>2, <1>3, <1>4, <1>5, <1>6, <1>7, <1>8, <1>9

\* A pending reply is answered; what was sent is to be closed.
LEMMA DeliverOneLoop == ASSUME LoopInv, NEW r \in Messages, NEW s \in {"sent", "unknown",
                        "failed"}, DeliverOne(r, s)
                        PROVE LoopInv'
<1> USE DEF LoopInv, TypeOK, PassShape, InRelease, DeliverOne, inbound, outbox, pass,
            world, life, history, Open
<1>a. todo' \subseteq Messages
  BY CapturedAreMessages
<1>b. /\ reply'[r] = s /\ reply[r] = "pending"
      /\ \A q \in Messages : q # r => reply'[q] = reply[q]
  OBVIOUS
<1>1. TypeOK'
  BY <1>a
<1>2. PassShape'
  OBVIOUS
<1>3. ReleasesAreNamed'
  BY <1>b DEF ReleasesAreNamed
<1>4. QueueIsOpen'
  BY DEF QueueIsOpen, Free, HoldApplies, Unanswered, Current
<1>5. WritingIsFresh'
  BY DEF WritingIsFresh, Free, HoldApplies, Current
<1>6. ReleaseIsWritten'
  BY DEF ReleaseIsWritten, Current
<1>7. EndIsExplained'
  <2>1. \A m \in todo' : release[m] = r /\ release[m] # 0 /\ s = "sent"
    OBVIOUS
  <2> QED
    BY <1>b, <2>1 DEF EndIsExplained
<1>8. SpokenIsRecorded'
  BY <1>b DEF SpokenIsRecorded
<1>9. ClosedIsExplained'
  <2>1. ASSUME NEW n \in done, reply[release[n]] \notin {"absent", "pending-teach-check"}
        PROVE  reply'[release[n]] \notin {"absent", "pending-teach-check"}
    BY <1>b, <2>1, Names DEF ReleasesAreNamed
  <2> QED
    BY <2>1 DEF ClosedIsExplained
<1> QED
  BY <1>1, <1>2, <1>3, <1>4, <1>5, <1>6, <1>7, <1>8, <1>9

\* A message is closed with the reply that was sent.
LEMMA DeliverCloseLoop == ASSUME LoopInv, NEW m \in Messages, DeliverClose(m) PROVE LoopInv'
<1> USE DEF LoopInv, TypeOK, PassShape, InRelease, DeliverClose, inbound, outbox, pass,
            world, life, history
<1>a. m \in todo
  BY Leasts
<1>1. TypeOK'
  OBVIOUS
<1>2. PassShape'
  OBVIOUS
<1>3. ReleasesAreNamed'
  BY <1>a DEF ReleasesAreNamed, EndIsExplained
<1>4. QueueIsOpen'
  BY DEF QueueIsOpen, Free, HoldApplies, Unanswered, Current
<1>5. WritingIsFresh'
  BY DEF WritingIsFresh, Free, HoldApplies, Current
<1>6. ReleaseIsWritten'
  BY DEF ReleaseIsWritten, Current
<1>7. EndIsExplained'
  BY DEF EndIsExplained, Explained, Current
<1>8. SpokenIsRecorded'
  BY DEF SpokenIsRecorded
<1>9. ClosedIsExplained'
  BY <1>a DEF ClosedIsExplained, EndIsExplained
<1> QED
  BY <1>1, <1>2, <1>3, <1>4, <1>5, <1>6, <1>7, <1>8, <1>9

\* The pass is over.
LEMMA DeliverDoneLoop == ASSUME LoopInv, DeliverDone PROVE LoopInv'
<1> USE DEF LoopInv, TypeOK, PassShape, InRelease, DeliverDone, inbound, outbox, pass,
            world, life, history
<1>1. TypeOK'
  <2>1. phase' \in Phases
    BY DEF Phases
  <2> QED
    BY <2>1
<1>2. PassShape'
  OBVIOUS
<1>3. ReleasesAreNamed'
  BY DEF ReleasesAreNamed
<1>4. QueueIsOpen'
  BY DEF QueueIsOpen, Free, HoldApplies, Unanswered, Current
<1>5. WritingIsFresh'
  BY DEF WritingIsFresh, Free, HoldApplies, Current
<1>6. ReleaseIsWritten'
  BY DEF ReleaseIsWritten, Current
<1>7. EndIsExplained'
  BY DEF EndIsExplained, Explained, Current
<1>8. SpokenIsRecorded'
  BY DEF SpokenIsRecorded
<1>9. ClosedIsExplained'
  BY DEF ClosedIsExplained
<1> QED
  BY <1>1, <1>2, <1>3, <1>4, <1>5, <1>6, <1>7, <1>8, <1>9

\* A hold passes while nothing is chosen.
LEMMA HoldExpiresLoop == ASSUME LoopInv, NEW c \in Conversations, HoldExpires(c)
                         PROVE LoopInv'
<1> USE DEF LoopInv, TypeOK, PassShape, InRelease, HoldExpires, inbound, outbox, pass,
            world, life, history
<1>1. TypeOK'
  OBVIOUS
<1>2. PassShape'
  OBVIOUS
<1>3. ReleasesAreNamed'
  BY DEF ReleasesAreNamed
<1>4. QueueIsOpen'
  BY DEF QueueIsOpen, Free, HoldApplies, Unanswered, Current
<1>5. WritingIsFresh'
  BY DEF WritingIsFresh, Free, HoldApplies, Current
<1>6. ReleaseIsWritten'
  BY DEF ReleaseIsWritten, Current
<1>7. EndIsExplained'
  BY DEF EndIsExplained, Explained, Current
<1>8. SpokenIsRecorded'
  BY DEF SpokenIsRecorded
<1>9. ClosedIsExplained'
  BY DEF ClosedIsExplained
<1> QED
  BY <1>1, <1>2, <1>3, <1>4, <1>5, <1>6, <1>7, <1>8, <1>9

-----------------------------------------------------------------------------
(* Every step, and what follows for every behaviour.                       *)

\* Nothing that the invariant reads changes in a stuttering step.
LEMMA StutterLoop == ASSUME LoopInv, UNCHANGED vars PROVE LoopInv'
<1> USE DEF LoopInv, vars, inbound, outbox, pass, world, life, history
<1>1. TypeOK' /\ PassShape'
  BY DEF TypeOK, PassShape, InRelease
<1>2. ReleasesAreNamed' /\ QueueIsOpen' /\ WritingIsFresh'
  BY DEF ReleasesAreNamed, QueueIsOpen, WritingIsFresh, Free, HoldApplies, Unanswered,
         Current
<1>3. ReleaseIsWritten' /\ EndIsExplained'
  BY DEF ReleaseIsWritten, EndIsExplained, Explained, InRelease, Current
<1>4. SpokenIsRecorded' /\ ClosedIsExplained'
  BY DEF SpokenIsRecorded, ClosedIsExplained
<1> QED
  BY <1>1, <1>2, <1>3, <1>4

\* A step of a turn's end.
LEMMA TurnEndsLoop == ASSUME LoopInv, TurnEnds PROVE LoopInv'
BY TurnCompletedLoop, TurnInterruptedLoop, TurnFailedLoop, ReplyAskedLoop, TeachAskedLoop
   DEF TurnEnds

\* A step of the choice and of the writing of a release.
LEMMA ReleaseLoopSteps == ASSUME LoopInv, Release PROVE LoopInv'
BY SelectHeldLoop, SelectLoop, GroupHeldLoop, GroupStartLoop, GroupsDoneLoop,
   WriteReleaseLoop
   DEF Release

\* A step that settles a release.
LEMMA SettleLoop == ASSUME LoopInv, Settle PROVE LoopInv'
<1>1. ASSUME NEW m \in Messages, FailMark(m) \/ FailClose(m) \/ Declare(m) \/ Park(m) \/ CloseOne(m)
      PROVE  LoopInv'
  BY <1>1, FailMarkLoop, FailCloseLoop, DeclareLoop, ParkLoop, CloseOneLoop
<1>2. TeachCheck \/ Latch => LoopInv'
  BY TeachCheckLoop, EndsLoop
<1> QED
  BY <1>1, <1>2 DEF Settle

\* A step of the delivery.
LEMMA DeliverLoop == ASSUME LoopInv, Deliver PROVE LoopInv'
<1>1. ASSUME NEW r \in Messages, NEW s \in {"sent", "unknown", "failed"}, DeliverOne(r, s)
      PROVE  LoopInv'
  BY <1>1, DeliverOneLoop
<1>2. DeliverDone \/ Drained \/ (\E m \in Messages : DeliverClose(m)) => LoopInv'
  BY DeliverDoneLoop, EndsLoop, DeliverCloseLoop
<1> QED
  BY <1>1, <1>2 DEF Deliver

\* Every step keeps the invariant.
LEMMA StepLoop == ASSUME LoopInv, [Next]_vars PROVE LoopInv'
<1>1. CASE Process
  <2>1. Start \/ PassStart \/ Recover => LoopInv'
    BY StartLoop, PassStartLoop, RecoverDoneLoop, RecoverCloseLoop DEF Recover
  <2> QED
    BY <1>1, <2>1, ReleaseLoopSteps, TurnEndsLoop, SettleLoop, DeliverLoop DEF Process
<1>2. CASE ModelReplies \/ ModelTeaches
  BY <1>2, ModelRepliesLoop, ModelTeachesLoop
<1>3. CASE Crash \/ Signal \/ Install
  BY <1>3, EndsLoop, SignalLoop, InstallLoop
<1>4. CASE \E c \in Conversations : HoldExpires(c)
  BY <1>4, HoldExpiresLoop
<1>5. CASE UNCHANGED vars
  BY <1>5, StutterLoop
<1> QED
  BY <1>1, <1>2, <1>3, <1>4, <1>5 DEF Next

\* The invariant of the loop holds in every reachable state.
THEOREM LoopInvariant == Spec => []LoopInv
<1>1. Init => LoopInv
  BY InitLoop
<1>2. LoopInv /\ [Next]_vars => LoopInv'
  BY StepLoop
<1> QED
  BY <1>1, <1>2, PTL DEF Spec

\* README, nine rules, 1: when a turn starts, and for as long as it runs, its release
\* is on every message of the group, whatever was killed before.
THEOREM ReleaseIsOnEach == Spec => []WrittenBeforeTurn
<1>1. LoopInv => WrittenBeforeTurn
  BY DEF LoopInv, ReleaseIsWritten, WrittenBeforeTurn, InRelease
<1> QED
  BY <1>1, LoopInvariant, PTL

\* README, nine rules, 4: a reply held for the teach check goes only with a record
\* behind it or with the model's word that nothing was taught.
THEOREM SpokenStands == Spec => []SpokenIsRecorded
<1>1. LoopInv => SpokenIsRecorded
  BY DEF LoopInv
<1> QED
  BY <1>1, LoopInvariant, PTL

\* README, nine rules, 4: no path closes a message without a reply, a reason for none
\* or a person to look at it.
THEOREM ClosedStands == Spec => []ClosedIsExplained
<1>1. LoopInv => ClosedIsExplained
  BY DEF LoopInv
<1> QED
  BY <1>1, LoopInvariant, PTL

\* releaseDecision is read at the choice and applied later: what it saw still stands
\* when the release is written.
LEMMA HoldStep == ASSUME LoopInv, [Next]_vars, NEW m \in Messages, release[m] = 0, release'[m] # 0
                  PROVE  /\ m \notin parked
                         /\ HoldApplies(ConvOf[m]) => m \notin Operators /\ ConvOf[m] \notin heldByOp
<1>1. PICK n \in Messages : WriteRelease(n)
  BY DEF Next, Process, Recover, Release, TurnEnds, Settle, Deliver, Start, RecoverDone,
         RecoverClose,
     PassStart, SelectHeld, Select, GroupHeld, GroupStart, GroupsDone, TurnCompleted,
     TurnInterrupted, TurnFailed, ReplyAsked, TeachAsked, TeachCheck, Latch, FailMark, FailClose,
     Declare, Park, CloseOne, DeliverDone, Drained, DeliverClose, DeliverOne, ModelReplies,
     ModelTeaches, Crash, Signal, Install, HoldExpires, vars, inbound
<1>2. m = n /\ n \in todo /\ phase = "writing"
  BY <1>1, Leasts DEF WriteRelease, LoopInv, TypeOK
<1>3. m \in group
  BY <1>2 DEF LoopInv, PassShape
<1> QED
  BY <1>2, <1>3 DEF LoopInv, WritingIsFresh, Free

\* Only a re-issue, the last write of a fresh release, or the teach check starts a
\* turn, and each finds its messages open and its reply unanswered.
LEMMA AskStep == ASSUME LoopInv, [Next]_vars, phase # "turn", phase' = "turn"
                 PROVE  /\ group' \cap done = {}
                        /\ asking' = "answer" =>
                             reply[Current'] \in {"absent", "failed", "pending-teach-check"}
<1>1. GroupStart \/ TeachCheck \/ \E n \in Messages : WriteRelease(n)
  BY DEF Next, Process, Recover, Release, TurnEnds, Settle, Deliver, Start, RecoverDone,
         RecoverClose,
     PassStart, SelectHeld, Select, GroupHeld, GroupsDone, TurnCompleted,
     TurnInterrupted, TurnFailed, ReplyAsked, TeachAsked, Latch, FailMark, FailClose,
     Declare, Park, CloseOne, DeliverDone, Drained, DeliverClose, DeliverOne, ModelReplies,
     ModelTeaches, Crash, Signal, Install, HoldExpires, vars, pass, Die, Close
<1>2. CASE GroupStart
  <2>1. /\ group' = NextGroup /\ queue # {} /\ queue \subseteq Messages
        /\ release[Min(queue)] # 0 /\ release' = release
    BY <1>2 DEF GroupStart, LoopInv, TypeOK, inbound
  <2>2. Min(queue) \in queue
    BY <2>1, Leasts
  <2>3. group' \subseteq queue /\ group' # {} /\ \A n \in group' : release[n] = release[Min(queue)]
    BY <2>1, <2>2 DEF NextGroup, GroupOf
  <2>4. Min(group') \in group'
    BY <2>1, <2>3, Leasts
  <2>5. Current' = release[Min(queue)]
    BY <2>1, <2>3, <2>4 DEF Current
  <2>6. reply[Current'] \in Unanswered /\ group' \cap done = {}
    BY <2>1, <2>2, <2>3, <2>5 DEF LoopInv, QueueIsOpen
  <2> QED
    BY <2>6 DEF Unanswered
<1>3. CASE TeachCheck
  <2>1. asking' = "teach" /\ phase = "checking" /\ group' = group
    BY <1>3 DEF TeachCheck, Close
  <2> QED
    BY <2>1 DEF LoopInv, ReleaseIsWritten, InRelease
<1>4. ASSUME NEW n \in Messages, WriteRelease(n)
      PROVE  /\ group' \cap done = {}
             /\ asking' = "answer" =>
                  reply[Current'] \in {"absent", "failed", "pending-teach-check"}
  <2>1. phase = "writing" /\ group' = group /\ group # {} /\ release[Min(group)] \in 0..N
    BY <1>4, Leasts DEF WriteRelease, LoopInv, PassShape, TypeOK
  <2>2. group \cap done = {} /\ Min(group) \in Messages /\ Min(group) \in group
    BY <2>1, Leasts DEF LoopInv, ReleaseIsWritten, InRelease, TypeOK
  <2>3. Current = Min(group) /\ reply[Min(group)] = "absent"
    BY <2>1 DEF LoopInv, WritingIsFresh
  <2>4. release'[Min(group)] \in {release[Min(group)], Min(group)}
    BY <1>4, <2>2, <2>3 DEF WriteRelease, LoopInv, TypeOK
  <2>5. Current' = Min(group)
    BY <2>1, <2>3, <2>4 DEF Current
  <2> QED
    BY <2>1, <2>2, <2>3, <2>5
<1> QED
  BY <1>1, <1>2, <1>3, <1>4

\* README, nine rules, 1 and releaseDecision: a turn is asked only of messages that are
\* open and unanswered, and a release is written only where nobody holds it.
THEOREM ReleasesHaveReason == Spec => ReleasesWithReason
<1>1. LoopInv => TypeOK
  BY DEF LoopInv
<1>2. LoopInv /\ [Next]_vars =>
        [phase # "turn" /\ phase' = "turn" =>
           /\ group' \cap done = {}
           /\ asking' = "answer" =>
                reply[Current'] \in {"absent", "failed", "pending-teach-check"}]_vars
  BY AskStep
<1>3. LoopInv /\ [Next]_vars =>
        [\A m \in Messages : release[m] = 0 /\ release'[m] # 0 =>
           /\ m \notin parked
           /\ HoldApplies(ConvOf[m]) => m \notin Operators /\ ConvOf[m] \notin heldByOp]_vars
  BY HoldStep
<1>4. Spec => []TypeOK
  BY <1>1, LoopInvariant, PTL
<1>5. Spec => AsksOnlyTheUnanswered
  BY <1>2, LoopInvariant, PTL DEF Spec, AsksOnlyTheUnanswered
<1>6. Spec => ReleaseRespectsHold
  BY <1>3, LoopInvariant, PTL DEF Spec, ReleaseRespectsHold
<1> QED
  BY <1>4, <1>5, <1>6 DEF ReleasesWithReason

=============================================================================

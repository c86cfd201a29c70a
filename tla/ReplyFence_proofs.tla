-------------------------- MODULE ReplyFence_proofs -------------------------
(***************************************************************************)
(* Inv of ReplyFence is inductive for every set of requests and channels   *)
(* and every bound on kills; the safety properties and the refinement of   *)
(* ReplyPromise follow from it.                                            *)
(***************************************************************************)
EXTENDS ReplyFence, TLAPS

\* The initial store is empty and the process is about to recover.
LEMMA InitInv == Init => Inv
<1> SUFFICES ASSUME Init PROVE Inv
  OBVIOUS
<1> USE DEF Init
<1>1. TypeOK
  BY CrashAssumption DEF TypeOK, Status
<1>2. ProcessShape /\ QueueIsPending /\ LostFence
  BY DEF ProcessShape, QueueIsPending, LostFence
<1>3. CopiesAreAccounted /\ FlightIsCounted /\ ClaimedIsCertain
  BY RequestAssumption DEF CopiesAreAccounted, Accounted, FlightIsCounted, ClaimedIsCertain,
     Certain
<1>4. HoldIsManaged /\ FlagMeansUnknown /\ TwiceOnlyAfterCrash
  BY DEF HoldIsManaged, FlagMeansUnknown, TwiceOnlyAfterCrash
<1>5. ClaimedNeverTwice /\ ReceiptsAreTrue /\ FenceFollowsRecord
  BY RequestAssumption DEF ClaimedNeverTwice, ReceiptsAreTrue, FenceFollowsRecord, Settled
<1> QED
  BY <1>1, <1>2, <1>3, <1>4, <1>5 DEF Inv

\* A kill leaves the store as it is and counts the send in flight as cut.
LEMMA CrashInv == ASSUME Inv, Crash PROVE Inv'
<1> USE RequestAssumption, ChannelAssumption, CrashAssumption DEF Inv, Crash, Killed, Die,
   store, TypeOK, Settled, ProcessShape, QueueIsPending, Pending
<1>1. TypeOK'
  BY DEF Status
<1>2. (ProcessShape /\ QueueIsPending /\ LostFence)'
  BY DEF LostFence
<1>3. (CopiesAreAccounted /\ FlightIsCounted /\ ClaimedIsCertain)'
  BY DEF Status, LostFence, CopiesAreAccounted, Accounted, FlightIsCounted, ClaimedIsCertain,
     Certain
<1>4. (HoldIsManaged /\ FlagMeansUnknown /\ TwiceOnlyAfterCrash)'
  BY DEF Status, CopiesAreAccounted, Accounted, FlightIsCounted, HoldIsManaged, FlagMeansUnknown,
     TwiceOnlyAfterCrash
<1>5. (ClaimedNeverTwice /\ ReceiptsAreTrue /\ FenceFollowsRecord)'
  BY DEF CopiesAreAccounted, ClaimedIsCertain, ClaimedNeverTwice, ReceiptsAreTrue,
     FenceFollowsRecord
<1> QED
  BY <1>1, <1>2, <1>3, <1>4, <1>5 DEF Inv

\* A restart reads nothing yet.
LEMMA StartInv == ASSUME Inv, Start PROVE Inv'
<1> USE RequestAssumption, ChannelAssumption, CrashAssumption DEF Inv, Start, store, history,
   TypeOK, Settled, ProcessShape, QueueIsPending, Pending
<1>1. TypeOK'
  BY DEF Status
<1>2. (ProcessShape /\ QueueIsPending /\ LostFence)'
  BY DEF LostFence
<1>3. (CopiesAreAccounted /\ FlightIsCounted /\ ClaimedIsCertain)'
  BY DEF Status, LostFence, CopiesAreAccounted, Accounted, FlightIsCounted, ClaimedIsCertain,
     Certain
<1>4. (HoldIsManaged /\ FlagMeansUnknown /\ TwiceOnlyAfterCrash)'
  BY DEF Status, CopiesAreAccounted, Accounted, FlightIsCounted, HoldIsManaged, FlagMeansUnknown,
     TwiceOnlyAfterCrash
<1>5. (ClaimedNeverTwice /\ ReceiptsAreTrue /\ FenceFollowsRecord)'
  BY DEF CopiesAreAccounted, ClaimedIsCertain, ClaimedNeverTwice, ReceiptsAreTrue,
     FenceFollowsRecord
<1> QED
  BY <1>1, <1>2, <1>3, <1>4, <1>5 DEF Inv

\* reply() writes a record that no pass has read.
LEMMA ReplyInv == ASSUME Inv, NEW r \in Requests, Reply(r) PROVE Inv'
<1> USE RequestAssumption, ChannelAssumption, CrashAssumption DEF Inv, Reply, Unfenced,
   Captured, WrittenAt, process, history, TypeOK, Settled, ProcessShape, QueueIsPending,
   Pending
<1>1. TypeOK'
  BY DEF Status
<1>2. (ProcessShape /\ QueueIsPending /\ LostFence)'
  BY DEF LostFence
<1>3. CopiesAreAccounted'
  <2> SUFFICES ASSUME NEW q \in Requests PROVE Accounted(q)'
    BY DEF CopiesAreAccounted
  <2>1. Accounted(q) /\ accepted[q] \in 0..2
    BY DEF CopiesAreAccounted
  <2>2. CASE q = r
    BY <2>1, <2>2 DEF Accounted, Status, LostFence, HoldIsManaged
  <2>3. CASE q # r
    BY <2>1, <2>3 DEF Accounted
  <2> QED
    BY <2>2, <2>3
<1>6. FlightIsCounted'
  BY DEF FlightIsCounted
<1>7. ClaimedIsCertain'
  <2> SUFFICES ASSUME NEW q \in Claimed PROVE Certain(q)'
    BY DEF ClaimedIsCertain
  <2>1. Certain(q) /\ Accounted(q) /\ accepted[q] \in 0..2 /\ q \in Requests
    BY DEF ClaimedIsCertain, CopiesAreAccounted
  <2>2. CASE q = r
    BY <2>1, <2>2 DEF Certain, Accounted
  <2>3. CASE q # r
    BY <2>1, <2>3 DEF Certain
  <2> QED
    BY <2>2, <2>3
<1>4. (HoldIsManaged /\ FlagMeansUnknown /\ TwiceOnlyAfterCrash)'
  BY DEF Status, CopiesAreAccounted, Accounted, FlightIsCounted, HoldIsManaged, FlagMeansUnknown,
     TwiceOnlyAfterCrash
<1>5. (ClaimedNeverTwice /\ ReceiptsAreTrue /\ FenceFollowsRecord)'
  BY DEF CopiesAreAccounted, ClaimedIsCertain, ClaimedNeverTwice, ReceiptsAreTrue,
     FenceFollowsRecord
<1> QED
  BY <1>1, <1>2, <1>3, <1>4, <1>5, <1>6, <1>7 DEF Inv

\* A torn reply() leaves a record with no request file, and it is in torn.
LEMMA ReplyTornInv == ASSUME Inv, NEW r \in Requests, ReplyTorn(r) PROVE Inv'
<1> USE RequestAssumption, ChannelAssumption, CrashAssumption DEF Inv, ReplyTorn, Unfenced,
   Captured, WrittenAt, Killed, Die, TypeOK, Settled, ProcessShape, QueueIsPending, Pending
<1>1. TypeOK'
  BY DEF Status
<1>2. (ProcessShape /\ QueueIsPending /\ LostFence)'
  BY DEF LostFence
<1>3. CopiesAreAccounted'
  <2> SUFFICES ASSUME NEW q \in Requests PROVE Accounted(q)'
    BY DEF CopiesAreAccounted
  <2>1. Accounted(q) /\ accepted[q] \in 0..2
    BY DEF CopiesAreAccounted
  <2>2. CASE q = r
    BY <2>1, <2>2 DEF Accounted, Status, LostFence, HoldIsManaged
  <2>3. CASE q # r
    BY <2>1, <2>3 DEF Accounted
  <2> QED
    BY <2>2, <2>3
<1>6. FlightIsCounted'
  BY DEF FlightIsCounted
<1>7. ClaimedIsCertain'
  <2> SUFFICES ASSUME NEW q \in Claimed PROVE Certain(q)'
    BY DEF ClaimedIsCertain
  <2>1. Certain(q) /\ Accounted(q) /\ accepted[q] \in 0..2 /\ q \in Requests
    BY DEF ClaimedIsCertain, CopiesAreAccounted
  <2>2. CASE q = r
    BY <2>1, <2>2 DEF Certain, Accounted
  <2>3. CASE q # r
    BY <2>1, <2>3 DEF Certain
  <2> QED
    BY <2>2, <2>3
<1>4. (HoldIsManaged /\ FlagMeansUnknown /\ TwiceOnlyAfterCrash)'
  BY DEF Status, CopiesAreAccounted, Accounted, FlightIsCounted, HoldIsManaged, FlagMeansUnknown,
     TwiceOnlyAfterCrash
<1>5. (ClaimedNeverTwice /\ ReceiptsAreTrue /\ FenceFollowsRecord)'
  BY DEF CopiesAreAccounted, ClaimedIsCertain, ClaimedNeverTwice, ReceiptsAreTrue,
     FenceFollowsRecord
<1> QED
  BY <1>1, <1>2, <1>3, <1>4, <1>5, <1>6, <1>7 DEF Inv

\* A reply let go was held, so no copy of it was taken.
LEMMA LetGoInv == ASSUME Inv, NEW r \in Requests, LetGo(r) PROVE Inv'
<1> USE RequestAssumption, ChannelAssumption, CrashAssumption DEF Inv, LetGo, Holding, Settle,
   process, TypeOK, Settled, ProcessShape, QueueIsPending, Pending
<1>1. TypeOK'
  BY DEF Status
<1>2. (ProcessShape /\ QueueIsPending /\ LostFence)'
  BY DEF LostFence
<1>3. CopiesAreAccounted'
  <2> SUFFICES ASSUME NEW q \in Requests PROVE Accounted(q)'
    BY DEF CopiesAreAccounted
  <2>1. Accounted(q) /\ accepted[q] \in 0..2
    BY DEF CopiesAreAccounted
  <2>2. CASE q = r
    BY <2>1, <2>2 DEF Accounted, Status, LostFence, HoldIsManaged
  <2>3. CASE q # r
    BY <2>1, <2>3 DEF Accounted
  <2> QED
    BY <2>2, <2>3
<1>6. FlightIsCounted'
  BY DEF FlightIsCounted
<1>7. ClaimedIsCertain'
  <2> SUFFICES ASSUME NEW q \in Claimed PROVE Certain(q)'
    BY DEF ClaimedIsCertain
  <2>1. Certain(q) /\ Accounted(q) /\ accepted[q] \in 0..2 /\ q \in Requests
    BY DEF ClaimedIsCertain, CopiesAreAccounted
  <2>2. CASE q = r
    BY <2>1, <2>2 DEF Certain, Accounted
  <2>3. CASE q # r
    BY <2>1, <2>3 DEF Certain
  <2> QED
    BY <2>2, <2>3
<1>4. (HoldIsManaged /\ FlagMeansUnknown /\ TwiceOnlyAfterCrash)'
  BY DEF Status, CopiesAreAccounted, Accounted, FlightIsCounted, HoldIsManaged, FlagMeansUnknown,
     TwiceOnlyAfterCrash
<1>5. (ClaimedNeverTwice /\ ReceiptsAreTrue /\ FenceFollowsRecord)'
  BY DEF CopiesAreAccounted, ClaimedIsCertain, ClaimedNeverTwice, ReceiptsAreTrue,
     FenceFollowsRecord
<1> QED
  BY <1>1, <1>2, <1>3, <1>4, <1>5, <1>6, <1>7 DEF Inv

\* The same with the kill between the two writes.
LEMMA LetGoCutInv == ASSUME Inv, NEW r \in Requests, LetGoCut(r) PROVE Inv'
<1> USE RequestAssumption, ChannelAssumption, CrashAssumption DEF Inv, LetGoCut, Holding,
   SettleCut, Killed, Die, TypeOK, Settled, ProcessShape, QueueIsPending, Pending
<1>1. TypeOK'
  BY DEF Status
<1>2. (ProcessShape /\ QueueIsPending /\ LostFence)'
  BY DEF LostFence
<1>3. CopiesAreAccounted'
  <2> SUFFICES ASSUME NEW q \in Requests PROVE Accounted(q)'
    BY DEF CopiesAreAccounted
  <2>1. Accounted(q) /\ accepted[q] \in 0..2
    BY DEF CopiesAreAccounted
  <2>2. CASE q = r
    BY <2>1, <2>2 DEF Accounted, Status, LostFence, HoldIsManaged
  <2>3. CASE q # r
    BY <2>1, <2>3 DEF Accounted
  <2> QED
    BY <2>2, <2>3
<1>6. FlightIsCounted'
  BY DEF FlightIsCounted
<1>7. ClaimedIsCertain'
  <2> SUFFICES ASSUME NEW q \in Claimed PROVE Certain(q)'
    BY DEF ClaimedIsCertain
  <2>1. Certain(q) /\ Accounted(q) /\ accepted[q] \in 0..2 /\ q \in Requests
    BY DEF ClaimedIsCertain, CopiesAreAccounted
  <2>2. CASE q = r
    BY <2>1, <2>2 DEF Certain, Accounted
  <2>3. CASE q # r
    BY <2>1, <2>3 DEF Certain
  <2> QED
    BY <2>2, <2>3
<1>4. (HoldIsManaged /\ FlagMeansUnknown /\ TwiceOnlyAfterCrash)'
  BY DEF Status, CopiesAreAccounted, Accounted, FlightIsCounted, HoldIsManaged, FlagMeansUnknown,
     TwiceOnlyAfterCrash
<1>5. (ClaimedNeverTwice /\ ReceiptsAreTrue /\ FenceFollowsRecord)'
  BY DEF CopiesAreAccounted, ClaimedIsCertain, ClaimedNeverTwice, ReceiptsAreTrue,
     FenceFollowsRecord
<1> QED
  BY <1>1, <1>2, <1>3, <1>4, <1>5, <1>6, <1>7 DEF Inv

\* A let-go the store refuses ends the process and writes nothing.
LEMMA LetGoThrowsInv == ASSUME Inv, NEW r \in Requests, LetGoThrows(r) PROVE Inv'
<1> USE RequestAssumption, ChannelAssumption, CrashAssumption DEF Inv, LetGoThrows, Holding,
   Die, store, TypeOK, Settled, ProcessShape, QueueIsPending, Pending
<1>1. TypeOK'
  BY DEF Status
<1>2. (ProcessShape /\ QueueIsPending /\ LostFence)'
  BY DEF LostFence
<1>3. (CopiesAreAccounted /\ FlightIsCounted /\ ClaimedIsCertain)'
  BY DEF Status, LostFence, CopiesAreAccounted, Accounted, FlightIsCounted, ClaimedIsCertain,
     Certain
<1>4. (HoldIsManaged /\ FlagMeansUnknown /\ TwiceOnlyAfterCrash)'
  BY DEF Status, CopiesAreAccounted, Accounted, FlightIsCounted, HoldIsManaged, FlagMeansUnknown,
     TwiceOnlyAfterCrash
<1>5. (ClaimedNeverTwice /\ ReceiptsAreTrue /\ FenceFollowsRecord)'
  BY DEF CopiesAreAccounted, ClaimedIsCertain, ClaimedNeverTwice, ReceiptsAreTrue,
     FenceFollowsRecord
<1> QED
  BY <1>1, <1>2, <1>3, <1>4, <1>5 DEF Inv

\* A pass starts with nothing read.
LEMMA DeliverStartInv == ASSUME Inv, NEW c \in Channels, DeliverStart(c) PROVE Inv'
<1> USE RequestAssumption, ChannelAssumption, CrashAssumption DEF Inv, DeliverStart, store,
   history, TypeOK, Settled, ProcessShape, QueueIsPending, Pending
<1>1. TypeOK'
  BY DEF Status
<1>2. (ProcessShape /\ QueueIsPending /\ LostFence)'
  BY DEF LostFence
<1>3. (CopiesAreAccounted /\ FlightIsCounted /\ ClaimedIsCertain)'
  BY DEF Status, LostFence, CopiesAreAccounted, Accounted, FlightIsCounted, ClaimedIsCertain,
     Certain
<1>4. (HoldIsManaged /\ FlagMeansUnknown /\ TwiceOnlyAfterCrash)'
  BY DEF Status, CopiesAreAccounted, Accounted, FlightIsCounted, HoldIsManaged, FlagMeansUnknown,
     TwiceOnlyAfterCrash
<1>5. (ClaimedNeverTwice /\ ReceiptsAreTrue /\ FenceFollowsRecord)'
  BY DEF CopiesAreAccounted, ClaimedIsCertain, ClaimedNeverTwice, ReceiptsAreTrue,
     FenceFollowsRecord
<1> QED
  BY <1>1, <1>2, <1>3, <1>4, <1>5 DEF Inv

\* The receipt being posted is of a claimed send.
LEMMA NoteStartInv == ASSUME Inv, NEW r \in Requests, NoteStart(r) PROVE Inv'
<1> USE RequestAssumption, ChannelAssumption, CrashAssumption DEF Inv, NoteStart, Unbooked,
   store, history, TypeOK, Settled, ProcessShape, QueueIsPending, Pending
<1>1. TypeOK'
  BY DEF Status
<1>2. (ProcessShape /\ QueueIsPending /\ LostFence)'
  BY DEF LostFence
<1>3. (CopiesAreAccounted /\ FlightIsCounted /\ ClaimedIsCertain)'
  BY DEF Status, LostFence, CopiesAreAccounted, Accounted, FlightIsCounted, ClaimedIsCertain,
     Certain
<1>4. (HoldIsManaged /\ FlagMeansUnknown /\ TwiceOnlyAfterCrash)'
  BY DEF Status, CopiesAreAccounted, Accounted, FlightIsCounted, HoldIsManaged, FlagMeansUnknown,
     TwiceOnlyAfterCrash
<1>5. (ClaimedNeverTwice /\ ReceiptsAreTrue /\ FenceFollowsRecord)'
  BY DEF CopiesAreAccounted, ClaimedIsCertain, ClaimedNeverTwice, ReceiptsAreTrue,
     FenceFollowsRecord
<1> QED
  BY <1>1, <1>2, <1>3, <1>4, <1>5 DEF Inv

\* The receipt posted was of a sent record, so it is true.
LEMMA NoteDoneInv == ASSUME Inv, NoteDone PROVE Inv'
<1> USE RequestAssumption, ChannelAssumption, CrashAssumption DEF Inv, NoteDone, history,
   TypeOK, Settled, ProcessShape, QueueIsPending, Pending
<1>1. TypeOK'
  BY DEF Status
<1>2. (ProcessShape /\ QueueIsPending /\ LostFence)'
  BY DEF LostFence
<1>3. (CopiesAreAccounted /\ FlightIsCounted /\ ClaimedIsCertain)'
  BY DEF Status, LostFence, CopiesAreAccounted, Accounted, FlightIsCounted, ClaimedIsCertain,
     Certain
<1>4. (HoldIsManaged /\ FlagMeansUnknown /\ TwiceOnlyAfterCrash)'
  BY DEF Status, CopiesAreAccounted, Accounted, FlightIsCounted, HoldIsManaged, FlagMeansUnknown,
     TwiceOnlyAfterCrash
<1>5. (ClaimedNeverTwice /\ FenceFollowsRecord)'
  BY DEF ClaimedNeverTwice, FenceFollowsRecord
<1>6. ReceiptsAreTrue'
  <2>1. record[noting] = "sent" /\ accepted[noting] > 0
    BY DEF CopiesAreAccounted, Accounted
  <2> QED
    BY <2>1 DEF ReceiptsAreTrue
<1> QED
  BY <1>1, <1>2, <1>3, <1>4, <1>5, <1>6 DEF Inv

\* A post that fails may have been recorded all the same, and is true then too.
LEMMA NoteThrowsInv == ASSUME Inv, NoteThrows PROVE Inv'
<1> USE RequestAssumption, ChannelAssumption, CrashAssumption DEF Inv, NoteThrows, Die, TypeOK,
   Settled, ProcessShape, QueueIsPending, Pending
<1>1. TypeOK'
  BY DEF Status
<1>2. (ProcessShape /\ QueueIsPending /\ LostFence)'
  BY DEF LostFence
<1>3. (CopiesAreAccounted /\ FlightIsCounted /\ ClaimedIsCertain)'
  BY DEF Status, LostFence, CopiesAreAccounted, Accounted, FlightIsCounted, ClaimedIsCertain,
     Certain
<1>4. (HoldIsManaged /\ FlagMeansUnknown /\ TwiceOnlyAfterCrash)'
  BY DEF Status, CopiesAreAccounted, Accounted, FlightIsCounted, HoldIsManaged, FlagMeansUnknown,
     TwiceOnlyAfterCrash
<1>5. (ClaimedNeverTwice /\ FenceFollowsRecord)'
  BY DEF ClaimedNeverTwice, FenceFollowsRecord
<1>6. ReceiptsAreTrue'
  <2>1. record[noting] = "sent" /\ accepted[noting] > 0
    BY DEF CopiesAreAccounted, Accounted
  <2> QED
    BY <2>1 DEF ReceiptsAreTrue
<1> QED
  BY <1>1, <1>2, <1>3, <1>4, <1>5, <1>6 DEF Inv

\* The same with the kill before the annotation.
LEMMA NoteCutInv == ASSUME Inv, NoteCut PROVE Inv'
<1> USE RequestAssumption, ChannelAssumption, CrashAssumption DEF Inv, NoteCut, Killed, Die,
   TypeOK, Settled, ProcessShape, QueueIsPending, Pending
<1>1. TypeOK'
  BY DEF Status
<1>2. (ProcessShape /\ QueueIsPending /\ LostFence)'
  BY DEF LostFence
<1>3. (CopiesAreAccounted /\ FlightIsCounted /\ ClaimedIsCertain)'
  BY DEF Status, LostFence, CopiesAreAccounted, Accounted, FlightIsCounted, ClaimedIsCertain,
     Certain
<1>4. (HoldIsManaged /\ FlagMeansUnknown /\ TwiceOnlyAfterCrash)'
  BY DEF Status, CopiesAreAccounted, Accounted, FlightIsCounted, HoldIsManaged, FlagMeansUnknown,
     TwiceOnlyAfterCrash
<1>5. (ClaimedNeverTwice /\ FenceFollowsRecord)'
  BY DEF ClaimedNeverTwice, FenceFollowsRecord
<1>6. ReceiptsAreTrue'
  <2>1. record[noting] = "sent" /\ accepted[noting] > 0
    BY DEF CopiesAreAccounted, Accounted
  <2> QED
    BY <2>1 DEF ReceiptsAreTrue
<1> QED
  BY <1>1, <1>2, <1>3, <1>4, <1>5, <1>6 DEF Inv

\* What the pass reads as pending is pending.
LEMMA BeginSendingInv == ASSUME Inv, BeginSending PROVE Inv'
<1> USE RequestAssumption, ChannelAssumption, CrashAssumption DEF Inv, BeginSending, Pending,
   store, history, TypeOK, Settled, ProcessShape, QueueIsPending
<1>1. TypeOK'
  BY DEF Status
<1>2. (ProcessShape /\ QueueIsPending /\ LostFence)'
  BY DEF LostFence
<1>3. (CopiesAreAccounted /\ FlightIsCounted /\ ClaimedIsCertain)'
  BY DEF Status, LostFence, CopiesAreAccounted, Accounted, FlightIsCounted, ClaimedIsCertain,
     Certain
<1>4. (HoldIsManaged /\ FlagMeansUnknown /\ TwiceOnlyAfterCrash)'
  BY DEF Status, CopiesAreAccounted, Accounted, FlightIsCounted, HoldIsManaged, FlagMeansUnknown,
     TwiceOnlyAfterCrash
<1>5. (ClaimedNeverTwice /\ ReceiptsAreTrue /\ FenceFollowsRecord)'
  BY DEF CopiesAreAccounted, ClaimedIsCertain, ClaimedNeverTwice, ReceiptsAreTrue,
     FenceFollowsRecord
<1> QED
  BY <1>1, <1>2, <1>3, <1>4, <1>5 DEF Inv

\* What is handed over was pending, so no earlier pass of this life handed it over.
LEMMA SendStartInv == ASSUME Inv, NEW r \in Requests, SendStart(r) PROVE Inv'
<1> USE RequestAssumption, ChannelAssumption, CrashAssumption DEF Inv, SendStart, store,
   TypeOK, Settled, ProcessShape, QueueIsPending, Pending
<1>1. TypeOK'
  BY DEF Status
<1>2. (ProcessShape /\ QueueIsPending /\ LostFence)'
  BY DEF LostFence
<1>3. CopiesAreAccounted'
  <2> SUFFICES ASSUME NEW q \in Requests PROVE Accounted(q)'
    BY DEF CopiesAreAccounted
  <2>1. Accounted(q) /\ accepted[q] \in 0..2
    BY DEF CopiesAreAccounted
  <2>2. CASE q = r
    BY <2>1, <2>2 DEF Accounted, Status, LostFence, HoldIsManaged
  <2>3. CASE q # r
    BY <2>1, <2>3 DEF Accounted
  <2> QED
    BY <2>2, <2>3
<1>6. FlightIsCounted'
  BY DEF FlightIsCounted
<1>7. ClaimedIsCertain'
  <2> SUFFICES ASSUME NEW q \in Claimed PROVE Certain(q)'
    BY DEF ClaimedIsCertain
  <2>1. Certain(q) /\ Accounted(q) /\ accepted[q] \in 0..2 /\ q \in Requests
    BY DEF ClaimedIsCertain, CopiesAreAccounted
  <2>2. CASE q = r
    BY <2>1, <2>2 DEF Certain, Accounted
  <2>3. CASE q # r
    BY <2>1, <2>3 DEF Certain
  <2> QED
    BY <2>2, <2>3
<1>4. (HoldIsManaged /\ FlagMeansUnknown /\ TwiceOnlyAfterCrash)'
  BY DEF Status, CopiesAreAccounted, Accounted, FlightIsCounted, HoldIsManaged, FlagMeansUnknown,
     TwiceOnlyAfterCrash
<1>5. (ClaimedNeverTwice /\ ReceiptsAreTrue /\ FenceFollowsRecord)'
  BY DEF CopiesAreAccounted, ClaimedIsCertain, ClaimedNeverTwice, ReceiptsAreTrue,
     FenceFollowsRecord
<1> QED
  BY <1>1, <1>2, <1>3, <1>4, <1>5, <1>6, <1>7 DEF Inv

\* The copy taken is the one in flight, and it is counted.
LEMMA ChannelTakesInv == ASSUME Inv, ChannelTakes PROVE Inv'
<1> USE RequestAssumption, ChannelAssumption, CrashAssumption DEF Inv, ChannelTakes, OneMore,
   store, process, TypeOK, Settled, ProcessShape, QueueIsPending, Pending
<1>1. TypeOK'
  BY DEF Status
<1>2. (ProcessShape /\ QueueIsPending /\ LostFence)'
  BY DEF LostFence
<1>3. (CopiesAreAccounted /\ FlightIsCounted /\ ClaimedIsCertain)'
  BY DEF Status, LostFence, CopiesAreAccounted, Accounted, FlightIsCounted, ClaimedIsCertain,
     Certain
<1>4. (HoldIsManaged /\ FlagMeansUnknown)'
  BY DEF HoldIsManaged, FlagMeansUnknown
<1>6. TwiceOnlyAfterCrash'
  <2> SUFFICES ASSUME NEW q \in Requests, accepted'[q] = 2 PROVE q \in cut' \cup torn'
    BY DEF TwiceOnlyAfterCrash
  <2>1. CASE q = inFlight
    <3>1. record[q] = "pending" /\ Accounted(q) /\ accepted[q] \in 0..2 /\ fate = "open"
      BY <2>1 DEF CopiesAreAccounted
    <3> QED
      BY <2>1, <3>1 DEF Accounted
  <2>2. CASE q # inFlight
    BY <2>2 DEF TwiceOnlyAfterCrash
  <2> QED
    BY <2>1, <2>2
<1>5. (ReceiptsAreTrue /\ FenceFollowsRecord)'
  BY DEF ReceiptsAreTrue, FenceFollowsRecord
<1>7. ClaimedNeverTwice'
  <2> SUFFICES ASSUME NEW q \in Claimed PROVE accepted'[q] < 2
    BY DEF ClaimedNeverTwice
  <2>1. Certain(q) /\ accepted[q] \in 0..2 /\ accepted[q] < 2
    BY DEF ClaimedIsCertain, ClaimedNeverTwice
  <2>2. CASE q = inFlight
    <3>1. record[q] = "pending" /\ mode = "up"
      BY <2>2
    <3>2. accepted[q] = 0
      BY <2>1, <2>2, <3>1 DEF Certain
    <3> QED
      BY <2>2, <3>2
  <2>3. CASE q # inFlight
    BY <2>1, <2>3
  <2> QED
    BY <2>2, <2>3
<1> QED
  BY <1>1, <1>2, <1>3, <1>4, <1>5, <1>6, <1>7 DEF Inv

\* The answer settles the record of the send in flight, and sent means taken.
LEMMA SendDoneInv == ASSUME Inv, NEW s \in Settled, SendDone(s) PROVE Inv'
<1> USE RequestAssumption, ChannelAssumption, CrashAssumption DEF Inv, SendDone, Answer,
   Settle, TypeOK, Settled, ProcessShape, QueueIsPending, Pending
<1>1. TypeOK'
  BY DEF Status
<1>2. (ProcessShape /\ QueueIsPending /\ LostFence)'
  BY DEF LostFence
<1>3. (CopiesAreAccounted /\ FlightIsCounted /\ ClaimedIsCertain)'
  BY DEF Status, LostFence, CopiesAreAccounted, Accounted, FlightIsCounted, ClaimedIsCertain,
     Certain
<1>4. (HoldIsManaged /\ FlagMeansUnknown /\ TwiceOnlyAfterCrash)'
  BY DEF Status, CopiesAreAccounted, Accounted, FlightIsCounted, HoldIsManaged, FlagMeansUnknown,
     TwiceOnlyAfterCrash
<1>5. (ClaimedNeverTwice /\ ReceiptsAreTrue /\ FenceFollowsRecord)'
  BY DEF CopiesAreAccounted, ClaimedIsCertain, ClaimedNeverTwice, ReceiptsAreTrue,
     FenceFollowsRecord
<1> QED
  BY <1>1, <1>2, <1>3, <1>4, <1>5 DEF Inv

\* The same with the kill between the record and the fence.
LEMMA SendCutInv == ASSUME Inv, NEW s \in Settled, SendCut(s) PROVE Inv'
<1> USE RequestAssumption, ChannelAssumption, CrashAssumption DEF Inv, SendCut, Answer,
   SettleCut, Killed, Die, TypeOK, Settled, ProcessShape, QueueIsPending, Pending
<1>1. TypeOK'
  BY DEF Status
<1>2. (ProcessShape /\ QueueIsPending /\ LostFence)'
  BY DEF LostFence
<1>3. (CopiesAreAccounted /\ FlightIsCounted /\ ClaimedIsCertain)'
  BY DEF Status, LostFence, CopiesAreAccounted, Accounted, FlightIsCounted, ClaimedIsCertain,
     Certain
<1>4. (HoldIsManaged /\ FlagMeansUnknown /\ TwiceOnlyAfterCrash)'
  BY DEF Status, CopiesAreAccounted, Accounted, FlightIsCounted, HoldIsManaged, FlagMeansUnknown,
     TwiceOnlyAfterCrash
<1>5. (ClaimedNeverTwice /\ ReceiptsAreTrue /\ FenceFollowsRecord)'
  BY DEF CopiesAreAccounted, ClaimedIsCertain, ClaimedNeverTwice, ReceiptsAreTrue,
     FenceFollowsRecord
<1> QED
  BY <1>1, <1>2, <1>3, <1>4, <1>5 DEF Inv

\* A send with no request file ends the process and writes nothing.
LEMMA SendThrowsInv == ASSUME Inv, NEW s \in Settled, SendThrows(s) PROVE Inv'
<1> USE RequestAssumption, ChannelAssumption, CrashAssumption DEF Inv, SendThrows, Answer,
   SettleThrows, Die, TypeOK, Settled, ProcessShape, QueueIsPending, Pending
<1>1. TypeOK'
  BY DEF Status
<1>2. (ProcessShape /\ QueueIsPending /\ LostFence)'
  BY DEF LostFence
<1>3. (CopiesAreAccounted /\ FlightIsCounted /\ ClaimedIsCertain)'
  BY DEF Status, LostFence, CopiesAreAccounted, Accounted, FlightIsCounted, ClaimedIsCertain,
     Certain
<1>4. (HoldIsManaged /\ FlagMeansUnknown /\ TwiceOnlyAfterCrash)'
  BY DEF Status, CopiesAreAccounted, Accounted, FlightIsCounted, HoldIsManaged, FlagMeansUnknown,
     TwiceOnlyAfterCrash
<1>5. (ClaimedNeverTwice /\ ReceiptsAreTrue /\ FenceFollowsRecord)'
  BY DEF CopiesAreAccounted, ClaimedIsCertain, ClaimedNeverTwice, ReceiptsAreTrue,
     FenceFollowsRecord
<1> QED
  BY <1>1, <1>2, <1>3, <1>4, <1>5 DEF Inv

\* A pass ends with nothing in flight.
LEMMA DeliverDoneInv == ASSUME Inv, DeliverDone PROVE Inv'
<1> USE RequestAssumption, ChannelAssumption, CrashAssumption DEF Inv, DeliverDone, store,
   history, TypeOK, Settled, ProcessShape, QueueIsPending, Pending
<1>1. TypeOK'
  BY DEF Status
<1>2. (ProcessShape /\ QueueIsPending /\ LostFence)'
  BY DEF LostFence
<1>3. (CopiesAreAccounted /\ FlightIsCounted /\ ClaimedIsCertain)'
  BY DEF Status, LostFence, CopiesAreAccounted, Accounted, FlightIsCounted, ClaimedIsCertain,
     Certain
<1>4. (HoldIsManaged /\ FlagMeansUnknown /\ TwiceOnlyAfterCrash)'
  BY DEF Status, CopiesAreAccounted, Accounted, FlightIsCounted, HoldIsManaged, FlagMeansUnknown,
     TwiceOnlyAfterCrash
<1>5. (ClaimedNeverTwice /\ ReceiptsAreTrue /\ FenceFollowsRecord)'
  BY DEF CopiesAreAccounted, ClaimedIsCertain, ClaimedNeverTwice, ReceiptsAreTrue,
     FenceFollowsRecord
<1> QED
  BY <1>1, <1>2, <1>3, <1>4, <1>5 DEF Inv

\* A doubtful claimed send becomes unknown, which counts any number of copies below two.
LEMMA RecoverClaimedInv == ASSUME Inv, NEW r \in Requests, RecoverClaimed(r) PROVE Inv'
<1> USE RequestAssumption, ChannelAssumption, CrashAssumption DEF Inv, RecoverClaimed,
   Doubtful, Pending, Settle, process, history, TypeOK, Settled, ProcessShape, QueueIsPending
<1>1. TypeOK'
  BY DEF Status
<1>2. (ProcessShape /\ QueueIsPending /\ LostFence)'
  BY DEF LostFence
<1>3. CopiesAreAccounted'
  <2> SUFFICES ASSUME NEW q \in Requests PROVE Accounted(q)'
    BY DEF CopiesAreAccounted
  <2>1. Accounted(q) /\ accepted[q] \in 0..2
    BY DEF CopiesAreAccounted
  <2>2. CASE q = r
    BY <2>1, <2>2 DEF Accounted, Status, LostFence, HoldIsManaged
  <2>3. CASE q # r
    BY <2>1, <2>3 DEF Accounted
  <2> QED
    BY <2>2, <2>3
<1>6. FlightIsCounted'
  BY DEF FlightIsCounted
<1>7. ClaimedIsCertain'
  <2> SUFFICES ASSUME NEW q \in Claimed PROVE Certain(q)'
    BY DEF ClaimedIsCertain
  <2>1. Certain(q) /\ Accounted(q) /\ accepted[q] \in 0..2 /\ q \in Requests
    BY DEF ClaimedIsCertain, CopiesAreAccounted
  <2>2. CASE q = r
    BY <2>1, <2>2 DEF Certain, Accounted
  <2>3. CASE q # r
    BY <2>1, <2>3 DEF Certain
  <2> QED
    BY <2>2, <2>3
<1>4. (HoldIsManaged /\ FlagMeansUnknown /\ TwiceOnlyAfterCrash)'
  BY DEF Status, CopiesAreAccounted, Accounted, FlightIsCounted, HoldIsManaged, FlagMeansUnknown,
     TwiceOnlyAfterCrash
<1>5. (ClaimedNeverTwice /\ ReceiptsAreTrue /\ FenceFollowsRecord)'
  BY DEF CopiesAreAccounted, ClaimedIsCertain, ClaimedNeverTwice, ReceiptsAreTrue,
     FenceFollowsRecord
<1> QED
  BY <1>1, <1>2, <1>3, <1>4, <1>5, <1>6, <1>7 DEF Inv

\* The same with the kill before the flag.
LEMMA RecoverCutInv == ASSUME Inv, NEW r \in Requests, RecoverCut(r) PROVE Inv'
<1> USE RequestAssumption, ChannelAssumption, CrashAssumption DEF Inv, RecoverCut, Doubtful,
   Pending, Settle, SettleCut, Killed, Die, TypeOK, Settled, ProcessShape, QueueIsPending
<1>1. TypeOK'
  BY DEF Status
<1>2. (ProcessShape /\ QueueIsPending /\ LostFence)'
  BY DEF LostFence
<1>3. (CopiesAreAccounted /\ FlightIsCounted /\ ClaimedIsCertain)'
  BY DEF Status, LostFence, CopiesAreAccounted, Accounted, FlightIsCounted, ClaimedIsCertain,
     Certain
<1>4. (HoldIsManaged /\ FlagMeansUnknown /\ TwiceOnlyAfterCrash)'
  BY DEF Status, CopiesAreAccounted, Accounted, FlightIsCounted, HoldIsManaged, FlagMeansUnknown,
     TwiceOnlyAfterCrash
<1>5. (ClaimedNeverTwice /\ ReceiptsAreTrue /\ FenceFollowsRecord)'
  BY DEF CopiesAreAccounted, ClaimedIsCertain, ClaimedNeverTwice, ReceiptsAreTrue,
     FenceFollowsRecord
<1> QED
  BY <1>1, <1>2, <1>3, <1>4, <1>5 DEF Inv

\* A doubtful send with no request file ends the process.
LEMMA RecoverThrowsInv == ASSUME Inv, NEW r \in Requests, RecoverThrows(r) PROVE Inv'
<1> USE RequestAssumption, ChannelAssumption, CrashAssumption DEF Inv, RecoverThrows, Doubtful,
   Pending, SettleThrows, Die, TypeOK, Settled, ProcessShape, QueueIsPending
<1>1. TypeOK'
  BY DEF Status
<1>2. (ProcessShape /\ QueueIsPending /\ LostFence)'
  BY DEF LostFence
<1>3. (CopiesAreAccounted /\ FlightIsCounted /\ ClaimedIsCertain)'
  BY DEF Status, LostFence, CopiesAreAccounted, Accounted, FlightIsCounted, ClaimedIsCertain,
     Certain
<1>4. (HoldIsManaged /\ FlagMeansUnknown /\ TwiceOnlyAfterCrash)'
  BY DEF Status, CopiesAreAccounted, Accounted, FlightIsCounted, HoldIsManaged, FlagMeansUnknown,
     TwiceOnlyAfterCrash
<1>5. (ClaimedNeverTwice /\ ReceiptsAreTrue /\ FenceFollowsRecord)'
  BY DEF CopiesAreAccounted, ClaimedIsCertain, ClaimedNeverTwice, ReceiptsAreTrue,
     FenceFollowsRecord
<1> QED
  BY <1>1, <1>2, <1>3, <1>4, <1>5 DEF Inv

\* Passes start only when no claimed send is in doubt.
LEMMA RecoverDoneInv == ASSUME Inv, RecoverDone PROVE Inv'
<1> USE RequestAssumption, ChannelAssumption, CrashAssumption DEF Inv, RecoverDone, Doubtful,
   Pending, store, history, TypeOK, Settled, ProcessShape, QueueIsPending
<1>1. TypeOK'
  BY DEF Status
<1>2. (ProcessShape /\ QueueIsPending /\ LostFence)'
  BY DEF LostFence
<1>3. (CopiesAreAccounted /\ FlightIsCounted /\ ClaimedIsCertain)'
  BY DEF Status, LostFence, CopiesAreAccounted, Accounted, FlightIsCounted, ClaimedIsCertain,
     Certain
<1>4. (HoldIsManaged /\ FlagMeansUnknown /\ TwiceOnlyAfterCrash)'
  BY DEF Status, CopiesAreAccounted, Accounted, FlightIsCounted, HoldIsManaged, FlagMeansUnknown,
     TwiceOnlyAfterCrash
<1>5. (ClaimedNeverTwice /\ ReceiptsAreTrue /\ FenceFollowsRecord)'
  BY DEF CopiesAreAccounted, ClaimedIsCertain, ClaimedNeverTwice, ReceiptsAreTrue,
     FenceFollowsRecord
<1> QED
  BY <1>1, <1>2, <1>3, <1>4, <1>5 DEF Inv

\* A step that changes nothing keeps the invariant.
LEMMA StutterInv == Inv /\ UNCHANGED vars => Inv'
  BY DEF Inv, vars, store, process, history, TypeOK, ProcessShape, QueueIsPending, LostFence,
     CopiesAreAccounted, Accounted, FlightIsCounted, ClaimedIsCertain, Certain, HoldIsManaged,
       FlagMeansUnknown, TwiceOnlyAfterCrash, ClaimedNeverTwice, ReceiptsAreTrue,
       FenceFollowsRecord, Pending

\* Every step keeps the invariant.
LEMMA NextInv == Inv /\ [Next]_vars => Inv'
<1> SUFFICES ASSUME Inv, [Next]_vars PROVE Inv'
  OBVIOUS
<1>1. CASE UNCHANGED vars
  BY <1>1, StutterInv
<1>2. CASE Crash
  BY <1>2, CrashInv
<1>3. CASE Start
  BY <1>3, StartInv
<1>4. ASSUME NEW r \in Requests, Reply(r) PROVE Inv'
  BY <1>4, ReplyInv
<1>5. ASSUME NEW r \in Requests, ReplyTorn(r) PROVE Inv'
  BY <1>5, ReplyTornInv
<1>6. ASSUME NEW r \in Requests, LetGo(r) PROVE Inv'
  BY <1>6, LetGoInv
<1>7. ASSUME NEW r \in Requests, LetGoCut(r) PROVE Inv'
  BY <1>7, LetGoCutInv
<1>8. ASSUME NEW r \in Requests, LetGoThrows(r) PROVE Inv'
  BY <1>8, LetGoThrowsInv
<1>9. ASSUME NEW c \in Channels, DeliverStart(c) PROVE Inv'
  BY <1>9, DeliverStartInv
<1>10. ASSUME NEW r \in Requests, NoteStart(r) PROVE Inv'
  BY <1>10, NoteStartInv
<1>11. CASE NoteDone
  BY <1>11, NoteDoneInv
<1>12. CASE NoteThrows
  BY <1>12, NoteThrowsInv
<1>13. CASE NoteCut
  BY <1>13, NoteCutInv
<1>14. CASE BeginSending
  BY <1>14, BeginSendingInv
<1>15. ASSUME NEW r \in Requests, SendStart(r) PROVE Inv'
  BY <1>15, SendStartInv
<1>16. CASE ChannelTakes
  BY <1>16, ChannelTakesInv
<1>17. ASSUME NEW s \in Settled, SendDone(s) PROVE Inv'
  BY <1>17, SendDoneInv
<1>18. ASSUME NEW s \in Settled, SendCut(s) PROVE Inv'
  BY <1>18, SendCutInv
<1>19. ASSUME NEW s \in Settled, SendThrows(s) PROVE Inv'
  BY <1>19, SendThrowsInv
<1>20. CASE DeliverDone
  BY <1>20, DeliverDoneInv
<1>21. ASSUME NEW r \in Requests, RecoverClaimed(r) PROVE Inv'
  BY <1>21, RecoverClaimedInv
<1>22. ASSUME NEW r \in Requests, RecoverCut(r) PROVE Inv'
  BY <1>22, RecoverCutInv
<1>23. ASSUME NEW r \in Requests, RecoverThrows(r) PROVE Inv'
  BY <1>23, RecoverThrowsInv
<1>24. CASE RecoverDone
  BY <1>24, RecoverDoneInv
<1> QED
  BY <1>1, <1>2, <1>3, <1>4, <1>5, <1>6, <1>7, <1>8, <1>9, <1>10, <1>11, <1>12, <1>13, <1>14,
     <1>15, <1>16, <1>17, <1>18, <1>19, <1>20, <1>21, <1>22, <1>23, <1>24 DEF Next, Recover,
     Deliver, Turn, Kill

\* Whatever the kills, the transport's answers and the reply tool's calls, the
\* store, the process and the copies taken agree as Inv says.
THEOREM FenceInvariant == Spec => []Inv
<1>1. Init => Inv
  BY InitInv
<1>2. Inv /\ [Next]_vars => Inv'
  BY NextInv
<1> QED
  BY <1>1, <1>2, PTL DEF Spec

\* README rule 6: no path, a restart included, sends a reply the teach check holds;
\* a transport takes a reply twice only after a kill in its flight or between its
\* two writes, and a claimed reply never.
THEOREM NoSecondCopy == Spec => []CopiesAreFenced
<1>1. Inv => HeldStays
  BY RequestAssumption DEF Inv, HeldStays, HoldIsManaged, CopiesAreAccounted, Accounted,
     ProcessShape, QueueIsPending, Pending, Settled, TypeOK
<1>2. Inv => TwiceOnlyAfterCrash /\ ClaimedNeverTwice
  BY DEF Inv
<1>3. Inv => CopiesAreFenced
  BY <1>1, <1>2 DEF CopiesAreFenced
<1> QED
  BY <1>3, FenceInvariant, PTL

\* What the records service and the reply tool are told agrees with the record.
THEOREM ToldTheTruth == Spec => []ToldIsTrue
<1>1. Inv => ToldIsTrue
  BY DEF Inv, ToldIsTrue
<1> QED
  BY <1>1, FenceInvariant, PTL

\* An action that may change the delivery of one reply keeps every settled one.
LEMMA SettledStep ==
  ASSUME Inv, [Next]_vars, NEW q \in Requests, record[q] \in Settled
  PROVE  record'[q] = record[q] /\ accepted'[q] = accepted[q]
<1> USE DEF Inv
<1>1. q \notin Pending /\ record[q] \notin {"absent", "pending", "pending-teach-check"}
  BY DEF Pending, Settled
<1>2. inFlight # q /\ (inFlight # NoRequest => inFlight \in Requests)
  BY <1>1, RequestAssumption DEF ProcessShape, QueueIsPending, TypeOK
<1>3. CASE UNCHANGED vars
  BY <1>3 DEF vars, store, history
<1>4. CASE Start \/ Recover
  BY <1>1, <1>4 DEF Start, Recover, RecoverClaimed, RecoverThrows, RecoverDone, Doubtful,
     Settle, SettleThrows, store, history, TypeOK
<1>5. CASE Deliver
  BY <1>1, <1>2, <1>5 DEF Deliver, DeliverStart, NoteStart, NoteDone, BeginSending, SendStart,
     SendDone, SendThrows, DeliverDone, Answer, Settle, SettleThrows, store, history, TypeOK
<1>6. CASE ChannelTakes
  BY <1>2, <1>6 DEF ChannelTakes, store, TypeOK
<1>7. CASE Turn
  BY <1>1, <1>7 DEF Turn, Reply, LetGo, LetGoThrows, Captured, Holding, Settle, store, history,
     TypeOK
<1>8. CASE NoteThrows
  BY <1>8 DEF NoteThrows
<1>9. CASE Kill
  BY <1>1, <1>2, <1>9 DEF Kill, Crash, NoteCut, ReplyTorn, LetGoCut, RecoverCut, SendCut, Answer,
     Captured, Holding, Settle, SettleCut, Doubtful, store, TypeOK
<1> QED
  BY <1>3, <1>4, <1>5, <1>6, <1>7, <1>8, <1>9 DEF Next

\* README rule 6: an unknown send is never retried, and no other outcome is.
THEOREM SettledIsFinal == Spec => SettledStays
<1>1. Inv /\ [Next]_vars =>
        [\A r \in Requests : record[r] \in Settled =>
            record'[r] = record[r] /\ accepted'[r] = accepted[r]]_vars
  BY SettledStep
<1> QED
  BY <1>1, FenceInvariant, PTL DEF Spec, SettledStays

\* A process hands one reply to the transport once.
THEOREM HandedOnce == Spec => OncePerLife
<1>1. Inv /\ [Next]_vars =>
        [\A r \in Requests : inFlight' = r /\ inFlight # r => r \notin handed]_vars
  <2> SUFFICES ASSUME Inv, Next, NEW r \in Requests, inFlight' = r, inFlight # r
               PROVE  r \notin handed
    OBVIOUS
  <2> USE DEF Inv
  <2>1. r # NoRequest
    BY RequestAssumption
  <2>2. SendStart(r)
  BY <2>1 DEF Next, Start, Recover, Deliver, Turn, Kill, RecoverClaimed, RecoverThrows,
       RecoverDone,
     DeliverStart, NoteStart, NoteDone, BeginSending, SendStart, SendDone, SendThrows, DeliverDone,
     ChannelTakes, Reply, LetGo, LetGoThrows, NoteThrows, Crash, NoteCut, ReplyTorn, LetGoCut,
       RecoverCut, SendCut, SettleThrows, SettleCut, Killed, Die, process
  <2> QED
    BY <2>2 DEF SendStart, QueueIsPending, Pending, CopiesAreAccounted, Accounted, Settled
<1> QED
  BY <1>1, FenceInvariant, PTL DEF Spec, OncePerLife

\* README rule 6: no outcome is retried, neither by the process that saw it nor by
\* one after it.
THEOREM AnswerStands == Spec => AnswerIsFinal
  BY SettledIsFinal, HandedOnce DEF AnswerIsFinal

\* Every step of the fence is a step of the promise, or changes nothing it sees.
LEMMA PromiseStep == Inv /\ [Next]_vars => [Promise!Next]_<<record, accepted>>
<1> SUFFICES ASSUME Inv, Next PROVE Promise!Next \/ UNCHANGED <<record, accepted>>
  BY DEF vars, store, history
<1> USE DEF Inv
<1>1. ASSUME NEW r \in Requests, Captured(r), UNCHANGED accepted
      PROVE  Promise!Next \/ UNCHANGED <<record, accepted>>
  <2>1. CASE record[r] = "absent"
    BY <1>1, <2>1 DEF Captured, WrittenAt, Promise!Next, Promise!Write
  <2> QED
    BY <1>1, <2>1 DEF Captured
<1>2. ASSUME NEW r \in Requests, record[r] = "pending", NEW s \in Settled,
             s = "sent" => accepted[r] > 0,
             record' = [record EXCEPT ![r] = s], UNCHANGED accepted
      PROVE  Promise!Next
  BY <1>2 DEF Promise!Next, Promise!Settle, Promise!Settled, Settled
<1>3. ASSUME NEW r \in Requests, Holding(r), record' = [record EXCEPT ![r] = "pending"],
             UNCHANGED accepted
      PROVE  Promise!Next
  BY <1>3 DEF Holding, Promise!Next, Promise!LetGo
<1>4. inFlight # NoRequest => /\ inFlight \in Requests /\ record[inFlight] = "pending"
                              /\ mode = "up"
  BY DEF ProcessShape, QueueIsPending, Pending, TypeOK
<1>5. CASE Start \/ NoteThrows
  BY <1>5 DEF Start, NoteThrows, store, history
<1>6. CASE Recover
  BY <1>2, <1>6 DEF Recover, RecoverClaimed, RecoverThrows, RecoverDone, Doubtful, Pending,
     Settle, SettleThrows, Settled, store, history
<1>7. CASE Deliver
  <2>1. ASSUME NEW s \in Settled, SendDone(s) PROVE Promise!Next
    <3>1. s = "sent" => accepted[inFlight] > 0
      BY <2>1 DEF SendDone, Answer, FlightIsCounted
    <3> QED
      BY <1>2, <1>4, <2>1, <3>1 DEF SendDone, Answer, Settle
  <2> QED
    BY <1>7, <2>1 DEF Deliver, DeliverStart, NoteStart, NoteDone, BeginSending, SendStart,
       SendThrows, DeliverDone, SettleThrows, store, history
<1>8. CASE ChannelTakes
  <2>1. inFlight \in Claimed => accepted[inFlight] = 0
    BY <1>4, <1>8 DEF ChannelTakes, ClaimedIsCertain, Certain, TypeOK
  <2> QED
  BY <1>4, <1>8, <2>1 DEF ChannelTakes, OneMore, store, Promise!Next, Promise!Take,
       Promise!OneMore
<1>9. CASE Turn
  BY <1>1, <1>3, <1>9 DEF Turn, Reply, LetGo, LetGoThrows, Settle, store, history
<1>10. CASE Kill
  <2>1. ASSUME NEW s \in Settled, SendCut(s) PROVE Promise!Next
    <3>1. s = "sent" => accepted[inFlight] > 0
      BY <2>1 DEF SendCut, Answer, FlightIsCounted
    <3> QED
      BY <1>2, <1>4, <2>1, <3>1 DEF SendCut, Answer, SettleCut
  <2>2. ASSUME NEW r \in Requests, RecoverCut(r) PROVE Promise!Next
    BY <1>2, <2>2 DEF RecoverCut, Doubtful, Pending, Settle, SettleCut, Settled
  <2> QED
  BY <1>1, <1>3, <1>10, <2>1, <2>2 DEF Kill, Crash, NoteCut, ReplyTorn, LetGoCut, SettleCut,
       store
<1> QED
  BY <1>5, <1>6, <1>7, <1>8, <1>9, <1>10 DEF Next

\* The fence with its two files, its deliver pass and its kills implements the
\* life of a reply that ReplyPromise states.
THEOREM FenceKeepsPromise == Spec => KeepsPromise
<1>1. Init => Promise!Init
  BY DEF Init, Promise!Init
<1>2. Inv /\ [Next]_vars => [Promise!Next]_<<record, accepted>>
  BY PromiseStep
<1> QED
  BY <1>1, <1>2, FenceInvariant, PTL DEF Spec, KeepsPromise, Promise!Spec, Promise!vars
=============================================================================

--------------------------- MODULE Steering_proofs ---------------------------
(***************************************************************************)
(* An input reaches the model once and is closed by a reply that names it:  *)
(* for any inputs, conversations and mishaps.                               *)
(***************************************************************************)
EXTENDS Steering, TLAPS

-----------------------------------------------------------------------------
(* The inductive invariant.                                                *)

Phases == {None, "dispatching", "next_turn", "delivered", "uncertain", "completed", "failed"}
Effects == {None, "started", "uncertain", "completed"}
RecordSet == [seen : BOOLEAN, rel : Inputs \cup {None}, done : BOOLEAN, phase : Phases, effect : Effects]

Turns   == [of : Inputs \cup {None}, at : {None, "preparing", "starting", "running"},
            again : BOOLEAN, ended : BOOLEAN]
Steps   == [at : {"idle", "sent", "looping"}, input : Inputs \cup {None},
            answer : {None, "accepted", "rejected", "lost"}]
Natives == [of : Inputs \cup {None}, status : {None, "running", "completed", "failed", "interrupted"}]

Shapes ==
  /\ recs \in [Inputs -> RecordSet]
  /\ answers \in [Inputs -> [names : SUBSET Inputs, status : {None, "pending", "sent"}]]
  /\ turn \in Turns /\ steer \in Steps /\ native \in Natives
  /\ stretch \in Inputs \cup {None, "judge"} /\ life \in {"up", "down", "latched"}
  /\ heard \in [Inputs -> Nat]

\* A turn is of an input released under itself, and the app-server's is its own.
TurnIsReleased ==
  /\ turn.at # None => turn.of \in Inputs /\ recs[turn.of].rel = turn.of
  /\ native.status = "running" => turn.at \in {"starting", "running"} /\ native.of = turn.of /\ ~turn.ended
  /\ turn.at = "preparing" => ~Written(turn.of)
  /\ turn.ended => turn.at = "running"

\* A reply is written under a release that its own input has.
WrittenIsReleased == \A r \in Inputs : Written(r) => recs[r].rel = r

\* Steering is inside a turn that runs, and a process that is not up does neither.
SteerIsInTurn ==
  /\ steer.at # "idle" => turn.at = "running"
  /\ steer.at = "sent" <=> steer.input # None
  /\ steer.answer # None => steer.at = "sent"
  /\ stretch = "judge" => steer.at = "sent"
  /\ life # "up" => turn.at = None /\ steer.at = "idle" /\ stretch = None

\* A request that is out is of an input no turn has, until it is acknowledged.
SentIsOpen == steer.at = "sent" =>
  /\ stretch # "judge" => recs[steer.input].rel = None /\ recs[steer.input].phase = "dispatching"
  /\ stretch = "judge" => recs[steer.input].rel = turn.of /\ ~recs[steer.input].done
  /\ steer.answer \in {None, "rejected"} => heard[steer.input] = 0 /\ stretch # "judge"

\* The first request of a turn hands over an input that was never handed over.
TurnIsFresh ==
  turn.at \in {"preparing", "starting"} /\ ~turn.again /\ (turn.at = "starting" => native.status = None)
    => heard[turn.of] = 0

\* An input the model was handed and no release has is known to be uncertain, or will be.
HeardIsKnown == \A i \in Inputs : recs[i].rel = None /\ heard[i] # 0 =>
  \/ recs[i].phase = "uncertain"
  \/ recs[i].phase = "dispatching" /\ (life # "up" \/ steer.input = i)

OpenUntilReleased == \A i \in Inputs : recs[i].rel = None => ~recs[i].done

\* An input its release's reply does not name stays open, as uncertain.
Left(i) == recs[i].rel # None /\ Written(recs[i].rel) /\ i \notin answers[recs[i].rel].names
LeftIsUncertain == life # "latched" => \A i \in Inputs \ torn : Left(i) =>
  ~recs[i].done /\ (recs[i].phase = "uncertain" \/ (stretch = "judge" /\ i = steer.input))

SteeringInv ==
  /\ Shapes /\ TurnIsReleased /\ WrittenIsReleased /\ SteerIsInTurn /\ SentIsOpen
  /\ TurnIsFresh /\ HeardIsKnown /\ OpenUntilReleased /\ LeftIsUncertain /\ HeardOnce

\* What a step makes of one input's record.
Keeps(i) == recs'[i].rel = recs[i].rel /\ recs'[i].done = recs[i].done /\ recs'[i].phase = recs[i].phase
Closed(i) == recs'[i].rel = recs[i].rel /\ recs'[i].done = TRUE /\ recs'[i].phase = recs[i].phase

-----------------------------------------------------------------------------
(* What the operations make of one record, and of a turn or a request.     *)

\* Each write to a record keeps its release and is again a record.
LEMMA OfRecord ==
  ASSUME NEW r \in RecordSet
  PROVE  /\ Uncertain(r) \in RecordSet /\ Uncertain(r).rel = r.rel
         /\ Uncertain(r).done = r.done /\ Uncertain(r).phase = "uncertain"
         /\ Completed(r) \in RecordSet /\ Completed(r).rel = r.rel
         /\ Completed(r).done = TRUE /\ Completed(r).phase = r.phase
         /\ Effected(r) \in RecordSet /\ Effected(r).rel = r.rel
         /\ Effected(r).done = r.done /\ Effected(r).phase = r.phase
         /\ Doubted(r) \in RecordSet /\ Doubted(r).rel = r.rel
         /\ Doubted(r).done = r.done /\ Doubted(r).phase = r.phase
BY DEF RecordSet, Uncertain, Completed, Effected, Doubted, Phases, Effects

\* A release is set alone.
LEMMA OfRelease ==
  ASSUME NEW r \in RecordSet, NEW i \in Inputs
  PROVE  /\ [r EXCEPT !.rel = i] \in RecordSet /\ [r EXCEPT !.rel = i].rel = i
         /\ [r EXCEPT !.rel = i].done = r.done /\ [r EXCEPT !.rel = i].phase = r.phase
BY DEF RecordSet

\* The empty turn, request, native turn and record.
LEMMA Nothing ==
  /\ NoTurn \in Turns /\ NoTurn.at = None /\ NoTurn.of = None /\ NoTurn.again = FALSE /\ NoTurn.ended = FALSE
  /\ NoSteer \in Steps /\ NoSteer.at = "idle" /\ NoSteer.input = None /\ NoSteer.answer = None
  /\ NoNative \in Natives /\ NoNative.status = None /\ NoNative.of = None
  /\ NoRecord \in RecordSet /\ NoRecord.rel = None /\ NoRecord.done = FALSE
BY DEF NoTurn, NoSteer, NoNative, NoRecord, Turns, Steps, Natives, RecordSet, Phases, Effects, None

\* The shapes stand when each variable a step changes has its own.
LEMMA ShapesStand ==
  ASSUME Shapes, recs' \in [Inputs -> RecordSet], turn' \in Turns, steer' \in Steps,
         native' \in Natives, stretch' \in Inputs \cup {None, "judge"},
         life' \in {"up", "down", "latched"}, UNCHANGED <<answers, heard>>
  PROVE  Shapes'
BY DEF Shapes

\* What is noted of a release's inputs leaves their release and their delivery alone.
LEMMA NotedKeeps ==
  ASSUME Shapes, NEW S, recs' = Set(S, Effected) \/ recs' = Set(S, Doubted)
  PROVE  recs' \in [Inputs -> RecordSet] /\ \A j \in Inputs : Keeps(j)
<1>1. \A j \in Inputs : recs[j] \in RecordSet
  BY DEF Shapes
<1>2. \A j \in Inputs : recs'[j] \in {recs[j], Effected(recs[j]), Doubted(recs[j])}
  BY DEF Set
<1>3. recs' = [j \in Inputs |-> recs'[j]]
  BY DEF Set
<1>4. \A j \in Inputs : recs'[j] \in RecordSet /\ Keeps(j)
  <2> SUFFICES ASSUME NEW j \in Inputs PROVE recs'[j] \in RecordSet /\ Keeps(j)
    OBVIOUS
  <2>1. recs'[j] = recs[j] => recs'[j] \in RecordSet /\ Keeps(j)
    BY <1>1 DEF Keeps
  <2>2. recs'[j] = Effected(recs[j]) => recs'[j] \in RecordSet /\ Keeps(j)
    <3>1. Effected(recs[j]) \in RecordSet /\ Effected(recs[j]).rel = recs[j].rel
      BY <1>1, OfRecord
    <3>2. Effected(recs[j]).done = recs[j].done /\ Effected(recs[j]).phase = recs[j].phase
      BY <1>1, OfRecord
    <3> QED
      BY <3>1, <3>2 DEF Keeps
  <2>3. recs'[j] = Doubted(recs[j]) => recs'[j] \in RecordSet /\ Keeps(j)
    <3>1. Doubted(recs[j]) \in RecordSet /\ Doubted(recs[j]).rel = recs[j].rel
      BY <1>1, OfRecord
    <3>2. Doubted(recs[j]).done = recs[j].done /\ Doubted(recs[j]).phase = recs[j].phase
      BY <1>1, OfRecord
    <3> QED
      BY <3>1, <3>2 DEF Keeps
  <2> QED
    BY <1>2, <2>1, <2>2, <2>3
<1> QED
  BY <1>3, <1>4

\* Closing the inputs of a release keeps the others.
LEMMA ClosedKeeps ==
  ASSUME Shapes, NEW S, recs' = Set(S, Completed)
  PROVE  /\ recs' \in [Inputs -> RecordSet]
         /\ \A j \in Inputs : (j \notin S /\ Keeps(j)) \/ (j \in S /\ Closed(j))
<1>1. \A j \in Inputs : recs[j] \in RecordSet
  BY DEF Shapes
<1>2. \A j \in Inputs : recs'[j] = IF j \in S THEN Completed(recs[j]) ELSE recs[j]
  BY DEF Set
<1>3. recs' = [j \in Inputs |-> recs'[j]]
  BY DEF Set
<1>4. \A j \in Inputs : recs'[j] \in RecordSet
                     /\ ((j \notin S /\ Keeps(j)) \/ (j \in S /\ Closed(j)))
  <2> SUFFICES ASSUME NEW j \in Inputs
               PROVE  /\ recs'[j] \in RecordSet
                      /\ (j \notin S /\ Keeps(j)) \/ (j \in S /\ Closed(j))
    OBVIOUS
  <2>1. CASE j \notin S
    BY <1>1, <1>2, <2>1 DEF Keeps
  <2>2. CASE j \in S
    <3>1. recs'[j] = Completed(recs[j])
      BY <1>2, <2>2
    <3>2. Completed(recs[j]) \in RecordSet /\ Completed(recs[j]).rel = recs[j].rel
      BY <1>1, OfRecord
    <3>3. Completed(recs[j]).done = TRUE /\ Completed(recs[j]).phase = recs[j].phase
      BY <1>1, OfRecord
    <3> QED
      BY <2>2, <3>1, <3>2, <3>3 DEF Closed
  <2> QED
    BY <2>1, <2>2
<1> QED
  BY <1>3, <1>4

\* The request that is out is of an input.
LEMMA SentOfInput == ASSUME Shapes, SteerIsInTurn, steer.at = "sent" PROVE steer.input \in Inputs
BY InputsAssumption DEF Shapes, Steps, SteerIsInTurn

\* A list of pending inputs that goes on, or has come to its end.
LEMMA Loopings == ASSUME NEW s, s \in {NoSteer, [NoSteer EXCEPT !.at = "looping"]} PROVE s \in Steps
BY DEF NoSteer, Steps, None

-----------------------------------------------------------------------------
(* The actions.                                                            *)

\* A capture writes a record and hands nothing over.
LEMMA SubmitKeeps ==
  ASSUME SteeringInv, NEW i \in Inputs, Submit(i)
  PROVE  SteeringInv'
<1> USE Nothing, InputsAssumption DEF SteeringInv, None
<1>1. /\ UNCHANGED <<answers, turn, steer, native, stretch, life, heard, torn>>
      /\ life = "up" /\ stretch = None
  BY DEF Submit, Able
<1>2. /\ recs' \in [Inputs -> RecordSet]
      /\ \A j \in Inputs : Keeps(j)
  BY <1>1 DEF Shapes, Keeps, Submit, RecordSet
<1>3. Shapes'
  BY <1>1, <1>2, ShapesStand DEF Shapes
<1>4. TurnIsReleased'
  BY <1>1, <1>2 DEF Keeps, TurnIsReleased, Written
<1>5. WrittenIsReleased'
  BY <1>1, <1>2 DEF Keeps, WrittenIsReleased, Written
<1>6. SteerIsInTurn'
  BY <1>1, <1>2 DEF Keeps, SteerIsInTurn
<1>7. SentIsOpen'
  BY <1>1, <1>2, SentOfInput DEF Keeps, SentIsOpen
<1>8. TurnIsFresh'
  BY <1>1, <1>2 DEF Keeps, TurnIsFresh
<1>9. HeardIsKnown'
  BY <1>1, <1>2 DEF Keeps, HeardIsKnown
<1>10. OpenUntilReleased'
  BY <1>1, <1>2 DEF Keeps, OpenUntilReleased
<1>11. LeftIsUncertain'
  BY <1>1, <1>2 DEF Keeps, LeftIsUncertain, Left, Written
<1>12. HeardOnce'
  BY <1>1, <1>2 DEF Keeps, HeardOnce
<1> QED
  BY <1>3, <1>4, <1>5, <1>6, <1>7, <1>8, <1>9, <1>10, <1>11, <1>12

\* A turn begins with an input that no release has and whose outcome is known.
LEMMA BeginKeeps ==
  ASSUME SteeringInv, NEW i \in Inputs, Begin(i)
  PROVE  SteeringInv'
<1> USE Nothing, InputsAssumption DEF SteeringInv, None
<1>1. /\ UNCHANGED <<answers, steer, native, stretch, life, heard, torn>>
      /\ life = "up" /\ stretch = None
      /\ turn = NoTurn
      /\ recs[i].rel = None /\ recs[i].phase # "uncertain"
      /\ turn' = [NoTurn EXCEPT !.of = i, !.at = "preparing"]
  BY DEF Begin, Able, Releasable
<1>2. /\ recs' \in [Inputs -> RecordSet]
      /\ \A j \in Inputs : j # i => Keeps(j)
      /\ recs'[i].rel = i /\ recs'[i].done = recs[i].done /\ recs'[i].phase = recs[i].phase
  BY <1>1, OfRelease DEF Shapes, Keeps, Begin
<1>3. Shapes'
  <2>1. [NoTurn EXCEPT !.of = i, !.at = "preparing"] \in Turns
    BY DEF Turns, NoTurn
  <2> QED
    BY <1>1, <1>2, <2>1, ShapesStand DEF Shapes
<1>4. TurnIsReleased'
  BY <1>1, <1>2 DEF Shapes, Turns, Natives, Keeps, Written, TurnIsReleased, WrittenIsReleased
<1>5. WrittenIsReleased'
  BY <1>1, <1>2 DEF Keeps, WrittenIsReleased, Written
<1>6. SteerIsInTurn'
  BY <1>1, <1>2 DEF Keeps, SteerIsInTurn
<1>7. SentIsOpen'
  <2>1. steer.at # "sent"
    BY <1>1 DEF SteerIsInTurn
  <2> QED
    BY <1>1, <2>1 DEF SentIsOpen
<1>8. TurnIsFresh'
  BY <1>1, <1>2 DEF Keeps, TurnIsFresh, Shapes, Turns, Steps, Natives, TurnIsReleased,
     HeardIsKnown, SteerIsInTurn
<1>9. HeardIsKnown'
  BY <1>1, <1>2 DEF Keeps, HeardIsKnown
<1>10. OpenUntilReleased'
  BY <1>1, <1>2 DEF Keeps, OpenUntilReleased
<1>11. LeftIsUncertain'
  BY <1>1, <1>2 DEF Keeps, LeftIsUncertain, Left, Written, Shapes, Turns, Steps, Natives,
     SentIsOpen, SteerIsInTurn, TurnIsReleased, WrittenIsReleased, OpenUntilReleased
<1>12. HeardOnce'
  BY <1>1, <1>2 DEF Keeps, HeardOnce
<1> QED
  BY <1>3, <1>4, <1>5, <1>6, <1>7, <1>8, <1>9, <1>10, <1>11, <1>12

\* Closing a release that has no reply leaves nothing unnamed behind.
LEMMA PrepareFailsKeeps ==
  ASSUME SteeringInv, PrepareFails
  PROVE  SteeringInv'
<1> USE Nothing, InputsAssumption DEF SteeringInv, None
<1>1. /\ UNCHANGED <<answers, steer, native, stretch, heard, torn>>
      /\ life = "up" /\ stretch = None /\ life' \in {"up", "down"}
      /\ turn.at = "preparing" /\ turn' = NoTurn
  BY DEF PrepareFails, Able, Mishap
<1>2. /\ recs' \in [Inputs -> RecordSet]
      /\ \A j \in Inputs : Keeps(j) \/ (recs[j].rel = turn.of /\ Closed(j))
  BY ClosedKeeps DEF PrepareFails, Under
<1>3. Shapes'
  BY <1>1, <1>2, ShapesStand DEF Shapes
<1>4. TurnIsReleased'
  BY <1>1, <1>2 DEF Keeps, Closed, TurnIsReleased, Written
<1>5. WrittenIsReleased'
  BY <1>1, <1>2 DEF Keeps, Closed, WrittenIsReleased, Written
<1>6. SteerIsInTurn'
  BY <1>1, <1>2 DEF Keeps, Closed, SteerIsInTurn
<1>7. SentIsOpen'
  BY <1>1, <1>2 DEF Keeps, Closed, SentIsOpen, Shapes, Turns, Steps, Natives, SteerIsInTurn,
     HeardIsKnown, TurnIsReleased
<1>8. TurnIsFresh'
  BY <1>1, <1>2 DEF Keeps, Closed, TurnIsFresh
<1>9. HeardIsKnown'
  BY <1>1, <1>2 DEF Keeps, Closed, HeardIsKnown
<1>10. OpenUntilReleased'
  BY <1>1, <1>2 DEF Keeps, Closed, OpenUntilReleased, Shapes, Turns, Steps, Natives,
     TurnIsReleased, SentIsOpen
<1>11. LeftIsUncertain'
  BY <1>1, <1>2 DEF Keeps, Closed, LeftIsUncertain, Left, Written, Shapes, Turns, Steps,
     Natives, SentIsOpen, SteerIsInTurn, TurnIsReleased, WrittenIsReleased, OpenUntilReleased
<1>12. HeardOnce'
  BY <1>1, <1>2 DEF Keeps, Closed, HeardOnce
<1> QED
  BY <1>3, <1>4, <1>5, <1>6, <1>7, <1>8, <1>9, <1>10, <1>11, <1>12

\* The effect is noted before the model is asked.
LEMMA PrepareKeeps ==
  ASSUME SteeringInv, Prepare
  PROVE  SteeringInv'
<1> USE Nothing, InputsAssumption DEF SteeringInv, None
<1>1. /\ UNCHANGED <<answers, steer, stretch, life, heard, torn>>
      /\ life = "up" /\ stretch = None
      /\ turn.at = "preparing" /\ turn' = [turn EXCEPT !.at = "starting"]
      /\ native' = NoNative
  BY DEF Prepare, Able
<1>2. /\ recs' \in [Inputs -> RecordSet]
      /\ \A j \in Inputs : Keeps(j)
  BY NotedKeeps DEF Prepare
<1>3. Shapes'
  <2>1. turn \in Turns => [turn EXCEPT !.at = "starting"] \in Turns
    BY DEF Turns
  <2> QED
    BY <1>1, <1>2, <2>1, ShapesStand DEF Shapes
<1>4. TurnIsReleased'
  BY <1>1, <1>2 DEF Keeps, TurnIsReleased, Written
<1>5. WrittenIsReleased'
  BY <1>1, <1>2 DEF Keeps, WrittenIsReleased, Written
<1>6. SteerIsInTurn'
  BY <1>1, <1>2 DEF Keeps, SteerIsInTurn
<1>7. SentIsOpen'
  BY <1>1, <1>2, SentOfInput DEF Keeps, SentIsOpen
<1>8. TurnIsFresh'
  BY <1>1, <1>2 DEF Keeps, TurnIsFresh
<1>9. HeardIsKnown'
  BY <1>1, <1>2 DEF Keeps, HeardIsKnown
<1>10. OpenUntilReleased'
  BY <1>1, <1>2 DEF Keeps, OpenUntilReleased
<1>11. LeftIsUncertain'
  BY <1>1, <1>2 DEF Keeps, LeftIsUncertain, Left, Written
<1>12. HeardOnce'
  BY <1>1, <1>2 DEF Keeps, HeardOnce
<1> QED
  BY <1>3, <1>4, <1>5, <1>6, <1>7, <1>8, <1>9, <1>10, <1>11, <1>12

\* The first request of a turn hands its input over for the first time.
LEMMA NativeStartsKeeps ==
  ASSUME SteeringInv, NativeStarts
  PROVE  SteeringInv'
<1> USE Nothing, InputsAssumption DEF SteeringInv, None
<1>1. /\ UNCHANGED <<recs, answers, turn, steer, stretch, life, torn>>
      /\ turn.at = "starting" /\ native = NoNative
      /\ native' = [of |-> turn.of, status |-> "running"]
      /\ heard' = IF turn.again THEN heard ELSE [heard EXCEPT ![turn.of] = @ + 1]
  BY DEF NativeStarts
<1>2. turn.of \in Inputs
  BY <1>1 DEF Shapes, Steps, SteerIsInTurn, TurnIsReleased
<1>3. Shapes'
  BY <1>1, <1>2 DEF Shapes, Turns, Steps, Natives
<1>4. TurnIsReleased'
  BY <1>1, <1>2 DEF TurnIsReleased, Written
<1>5. WrittenIsReleased'
  BY <1>1, <1>2 DEF WrittenIsReleased, Written
<1>6. SteerIsInTurn'
  BY <1>1, <1>2 DEF SteerIsInTurn
<1>7. SentIsOpen'
  BY <1>1, <1>2 DEF SentIsOpen, Shapes, Turns, Steps, Natives, SteerIsInTurn, HeardIsKnown,
     TurnIsReleased
<1>8. TurnIsFresh'
  BY <1>1, <1>2 DEF TurnIsFresh
<1>9. HeardIsKnown'
  BY <1>1, <1>2 DEF HeardIsKnown, Shapes, Turns, Steps, Natives, SentIsOpen, SteerIsInTurn,
     TurnIsReleased
<1>10. OpenUntilReleased'
  BY <1>1, <1>2 DEF OpenUntilReleased
<1>11. LeftIsUncertain'
  BY <1>1, <1>2 DEF LeftIsUncertain, Left, Written
<1>12. HeardOnce'
  BY <1>1, <1>2 DEF HeardOnce, Shapes, Turns, Steps, Natives, TurnIsFresh, SentIsOpen,
     SteerIsInTurn, TurnIsReleased
<1> QED
  BY <1>3, <1>4, <1>5, <1>6, <1>7, <1>8, <1>9, <1>10, <1>11, <1>12

\* What waits joins the pending; nothing is handed over.
LEMMA StartedKeeps ==
  ASSUME SteeringInv, Started
  PROVE  SteeringInv'
<1> USE Nothing, InputsAssumption DEF SteeringInv, None
<1>1. /\ UNCHANGED <<answers, steer, native, stretch, life, heard, torn>>
      /\ life = "up" /\ stretch = None
      /\ turn.at = "starting" /\ turn' = [turn EXCEPT !.at = "running"]
  BY DEF Started, Able
<1>2. /\ recs' \in [Inputs -> RecordSet]
      /\ \A j \in Inputs : Keeps(j)
  BY NotedKeeps DEF Started
<1>3. Shapes'
  <2>1. turn \in Turns => [turn EXCEPT !.at = "running"] \in Turns
    BY DEF Turns
  <2> QED
    BY <1>1, <1>2, <2>1, ShapesStand DEF Shapes
<1>4. TurnIsReleased'
  BY <1>1, <1>2 DEF Keeps, TurnIsReleased, Written
<1>5. WrittenIsReleased'
  BY <1>1, <1>2 DEF Keeps, WrittenIsReleased, Written
<1>6. SteerIsInTurn'
  BY <1>1, <1>2 DEF Keeps, SteerIsInTurn
<1>7. SentIsOpen'
  BY <1>1, <1>2, SentOfInput DEF Keeps, SentIsOpen
<1>8. TurnIsFresh'
  BY <1>1, <1>2 DEF Keeps, TurnIsFresh
<1>9. HeardIsKnown'
  BY <1>1, <1>2 DEF Keeps, HeardIsKnown
<1>10. OpenUntilReleased'
  BY <1>1, <1>2 DEF Keeps, OpenUntilReleased
<1>11. LeftIsUncertain'
  BY <1>1, <1>2 DEF Keeps, LeftIsUncertain, Left, Written
<1>12. HeardOnce'
  BY <1>1, <1>2 DEF Keeps, HeardOnce
<1> QED
  BY <1>3, <1>4, <1>5, <1>6, <1>7, <1>8, <1>9, <1>10, <1>11, <1>12

\* A turn that fails leaves its inputs open and in doubt.
LEMMA TurnFailsKeeps ==
  ASSUME SteeringInv, TurnFails
  PROVE  SteeringInv'
<1> USE Nothing, InputsAssumption DEF SteeringInv, None
<1>1. /\ UNCHANGED <<answers, steer, stretch, heard, torn>>
      /\ life = "up" /\ stretch = None /\ life' = "down"
      /\ turn.at \in {"starting", "running"} /\ turn' = NoTurn /\ steer.at = "idle"
      /\ native' = NoNative
  BY DEF TurnFails, Able, Mishap
<1>2. /\ recs' \in [Inputs -> RecordSet]
      /\ \A j \in Inputs : Keeps(j)
  BY NotedKeeps DEF TurnFails
<1>3. Shapes'
  BY <1>1, <1>2, ShapesStand DEF Shapes
<1>4. TurnIsReleased'
  BY <1>1, <1>2 DEF Keeps, TurnIsReleased, Written
<1>5. WrittenIsReleased'
  BY <1>1, <1>2 DEF Keeps, WrittenIsReleased, Written
<1>6. SteerIsInTurn'
  BY <1>1, <1>2 DEF Keeps, SteerIsInTurn
<1>7. SentIsOpen'
  BY <1>1, <1>2 DEF Keeps, SentIsOpen
<1>8. TurnIsFresh'
  BY <1>1, <1>2 DEF Keeps, TurnIsFresh
<1>9. HeardIsKnown'
  BY <1>1, <1>2 DEF Keeps, HeardIsKnown
<1>10. OpenUntilReleased'
  BY <1>1, <1>2 DEF Keeps, OpenUntilReleased
<1>11. LeftIsUncertain'
  BY <1>1, <1>2 DEF Keeps, LeftIsUncertain, Left, Written
<1>12. HeardOnce'
  BY <1>1, <1>2 DEF Keeps, HeardOnce
<1> QED
  BY <1>3, <1>4, <1>5, <1>6, <1>7, <1>8, <1>9, <1>10, <1>11, <1>12

\* The reply names every input its release has at that moment.
LEMMA ReplyKeeps ==
  ASSUME SteeringInv, Reply
  PROVE  SteeringInv'
<1> USE Nothing, InputsAssumption DEF SteeringInv, None
<1>1. /\ UNCHANGED <<recs, turn, steer, native, stretch, life, heard, torn>>
      /\ life = "up" /\ stretch = None
      /\ native.status = "running" /\ turn.of = native.of /\ ~Written(turn.of)
      /\ answers' = [answers EXCEPT ![turn.of] = [names |-> Under(turn.of), status |-> "pending"]]
  BY DEF Reply, Able
<1>2. Shapes'
  <2> DEFINE reply == [names |-> Under(turn.of), status |-> "pending"]
  <2>1. reply \in [names : SUBSET Inputs, status : {None, "pending", "sent"}]
    BY DEF Under
  <2>2. answers' = [answers EXCEPT ![turn.of] = reply]
    BY <1>1
  <2> HIDE DEF reply
  <2>3. answers' \in [Inputs -> [names : SUBSET Inputs, status : {None, "pending", "sent"}]]
    BY <2>1, <2>2 DEF Shapes
  <2> QED
    BY <1>1, <2>3 DEF Shapes
<1>3. TurnIsReleased'
  BY <1>1 DEF TurnIsReleased, Written
<1>4. WrittenIsReleased'
  <2>1. turn.of \in Inputs /\ recs[turn.of].rel = turn.of
    BY <1>1 DEF TurnIsReleased
  <2>2. \A r \in Inputs : r # turn.of => answers'[r] = answers[r]
    BY <1>1 DEF Shapes
  <2> QED
    BY <1>1, <2>1, <2>2 DEF WrittenIsReleased, Written
<1>5. SteerIsInTurn'
  BY <1>1 DEF SteerIsInTurn
<1>6. SentIsOpen'
  BY <1>1 DEF SentIsOpen
<1>7. TurnIsFresh'
  BY <1>1 DEF TurnIsFresh
<1>8. HeardIsKnown'
  BY <1>1 DEF HeardIsKnown
<1>9. OpenUntilReleased'
  BY <1>1 DEF OpenUntilReleased
<1>10. LeftIsUncertain'
  <2>1. \A i \in Inputs : Left(i)' => Left(i)
    BY <1>1, <1>1 DEF Left, Written, Under, Shapes
  <2> QED
    BY <1>1, <1>1, <2>1 DEF LeftIsUncertain
<1>11. HeardOnce'
  BY <1>1 DEF HeardOnce
<1> QED
  BY <1>2, <1>3, <1>4, <1>5, <1>6, <1>7, <1>8, <1>9, <1>10, <1>11

\* The app-server's turn ends by itself.
LEMMA NativeEndsKeeps ==
  ASSUME SteeringInv, NEW s \in {"completed", "failed", "interrupted"}, NativeEnds(s)
  PROVE  SteeringInv'
<1> USE Nothing, InputsAssumption DEF SteeringInv, None
<1>1. /\ UNCHANGED <<recs, answers, turn, steer, stretch, life, heard, torn>>
      /\ native.status = "running" /\ native' = [native EXCEPT !.status = s]
  BY DEF NativeEnds
<1>2. Shapes'
  BY <1>1 DEF Shapes, Turns, Steps, Natives
<1>3. TurnIsReleased'
  BY <1>1 DEF TurnIsReleased, Written
<1>4. WrittenIsReleased'
  BY <1>1 DEF WrittenIsReleased, Written
<1>5. SteerIsInTurn'
  BY <1>1 DEF SteerIsInTurn
<1>6. SentIsOpen'
  BY <1>1 DEF SentIsOpen
<1>7. TurnIsFresh'
  BY <1>1 DEF TurnIsFresh
<1>8. HeardIsKnown'
  BY <1>1 DEF HeardIsKnown
<1>9. OpenUntilReleased'
  BY <1>1 DEF OpenUntilReleased
<1>10. LeftIsUncertain'
  BY <1>1 DEF LeftIsUncertain, Left, Written
<1>11. HeardOnce'
  BY <1>1 DEF HeardOnce
<1> QED
  BY <1>2, <1>3, <1>4, <1>5, <1>6, <1>7, <1>8, <1>9, <1>10, <1>11

\* The end is seen by the turn that runs.
LEMMA EndSeenKeeps ==
  ASSUME SteeringInv, EndSeen
  PROVE  SteeringInv'
<1> USE Nothing, InputsAssumption DEF SteeringInv, None
<1>1. /\ UNCHANGED <<recs, answers, steer, native, stretch, life, heard, torn>>
      /\ life = "up" /\ stretch = None
      /\ turn.at = "running" /\ native.status # "running"
      /\ turn' = [turn EXCEPT !.ended = TRUE]
  BY DEF EndSeen, Able
<1>2. Shapes'
  BY <1>1 DEF Shapes, Turns
<1>3. TurnIsReleased'
  BY <1>1 DEF TurnIsReleased, Written
<1>4. WrittenIsReleased'
  BY <1>1 DEF WrittenIsReleased, Written
<1>5. SteerIsInTurn'
  BY <1>1 DEF SteerIsInTurn
<1>6. SentIsOpen'
  BY <1>1 DEF SentIsOpen
<1>7. TurnIsFresh'
  BY <1>1 DEF TurnIsFresh
<1>8. HeardIsKnown'
  BY <1>1 DEF HeardIsKnown
<1>9. OpenUntilReleased'
  BY <1>1 DEF OpenUntilReleased
<1>10. LeftIsUncertain'
  BY <1>1 DEF LeftIsUncertain, Left, Written
<1>11. HeardOnce'
  BY <1>1 DEF HeardOnce
<1> QED
  BY <1>2, <1>3, <1>4, <1>5, <1>6, <1>7, <1>8, <1>9, <1>10, <1>11

\* A failed turn closes its inputs and latches the account.
LEMMA ReturnsFailedKeeps ==
  ASSUME SteeringInv, ReturnsFailed
  PROVE  SteeringInv'
<1> USE Nothing, InputsAssumption DEF SteeringInv, None
<1>1. /\ UNCHANGED <<answers, steer, native, stretch, heard, torn>>
      /\ life = "up" /\ stretch = None /\ steer.at = "idle"
      /\ turn.at = "running" /\ turn.ended
      /\ turn' = NoTurn /\ life' = "latched"
  BY DEF ReturnsFailed, Returned, Able
<1>2. /\ recs' \in [Inputs -> RecordSet]
      /\ \A j \in Inputs : Keeps(j) \/ (recs[j].rel = turn.of /\ Closed(j))
  BY ClosedKeeps DEF ReturnsFailed, Under
<1>3. Shapes'
  BY <1>1, <1>2, ShapesStand DEF Shapes
<1>4. TurnIsReleased'
  BY <1>1, <1>2 DEF Keeps, Closed, TurnIsReleased, Written
<1>5. WrittenIsReleased'
  BY <1>1, <1>2 DEF Keeps, Closed, WrittenIsReleased, Written
<1>6. SteerIsInTurn'
  BY <1>1, <1>2 DEF Keeps, Closed, SteerIsInTurn
<1>7. SentIsOpen'
  BY <1>1, <1>2 DEF Keeps, Closed, SentIsOpen
<1>8. TurnIsFresh'
  BY <1>1, <1>2 DEF Keeps, Closed, TurnIsFresh
<1>9. HeardIsKnown'
  BY <1>1, <1>2 DEF Keeps, Closed, HeardIsKnown
<1>10. OpenUntilReleased'
  BY <1>1, <1>2 DEF Keeps, Closed, OpenUntilReleased, Shapes, Turns, Steps, Natives,
     TurnIsReleased, SentIsOpen
<1>11. LeftIsUncertain'
  BY <1>1, <1>2 DEF Keeps, Closed, LeftIsUncertain, Left, Written
<1>12. HeardOnce'
  BY <1>1, <1>2 DEF Keeps, Closed, HeardOnce
<1> QED
  BY <1>3, <1>4, <1>5, <1>6, <1>7, <1>8, <1>9, <1>10, <1>11, <1>12

\* An interrupted turn leaves its inputs open and in doubt.
LEMMA ReturnsInterruptedKeeps ==
  ASSUME SteeringInv, ReturnsInterrupted
  PROVE  SteeringInv'
<1> USE Nothing, InputsAssumption DEF SteeringInv, None
<1>1. /\ UNCHANGED <<answers, steer, native, stretch, life, heard, torn>>
      /\ life = "up" /\ stretch = None /\ steer.at = "idle"
      /\ turn.at = "running" /\ turn.ended
      /\ turn' = NoTurn
  BY DEF ReturnsInterrupted, Returned, Able
<1>2. /\ recs' \in [Inputs -> RecordSet]
      /\ \A j \in Inputs : Keeps(j)
  BY NotedKeeps DEF ReturnsInterrupted
<1>3. Shapes'
  BY <1>1, <1>2, ShapesStand DEF Shapes
<1>4. TurnIsReleased'
  BY <1>1, <1>2 DEF Keeps, TurnIsReleased, Written
<1>5. WrittenIsReleased'
  BY <1>1, <1>2 DEF Keeps, WrittenIsReleased, Written
<1>6. SteerIsInTurn'
  BY <1>1, <1>2 DEF Keeps, SteerIsInTurn
<1>7. SentIsOpen'
  BY <1>1, <1>2 DEF Keeps, SentIsOpen
<1>8. TurnIsFresh'
  BY <1>1, <1>2 DEF Keeps, TurnIsFresh
<1>9. HeardIsKnown'
  BY <1>1, <1>2 DEF Keeps, HeardIsKnown
<1>10. OpenUntilReleased'
  BY <1>1, <1>2 DEF Keeps, OpenUntilReleased
<1>11. LeftIsUncertain'
  BY <1>1, <1>2 DEF Keeps, LeftIsUncertain, Left, Written
<1>12. HeardOnce'
  BY <1>1, <1>2 DEF Keeps, HeardOnce
<1> QED
  BY <1>3, <1>4, <1>5, <1>6, <1>7, <1>8, <1>9, <1>10, <1>11, <1>12

\* The follow-up is for a turn that has written no reply.
LEMMA AsksAgainKeeps ==
  ASSUME SteeringInv, AsksAgain
  PROVE  SteeringInv'
<1> USE Nothing, InputsAssumption DEF SteeringInv, None
<1>1. /\ UNCHANGED <<recs, answers, steer, native, stretch, life, heard, torn>>
      /\ life = "up" /\ stretch = None /\ steer.at = "idle"
      /\ turn.at = "running" /\ turn.ended
      /\ ~Written(turn.of)
      /\ turn' = [turn EXCEPT !.at = "preparing", !.again = TRUE, !.ended = FALSE]
  BY DEF AsksAgain, Returned, Able
<1>2. Shapes'
  BY <1>1 DEF Shapes, Turns
<1>3. TurnIsReleased'
  BY <1>1 DEF TurnIsReleased, Written
<1>4. WrittenIsReleased'
  BY <1>1 DEF WrittenIsReleased, Written
<1>5. SteerIsInTurn'
  BY <1>1 DEF SteerIsInTurn
<1>6. SentIsOpen'
  BY <1>1 DEF SentIsOpen
<1>7. TurnIsFresh'
  BY <1>1 DEF TurnIsFresh
<1>8. HeardIsKnown'
  BY <1>1 DEF HeardIsKnown
<1>9. OpenUntilReleased'
  BY <1>1 DEF OpenUntilReleased
<1>10. LeftIsUncertain'
  BY <1>1 DEF LeftIsUncertain, Left, Written
<1>11. HeardOnce'
  BY <1>1 DEF HeardOnce
<1> QED
  BY <1>2, <1>3, <1>4, <1>5, <1>6, <1>7, <1>8, <1>9, <1>10, <1>11

\* What the reply does not name stays open, as uncertain.
LEMMA ClosesKeeps ==
  ASSUME SteeringInv, Closes
  PROVE  SteeringInv'
<1> USE Nothing, InputsAssumption DEF SteeringInv, None
<1>1. /\ UNCHANGED <<answers, steer, native, stretch, life, heard, torn>>
      /\ life = "up" /\ stretch = None /\ steer.at = "idle"
      /\ turn.at = "running" /\ turn.ended
      /\ turn' = NoTurn
  BY DEF Closes, Returned, Able
<1>2. /\ recs' \in [Inputs -> RecordSet]
      /\ \A j \in Inputs :
           \/ Keeps(j) /\ (recs[j].rel = turn.of => recs[j].phase = "uncertain")
           \/ recs[j].rel = turn.of /\ recs'[j].rel = recs[j].rel /\ recs'[j].done = recs[j].done
              /\ recs'[j].phase = "uncertain"
           \/ recs[j].rel = turn.of /\ recs'[j].rel = recs[j].rel /\ recs'[j].done = TRUE
              /\ (Written(turn.of) => j \in answers[turn.of].names)
  <2>1. PICK ending \in {"completed", "failed"} : recs' = Closing(turn.of, ending)
    BY DEF Closes
  <2>2. ASSUME NEW j \in Inputs
        PROVE  /\ Closing(turn.of, ending)[j] \in RecordSet
               /\ Closing(turn.of, ending)[j].rel = recs[j].rel
               /\ \/ /\ Closing(turn.of, ending)[j] = recs[j]
                     /\ recs[j].rel = turn.of => recs[j].phase = "uncertain"
                  \/ /\ recs[j].rel = turn.of /\ Closing(turn.of, ending)[j].done = recs[j].done
                     /\ Closing(turn.of, ending)[j].phase = "uncertain"
                  \/ /\ recs[j].rel = turn.of /\ Closing(turn.of, ending)[j].done = TRUE
                     /\ Written(turn.of) => j \in answers[turn.of].names
    <3>0. recs[j] \in RecordSet
      BY DEF Shapes
    <3>1. /\ [Completed(recs[j]) EXCEPT !.phase = ending] \in RecordSet
          /\ [Completed(recs[j]) EXCEPT !.phase = ending].rel = recs[j].rel
          /\ [Completed(recs[j]) EXCEPT !.phase = ending].done = TRUE
      BY <2>1, <3>0 DEF Completed, RecordSet, Phases, Effects
    <3>2. Uncertain(recs[j]) \in RecordSet /\ Uncertain(recs[j]).rel = recs[j].rel
          /\ Uncertain(recs[j]).done = recs[j].done /\ Uncertain(recs[j]).phase = "uncertain"
      BY <3>0, OfRecord
    <3> QED
      BY <3>0, <3>1, <3>2 DEF Closing
  <2>3. Closing(turn.of, ending) \in [Inputs -> RecordSet]
    BY <2>2 DEF Closing
  <2> QED
    BY <2>1, <2>2, <2>3 DEF Keeps
<1>3. Shapes'
  BY <1>1, <1>2, ShapesStand DEF Shapes
<1>4. TurnIsReleased'
  BY <1>1, <1>2 DEF Keeps, TurnIsReleased, Written
<1>5. WrittenIsReleased'
  BY <1>1, <1>2 DEF Keeps, WrittenIsReleased, Written
<1>6. SteerIsInTurn'
  BY <1>1, <1>2 DEF Keeps, SteerIsInTurn
<1>7. SentIsOpen'
  BY <1>1, <1>2 DEF Keeps, SentIsOpen
<1>8. TurnIsFresh'
  BY <1>1, <1>2 DEF Keeps, TurnIsFresh
<1>9. HeardIsKnown'
  BY <1>1, <1>2 DEF Keeps, HeardIsKnown, Shapes, Turns, Steps, Natives, SentIsOpen,
     SteerIsInTurn, TurnIsReleased
<1>10. OpenUntilReleased'
  BY <1>1, <1>2 DEF Keeps, OpenUntilReleased, Shapes, Turns, Steps, Natives, TurnIsReleased,
     SentIsOpen
<1>11. LeftIsUncertain'
  BY <1>1, <1>2 DEF Keeps, LeftIsUncertain, Left, Written
<1>12. HeardOnce'
  BY <1>1, <1>2 DEF Keeps, HeardOnce
<1> QED
  BY <1>3, <1>4, <1>5, <1>6, <1>7, <1>8, <1>9, <1>10, <1>11, <1>12

\* An input that is no longer due is passed over.
LEMMA SkipKeeps ==
  ASSUME SteeringInv, NEW i \in Inputs, Skip(i)
  PROVE  SteeringInv'
<1> USE Nothing, InputsAssumption DEF SteeringInv, None
<1>1. /\ UNCHANGED <<recs, answers, turn, native, stretch, life, heard, torn>>
      /\ life = "up" /\ stretch = None /\ turn.at = "running"
      /\ steer.at \in {"idle", "looping"}
      /\ steer' \in {NoSteer, [NoSteer EXCEPT !.at = "looping"]}
  BY DEF Skip, Pending, Able, After, NoSteer
<1>2. Shapes'
  BY <1>1, Loopings, ShapesStand DEF Shapes
<1>3. TurnIsReleased'
  BY <1>1 DEF TurnIsReleased, Written
<1>4. WrittenIsReleased'
  BY <1>1 DEF WrittenIsReleased, Written
<1>5. SteerIsInTurn'
  BY <1>1 DEF SteerIsInTurn, Shapes, Turns, Steps, Natives, TurnIsReleased
<1>6. SentIsOpen'
  BY <1>1 DEF SentIsOpen, Shapes, Turns, Steps, Natives, SteerIsInTurn, HeardIsKnown,
     TurnIsReleased
<1>7. TurnIsFresh'
  BY <1>1 DEF TurnIsFresh
<1>8. HeardIsKnown'
  BY <1>1 DEF HeardIsKnown, Shapes, Turns, Steps, Natives, SentIsOpen, SteerIsInTurn,
     TurnIsReleased
<1>9. OpenUntilReleased'
  BY <1>1 DEF OpenUntilReleased
<1>10. LeftIsUncertain'
  BY <1>1 DEF LeftIsUncertain, Left, Written
<1>11. HeardOnce'
  BY <1>1 DEF HeardOnce
<1> QED
  BY <1>2, <1>3, <1>4, <1>5, <1>6, <1>7, <1>8, <1>9, <1>10, <1>11

\* An input that comes too late is kept for the next turn.
LEMMA TooLateKeeps ==
  ASSUME SteeringInv, NEW i \in Inputs, TooLate(i)
  PROVE  SteeringInv'
<1> USE Nothing, InputsAssumption DEF SteeringInv, None
<1>1. /\ UNCHANGED <<answers, turn, native, stretch, life, heard, torn>>
      /\ life = "up" /\ stretch = None /\ turn.at = "running"
      /\ steer.at \in {"idle", "looping"}
      /\ recs[i].rel = None /\ recs[i].phase # "uncertain"
      /\ steer' \in {NoSteer, [NoSteer EXCEPT !.at = "looping"]}
  BY DEF TooLate, Due, Pending, Able, After, NoSteer
<1>2. /\ recs' \in [Inputs -> RecordSet]
      /\ \A j \in Inputs : recs'[j].rel = recs[j].rel /\ recs'[j].done = recs[j].done
      /\ \A j \in Inputs : recs'[j].phase = IF j = i THEN "next_turn" ELSE recs[j].phase
  BY <1>1 DEF Shapes, TooLate, RecordSet, Phases
<1>3. Shapes'
  BY <1>1, <1>2, Loopings, ShapesStand DEF Shapes
<1>4. TurnIsReleased'
  BY <1>1, <1>2 DEF TurnIsReleased, Written
<1>5. WrittenIsReleased'
  BY <1>1, <1>2 DEF WrittenIsReleased, Written
<1>6. SteerIsInTurn'
  BY <1>1, <1>2 DEF SteerIsInTurn, Shapes, Turns, Steps, Natives, TurnIsReleased
<1>7. SentIsOpen'
  BY <1>1, <1>2 DEF SentIsOpen, Shapes, Turns, Steps, Natives, SteerIsInTurn, HeardIsKnown,
     TurnIsReleased
<1>8. TurnIsFresh'
  BY <1>1, <1>2 DEF TurnIsFresh
<1>9. HeardIsKnown'
  <2>1. steer.input = None
    BY <1>1 DEF SteerIsInTurn
  <2>2. heard[i] = 0
    BY <1>1, <2>1 DEF HeardIsKnown
  <2>3. \A j \in Inputs : recs[j].rel = None /\ heard[j] # 0 => recs[j].phase = "uncertain"
    BY <1>1, <2>1 DEF HeardIsKnown
  <2> QED
    BY <1>1, <1>2, <2>2, <2>3 DEF HeardIsKnown
<1>10. OpenUntilReleased'
  BY <1>1, <1>2 DEF OpenUntilReleased
<1>11. LeftIsUncertain'
  BY <1>1, <1>2 DEF LeftIsUncertain, Left, Written
<1>12. HeardOnce'
  BY <1>1, <1>2 DEF HeardOnce
<1> QED
  BY <1>3, <1>4, <1>5, <1>6, <1>7, <1>8, <1>9, <1>10, <1>11, <1>12

\* The request goes out for an input the model was never handed.
LEMMA DispatchKeeps ==
  ASSUME SteeringInv, NEW i \in Inputs, Dispatch(i)
  PROVE  SteeringInv'
<1> USE Nothing, InputsAssumption DEF SteeringInv, None
<1>1. /\ UNCHANGED <<answers, turn, native, stretch, life, heard, torn>>
      /\ life = "up" /\ stretch = None /\ turn.at = "running"
      /\ steer.at \in {"idle", "looping"}
      /\ recs[i].rel = None /\ recs[i].phase # "uncertain"
      /\ steer' = [at |-> "sent", input |-> i, answer |-> None]
  BY DEF Dispatch, Due, Pending, Able
<1>2. /\ recs' \in [Inputs -> RecordSet]
      /\ \A j \in Inputs : recs'[j].rel = recs[j].rel /\ recs'[j].done = recs[j].done
      /\ \A j \in Inputs : recs'[j].phase = IF j = i THEN "dispatching" ELSE recs[j].phase
  BY <1>1 DEF Shapes, Dispatch, RecordSet, Phases
<1>3. Shapes'
  BY <1>1, <1>2 DEF Shapes, Turns, Steps, Natives
<1>4. TurnIsReleased'
  BY <1>1, <1>2 DEF TurnIsReleased, Written
<1>5. WrittenIsReleased'
  BY <1>1, <1>2 DEF WrittenIsReleased, Written
<1>6. SteerIsInTurn'
  BY <1>1, <1>2 DEF SteerIsInTurn
<1>7. SentIsOpen'
  BY <1>1, <1>2 DEF SentIsOpen, Shapes, Turns, Steps, Natives, SteerIsInTurn, HeardIsKnown,
     TurnIsReleased
<1>8. TurnIsFresh'
  BY <1>1, <1>2 DEF TurnIsFresh
<1>9. HeardIsKnown'
  BY <1>1, <1>2 DEF HeardIsKnown, Shapes, Turns, Steps, Natives, SentIsOpen, SteerIsInTurn,
     TurnIsReleased
<1>10. OpenUntilReleased'
  BY <1>1, <1>2 DEF OpenUntilReleased
<1>11. LeftIsUncertain'
  BY <1>1, <1>2 DEF LeftIsUncertain, Left, Written
<1>12. HeardOnce'
  BY <1>1, <1>2 DEF HeardOnce
<1> QED
  BY <1>3, <1>4, <1>5, <1>6, <1>7, <1>8, <1>9, <1>10, <1>11, <1>12

\* An input whose files are not ready is not sent.
LEMMA UnreadyKeeps ==
  ASSUME SteeringInv, NEW i \in Inputs, Unready(i)
  PROVE  SteeringInv'
<1> USE Nothing, InputsAssumption DEF SteeringInv, None
<1>1. /\ UNCHANGED <<answers, turn, native, stretch, life, heard, torn>>
      /\ life = "up" /\ stretch = None /\ turn.at = "running"
      /\ steer.at \in {"idle", "looping"}
      /\ recs[i].rel = None /\ recs[i].phase # "uncertain"
      /\ steer' = NoSteer
  BY DEF Unready, Due, Pending, Able, Mishap
<1>2. /\ recs' \in [Inputs -> RecordSet]
      /\ \A j \in Inputs : recs'[j].rel = recs[j].rel /\ recs'[j].done = recs[j].done
      /\ \A j \in Inputs : recs'[j].phase = IF j = i THEN "dispatching" ELSE recs[j].phase
  BY <1>1 DEF Shapes, Unready, RecordSet, Phases
<1>3. Shapes'
  BY <1>1, <1>2, ShapesStand DEF Shapes
<1>4. TurnIsReleased'
  BY <1>1, <1>2 DEF TurnIsReleased, Written
<1>5. WrittenIsReleased'
  BY <1>1, <1>2 DEF WrittenIsReleased, Written
<1>6. SteerIsInTurn'
  BY <1>1, <1>2 DEF SteerIsInTurn
<1>7. SentIsOpen'
  BY <1>1, <1>2 DEF SentIsOpen
<1>8. TurnIsFresh'
  BY <1>1, <1>2 DEF TurnIsFresh
<1>9. HeardIsKnown'
  BY <1>1, <1>2 DEF HeardIsKnown, Shapes, Turns, Steps, Natives, SentIsOpen, SteerIsInTurn,
     TurnIsReleased
<1>10. OpenUntilReleased'
  BY <1>1, <1>2 DEF OpenUntilReleased
<1>11. LeftIsUncertain'
  BY <1>1, <1>2 DEF LeftIsUncertain, Left, Written
<1>12. HeardOnce'
  BY <1>1, <1>2 DEF HeardOnce
<1> QED
  BY <1>3, <1>4, <1>5, <1>6, <1>7, <1>8, <1>9, <1>10, <1>11, <1>12

\* The app-server hands a steered input over once, or refuses it.
LEMMA NativeSteeredKeeps ==
  ASSUME SteeringInv, NativeSteered
  PROVE  SteeringInv'
<1> USE Nothing, InputsAssumption DEF SteeringInv, None
<1>1. /\ UNCHANGED <<recs, answers, turn, native, stretch, life, torn>>
      /\ steer.at = "sent" /\ steer.answer = None
      /\ \/ /\ heard' = [heard EXCEPT ![steer.input] = @ + 1]
            /\ steer' = [steer EXCEPT !.answer = "accepted"]
         \/ heard' = heard /\ steer' = [steer EXCEPT !.answer = "rejected"]
  BY DEF NativeSteered
<1>2. steer.input \in Inputs
  BY <1>1 DEF Shapes, Steps, SteerIsInTurn, TurnIsReleased
<1>3. Shapes'
  BY <1>1, <1>2 DEF Shapes, Turns, Steps, Natives
<1>4. TurnIsReleased'
  BY <1>1, <1>2 DEF TurnIsReleased, Written
<1>5. WrittenIsReleased'
  BY <1>1, <1>2 DEF WrittenIsReleased, Written
<1>6. SteerIsInTurn'
  BY <1>1, <1>2 DEF SteerIsInTurn, Shapes, Turns, Steps, Natives, TurnIsReleased
<1>7. SentIsOpen'
  BY <1>1, <1>2 DEF SentIsOpen, Shapes, Turns, Steps, Natives, SteerIsInTurn, HeardIsKnown,
     TurnIsReleased
<1>8. TurnIsFresh'
  BY <1>1, <1>2 DEF TurnIsFresh, Shapes, Turns, Steps, Natives, TurnIsReleased, HeardIsKnown,
     SteerIsInTurn
<1>9. HeardIsKnown'
  BY <1>1, <1>2 DEF HeardIsKnown, Shapes, Turns, Steps, Natives, SentIsOpen, SteerIsInTurn,
     TurnIsReleased
<1>10. OpenUntilReleased'
  BY <1>1, <1>2 DEF OpenUntilReleased
<1>11. LeftIsUncertain'
  BY <1>1, <1>2 DEF LeftIsUncertain, Left, Written, Shapes, Turns, Steps, Natives, SentIsOpen,
     SteerIsInTurn, TurnIsReleased, WrittenIsReleased, OpenUntilReleased
<1>12. HeardOnce'
  BY <1>1, <1>2 DEF HeardOnce, Shapes, Turns, Steps, Natives, TurnIsFresh, SentIsOpen,
     SteerIsInTurn, TurnIsReleased
<1> QED
  BY <1>3, <1>4, <1>5, <1>6, <1>7, <1>8, <1>9, <1>10, <1>11, <1>12

\* A lost answer changes nothing but what is known of it.
LEMMA NativeSilentKeeps ==
  ASSUME SteeringInv, NativeSilent
  PROVE  SteeringInv'
<1> USE Nothing, InputsAssumption DEF SteeringInv, None
<1>1. /\ UNCHANGED <<recs, answers, turn, native, stretch, life, heard, torn>>
      /\ steer.at = "sent" /\ steer' = [steer EXCEPT !.answer = "lost"]
  BY DEF NativeSilent, Mishap
<1>2. steer.input \in Inputs
  BY <1>1 DEF Shapes, Steps, SteerIsInTurn, TurnIsReleased
<1>3. Shapes'
  BY <1>1, <1>2 DEF Shapes, Turns, Steps, Natives
<1>4. TurnIsReleased'
  BY <1>1, <1>2 DEF TurnIsReleased, Written
<1>5. WrittenIsReleased'
  BY <1>1, <1>2 DEF WrittenIsReleased, Written
<1>6. SteerIsInTurn'
  BY <1>1, <1>2 DEF SteerIsInTurn
<1>7. SentIsOpen'
  BY <1>1, <1>2 DEF SentIsOpen
<1>8. TurnIsFresh'
  BY <1>1, <1>2 DEF TurnIsFresh
<1>9. HeardIsKnown'
  BY <1>1, <1>2 DEF HeardIsKnown
<1>10. OpenUntilReleased'
  BY <1>1, <1>2 DEF OpenUntilReleased
<1>11. LeftIsUncertain'
  BY <1>1, <1>2 DEF LeftIsUncertain, Left, Written
<1>12. HeardOnce'
  BY <1>1, <1>2 DEF HeardOnce
<1> QED
  BY <1>3, <1>4, <1>5, <1>6, <1>7, <1>8, <1>9, <1>10, <1>11, <1>12

\* The acknowledged input is released, and the look at the reply is yet to come.
LEMMA AcknowledgedKeeps ==
  ASSUME SteeringInv, Acknowledged
  PROVE  SteeringInv'
<1> USE Nothing, InputsAssumption DEF SteeringInv, None
<1>1. /\ UNCHANGED <<answers, turn, steer, native, life, heard, torn>>
      /\ life = "up" /\ stretch = None /\ stretch' = "judge"
      /\ steer.answer = "accepted"
  BY DEF Acknowledged, Able
<1>2. steer.input \in Inputs /\ steer.at = "sent" /\ turn.of \in Inputs
  BY <1>1 DEF Shapes, Steps, SteerIsInTurn, TurnIsReleased
<1>3. /\ recs' \in [Inputs -> RecordSet]
      /\ \A j \in Inputs : j # steer.input => Keeps(j)
      /\ recs'[steer.input].rel = turn.of /\ recs'[steer.input].done = recs[steer.input].done
      /\ recs'[steer.input].phase = "delivered"
  BY <1>1, <1>2, OfRelease DEF Shapes, Keeps, Acknowledged, RecordSet, Phases
<1>4. Shapes'
  BY <1>1, <1>2, <1>3 DEF Shapes
<1>5. TurnIsReleased'
  BY <1>1, <1>2, <1>3 DEF Keeps, TurnIsReleased, Written
<1>6. WrittenIsReleased'
  BY <1>1, <1>2, <1>3 DEF Keeps, WrittenIsReleased, Written, Shapes, Turns, Steps, Natives,
     TurnIsReleased, SentIsOpen
<1>7. SteerIsInTurn'
  BY <1>1, <1>2, <1>3 DEF Keeps, SteerIsInTurn
<1>8. SentIsOpen'
  BY <1>1, <1>2, <1>3 DEF Keeps, SentIsOpen, Shapes, Turns, Steps, Natives, TurnIsReleased,
     WrittenIsReleased, SteerIsInTurn, TurnIsFresh, HeardIsKnown, OpenUntilReleased,
     LeftIsUncertain, HeardOnce, Left, Written
<1>9. TurnIsFresh'
  BY <1>1, <1>2, <1>3 DEF Keeps, TurnIsFresh
<1>10. HeardIsKnown'
  BY <1>1, <1>2, <1>3 DEF Keeps, HeardIsKnown
<1>11. OpenUntilReleased'
  BY <1>1, <1>2, <1>3 DEF Keeps, OpenUntilReleased
<1>12. LeftIsUncertain'
  BY <1>1, <1>2, <1>3 DEF Keeps, LeftIsUncertain, Left, Written, Shapes, Turns, Steps, Natives,
     SentIsOpen, SteerIsInTurn, TurnIsReleased, WrittenIsReleased, OpenUntilReleased
<1>13. HeardOnce'
  BY <1>1, <1>2, <1>3 DEF Keeps, HeardOnce
<1> QED
  BY <1>4, <1>5, <1>6, <1>7, <1>8, <1>9, <1>10, <1>11, <1>12, <1>13

\* The look at the reply makes an excluded input uncertain before it can be closed.
LEMMA JudgeKeeps ==
  ASSUME SteeringInv, Judge
  PROVE  SteeringInv'
<1> USE Nothing, InputsAssumption DEF SteeringInv, None
<1>1. /\ UNCHANGED <<answers, turn, native, life, heard, torn>>
      /\ life = "up" /\ stretch = "judge" /\ stretch' = None
      /\ steer' \in {NoSteer, [NoSteer EXCEPT !.at = "looping"]}
  BY DEF Judge, Settled, After, NoSteer
<1>2. steer.input \in Inputs /\ steer.at = "sent" /\ turn.of \in Inputs
  BY <1>1 DEF Shapes, Steps, SteerIsInTurn, TurnIsReleased
<1>3. /\ recs' \in [Inputs -> RecordSet]
      /\ \A j \in Inputs :
                           \/ Keeps(j) /\ (j = steer.input => ~Excluded(j))
                           \/ j # steer.input /\ Keeps(j)
                           \/ /\ recs'[j].rel = recs[j].rel /\ recs'[j].done = recs[j].done
                              /\ recs'[j].phase = "uncertain"
  <2>1. CASE Excluded(steer.input)
    <3>1. recs' = Set({steer.input}, Uncertain)
      BY <2>1 DEF Judge
    <3>2. ASSUME NEW j \in Inputs
          PROVE  /\ Uncertain(recs[j]) \in RecordSet /\ Uncertain(recs[j]).rel = recs[j].rel
                 /\ Uncertain(recs[j]).done = recs[j].done /\ Uncertain(recs[j]).phase = "uncertain"
      <4>1. recs[j] \in RecordSet
        BY DEF Shapes
      <4> QED
        BY <4>1, OfRecord
    <3>3. recs' = [j \in Inputs |-> IF j = steer.input THEN Uncertain(recs[j]) ELSE recs[j]]
      BY <3>1 DEF Set
    <3> QED
      BY <1>2, <3>2, <3>3 DEF Shapes, Keeps
  <2>2. CASE ~Excluded(steer.input)
    <3>1. recs' = Set(Under(turn.of), Effected)
      BY <2>2 DEF Judge
    <3>2. recs' \in [Inputs -> RecordSet] /\ \A j \in Inputs : Keeps(j)
      BY <3>1, NotedKeeps
    <3> QED
      BY <2>2, <3>2
  <2> QED
    BY <2>1, <2>2
<1>4. Shapes'
  BY <1>1, <1>2, <1>3, Loopings, ShapesStand DEF Shapes
<1>5. TurnIsReleased'
  BY <1>1, <1>2, <1>3 DEF Keeps, Excluded, TurnIsReleased, Written
<1>6. WrittenIsReleased'
  BY <1>1, <1>2, <1>3 DEF Keeps, Excluded, WrittenIsReleased, Written
<1>7. SteerIsInTurn'
  BY <1>1, <1>2, <1>3 DEF Keeps, Excluded, SteerIsInTurn, Shapes, Turns, Steps, Natives,
     TurnIsReleased
<1>8. SentIsOpen'
  BY <1>1, <1>2, <1>3 DEF Keeps, Excluded, SentIsOpen, Shapes, Turns, Steps, Natives,
     SteerIsInTurn, HeardIsKnown, TurnIsReleased
<1>9. TurnIsFresh'
  BY <1>1, <1>2, <1>3 DEF Keeps, Excluded, TurnIsFresh
<1>10. HeardIsKnown'
  BY <1>1, <1>2, <1>3 DEF Keeps, Excluded, HeardIsKnown, Shapes, Turns, Steps, Natives,
     SentIsOpen, SteerIsInTurn, TurnIsReleased
<1>11. OpenUntilReleased'
  BY <1>1, <1>2, <1>3 DEF Keeps, Excluded, OpenUntilReleased
<1>12. LeftIsUncertain'
  <2>1. \A i \in Inputs : Left(i)' <=> Left(i)
    BY <1>1, <1>3 DEF Left, Written, Keeps
  <2>2. \A i \in Inputs : Left(i) /\ i = steer.input => Excluded(i)
    BY <1>2, <1>1 DEF Left, Excluded, SentIsOpen
  <2> QED
    BY <1>2, <1>1, <1>3, <2>1, <2>2 DEF LeftIsUncertain, SentIsOpen, Keeps
<1>13. HeardOnce'
  BY <1>1, <1>2, <1>3 DEF Keeps, Excluded, HeardOnce
<1> QED
  BY <1>4, <1>5, <1>6, <1>7, <1>8, <1>9, <1>10, <1>11, <1>12, <1>13

\* Only a proved refusal makes an input due again; it was not handed over.
LEMMA RefusedKeeps ==
  ASSUME SteeringInv, Refused
  PROVE  SteeringInv'
<1> USE Nothing, InputsAssumption DEF SteeringInv, None
<1>1. /\ UNCHANGED <<answers, turn, native, stretch, life, heard, torn>>
      /\ life = "up" /\ stretch = None /\ steer.answer \in {"rejected", "lost"}
      /\ steer' \in {NoSteer, [NoSteer EXCEPT !.at = "looping"]}
  BY DEF Refused, Able, Settled, After, NoSteer
<1>2. steer.input \in Inputs /\ steer.at = "sent" /\ turn.of \in Inputs
  BY <1>1 DEF Shapes, Steps, SteerIsInTurn, TurnIsReleased
<1>3. /\ recs' \in [Inputs -> RecordSet]
      /\ \A j \in Inputs : j # steer.input => Keeps(j)
      /\ recs'[steer.input].done = recs[steer.input].done
      /\ \/ /\ recs'[steer.input].rel = recs[steer.input].rel /\ recs'[steer.input].phase = "next_turn"
            /\ steer.answer = "rejected"
         \/ recs'[steer.input].rel = turn.of /\ recs'[steer.input].phase = "uncertain"
  <2>1. PICK read \in BOOLEAN :
          recs' = IF Proved(read) THEN [recs EXCEPT ![steer.input].phase = "next_turn"]
                  ELSE [recs EXCEPT ![steer.input] = [Uncertain(@) EXCEPT !.rel = turn.of]]
    BY DEF Refused
  <2>2. CASE Proved(read)
    BY <1>2, <2>1, <2>2 DEF Shapes, RecordSet, Phases, Keeps, Proved
  <2>3. CASE ~Proved(read)
    <3>1. recs' = [recs EXCEPT ![steer.input] = [Uncertain(@) EXCEPT !.rel = turn.of]]
      BY <2>1, <2>3
    <3> DEFINE doubted == [Uncertain(recs[steer.input]) EXCEPT !.rel = turn.of]
    <3>2. /\ Uncertain(recs[steer.input]) \in RecordSet /\ Uncertain(recs[steer.input]).phase = "uncertain"
          /\ Uncertain(recs[steer.input]).done = recs[steer.input].done
      <4>1. recs[steer.input] \in RecordSet
        BY <1>2 DEF Shapes
      <4> QED
        BY <4>1, OfRecord
    <3>3. /\ doubted \in RecordSet /\ doubted.rel = turn.of /\ doubted.phase = "uncertain"
          /\ doubted.done = recs[steer.input].done
      BY <1>2, <3>2, OfRelease
    <3>4. recs' = [recs EXCEPT ![steer.input] = doubted]
      BY <3>1
    <3> HIDE DEF doubted
    <3> QED
      BY <1>2, <3>3, <3>4 DEF Shapes, Keeps
  <2> QED
    BY <2>2, <2>3
<1>4. Shapes'
  BY <1>1, <1>2, <1>3, Loopings, ShapesStand DEF Shapes
<1>5. TurnIsReleased'
  BY <1>1, <1>2, <1>3 DEF Keeps, TurnIsReleased, Written
<1>6. WrittenIsReleased'
  BY <1>1, <1>2, <1>3 DEF Keeps, WrittenIsReleased, Written, Shapes, Turns, Steps, Natives,
     TurnIsReleased, SentIsOpen
<1>7. SteerIsInTurn'
  BY <1>1, <1>2, <1>3 DEF Keeps, SteerIsInTurn, Shapes, Turns, Steps, Natives, TurnIsReleased
<1>8. SentIsOpen'
  <2>1. steer'.at # "sent"
    BY <1>1 DEF NoSteer
  <2> QED
    BY <2>1 DEF SentIsOpen
<1>9. TurnIsFresh'
  BY <1>1, <1>2, <1>3 DEF Keeps, TurnIsFresh
<1>10. HeardIsKnown'
  BY <1>1, <1>2, <1>3 DEF Keeps, HeardIsKnown, Shapes, Turns, Steps, Natives, SentIsOpen,
     SteerIsInTurn, TurnIsReleased
<1>11. OpenUntilReleased'
  BY <1>1, <1>2, <1>3 DEF Keeps, OpenUntilReleased
<1>12. LeftIsUncertain'
  BY <1>1, <1>2, <1>3 DEF Keeps, LeftIsUncertain, Left, Written, Shapes, Turns, Steps, Natives,
     SentIsOpen, SteerIsInTurn, TurnIsReleased, WrittenIsReleased, OpenUntilReleased
<1>13. HeardOnce'
  BY <1>1, <1>2, <1>3 DEF Keeps, HeardOnce
<1> QED
  BY <1>4, <1>5, <1>6, <1>7, <1>8, <1>9, <1>10, <1>11, <1>12, <1>13

\* Sending changes a reply's status and none of its names.
LEMMA SendKeeps ==
  ASSUME SteeringInv, NEW i \in Inputs, Send(i)
  PROVE  SteeringInv'
<1> USE Nothing, InputsAssumption DEF SteeringInv, None
<1>1. /\ UNCHANGED <<recs, turn, steer, native, life, heard, torn>>
      /\ life = "up" /\ stretch = None /\ stretch' = i
      /\ turn = NoTurn
      /\ answers[i].status = "pending" /\ answers' = [answers EXCEPT ![i].status = "sent"]
  BY DEF Send, Able
<1>2. Shapes'
  BY <1>1 DEF Shapes
<1>3. TurnIsReleased'
  BY <1>1 DEF TurnIsReleased, Written
<1>4. WrittenIsReleased'
  BY <1>1 DEF WrittenIsReleased, Written
<1>5. SteerIsInTurn'
  BY <1>1 DEF SteerIsInTurn
<1>6. SentIsOpen'
  BY <1>1 DEF SentIsOpen
<1>7. TurnIsFresh'
  BY <1>1 DEF TurnIsFresh
<1>8. HeardIsKnown'
  BY <1>1 DEF HeardIsKnown
<1>9. OpenUntilReleased'
  BY <1>1 DEF OpenUntilReleased
<1>10. LeftIsUncertain'
  BY <1>1 DEF LeftIsUncertain, Left, Written
<1>11. HeardOnce'
  BY <1>1 DEF HeardOnce
<1> QED
  BY <1>2, <1>3, <1>4, <1>5, <1>6, <1>7, <1>8, <1>9, <1>10, <1>11

\* Delivery closes what its release has and is not uncertain.
LEMMA CloseAnsweredKeeps ==
  ASSUME SteeringInv, CloseAnswered
  PROVE  SteeringInv'
<1> USE Nothing, InputsAssumption DEF SteeringInv, None
<1>1. /\ UNCHANGED <<answers, turn, steer, native, life, heard, torn>>
      /\ life = "up" /\ stretch \in Inputs /\ stretch' = None
  BY DEF CloseAnswered
<1>2. stretch \in Inputs
  BY <1>1 DEF Shapes, Steps, SteerIsInTurn, TurnIsReleased
<1>3. /\ recs' \in [Inputs -> RecordSet]
      /\ \A j \in Inputs : Keeps(j) \/ (recs[j].rel = stretch /\ recs[j].phase # "uncertain" /\ Closed(j))
  BY <1>1, <1>2, OfRecord DEF Shapes, Keeps, Closed, CloseAnswered, Set, Answered, Under
<1>4. Shapes'
  BY <1>1, <1>2, <1>3 DEF Shapes
<1>5. TurnIsReleased'
  BY <1>1, <1>2, <1>3 DEF Keeps, Closed, TurnIsReleased, Written
<1>6. WrittenIsReleased'
  BY <1>1, <1>2, <1>3 DEF Keeps, Closed, WrittenIsReleased, Written
<1>7. SteerIsInTurn'
  BY <1>1, <1>2, <1>3 DEF Keeps, Closed, SteerIsInTurn
<1>8. SentIsOpen'
  BY <1>1, <1>2, <1>3 DEF Keeps, Closed, SentIsOpen, Shapes, Turns, Steps, Natives,
     SteerIsInTurn, HeardIsKnown, TurnIsReleased
<1>9. TurnIsFresh'
  BY <1>1, <1>2, <1>3 DEF Keeps, Closed, TurnIsFresh
<1>10. HeardIsKnown'
  BY <1>1, <1>2, <1>3 DEF Keeps, Closed, HeardIsKnown
<1>11. OpenUntilReleased'
  BY <1>1, <1>2, <1>3 DEF Keeps, Closed, OpenUntilReleased
<1>12. LeftIsUncertain'
  BY <1>1, <1>2, <1>3 DEF Keeps, Closed, LeftIsUncertain, Left, Written
<1>13. HeardOnce'
  BY <1>1, <1>2, <1>3 DEF Keeps, Closed, HeardOnce
<1> QED
  BY <1>4, <1>5, <1>6, <1>7, <1>8, <1>9, <1>10, <1>11, <1>12, <1>13

\* A kill leaves a request that was out as an intent, and tears an unfinished look.
LEMMA KillKeeps ==
  ASSUME SteeringInv, Kill
  PROVE  SteeringInv'
<1> USE Nothing, InputsAssumption DEF SteeringInv, None
<1>1. /\ UNCHANGED <<recs, answers, heard>>
      /\ life = "up" /\ life' = "down" /\ stretch' = None
      /\ turn' = NoTurn /\ steer' = NoSteer /\ native' = NoNative
      /\ torn' = IF stretch = "judge" /\ Excluded(steer.input) THEN torn \cup {steer.input} ELSE torn
  BY DEF Kill, Mishap
<1>2. Shapes'
  BY <1>1 DEF Shapes
<1>3. TurnIsReleased'
  BY <1>1 DEF TurnIsReleased, Written
<1>4. WrittenIsReleased'
  BY <1>1 DEF WrittenIsReleased, Written
<1>5. SteerIsInTurn'
  BY <1>1 DEF SteerIsInTurn
<1>6. SentIsOpen'
  BY <1>1 DEF SentIsOpen
<1>7. TurnIsFresh'
  BY <1>1 DEF TurnIsFresh
<1>8. HeardIsKnown'
  BY <1>1 DEF HeardIsKnown
<1>9. OpenUntilReleased'
  BY <1>1 DEF OpenUntilReleased
<1>10. LeftIsUncertain'
  <2>1. \A i \in Inputs : Left(i)' <=> Left(i)
    BY <1>1, <1>1 DEF Left, Written
  <2>2. SUFFICES ASSUME NEW i \in Inputs \ torn', Left(i)
                 PROVE  ~recs[i].done /\ recs[i].phase = "uncertain"
    BY <1>1, <1>1, <2>1 DEF LeftIsUncertain
  <2>3. ~(stretch = "judge" /\ i = steer.input /\ recs[i].phase # "uncertain")
    BY <1>1, <2>2 DEF Excluded, Left, SentIsOpen, SteerIsInTurn, Written
  <2> QED
    BY <1>1, <2>2, <2>3 DEF LeftIsUncertain
<1>11. HeardOnce'
  BY <1>1 DEF HeardOnce
<1> QED
  BY <1>2, <1>3, <1>4, <1>5, <1>6, <1>7, <1>8, <1>9, <1>10, <1>11

\* An intent found at the start becomes uncertain and is never handed over again.
LEMMA RecoverKeeps ==
  ASSUME SteeringInv, Recover
  PROVE  SteeringInv'
<1> USE Nothing, InputsAssumption DEF SteeringInv, None
<1>1. /\ UNCHANGED <<answers, turn, steer, native, stretch, heard, torn>>
      /\ life = "down" /\ life' = "up"
  BY DEF Recover
<1>2. /\ recs' \in [Inputs -> RecordSet]
      /\ \A j \in Inputs :
           /\ recs'[j].rel = recs[j].rel
           /\ recs'[j].phase = IF recs[j].phase = "dispatching" THEN "uncertain" ELSE recs[j].phase
           /\ \/ recs'[j].done = recs[j].done
              \/ recs'[j].done = TRUE /\ recs[j].rel # None /\ recs'[j].phase # "uncertain" 
  <2>1. \A j \in Inputs : recs'[j] = Recovered(j)
    BY DEF Recover
  <2>2. ASSUME NEW j \in Inputs
        PROVE  /\ Recovered(j) \in RecordSet /\ Recovered(j).rel = recs[j].rel
               /\ Recovered(j).phase = IF recs[j].phase = "dispatching" THEN "uncertain" ELSE recs[j].phase
               /\ \/ Recovered(j).done = recs[j].done
                  \/ Recovered(j).done = TRUE /\ recs[j].rel # None /\ Recovered(j).phase # "uncertain"
    <3> DEFINE r == IF recs[j].phase = "dispatching" THEN Uncertain(recs[j]) ELSE recs[j]
    <3>1. /\ r \in RecordSet /\ r.rel = recs[j].rel /\ r.done = recs[j].done
          /\ r.phase = IF recs[j].phase = "dispatching" THEN "uncertain" ELSE recs[j].phase
      <4>1. CASE recs[j].phase = "dispatching"
        BY <4>1, OfRecord DEF Shapes
      <4>2. CASE recs[j].phase # "dispatching"
        BY <4>2 DEF Shapes
      <4> QED
        BY <4>1, <4>2
    <3>2. \/ Recovered(j) = r \/ Recovered(j) = Doubted(r)
          \/ Recovered(j) = Completed(r) /\ r.rel # None /\ r.phase # "uncertain"
      BY Zenon DEF Recovered
    <3>3. /\ Completed(r) \in RecordSet /\ Completed(r).rel = r.rel /\ Completed(r).phase = r.phase
          /\ Completed(r).done = TRUE
          /\ Doubted(r) \in RecordSet /\ Doubted(r).rel = r.rel /\ Doubted(r).phase = r.phase
          /\ Doubted(r).done = r.done
      BY <3>1, OfRecord
    <3> HIDE DEF r
    <3> QED
      BY <3>1, <3>2, <3>3
  <2>3. recs' \in [Inputs -> RecordSet]
    BY <2>2 DEF Recover
  <2> QED
    BY <2>1, <2>2, <2>3
<1>3. Shapes'
  BY <1>1, <1>2, ShapesStand DEF Shapes
<1>4. TurnIsReleased'
  BY <1>1, <1>2 DEF TurnIsReleased, Written
<1>5. WrittenIsReleased'
  BY <1>1, <1>2 DEF WrittenIsReleased, Written
<1>6. SteerIsInTurn'
  BY <1>1, <1>2 DEF SteerIsInTurn
<1>7. SentIsOpen'
  BY <1>1, <1>2 DEF SentIsOpen, Shapes, Turns, Steps, Natives, SteerIsInTurn, HeardIsKnown,
     TurnIsReleased
<1>8. TurnIsFresh'
  BY <1>1, <1>2 DEF TurnIsFresh
<1>9. HeardIsKnown'
  BY <1>1, <1>2 DEF HeardIsKnown
<1>10. OpenUntilReleased'
  BY <1>1, <1>2 DEF OpenUntilReleased
<1>11. LeftIsUncertain'
  <2>1. \A j \in Inputs \ torn : Left(j) => ~recs[j].done /\ recs[j].phase = "uncertain"
    BY <1>1 DEF LeftIsUncertain, SteerIsInTurn
  <2>2. \A j \in Inputs : Left(j)' => Left(j)
    BY <1>1, <1>2 DEF Left, Written
  <2>3. \A j \in Inputs : ~recs[j].done /\ recs[j].phase = "uncertain" =>
                           ~recs'[j].done /\ recs'[j].phase = "uncertain"
    BY <1>2
  <2> QED
    BY <1>1, <2>1, <2>2, <2>3 DEF LeftIsUncertain
<1>12. HeardOnce'
  BY <1>1, <1>2 DEF HeardOnce
<1> QED
  BY <1>3, <1>4, <1>5, <1>6, <1>7, <1>8, <1>9, <1>10, <1>11, <1>12

-----------------------------------------------------------------------------
(* The specification.                                                      *)

\* Nothing is captured, released or answered at first.
LEMMA SteeringInit ==
  ASSUME Init
  PROVE  SteeringInv
<1>1. /\ turn = NoTurn /\ steer = NoSteer /\ native = NoNative /\ stretch = None /\ life = "up"
      /\ \A i \in Inputs : recs[i] = NoRecord /\ heard[i] = 0 /\ ~Written(i)
  BY DEF Init, Written
<1>2. Shapes
  BY <1>1, Nothing DEF Init, Shapes
<1> QED
  BY <1>1, <1>2, Nothing, InputsAssumption DEF SteeringInv, TurnIsReleased, WrittenIsReleased,
     SteerIsInTurn, SentIsOpen, TurnIsFresh, HeardIsKnown, OpenUntilReleased, LeftIsUncertain, Left,
     HeardOnce, None

\* A step of nothing changes nothing.
LEMMA SteeringStutter ==
  ASSUME SteeringInv, UNCHANGED vars
  PROVE  SteeringInv'
BY DEF vars, SteeringInv, Shapes, TurnIsReleased, WrittenIsReleased, SteerIsInTurn, SentIsOpen,
   TurnIsFresh, HeardIsKnown, OpenUntilReleased, LeftIsUncertain, Left, Written, HeardOnce

\* Every step keeps it.
LEMMA SteeringNext ==
  ASSUME SteeringInv, [Next]_vars
  PROVE  SteeringInv'
<1>1. ASSUME NEW i \in Inputs, Submit(i) \/ Begin(i) \/ Send(i)
      PROVE  SteeringInv'
  BY <1>1, SubmitKeeps, BeginKeeps, SendKeeps
<1>2. CASE Turning
  BY <1>2, PrepareKeeps, PrepareFailsKeeps, StartedKeeps, TurnFailsKeeps, ReplyKeeps, EndSeenKeeps,
     ReturnsFailedKeeps, ReturnsInterruptedKeeps, AsksAgainKeeps, ClosesKeeps DEF Turning
<1>3. CASE Steers
  BY <1>3, SkipKeeps, TooLateKeeps, DispatchKeeps, UnreadyKeeps, AcknowledgedKeeps, JudgeKeeps,
     RefusedKeeps DEF Steers
<1>4. CASE Server
  BY <1>4, NativeStartsKeeps, NativeSteeredKeeps, NativeSilentKeeps, NativeEndsKeeps DEF Server
<1> QED
  BY <1>1, <1>2, <1>3, <1>4, CloseAnsweredKeeps, KillKeeps, RecoverKeeps, SteeringStutter DEF Next

\* The inductive invariant holds throughout.
THEOREM SteeringInvariant == Spec => []SteeringInv
<1>1. Init => SteeringInv
  BY SteeringInit
<1>2. SteeringInv /\ [Next]_vars => SteeringInv'
  BY SteeringNext
<1> QED
  BY <1>1, <1>2, PTL DEF Spec

\* What the run checks of the turn: the model is handed an input once, and an
\* input closed under a written reply is one that the reply names
\* (deliverBrowserInputs, browserReplyExcludes and the closing of takeTurn).
THEOREM InputsHeard == Spec => []InputsAreHeard
<1>1. ASSUME SteeringInv
      PROVE  InputsAreHeard
  <2>1. TypeOK
    BY <1>1 DEF SteeringInv, Shapes, RecordSet, Turns, Steps, TypeOK
  <2>2. NamedWhenAnswered
    BY <1>1 DEF SteeringInv, LeftIsUncertain, Left, NamedWhenAnswered
  <2> QED
    BY <1>1, <2>1, <2>2 DEF SteeringInv, InputsAreHeard
<1> QED
  BY <1>1, SteeringInvariant, PTL
=============================================================================

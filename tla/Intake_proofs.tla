---------------------------- MODULE Intake_proofs -----------------------------
(***************************************************************************)
(* No message is passed without a record, and a batch is handed over whole  *)
(* and once: for every number of updates, every stream and any kills.       *)
(* Beside it the imports of a chat's past into the store of a living agent: *)
(* the past wakes nothing, and an import only adds.                         *)
(***************************************************************************)
EXTENDS MCArrivals, Sequences, TLAPS, FiniteSetTheorems, WellFoundedInduction

-----------------------------------------------------------------------------
(* The inductive invariant.                                                *)

Text(u)  == feed[u].kind = "text"
Plain(u) == feed[u].kind \in {"text", "unknown"}
Kept(u)  == Written(u) \/ u \in torn

\* What the server deleted and what a call asked past is passed.
ServerIsBehind == forgotten <= offset /\ asked <= offset + 1

\* What the worker remembers has no gap, and what it forgot is passed.
SeenIsWhole ==
    /\ \A u \in seen : \A v \in 1..u : v \in seen \/ v <= offset
    /\ \A u \in shown : u \in seen \/ u <= offset

\* What was handed over has no gap, and a call in flight asks past it.
BatchIsWhole ==
    /\ \A u \in batch : u <= highest /\ \A v \in 1..u : v \in batch \/ v <= offset
    /\ poll \in {"calling", "answered"} => \A u \in batch : u < asked

PassIsOverBatch ==
    /\ pending \subseteq owed /\ owed \subseteq batch
    /\ phase = "idle" => owed = {}
    /\ phase \in {"record", "cursor"} <=> pending # {}
    /\ phase \in {"consume", "offset"} => owed # {}
    /\ mode = "down" => phase = "idle"

\* What a pass has left behind it is written.
LeftIsWritten ==
    /\ phase # "idle" => \A u \in batch \ pending : Plain(u) => Kept(u)
    /\ phase = "cursor" /\ Plain(NextOf(pending)) => Kept(NextOf(pending))

PassedIsWritten == \A u \in Updates : Plain(u) /\ u <= offset => Kept(u)

CursorIsBehind ==
    \A u \in Updates : Text(u) /\ feed[u].pos <= cursor[feed[u].conv].message => Kept(u)

\* Whose file a message's name is taken by, the message is kept.
NamedIsKept ==
    \A r \in records : \A u \in Updates :
        Plain(u) /\ r.conv = feed[u].conv /\ r.msg = MsgOf(u) => Kept(u)

OneBody == \A r, s \in records : r.conv = s.conv /\ r.msg = s.msg /\ r.rev = s.rev => r = s

Whole  == ServerIsBehind /\ SeenIsWhole /\ BatchIsWhole
OnPass == PassIsOverBatch /\ LeftIsWritten
OnDisk ==
    IsFiniteSet(records) /\ PassedIsWritten /\ CursorIsBehind /\ NamedIsKept /\ OneBody

IntakeInv == TypeOK /\ Whole /\ OnPass /\ OnDisk

-----------------------------------------------------------------------------
(* The least, the greatest and the next.                                   *)

\* A set of numbers that is not empty has a least one.
LEMMA Leasts == ASSUME NEW S \in SUBSET Nat, S # {}
                PROVE Min(S) \in S /\ \A y \in S : Min(S) <= y
<1>1. PICK x \in S : \A y \in S : ~(<<y, x>> \in OpToRel(<, Nat))
  BY NatLessThanWellFounded, WFMin
<1>2. ASSUME NEW y \in S PROVE x <= y
  <2>1. x \in Nat /\ y \in Nat
    OBVIOUS
  <2>2. ~(<<y, x>> \in {p \in Nat \X Nat : p[1] < p[2]})
    BY <1>1 DEF OpToRel
  <2> QED
    BY <2>1, <2>2
<1> QED
  BY <1>2 DEF Min

\* A bounded set of numbers that is not empty has a greatest one.
LEMMA Greatests == ASSUME NEW S \in SUBSET Updates, S # {}
                   PROVE Max(S) \in S /\ \A y \in S : y <= Max(S)
<1> USE IntakeAssumption DEF Updates
<1> DEFINE B == {n \in Nat : \A y \in S : y <= n}
<1>1. B \in SUBSET Nat /\ N \in B
  OBVIOUS
<1>2. Min(B) \in B /\ \A y \in B : Min(B) <= y
  <2> HIDE DEF B
  <2> QED
    BY <1>1, Leasts
<1>3. PICK s \in S : TRUE
  OBVIOUS
<1>4. Min(B) \in S
  <2>1. Min(B) \in Nat /\ \A y \in S : y <= Min(B)
    BY <1>2
  <2>2. Min(B) >= 1 /\ Min(B) - 1 \notin B
    BY <1>2, <1>3, <2>1
  <2>3. \A n \in Nat : (\A y \in S : y <= n) => n \in B
    OBVIOUS
  <2> HIDE DEF B
  <2>4. Min(B) - 1 \in Nat
    BY <2>1, <2>2
  <2>5. PICK y \in S : ~(y <= Min(B) - 1)
    BY <2>2, <2>3, <2>4
  <2>6. y = Min(B)
    BY <2>1, <2>5
  <2> QED
    BY <2>6
<1>5. \E x \in S : \A y \in S : x >= y
  BY <1>2, <1>4
<1> QED
  BY <1>5 DEF Max

\* The greater of two.
LEMMA Greater == ASSUME NEW a \in Int, NEW b \in Int
                 PROVE Max({a, b}) = IF a >= b THEN a ELSE b
<1>1. \E x \in {a, b} : \A y \in {a, b} : x >= y
  OBVIOUS
<1>2. Max({a, b}) \in {a, b} /\ \A y \in {a, b} : Max({a, b}) >= y
  BY <1>1 DEF Max
<1> QED
  BY <1>2

\* What is behind one number is behind a greater one.
LEMMA Further ==
  \A a, b, c, d \in Nat : a <= c /\ b <= c + 1 /\ d >= c => a <= d /\ b <= d + 1
OBVIOUS

\* The next of a pass: one of those pending, and the first of those that can be read.
LEMMA Nexts == ASSUME pending \subseteq Updates, pending # {}
               PROVE  /\ NextOf(pending) \in pending
                      /\ \A v \in pending : ~Parks(v) => NextOf(pending) <= v
<1> DEFINE readable == {u \in pending : ~Parks(u)}
<1>1. CASE readable = {}
  BY <1>1, Leasts DEF NextOf, Updates
<1>2. CASE readable # {}
  <2>1. Min(readable) \in readable /\ \A v \in readable : Min(readable) <= v
    BY <1>2, Leasts DEF Updates
  <2> QED
    BY <1>2, <2>1 DEF NextOf
<1> QED
  BY <1>1, <1>2

-----------------------------------------------------------------------------
(* Streams, cursors and files.                                             *)

\* What the numbering of a chat says of two updates of this account.
LEMMA Streams ==
  ASSUME TypeOK, NEW u \in Updates, NEW v \in Updates
  PROVE  /\ feed[u] \in Update
         /\ Text(u) /\ feed[v].kind # "unknown" /\ feed[u].conv = feed[v].conv =>
              /\ feed[u].pos # 0
              /\ feed[u].pos = feed[v].pos => u <= v
              /\ feed[u].pos <= feed[v].pos /\ ~IsEdit(v) => u <= v
         /\ feed[u].kind = "unknown" /\ feed[v].kind # "unknown" => feed[u].conv # feed[v].conv
<1>1. feed \in Feeds /\ feed \in [Updates -> Update]
  BY IntakeAssumption DEF TypeOK
<1>2. feed[u] \in Update /\ feed[v] \in Update
  BY <1>1
<1>3. feed[u].pos \in Nat /\ feed[v].pos \in Nat
  BY <1>2 DEF Update
<1> QED
  BY <1>1, <1>2, <1>3, StreamsAssumption DEF Text, IsEdit

\* A cursor moves to the update's number, in its chat and of its kind, and never back.
LEMMA Advances ==
  ASSUME TypeOK, NEW u \in Updates
  PROVE  /\ Advanced(u) \in [Conversations -> [message: Nat, revision: Nat]]
         /\ \A c \in Conversations :
              IF c = feed[u].conv /\ ~IsEdit(u) /\ feed[u].kind # "unknown"
              THEN Advanced(u)[c].message \in {cursor[c].message, feed[u].pos}
              ELSE Advanced(u)[c].message = cursor[c].message
<1> DEFINE c == feed[u].conv
<1>1. c \in Conversations /\ feed[u].pos \in Nat
  BY Streams DEF Update
<1>2. cursor \in [Conversations -> [message: Nat, revision: Nat]]
  BY DEF TypeOK
<1>3. CASE feed[u].kind = "unknown"
  BY <1>2, <1>3 DEF Advanced
<1>4. CASE IsEdit(u)
  <2>1. Advanced(u) = [cursor EXCEPT ![c].revision = Max({@, feed[u].pos})]
    BY <1>4 DEF Advanced, IsEdit
  <2>2. cursor[c].revision \in Nat
    BY <1>1, <1>2
  <2> DEFINE old == cursor[c].revision
             new == feed[u].pos
  <2>3. old \in Nat /\ new \in Nat
    BY <1>1, <2>2
  <2> HIDE DEF old, new
  <2>4. Max({old, new}) \in Nat
    BY <2>3, Greater
  <2> QED
    BY <1>1, <1>2, <1>4, <2>1, <2>4 DEF old, new
<1>5. CASE feed[u].kind # "unknown" /\ ~IsEdit(u)
  <2>1. Advanced(u) = [cursor EXCEPT ![c].message = Max({@, feed[u].pos})]
    BY <1>5 DEF Advanced
  <2>2. Max({cursor[c].message, feed[u].pos}) \in {cursor[c].message, feed[u].pos}
    BY <1>1, <1>2, Greater
  <2> QED
    BY <1>1, <1>2, <1>5, <2>1, <2>2
<1> QED
  BY <1>3, <1>4, <1>5

\* A cursor that moves to u leaves no message behind, if those up to u are kept.
LEMMA Behind ==
  ASSUME IntakeInv, NEW u \in Updates, cursor' = Advanced(u), feed' = feed,
         \A v \in Updates : Kept(v) => Kept(v)',
         \A v \in Updates : Text(v) /\ v <= u => Kept(v)'
  PROVE  CursorIsBehind'
<1> SUFFICES ASSUME NEW v \in Updates, Text(v), feed[v].pos <= cursor'[feed[v].conv].message
             PROVE  Kept(v)'
  BY DEF CursorIsBehind, Text
<1>1. TypeOK
  BY DEF IntakeInv
<1>2. feed[v].conv \in Conversations
  BY <1>1, Streams DEF Update
<1>3. cursor'[feed[v].conv].message = cursor[feed[v].conv].message => Kept(v)'
  BY DEF IntakeInv, OnDisk, CursorIsBehind
<1>4. CASE cursor'[feed[v].conv].message # cursor[feed[v].conv].message
  <2>1. /\ feed[v].conv = feed[u].conv /\ ~IsEdit(u) /\ feed[u].kind # "unknown"
        /\ feed[v].pos <= feed[u].pos
    BY <1>1, <1>2, <1>4, Advances
  <2>2. v <= u
    BY <1>1, <2>1, Streams
  <2> QED
    BY <2>2
<1> QED
  BY <1>3, <1>4

\* A message before the next of a pass is kept.
LEMMA Earlier ==
  ASSUME IntakeInv, phase \in {"record", "cursor"}, NEW v \in Updates, Text(v),
         v <= NextOf(pending), v # NextOf(pending)
  PROVE  Kept(v)
<1> DEFINE w == NextOf(pending)
<1>1. pending \subseteq Updates /\ pending # {} /\ pending \subseteq batch /\ batch \subseteq Updates
  BY DEF IntakeInv, TypeOK, OnPass, PassIsOverBatch
<1>2. w \in pending /\ \A q \in pending : ~Parks(q) => w <= q
  BY <1>1, Nexts
<1>3. v \in Nat /\ w \in Nat /\ v \in 1..w
  <2>1. v <= w /\ w \in Updates
    BY <1>1, <1>2
  <2> HIDE DEF w
  <2> QED
    BY <2>1, IntakeAssumption DEF Updates
<1>4. v \notin pending
  BY <1>2, <1>3 DEF Text, Parks
<1> HIDE DEF w
<1>5. v \in batch \/ v <= offset
  BY <1>1, <1>2, <1>3 DEF IntakeInv, Whole, BatchIsWhole
<1> QED
  BY <1>4, <1>5 DEF IntakeInv, OnPass, LeftIsWritten, OnDisk, PassedIsWritten, Plain, Text

\* While a pass consumes, everything up to what it consumes is kept.
LEMMA Consumed ==
  ASSUME IntakeInv, phase \in {"consume", "offset"}
  PROVE  /\ Min(owed) \in owed /\ Min(owed) \in Updates
         /\ \A v \in Updates : Plain(v) /\ v <= Min(owed) => Kept(v)
<1>1. owed \subseteq batch /\ owed # {} /\ pending = {} /\ batch \subseteq Updates
  BY DEF IntakeInv, TypeOK, OnPass, PassIsOverBatch
<1>2. Min(owed) \in owed
  BY <1>1, Leasts DEF Updates
<1>3. ASSUME NEW v \in Updates, Plain(v), v <= Min(owed) PROVE Kept(v)
  <2>1. v \in 1..Min(owed)
    BY <1>1, <1>2, <1>3 DEF Updates
  <2>2. v \in batch \/ v <= offset
    BY <1>1, <1>2, <2>1 DEF IntakeInv, Whole, BatchIsWhole
  <2> QED
    BY <1>1, <1>3, <2>2 DEF IntakeInv, OnPass, LeftIsWritten, OnDisk, PassedIsWritten
<1> QED
  BY <1>1, <1>2, <1>3

-----------------------------------------------------------------------------
(* Every action keeps it.                                                  *)

\* Something happens in a chat.
LEMMA ArriveIntake == ASSUME IntakeInv, Arrive PROVE IntakeInv'
<1> USE IntakeAssumption DEF IntakeInv, TypeOK, server, disk, worker, capture, noted, ends,
           Arrive
<1>1. TypeOK'
  BY DEF Updates
<1>2. Whole'
  BY DEF Whole, ServerIsBehind, SeenIsWhole, BatchIsWhole
<1>3. OnPass'
  BY DEF OnPass, PassIsOverBatch, LeftIsWritten, Plain, Kept, Written, NextOf, Parks
<1>4. OnDisk'
  BY DEF OnDisk, PassedIsWritten, CursorIsBehind, NamedIsKept, OneBody, Plain, Text, Kept,
     Written, MsgOf
<1> QED
  BY <1>1, <1>2, <1>3, <1>4

\* A call asks past what is passed, and the server deletes that.
LEMMA AskIntake == ASSUME IntakeInv, Ask PROVE IntakeInv'
<1> USE IntakeAssumption DEF IntakeInv, TypeOK, server, disk, worker, capture, noted, ends,
           Ask, Works
<1>a. /\ NextOffset \in 0..N+1 /\ NextOffset <= offset + 1
      /\ NextOffset = offset + 1 \/ (NextOffset = 0 /\ offset = 0)
  BY DEF NextOffset
<1>b. forgotten' \in 0..N /\ forgotten' <= offset
  <2>1. NextOffset - 1 \in Int /\ forgotten \in Int
    BY <1>a
  <2>2. forgotten' = IF forgotten >= NextOffset - 1 THEN forgotten ELSE NextOffset - 1
    BY <2>1, Greater
  <2> QED
    BY <1>a, <2>2 DEF Whole, ServerIsBehind
<1>1. TypeOK'
  BY <1>a, <1>b
<1>2. Whole'
  <2>1. seen' = {u \in seen : u >= NextOffset} /\ asked' = NextOffset
    OBVIOUS
  <2>2. SeenIsWhole'
    <3>1. \A u \in Updates : u >= NextOffset \/ u <= offset
      BY <1>a DEF Updates
    <3> QED
      BY <2>1, <3>1 DEF Whole, SeenIsWhole, Updates
  <2>3. \A u \in batch : u < NextOffset
    BY <1>a DEF Waits, Whole, BatchIsWhole, Updates
  <2> QED
    BY <1>a, <1>b, <2>1, <2>2, <2>3 DEF Whole, ServerIsBehind, BatchIsWhole
<1>3. OnPass'
  BY DEF OnPass, PassIsOverBatch, LeftIsWritten, Plain, Kept, Written, NextOf, Parks
<1>4. OnDisk'
  BY DEF OnDisk, PassedIsWritten, CursorIsBehind, NamedIsKept, OneBody, Plain, Text, Kept,
     Written, MsgOf
<1> QED
  BY <1>1, <1>2, <1>3, <1>4

\* An answer shows nothing new ahead of something it has not shown.
LEMMA AnswerIntake == ASSUME IntakeInv, NEW S \in SUBSET Updates, Answer(S) PROVE IntakeInv'
<1> USE IntakeAssumption DEF IntakeInv, TypeOK, server, disk, worker, capture, noted, ends,
           Answer, Works, Remember
<1>1. TypeOK'
  OBVIOUS
<1>2. Whole'
  <2>1. ASSUME NEW u \in S, NEW v \in 1..u PROVE v \in seen' \/ v <= offset
    <3>1. v > forgotten /\ v >= asked => v \in S \cup seen
      BY DEF CanAnswer
    <3>2. v \in Nat
      OBVIOUS
    <3> QED
      BY <3>1, <3>2 DEF Whole, ServerIsBehind
  <2>2. SeenIsWhole'
    BY <2>1 DEF Whole, SeenIsWhole
  <2> QED
    BY <2>2 DEF Whole, ServerIsBehind, BatchIsWhole
<1>3. OnPass'
  BY DEF OnPass, PassIsOverBatch, LeftIsWritten, Plain, Kept, Written, NextOf, Parks
<1>4. OnDisk'
  BY DEF OnDisk, PassedIsWritten, CursorIsBehind, NamedIsKept, OneBody, Plain, Text, Kept,
     Written, MsgOf
<1> QED
  BY <1>1, <1>2, <1>3, <1>4

\* The same offset is asked again.
LEMMA AskAgainIntake == ASSUME IntakeInv, AskAgain PROVE IntakeInv'
<1> USE IntakeAssumption DEF IntakeInv, TypeOK, server, disk, worker, capture, noted, ends,
           AskAgain, Works
<1>1. TypeOK'
  OBVIOUS
<1>2. Whole'
  BY DEF Whole, ServerIsBehind, SeenIsWhole, BatchIsWhole
<1>3. OnPass'
  BY DEF OnPass, PassIsOverBatch, LeftIsWritten, Plain, Kept, Written, NextOf, Parks
<1>4. OnDisk'
  BY DEF OnDisk, PassedIsWritten, CursorIsBehind, NamedIsKept, OneBody, Plain, Text, Kept,
     Written, MsgOf
<1> QED
  BY <1>1, <1>2, <1>3, <1>4

\* The batch is everything remembered and not passed.
LEMMA HandOverIntake == ASSUME IntakeInv, HandOver PROVE IntakeInv'
<1> USE IntakeAssumption DEF IntakeInv, TypeOK, server, disk, worker, capture, noted, ends,
           HandOver, Works
<1>a. /\ Retained \subseteq seen /\ Retained \subseteq Updates
      /\ \A u \in seen : u \in Retained \/ u <= offset
  <2>1. ASSUME NEW u \in seen PROVE u >= asked \/ u <= offset
    <3>1. u \in Nat /\ asked \in Nat /\ offset \in Nat /\ asked <= offset + 1
      BY DEF Updates, Whole, ServerIsBehind
    <3> QED
      BY <3>1
  <2> QED
    BY <2>1 DEF Retained
<1>b. highest' \in 0..N /\ \A u \in Retained : u <= highest'
  BY <1>a, Greatests DEF Updates
<1>c. batch' = Retained /\ phase = "idle" /\ poll' = "gate"
  OBVIOUS
<1>1. TypeOK'
  BY <1>a, <1>b
<1>2. Whole'
  <2>1. ASSUME NEW u \in Retained, NEW v \in 1..u PROVE v \in Retained \/ v <= offset
    BY <1>a DEF Whole, SeenIsWhole
  <2> QED
    BY <1>b, <1>c, <2>1 DEF Whole, ServerIsBehind, SeenIsWhole, BatchIsWhole
<1>3. OnPass'
  BY <1>c DEF OnPass, PassIsOverBatch, LeftIsWritten
<1>4. OnDisk'
  BY DEF OnDisk, PassedIsWritten, CursorIsBehind, NamedIsKept, OneBody, Plain, Text, Kept,
     Written, MsgOf
<1> QED
  BY <1>1, <1>2, <1>3, <1>4

\* A call fails.
LEMMA CallFailsIntake == ASSUME IntakeInv, CallFails PROVE IntakeInv'
<1> USE IntakeAssumption DEF IntakeInv, TypeOK, server, disk, worker, capture, noted, ends,
           CallFails, Works
<1>1. TypeOK'
  OBVIOUS
<1>2. Whole'
  BY DEF Whole, ServerIsBehind, SeenIsWhole, BatchIsWhole
<1>3. OnPass'
  BY DEF OnPass, PassIsOverBatch, LeftIsWritten, Plain, Kept, Written, NextOf, Parks
<1>4. OnDisk'
  BY DEF OnDisk, PassedIsWritten, CursorIsBehind, NamedIsKept, OneBody, Plain, Text, Kept,
     Written, MsgOf
<1> QED
  BY <1>1, <1>2, <1>3, <1>4

\* The worker tries again.
LEMMA RetryIntake == ASSUME IntakeInv, Retry PROVE IntakeInv'
<1> USE IntakeAssumption DEF IntakeInv, TypeOK, server, disk, worker, capture, noted, ends,
           Retry, Works
<1>1. TypeOK'
  OBVIOUS
<1>2. Whole'
  BY DEF Whole, ServerIsBehind, SeenIsWhole, BatchIsWhole
<1>3. OnPass'
  BY DEF OnPass, PassIsOverBatch, LeftIsWritten, Plain, Kept, Written, NextOf, Parks
<1>4. OnDisk'
  BY DEF OnDisk, PassedIsWritten, CursorIsBehind, NamedIsKept, OneBody, Plain, Text, Kept,
     Written, MsgOf
<1> QED
  BY <1>1, <1>2, <1>3, <1>4

\* The loop hears of the failed call.
LEMMA HearFaultIntake == ASSUME IntakeInv, HearFault PROVE IntakeInv'
<1> USE IntakeAssumption DEF IntakeInv, TypeOK, server, disk, worker, capture, noted, ends,
           HearFault, Idle
<1>1. TypeOK'
  OBVIOUS
<1>2. Whole'
  BY DEF Whole, ServerIsBehind, SeenIsWhole, BatchIsWhole
<1>3. OnPass'
  BY DEF OnPass, PassIsOverBatch, LeftIsWritten, Plain, Kept, Written, NextOf, Parks
<1>4. OnDisk'
  BY DEF OnDisk, PassedIsWritten, CursorIsBehind, NamedIsKept, OneBody, Plain, Text, Kept,
     Written, MsgOf
<1> QED
  BY <1>1, <1>2, <1>3, <1>4

\* Counting from one to the last of several.
LEMMA OneLess == \A a \in Nat, b \in Nat \ {0} : a + b - 1 \in Nat
OBVIOUS

\* What a pass does not take is written: the cursor is past it.
LEMMA TakeBatchIntake == ASSUME IntakeInv, TakeBatch PROVE IntakeInv'
<1> USE IntakeAssumption DEF IntakeInv, TypeOK, server, disk, worker, capture, noted, ends,
           TakeBatch, Idle
<1> DEFINE S == {u \in batch : IsPending(u)}
<1>a. /\ mode = "up" /\ phase' = "record" /\ pending' = S /\ owed' = S /\ S # {} /\ S \subseteq batch
      /\ plan' = [u \in Updates |-> IF u \in S THEN Revision(S, u) ELSE 0]
      /\ beside' \subseteq Updates /\ mixed' \subseteq Updates
      /\ UNCHANGED <<server, disk, worker, ends>>
  OBVIOUS
<1>b. ASSUME NEW u \in batch \ S, Plain(u) PROVE Kept(u)
  <2>1. Text(u) /\ feed[u].pos \in Nat /\ feed[u].conv \in Conversations
    BY <1>b, Streams DEF IsPending, Plain, Text, Update
  <2>2. ~(cursor[feed[u].conv].message < feed[u].pos)
    BY <1>b, <2>1 DEF IsPending, Text, IsEdit
  <2>3. cursor[feed[u].conv].message \in Nat
    BY <2>1
  <2>4. feed[u].pos <= cursor[feed[u].conv].message
    BY <2>1, <2>2, <2>3
  <2> QED
    BY <2>1, <2>4 DEF OnDisk, CursorIsBehind
<1>c. ASSUME NEW u \in S PROVE Revision(S, u) \in Nat
  <2> DEFINE met == {v \in S : v <= u /\ IsEdit(v) /\ feed[v].pos = feed[u].pos}
  <2>1. CASE ~IsEdit(u)
    BY <2>1 DEF Revision
  <2>2. CASE IsEdit(u)
    <3>1. IsFiniteSet(met) /\ u \in met
      <4>1. IsFiniteSet(Updates)
        BY FS_Interval DEF Updates
      <4>3. met \in SUBSET Updates
        OBVIOUS
      <4>2. u \in met
        BY <2>2 DEF Updates
      <4> QED
        BY <4>1, <4>2, <4>3, FS_Subset
    <3>2. Cardinality(met) \in Nat \ {0}
      BY <3>1, FS_CardinalityType, FS_EmptySet
    <3>3. Cardinality(FilesOf(Min(met))) \in Nat
      <4>1. FilesOf(Min(met)) \in SUBSET records /\ IsFiniteSet(records)
        BY DEF FilesOf, OnDisk
      <4> QED
        BY <4>1, FS_Subset, FS_CardinalityType
    <3>4. Revision(S, u) = Cardinality(FilesOf(Min(met))) + Cardinality(met) - 1
      BY <2>2 DEF Revision
    <3> HIDE DEF met
    <3> QED
      BY <3>2, <3>3, <3>4, OneLess, Zenon
  <2> QED
    BY <2>1, <2>2
<1> HIDE DEF S, TakeBatch
<1>1. TypeOK'
  BY <1>a, <1>c
<1>2. Whole'
  BY <1>a DEF Whole, ServerIsBehind, SeenIsWhole, BatchIsWhole
<1>3. OnPass'
  <2>1. \A u \in batch' \ pending' : Plain(u)' => Kept(u)'
    BY <1>a, <1>b DEF Plain, Kept, Written
  <2>2. PassIsOverBatch'
    BY <1>a DEF OnPass, PassIsOverBatch
  <2>3. LeftIsWritten'
    BY <1>a, <2>1 DEF LeftIsWritten
  <2> QED
    BY <2>2, <2>3 DEF OnPass
<1>4. OnDisk'
  BY <1>a DEF OnDisk, PassedIsWritten, CursorIsBehind, NamedIsKept, OneBody, Plain, Text, Kept,
     Written, MsgOf
<1> QED
  BY <1>1, <1>2, <1>3, <1>4

\* A file is written, and what it may stand in the way of is written already.
LEMMA WriteRecordIntake == ASSUME IntakeInv, WriteRecord PROVE IntakeInv'
<1> USE IntakeAssumption DEF IntakeInv, TypeOK, server, disk, worker, capture, noted, ends,
           WriteRecord
<1> DEFINE w == NextOf(pending)
<1>a. pending # {} /\ w \in pending /\ w \in batch /\ w \in Updates
  BY Nexts DEF OnPass, PassIsOverBatch

<1>b. /\ mode = "up" /\ phase = "record" /\ feed[w].kind # "bad" /\ Write(w) /\ phase' = "cursor"
      /\ UNCHANGED <<server, cursor, offset, worker, ends, pending, owed, plan, noted>>
  OBVIOUS
<1>c. FileOf(w) \in File /\ FileOf(w).of = w
  <2>1. feed[w] \in Update /\ plan[w] \in Nat /\ w \in Nat
    BY <1>a, Streams DEF Updates
  <2> QED
    BY <1>a, <2>1 DEF FileOf, File, MsgOf, Update
<1>d. /\ records \subseteq records' /\ records' \subseteq records \cup {FileOf(w)}
      /\ \A r \in FilesOf(w) : r.rev = plan[w] => records' = records
      /\ (\A r \in FilesOf(w) : r.rev # plan[w]) => records' = records \cup {FileOf(w)}
  BY <1>b DEF Write
<1>e. \A v \in Updates : Kept(v) => Kept(v)'
  BY <1>b, <1>d DEF Kept, Written
<1>f. ASSUME NEW v \in Updates, Plain(v), feed[v].conv = feed[w].conv, MsgOf(v) = MsgOf(w), v # w
      PROVE  Kept(v)
  <2>1. Text(v) /\ feed[w].kind # "unknown" /\ feed[v].pos = feed[w].pos
    BY <1>a, <1>f, Streams DEF Plain, Text, MsgOf
  <2>2. v <= w
    <3>1. TypeOK
      OBVIOUS
    <3> HIDE DEF TypeOK, IntakeInv, w, WriteRecord
    <3> QED
      BY <1>a, <1>f, <2>1, <3>1, Streams
  <2> HIDE DEF WriteRecord
  <2> QED
    BY <1>b, <1>f, <2>1, <2>2, Earlier
<1>g. ASSUME NEW q \in Updates, q = w, Plain(w) PROVE Kept(q)'
  <2> HIDE DEF w, WriteRecord
  <2>1. CASE \E r \in FilesOf(w) : r.rev = plan[w]
    <3>1. PICK r \in records : r.conv = feed[w].conv /\ r.msg = MsgOf(w)
      BY <2>1 DEF FilesOf
    <3>2. Kept(q)
      BY <1>g, <3>1 DEF OnDisk, NamedIsKept
    <3> QED
      BY <1>e, <3>2
  <2>2. CASE ~\E r \in FilesOf(w) : r.rev = plan[w]
    <3>1. FileOf(w) \in records' /\ FileOf(w).of = q
      BY <1>c, <1>d, <1>g, <2>2
    <3> QED
      BY <3>1 DEF Kept, Written
  <2> QED
    BY <2>1, <2>2
<1> HIDE DEF w, WriteRecord
<1>1. TypeOK'
  BY <1>b, <1>c, <1>d
<1>2. Whole'
  BY <1>b DEF Whole, ServerIsBehind, SeenIsWhole, BatchIsWhole
<1>3. OnPass'
  <2>1. PassIsOverBatch'
    BY <1>a, <1>b DEF OnPass, PassIsOverBatch
  <2>2. \A u \in batch \ pending : Plain(u) => Kept(u)'
    BY <1>b, <1>e DEF OnPass, LeftIsWritten
  <2>3. NextOf(pending)' = w
    BY <1>b DEF w, NextOf, Parks
  <2>4. Plain(NextOf(pending))' => Kept(NextOf(pending))'
    BY <1>a, <1>b, <1>g, <2>3 DEF Plain, Kept, Written
  <2> QED
    BY <1>b, <2>1, <2>2, <2>4 DEF OnPass, LeftIsWritten, Plain
<1>4. OnDisk'
  <2>1. IsFiniteSet(records')
    <3>1. IsFiniteSet(records \cup {FileOf(w)})
      BY FS_AddElement DEF OnDisk
    <3> QED
      BY <1>d, <3>1, FS_Subset
  <2>2. PassedIsWritten' /\ CursorIsBehind'
    BY <1>b, <1>e DEF OnDisk, PassedIsWritten, CursorIsBehind, Plain, Text
  <2>3. NamedIsKept'
    <3> SUFFICES ASSUME NEW r \in records', NEW u \in Updates, Plain(u),
                        r.conv = feed[u].conv, r.msg = MsgOf(u)
                 PROVE  Kept(u)'
      BY <1>b DEF NamedIsKept, Plain, MsgOf
    <3>1. CASE r \in records
      BY <1>e, <3>1 DEF OnDisk, NamedIsKept
    <3>2. CASE r = FileOf(w)
      <4>1. feed[u].conv = feed[w].conv /\ MsgOf(u) = MsgOf(w)
        BY <3>2 DEF FileOf
      <4> QED
        BY <1>e, <1>f, <1>g, <4>1
    <3> QED
      BY <1>d, <3>1, <3>2
  <2>4. OneBody'
    <3>1. CASE \E r \in FilesOf(w) : r.rev = plan[w]
      BY <1>d, <3>1 DEF OnDisk, OneBody
    <3>2. CASE \A r \in FilesOf(w) : r.rev # plan[w]
      <4>1. \A r \in records : ~( /\ r.conv = FileOf(w).conv /\ r.msg = FileOf(w).msg
                                       /\ r.rev = FileOf(w).rev)
        BY <3>2 DEF FileOf, FilesOf
      <4> QED
        BY <1>d, <4>1 DEF OnDisk, OneBody
    <3> QED
      BY <3>1, <3>2
  <2> QED
    BY <2>1, <2>2, <2>3, <2>4 DEF OnDisk
<1> QED
  BY <1>1, <1>2, <1>3, <1>4

\* What the validator refuses is left.
LEMMA RefuseIntake == ASSUME IntakeInv, Refuse PROVE IntakeInv'
<1> USE IntakeAssumption DEF IntakeInv, TypeOK, server, disk, worker, capture, noted, ends,
           Refuse
<1> DEFINE w == NextOf(pending)
<1>a. pending # {} /\ w \in pending /\ w \in batch /\ w \in Updates
  BY Nexts DEF OnPass, PassIsOverBatch

<1>b. /\ mode = "up" /\ phase = "record" /\ feed[w].kind = "bad" /\ pending' = pending \ {w}
      /\ phase' = IF pending = {w} THEN "consume" ELSE "record"
      /\ UNCHANGED <<server, disk, worker, ends, owed, plan, noted>>
  BY DEF Wrote
<1>c. ~Plain(w)
  BY <1>b DEF Plain
<1> HIDE DEF w, Refuse
<1>1. TypeOK'
  BY <1>b
<1>2. Whole'
  BY <1>b DEF Whole, ServerIsBehind, SeenIsWhole, BatchIsWhole
<1>3. OnPass'
  <2>1. PassIsOverBatch'
    BY <1>a, <1>b DEF OnPass, PassIsOverBatch
  <2>2. \A u \in batch \ pending' : Plain(u) => Kept(u)
    BY <1>b, <1>c DEF OnPass, LeftIsWritten
  <2> QED
    BY <1>b, <2>1, <2>2 DEF OnPass, LeftIsWritten, Plain, Kept, Written
<1>4. OnDisk'
  BY <1>b DEF OnDisk, PassedIsWritten, CursorIsBehind, NamedIsKept, OneBody, Plain, Text, Kept,
     Written, MsgOf
<1> QED
  BY <1>1, <1>2, <1>3, <1>4

\* The cursor follows the record.
LEMMA CaptureCursorIntake == ASSUME IntakeInv, CaptureCursor PROVE IntakeInv'
<1> USE IntakeAssumption DEF IntakeInv, TypeOK, server, disk, worker, capture, noted, ends,
           CaptureCursor
<1> DEFINE w == NextOf(pending)
<1>a. pending # {} /\ w \in pending /\ w \in batch /\ w \in Updates
  BY Nexts DEF OnPass, PassIsOverBatch

<1>b. /\ mode = "up" /\ phase = "cursor" /\ cursor' = Advanced(w) /\ pending' = pending \ {w}
      /\ phase' = IF pending = {w} THEN "consume" ELSE "record"
      /\ UNCHANGED <<server, records, offset, worker, ends, owed, plan, noted>>
  BY DEF Wrote
<1>d. Plain(w) => Kept(w)
  BY <1>b DEF OnPass, LeftIsWritten
<1>c. /\ Plain(w) => Kept(w)
      /\ \A v \in Updates : Text(v) /\ v <= w => Kept(v)
  <2> HIDE DEF CaptureCursor
  <2> QED
    BY <1>b, <1>d, Earlier DEF Plain, Text
<1> HIDE DEF w, CaptureCursor
<1>1. TypeOK'
  BY <1>a, <1>b, Advances
<1>2. Whole'
  BY <1>b DEF Whole, ServerIsBehind, SeenIsWhole, BatchIsWhole
<1>3. OnPass'
  <2>1. PassIsOverBatch'
    BY <1>a, <1>b DEF OnPass, PassIsOverBatch
  <2>2. \A u \in batch \ pending' : Plain(u) => Kept(u)
    BY <1>b, <1>c DEF OnPass, LeftIsWritten
  <2> QED
    BY <1>b, <2>1, <2>2 DEF OnPass, LeftIsWritten, Plain, Kept, Written
<1>4. OnDisk'
  <2>1. \A v \in Updates : Kept(v) => Kept(v)'
    BY <1>b DEF Kept, Written
  <2>2. \A v \in Updates : Text(v) /\ v <= w => Kept(v)'
    BY <1>c, <2>1
  <2>3. CursorIsBehind'
    BY <1>a, <1>b, <2>1, <2>2, Behind
  <2> QED
    BY <1>b, <2>3 DEF OnDisk, PassedIsWritten, NamedIsKept, OneBody, Plain, Kept, Written, MsgOf
<1> QED
  BY <1>1, <1>2, <1>3, <1>4

\* Once all of the batch is written, the cursor follows it.
LEMMA ConsumeCursorIntake == ASSUME IntakeInv, ConsumeCursor PROVE IntakeInv'
<1> USE IntakeAssumption DEF IntakeInv, TypeOK, server, disk, worker, capture, noted, ends,
           ConsumeCursor
<1> DEFINE w == Min(owed)
<1>a. w \in owed /\ w \in Updates /\ \A v \in Updates : Plain(v) /\ v <= w => Kept(v)
  BY Consumed

<1>b. /\ mode = "up" /\ phase = "consume" /\ cursor' = Advanced(w) /\ phase' = "offset"
      /\ UNCHANGED <<server, records, offset, worker, ends, pending, owed, plan, noted>>
  OBVIOUS
<1>c. \A v \in Updates : Text(v) /\ v <= w => Kept(v)
  BY <1>a DEF Plain, Text
<1> HIDE DEF w, ConsumeCursor
<1>1. TypeOK'
  BY <1>a, <1>b, Advances
<1>2. Whole'
  BY <1>b DEF Whole, ServerIsBehind, SeenIsWhole, BatchIsWhole
<1>3. OnPass'
  BY <1>b DEF OnPass, PassIsOverBatch, LeftIsWritten, Plain, Kept, Written
<1>4. OnDisk'
  <2>1. \A v \in Updates : Kept(v) => Kept(v)'
    BY <1>b DEF Kept, Written
  <2>2. \A v \in Updates : Text(v) /\ v <= w => Kept(v)'
    BY <1>c, <2>1
  <2>3. CursorIsBehind'
    BY <1>a, <1>b, <2>1, <2>2, Behind
  <2> QED
    BY <1>b, <2>3 DEF OnDisk, PassedIsWritten, NamedIsKept, OneBody, Plain, Kept, Written, MsgOf
<1> QED
  BY <1>1, <1>2, <1>3, <1>4

\* The offset follows the cursor.
LEMMA ConsumeOffsetIntake == ASSUME IntakeInv, ConsumeOffset PROVE IntakeInv'
<1> USE IntakeAssumption DEF IntakeInv, TypeOK, server, disk, worker, capture, noted, ends,
           ConsumeOffset
<1> DEFINE w == Min(owed)
<1>a. w \in owed /\ w \in Updates /\ \A v \in Updates : Plain(v) /\ v <= w => Kept(v)
  BY Consumed

<1>b. /\ mode = "up" /\ phase = "offset" /\ offset' \in {offset, w} /\ offset' >= offset
      /\ owed' = owed \ {w} /\ phase' = IF owed = {w} THEN "idle" ELSE "consume"
      /\ UNCHANGED <<server, records, cursor, worker, ends, pending, plan, noted>>
  <2>1. Max({offset, w}) \in {offset, w} /\ Max({offset, w}) >= offset
    <3>1. offset \in Int /\ w \in Int
      BY <1>a DEF Updates
    <3> HIDE DEF w, TypeOK, IntakeInv, ConsumeOffset
    <3> QED
      BY <3>1, Greater
  <2> QED
    BY <2>1
<1> HIDE DEF w, ConsumeOffset
<1>1. TypeOK'
  BY <1>a, <1>b DEF Updates
<1>2. Whole'
  <2>1. offset \in Nat /\ offset' \in Nat /\ \A v \in Nat : v <= offset => v <= offset'
    BY <1>a, <1>b DEF Updates
  <2>2. ServerIsBehind'
    <3>1. forgotten' = forgotten /\ asked' = asked /\ forgotten \in Nat /\ asked \in Nat
      BY <1>b
    <3>2. forgotten <= offset /\ asked <= offset + 1
      BY DEF Whole, ServerIsBehind
    <3>3. offset \in Nat /\ offset' \in Nat /\ offset' >= offset
      BY <1>b, <2>1
    <3>4. forgotten <= offset' /\ asked <= offset' + 1
      <4> HIDE DEF TypeOK, IntakeInv, server, worker
      <4> QED
        BY <3>1, <3>2, <3>3, Further
    <3> QED
      BY <3>1, <3>4 DEF ServerIsBehind
  <2>3. SeenIsWhole'
    <3>1. \A u \in shown : u \in Nat
      BY DEF Updates
    <3> QED
      BY <1>b, <2>1, <3>1 DEF Whole, SeenIsWhole
  <2>4. BatchIsWhole'
    BY <1>b, <2>1 DEF Whole, BatchIsWhole
  <2> QED
    BY <2>2, <2>3, <2>4 DEF Whole
<1>3. OnPass'
  <2>1. pending = {}
    BY <1>b DEF OnPass, PassIsOverBatch
  <2> QED
    BY <1>a, <1>b, <2>1 DEF OnPass, PassIsOverBatch, LeftIsWritten, Plain, Kept, Written
<1>4. OnDisk'
  <2>1. PassedIsWritten'
    BY <1>a, <1>b DEF OnDisk, PassedIsWritten, Plain, Kept, Written
  <2> QED
    BY <1>b, <2>1 DEF OnDisk, CursorIsBehind, NamedIsKept, OneBody, Plain, Text, Kept, Written, MsgOf
<1> QED
  BY <1>1, <1>2, <1>3, <1>4

\* A kill takes what is not on disk.
LEMMA KillIntake == ASSUME IntakeInv, Kill PROVE IntakeInv'
<1> USE IntakeAssumption DEF IntakeInv, TypeOK, server, disk, worker, capture, noted, ends,
           Kill
<1>z. /\ mode' = "down" /\ poll' = "gate" /\ asked' = 0 /\ seen' = {} /\ batch' = {} /\ highest' = 0
      /\ fault' = FALSE /\ shown' = {} /\ phase' = "idle" /\ pending' = {} /\ owed' = {}
      /\ plan' \in [Updates -> Nat] /\ kills' \in 0..MaxKills
      /\ asked' \in 0..N+1 /\ highest' \in 0..N
  BY DEF Die, NoPlan

<1>a. UNCHANGED <<server, disk, noted, torn>>
  OBVIOUS
<1> HIDE DEF Kill
<1>1. TypeOK'
  BY <1>a, <1>z
<1>2. Whole'
  BY <1>a, <1>z DEF Whole, ServerIsBehind, SeenIsWhole, BatchIsWhole
<1>3. OnPass'
  BY <1>z DEF OnPass, PassIsOverBatch, LeftIsWritten
<1>4. OnDisk'
  BY <1>a DEF OnDisk, PassedIsWritten, CursorIsBehind, NamedIsKept, OneBody, Plain, Text, Kept,
     Written, MsgOf
<1> QED
  BY <1>1, <1>2, <1>3, <1>4

\* The write that throws leaves the cursor past the record it did not make.
LEMMA WriteThrowsIntake == ASSUME IntakeInv, WriteThrows PROVE IntakeInv'
<1> USE IntakeAssumption DEF IntakeInv, TypeOK, server, disk, worker, capture, noted, ends,
           WriteThrows
<1> DEFINE w == NextOf(pending)
<1>a. pending # {} /\ w \in pending /\ w \in batch /\ w \in Updates
  BY Nexts DEF OnPass, PassIsOverBatch

<1>z. /\ mode' = "down" /\ poll' = "gate" /\ asked' = 0 /\ seen' = {} /\ batch' = {} /\ highest' = 0
      /\ fault' = FALSE /\ shown' = {} /\ phase' = "idle" /\ pending' = {} /\ owed' = {}
      /\ plan' \in [Updates -> Nat] /\ kills' \in 0..MaxKills
      /\ asked' \in 0..N+1 /\ highest' \in 0..N
  BY DEF Die, NoPlan

<1>b. /\ phase = "record" /\ cursor' = Advanced(w) /\ torn' = torn \cup {w}
      /\ UNCHANGED <<server, records, offset, noted>>
  OBVIOUS
<1>c. \A v \in Updates : Text(v) /\ v <= w => Kept(v) \/ v = w
  <2> HIDE DEF WriteThrows
  <2> QED
    BY <1>b, Earlier
<1>d. \A v \in Updates : Kept(v) => Kept(v)'
  BY <1>b DEF Kept, Written
<1> HIDE DEF w, WriteThrows
<1>1. TypeOK'
  BY <1>a, <1>b, <1>z, Advances
<1>2. Whole'
  BY <1>b, <1>z DEF Whole, ServerIsBehind, SeenIsWhole, BatchIsWhole
<1>3. OnPass'
  BY <1>z DEF OnPass, PassIsOverBatch, LeftIsWritten
<1>4. OnDisk'
  <2>1. \A v \in Updates : Text(v) /\ v <= w => Kept(v)'
    BY <1>b, <1>c, <1>d DEF Kept
  <2>2. CursorIsBehind'
    BY <1>a, <1>b, <1>d, <2>1, Behind
  <2> QED
    BY <1>b, <1>d, <2>2 DEF OnDisk, PassedIsWritten, NamedIsKept, OneBody, Plain, MsgOf
<1> QED
  BY <1>1, <1>2, <1>3, <1>4

\* A start finds what is on disk.
LEMMA StartIntake == ASSUME IntakeInv, Start PROVE IntakeInv'
<1> USE IntakeAssumption DEF IntakeInv, TypeOK, server, disk, worker, capture, noted, ends,
           Start
<1>1. TypeOK'
  OBVIOUS
<1>2. Whole'
  BY DEF Whole, ServerIsBehind, SeenIsWhole, BatchIsWhole
<1>3. OnPass'
  BY DEF OnPass, PassIsOverBatch, LeftIsWritten, Plain, Kept, Written, NextOf, Parks
<1>4. OnDisk'
  BY DEF OnDisk, PassedIsWritten, CursorIsBehind, NamedIsKept, OneBody, Plain, Text, Kept,
     Written, MsgOf
<1> QED
  BY <1>1, <1>2, <1>3, <1>4

-----------------------------------------------------------------------------
(* Every step, and what follows for every behaviour.                       *)

\* An account begins with nothing on disk and no cursor.
LEMMA InitIntake == ASSUME Init PROVE IntakeInv
<1> USE IntakeAssumption DEF Init, NoPlan
<1>1. TypeOK
  <2>1. 0 \in 0..N /\ 0 \in 0..N+1 /\ 0 \in 0..MaxKills
    OBVIOUS
  <2>2. /\ cursor \in [Conversations -> [message: Nat, revision: Nat]]
        /\ plan \in [Updates -> Nat]
    OBVIOUS
  <2> QED
    BY <2>1, <2>2 DEF TypeOK
<1>2. Whole /\ OnPass
  BY DEF Whole, ServerIsBehind, SeenIsWhole, BatchIsWhole, OnPass, PassIsOverBatch, LeftIsWritten
<1>3. CursorIsBehind
  <2> SUFFICES ASSUME NEW u \in Updates, Text(u) PROVE ~(feed[u].pos <= 0)
    BY <1>1, Streams DEF CursorIsBehind, Update
  <2>1. feed[u].pos \in Nat /\ feed[u].pos # 0
    BY <1>1, Streams DEF Update, Text
  <2> QED
    BY <2>1
<1>4. OnDisk
  BY <1>3, FS_EmptySet DEF OnDisk, PassedIsWritten, NamedIsKept, OneBody, Updates
<1> QED
  BY <1>1, <1>2, <1>4 DEF IntakeInv

\* Every step keeps the invariant.
LEMMA StepIntake == ASSUME IntakeInv, [Next]_vars PROVE IntakeInv'
<1>1. CASE Arrive \/ LongPoll \/ HearFault
  BY <1>1, ArriveIntake, AskIntake, AnswerIntake, AskAgainIntake, HandOverIntake, CallFailsIntake,
     RetryIntake, HearFaultIntake DEF LongPoll, Answers
<1>2. CASE Capture
  BY <1>2, TakeBatchIntake, WriteRecordIntake, RefuseIntake, CaptureCursorIntake,
     ConsumeCursorIntake, ConsumeOffsetIntake DEF Capture
<1>3. CASE Ends
  BY <1>3, KillIntake, WriteThrowsIntake, StartIntake DEF Ends
<1>4. CASE UNCHANGED vars
  BY <1>4 DEF IntakeInv, TypeOK, Whole, ServerIsBehind, SeenIsWhole, BatchIsWhole, OnPass,
     PassIsOverBatch, LeftIsWritten, OnDisk, PassedIsWritten, CursorIsBehind, NamedIsKept, OneBody,
     Plain, Text, Kept, Written, MsgOf, NextOf, Parks, vars, server, disk, worker,
     capture, noted, ends
<1> QED
  BY <1>1, <1>2, <1>3, <1>4 DEF Next

\* The invariant of the intake holds in every reachable state, its types among it.
THEOREM IntakeInvariant == Spec => []IntakeInv
<1>1. Init => IntakeInv
  BY InitIntake
<1>2. IntakeInv /\ [Next]_vars => IntakeInv'
  BY StepIntake
<1> QED
  BY <1>1, <1>2, PTL DEF Spec

\* live.ts: a chat's cursor, which keeps a message from being read again, is past no
\* readable message that is not on disk, but for one whose write threw.
THEOREM CursorStaysBehind == Spec => []CursorBehindRecords
<1>1. IntakeInv => CursorBehindRecords
  <2> SUFFICES ASSUME IntakeInv PROVE CursorBehindRecords
    OBVIOUS
  <2>1. \A u \in 1..sent : u \in Updates
    BY IntakeAssumption DEF IntakeInv, TypeOK, Updates
  <2> QED
    BY <2>1 DEF IntakeInv, OnDisk, CursorIsBehind, CursorBehindRecords, Text, Kept
<1> QED
  BY <1>1, IntakeInvariant, PTL

\* An update nobody holds any more that was a message, or of a type without a reading.
PassedPlainIsKept == \A u \in Updates : Gone(u) /\ Plain(u) => Kept(u)

\* live.ts: the offset is advanced past a message only when it is on disk, but for one
\* whose write threw, and the server deletes nothing else.
THEOREM PassedStaysKept == Spec => []PassedPlainIsKept
<1>1. IntakeInv => PassedPlainIsKept
  <2> SUFFICES ASSUME IntakeInv, NEW u \in Updates, Gone(u), Plain(u) PROVE Kept(u)
    BY DEF PassedPlainIsKept
  <2>1. u <= offset
    BY IntakeAssumption DEF Gone, IntakeInv, TypeOK, Whole, ServerIsBehind, Updates
  <2> QED
    BY <2>1 DEF IntakeInv, OnDisk, PassedIsWritten
<1> QED
  BY <1>1, IntakeInvariant, PTL

\* Only a hand-over and an end change the batch.
LEMMA BatchStep ==
  ASSUME IntakeInv, [Next]_vars, mode' = "up", batch' # batch
  PROVE  {u \in shown : u > offset} \subseteq batch' /\ batch' \cap batch = {}
<1>1. HandOver
  BY DEF Next, LongPoll, Capture, Ends, Arrive, Ask, Answers, Answer, AskAgain, CallFails, Retry,
     HearFault, TakeBatch, WriteRecord, Refuse, Wrote, CaptureCursor, ConsumeCursor, ConsumeOffset,
     Kill, WriteThrows, Die, Start, vars, server, disk, worker,
     capture, noted, ends
<1>2. batch' = {u \in seen : u >= asked} /\ poll = "answered"
  BY <1>1 DEF HandOver, Retained, Works
<1>3. \A u \in Updates : u \in Nat
  BY DEF Updates
<1>4. asked \in Nat /\ offset \in Nat /\ shown \subseteq Updates /\ batch \subseteq Updates
  BY IntakeAssumption DEF IntakeInv, TypeOK
<1>5. ASSUME NEW u \in shown, u > offset PROVE u \in batch'
  <2>1. u \in seen /\ asked <= offset + 1
    BY <1>3, <1>4, <1>5 DEF IntakeInv, Whole, SeenIsWhole, ServerIsBehind
  <2> QED
    BY <1>2, <1>3, <1>4, <1>5, <2>1
<1>6. \A u \in batch : u \notin batch'
  BY <1>2, <1>3, <1>4 DEF IntakeInv, Whole, BatchIsWhole
<1> QED
  BY <1>5, <1>6

\* live.ts: a batch is everything this process was shown and has not passed, and nothing
\* of it was handed over before.
THEOREM HandedWhole == Spec => HandedOnceWhole
<1>1. IntakeInv /\ [Next]_vars =>
        [mode' = "up" /\ batch' # batch =>
           {u \in shown : u > offset} \subseteq batch' /\ batch' \cap batch = {}]_vars
  BY BatchStep
<1> QED
  BY <1>1, IntakeInvariant, PTL DEF Spec, HandedOnceWhole

\* store.ts: no step takes a file away, and none writes over another's.
THEOREM FirstBodyStays == Spec => FilesKeepTheirFirstBody
<1>1. ASSUME IntakeInv, [Next]_vars PROVE records \subseteq records'
  BY <1>1 DEF Next, LongPoll, Capture, Ends, Arrive, Ask, Answers, Answer, AskAgain, HandOver,
     CallFails, Retry, HearFault, TakeBatch, WriteRecord, Write, Refuse, CaptureCursor, ConsumeCursor,
     ConsumeOffset, Kill, WriteThrows, Start, vars, server, disk
<1>2. IntakeInv /\ IntakeInv' /\ [Next]_vars =>
        [/\ records \subseteq records'
         /\ \A r, s \in records' : r.conv = s.conv /\ r.msg = s.msg /\ r.rev = s.rev => r = s]_vars
  BY <1>1 DEF IntakeInv, OnDisk, OneBody
<1> QED
  BY <1>2, IntakeInvariant, PTL DEF Spec, FilesKeepTheirFirstBody

-----------------------------------------------------------------------------
(* The imports of a chat's past, module Imports: the inductive invariant.  *)

(* A message's record, or none; what the runtime has read; a row's record.  *)
Recorded == [source : {"whatsapp", "import:carbon-capture", "import:ledger-sqlite"},
             disposition : {"captured", "parked"}, release : {"none", "open", "done"},
             files : SUBSET Ids]
Found == Recorded \cup {Past!Nothing}
Reading == [op : {"capture", "release", "complete", "park"}, id : Ids, seen : Found] \cup {Past!Idle}
Making == [at : {"none", "batch", "payload", "row", "raw", "look", "write", "disposition"},
           kind : {"none", "export", "ledger"}, todo : Seq(Ids), batch : Seq(Ids),
           entries : Seq([id : Ids, chat : Past!Chats]), index : [Ids -> Past!Chats \cup {Past!Unindexed}],
           known : BOOLEAN, look : Found]

PastShapes ==
    /\ held \in [Past!Keys -> Found] /\ raws \in [Past!Keys -> Nat] /\ paired \in BOOLEAN
    /\ rowsOf \subseteq Ids /\ corrected \subseteq Corrections
    /\ import \in Making /\ runtime \in Reading
    /\ heard \subseteq Ids /\ woken \in [Ids -> Nat]
    /\ sidecars \in [Past!Chats -> SUBSET Corrections] /\ unlinked \subseteq Corrections
    /\ runs \in 0..MaxRuns /\ mishaps \in 0..MaxMishaps

\* Where a run stands, and what it still has in its hands there.
StageHolds ==
    /\ import.at = "none" => import = Past!AtRest
    /\ import.at \in {"none", "batch"} => import.batch = <<>> /\ import.entries = <<>>
    /\ import.at = "payload" => import.batch # <<>>
    /\ import.at \in {"row", "raw", "look", "write", "disposition"} =>
           import.batch = <<>> /\ import.entries # <<>>

\* A run takes every row once.
Ahead(i) == \/ \E n \in DOMAIN import.todo : import.todo[n] = i
            \/ \E n \in DOMAIN import.batch : import.batch[n] = i
            \/ \E n \in DOMAIN import.entries :
                   import.entries[n].id = i /\ (n = 1 => import.at \in {"payload", "row", "raw"})

RowsOnce ==
    /\ \A m, n \in DOMAIN import.todo : import.todo[m] = import.todo[n] => m = n
    /\ \A m, n \in DOMAIN import.batch : import.batch[m] = import.batch[n] => m = n
    /\ \A m, n \in DOMAIN import.entries : import.entries[m].id = import.entries[n].id => m = n
    /\ \A m \in DOMAIN import.todo : \A n \in DOMAIN import.batch : import.todo[m] # import.batch[n]
    /\ \A m \in DOMAIN import.todo : \A n \in DOMAIN import.entries :
           import.todo[m] # import.entries[n].id
    /\ \A m \in DOMAIN import.batch : \A n \in DOMAIN import.entries :
           import.batch[m] # import.entries[n].id

RawOnceARun == \A c \in Past!Chats : \A i \in Ids :
    raws[<<c, i>>] <= runs /\ (Ahead(i) => raws[<<c, i>>] < runs)

\* The record of a message that was heard is the live one, released once at most.
PresentIsLive == \A i \in Ids : i \notin crossed =>
    /\ Past!Live(held[<<"lid", i>>]) <=> i \in heard \ claimed
    /\ \/ woken[i] = 0
       \/ woken[i] = 1 /\ Past!Live(held[<<"lid", i>>]) /\ held[<<"lid", i>>].release # "none"

RuntimeHasRead ==
    /\ claimed \subseteq heard
    /\ runtime.op = "capture" => runtime.id \notin heard
    /\ runtime.op \in {"release", "park"} => Past!Releasable(runtime.seen)
    /\ runtime.op = "complete" => Past!Live(runtime.seen) /\ runtime.seen.release = "open"

\* A record is never taken away.
FoundIsThere ==
    \/ import.at = "write" /\ import.look # Past!Nothing
    \/ import.at = "disposition"
    => held[Past!Place] # Past!Nothing

\* Where the index says that a message is, it is, or is about to be.
IndexIsHeld ==
    /\ \A n \in DOMAIN import.todo : import.todo[n] \in rowsOf
    /\ \A i \in Ids : import.index[i] # Past!Unindexed =>
           /\ i \in rowsOf
           /\ import.index[i] = "lid" => paired
           /\ \/ import.index[i] \in slipped
              \/ \E n \in DOMAIN import.batch : import.batch[n] = i
              \/ \E n \in DOMAIN import.entries :
                     import.entries[n] = [id |-> i, chat |-> import.index[i]]
              \/ held[<<import.index[i], i>>] # Past!Nothing

\* What is in a conversation's file will be placed again by whatever run is under way.
Placeable(j) ==
    import.kind = "ledger" =>
        (\E n \in DOMAIN import.todo : import.todo[n] = j) \/ import.index[j] # Past!Unindexed
SidecarsAreSourced ==
    /\ \A c \in Past!Chats : \A x \in sidecars[c] :
           x \in corrected /\ \E j \in Names[x] : j \in rowsOf /\ Placeable(j)
    /\ sidecars["lid"] # {} => paired /\ \A i \in Ids : import.index[i] # "phone"

PastInv ==
    /\ PastShapes /\ StageHolds /\ RowsOnce /\ RawOnceARun /\ PresentIsLive /\ RuntimeHasRead
    /\ FoundIsThere /\ IndexIsHeld /\ SidecarsAreSourced /\ Past!BesideItsMessage

PastConstants ==
    /\ IsFiniteSet(Ids) /\ MaxRuns \in Nat /\ MaxMishaps \in Nat /\ Batch \in Nat \ {0}
    /\ \A x \in Corrections : Names[x] \subseteq Ids

\* No record is taken away in the step.
Stays == \A c \in Past!Chats : \A i \in Ids :
    held[<<c, i>>] # Past!Nothing => held'[<<c, i>>] # Past!Nothing

\* The rows as they come out of the sources: each of them, once.
LEMMA RowsOfSources ==
  ASSUME PastConstants, rowsOf \subseteq Ids
  PROVE  /\ Past!SetToSeq(rowsOf) \in Seq(rowsOf)
         /\ \A m, n \in DOMAIN Past!SetToSeq(rowsOf) :
                Past!SetToSeq(rowsOf)[m] = Past!SetToSeq(rowsOf)[n] => m = n
         /\ \A i \in rowsOf : \E n \in DOMAIN Past!SetToSeq(rowsOf) : Past!SetToSeq(rowsOf)[n] = i
<1>1. IsFiniteSet(rowsOf)
  BY FS_Subset DEF PastConstants
<1>2. PICK n \in Nat : ExistsBijection(1 .. n, rowsOf)
  BY <1>1, FS_NatBijection
<1>3. Cardinality(rowsOf) = n
  BY <1>1, <1>2, FS_CountingElements
<1>4. PICK g \in Bijection(1 .. n, rowsOf) : TRUE
  BY <1>2 DEF ExistsBijection
<1>5. g \in [1 .. n -> rowsOf] /\ \A a, b \in 1 .. n : g[a] = g[b] => a = b
  BY <1>4 DEF Bijection, Injection, IsInjective
<1>6. Past!SetToSeq(rowsOf) = CHOOSE f \in [1 .. n -> rowsOf] : \A a, b \in DOMAIN f : f[a] = f[b] => a = b
  BY <1>3 DEF Past!SetToSeq, Past!Cardinality, Cardinality, Past!IsInjective
<1>7. /\ Past!SetToSeq(rowsOf) \in [1 .. n -> rowsOf]
      /\ \A a, b \in 1 .. n : Past!SetToSeq(rowsOf)[a] = Past!SetToSeq(rowsOf)[b] => a = b
  BY <1>5, <1>6
<1>8. Past!SetToSeq(rowsOf) \in Injection(1 .. n, rowsOf)
  BY <1>7 DEF Injection, IsInjective
<1>9. Past!SetToSeq(rowsOf) \in Surjection(1 .. n, rowsOf)
  BY <1>1, <1>3, <1>8, FS_Injection, FS_Interval, FS_CardinalityType
<1> QED
  BY <1>7, <1>9 DEF Surjection

\* A row is taken from the front of a sequence; the rest keeps its order.
LEMMA FromFront ==
  ASSUME NEW S, NEW s \in Seq(S), s # <<>>
  PROVE  /\ Head(s) \in S /\ 1 \in DOMAIN s /\ Head(s) = s[1]
         /\ Tail(s) \in Seq(S) /\ (Len(s) = 1 <=> Tail(s) = <<>>)
         /\ \A n \in DOMAIN Tail(s) : n + 1 \in DOMAIN s /\ n + 1 # 1 /\ Tail(s)[n] = s[n + 1]
         /\ \A n \in DOMAIN s : n # 1 => n - 1 \in DOMAIN Tail(s) /\ Tail(s)[n - 1] = s[n]
         /\ \A m, n \in DOMAIN Tail(s) : m + 1 = n + 1 => m = n
<1>1. Len(s) \in Nat /\ Len(s) > 0 /\ DOMAIN s = 1 .. Len(s)
  OBVIOUS
<1>2. Tail(s) \in Seq(S) /\ Len(Tail(s)) = Len(s) - 1 /\ DOMAIN Tail(s) = 1 .. (Len(s) - 1)
  BY <1>1
<1>3. \A n \in 1 .. (Len(s) - 1) : Tail(s)[n] = s[n + 1]
  BY <1>1
<1>4. Head(s) = s[1] /\ s[1] \in S
  BY <1>1
<1>5. \A n \in DOMAIN Tail(s) : n + 1 \in DOMAIN s /\ n + 1 # 1 /\ Tail(s)[n] = s[n + 1]
  BY <1>1, <1>2, <1>3
<1>6. ASSUME NEW n \in DOMAIN s, n # 1
      PROVE  n - 1 \in DOMAIN Tail(s) /\ Tail(s)[n - 1] = s[n]
  <2>1. n - 1 \in 1 .. (Len(s) - 1) /\ (n - 1) + 1 = n
    BY <1>1, <1>6
  <2> QED
    BY <2>1, <1>2, <1>3
<1>7. \A m, n \in DOMAIN Tail(s) : m + 1 = n + 1 => m = n
  BY <1>1, <1>2
<1>8. Len(s) = 1 <=> Tail(s) = <<>>
  BY <1>1, <1>2
<1> QED
  BY <1>1, <1>2, <1>4, <1>5, <1>6, <1>7, <1>8

\* A batch is the front of the rows to do, and the rest is left to do.
LEMMA InTwo ==
  ASSUME NEW S, NEW s \in Seq(S), NEW n \in Nat, 1 <= n, n <= Len(s)
  PROVE  /\ SubSeq(s, 1, n) \in Seq(S) /\ SubSeq(s, 1, n) # <<>> /\ SubSeq(s, n + 1, Len(s)) \in Seq(S)
         /\ DOMAIN SubSeq(s, 1, n) = 1 .. n /\ DOMAIN SubSeq(s, n + 1, Len(s)) = 1 .. (Len(s) - n)
         /\ \A m \in 1 .. n : SubSeq(s, 1, n)[m] = s[m] /\ m \in DOMAIN s
         /\ \A m \in 1 .. (Len(s) - n) : SubSeq(s, n + 1, Len(s))[m] = s[n + m] /\ n + m \in DOMAIN s
<1>1. Len(s) \in Nat /\ DOMAIN s = 1 .. Len(s)
  OBVIOUS
<1>2. SubSeq(s, 1, n) \in Seq(S) /\ Len(SubSeq(s, 1, n)) = n /\ DOMAIN SubSeq(s, 1, n) = 1 .. n
  BY <1>1
<1>3. /\ SubSeq(s, n + 1, Len(s)) \in Seq(S)
      /\ DOMAIN SubSeq(s, n + 1, Len(s)) = 1 .. (Len(s) - n)
  BY <1>1
<1>4. \A m \in 1 .. n : SubSeq(s, 1, n)[m] = s[m] /\ m \in DOMAIN s
  BY <1>1
<1>5. \A m \in 1 .. (Len(s) - n) : SubSeq(s, n + 1, Len(s))[m] = s[n + m] /\ n + m \in DOMAIN s
  BY <1>1
<1> QED
  BY <1>2, <1>3, <1>4, <1>5

\* What a step that leaves the run alone leaves true of it.
LEMMA RunStands ==
  ASSUME PastInv, UNCHANGED <<import, raws, runs>>, Stays
  PROVE  StageHolds' /\ RowsOnce' /\ RawOnceARun' /\ FoundIsThere'
<1>1. StageHolds' /\ RowsOnce' /\ RawOnceARun'
  BY DEF PastInv, StageHolds, RowsOnce, RawOnceARun, Ahead
<1>2. CASE ~((import.at = "write" /\ import.look # Past!Nothing) \/ import.at = "disposition")
  BY <1>1, <1>2 DEF FoundIsThere
<1>3. CASE (import.at = "write" /\ import.look # Past!Nothing) \/ import.at = "disposition"
  <2>1. held[Past!Place] # Past!Nothing
    BY <1>3 DEF PastInv, FoundIsThere
  <2>2. import.entries \in Seq([id : Ids, chat : Past!Chats]) /\ import.entries # <<>>
    BY <1>3 DEF PastInv, PastShapes, Making, StageHolds
  <2>3. Head(import.entries) \in [id : Ids, chat : Past!Chats]
    BY <2>2, FromFront
  <2>4. held'[Past!Place] # Past!Nothing
    BY <2>1, <2>3 DEF Past!Place, Past!Row, Stays
  <2> QED
    BY <1>1, <2>4 DEF FoundIsThere, Past!Place, Past!Row
<1> QED
  BY <1>2, <1>3

\* What a step that leaves the present alone leaves true of it.
LEMMA PresentStands ==
  ASSUME PastInv, UNCHANGED <<held, woken, heard, claimed, runtime>>, crossed \subseteq crossed'
  PROVE  PresentIsLive' /\ RuntimeHasRead'
BY DEF PastInv, PresentIsLive, RuntimeHasRead

\* What a step that leaves the run and the sidecars alone leaves true of them.
LEMMA IndexStands ==
  ASSUME PastInv, UNCHANGED import, rowsOf \subseteq rowsOf', paired => paired', Stays,
         slipped \subseteq slipped'
  PROVE  IndexIsHeld'
<1>1. \A i \in Ids : import.index[i] \in Past!Chats \cup {Past!Unindexed}
  BY DEF PastInv, PastShapes, Making
<1> QED
  BY <1>1 DEF PastInv, IndexIsHeld, Stays, Past!Chats, Past!Unindexed

LEMMA SidecarsStand ==
  ASSUME PastInv, UNCHANGED <<import, sidecars>>, rowsOf \subseteq rowsOf', corrected \subseteq corrected',
         paired => paired'
  PROVE  SidecarsAreSourced'
BY DEF PastInv, SidecarsAreSourced, Placeable

LEMMA BesideStands ==
  ASSUME PastConstants, PastInv, UNCHANGED sidecars, Stays, slipped \subseteq slipped'
  PROVE  Past!BesideItsMessage'
<1>1. \A c \in Past!Chats : \A x \in sidecars[c] : Names[x] \subseteq Ids
  BY DEF PastConstants, PastInv, PastShapes
<1> QED
  BY <1>1 DEF PastInv, Past!BesideItsMessage, Stays

(* The client's own system, and the runtime.                               *)

LEMMA SourcesStep ==
  ASSUME PastConstants, PastInv, (\E i \in Ids : Past!RowAppears(i))
                                 \/ (\E x \in Corrections : Past!CorrectionAppears(x)) \/ Past!LearnPair
  PROVE  PastInv'
<1>1. /\ UNCHANGED <<held, raws, import, runtime, heard, woken, sidecars, unlinked, runs, mishaps,
                    claimed, crossed, slipped>>
      /\ rowsOf \subseteq rowsOf' /\ corrected \subseteq corrected' /\ (paired => paired')
      /\ rowsOf' \subseteq rowsOf \cup Ids /\ corrected' \subseteq corrected \cup Corrections
      /\ paired' \in {paired, TRUE}
  <2>1. CASE \E i \in Ids : Past!RowAppears(i)
    BY <2>1 DEF Past!RowAppears, Past!ghosts
  <2>2. CASE \E x \in Corrections : Past!CorrectionAppears(x)
    BY <2>2 DEF Past!CorrectionAppears, Past!ghosts
  <2>3. CASE Past!LearnPair
    BY <2>3 DEF Past!LearnPair, Past!ghosts
  <2> QED
    BY <2>1, <2>2, <2>3
<1>2. PastShapes'
  BY <1>1 DEF PastInv, PastShapes
<1>3. Stays
  BY <1>1 DEF Stays
<1> QED
  BY <1>1, <1>2, <1>3, RunStands, PresentStands, IndexStands, SidecarsStand, BesideStands DEF
     PastInv

LEMMA RuntimeReadsStep ==
  ASSUME PastConstants, PastInv, NEW op \in {"capture", "release", "complete", "park"},
         NEW i \in Ids, Past!RuntimeReads(op, i)
  PROVE  PastInv'
<1>1. /\ UNCHANGED <<held, raws, paired, rowsOf, corrected, import, heard, woken, sidecars, unlinked,
                    runs, mishaps, claimed, crossed, slipped>>
      /\ runtime' = [op |-> op, id |-> i, seen |-> held[<<"lid", i>>]]
  BY DEF Past!RuntimeReads, Past!ghosts
<1>2. held[<<"lid", i>>] \in Found
  BY DEF PastInv, PastShapes, Past!Keys, Past!Chats
<1>3. PastShapes'
  <2>1. runtime' \in Reading
    BY <1>1, <1>2 DEF Reading
  <2> QED
    BY <1>1, <2>1 DEF PastInv, PastShapes
<1>4. /\ op = "capture" => i \notin heard
      /\ op \in {"release", "park"} => Past!Releasable(held[<<"lid", i>>])
      /\ op = "complete" => Past!Live(held[<<"lid", i>>]) /\ held[<<"lid", i>>].release = "open"
  BY DEF Past!RuntimeReads
<1>5. RuntimeHasRead'
  BY <1>1, <1>4 DEF PastInv, RuntimeHasRead
<1>6. PresentIsLive' /\ Stays
  BY <1>1 DEF PastInv, PresentIsLive, Stays
<1> QED
  BY <1>1, <1>3, <1>5, <1>6, RunStands, IndexStands, SidecarsStand, BesideStands DEF PastInv

\* What the runtime writes in the place of what it has read.
LEMMA RuntimeWritesRecord ==
  ASSUME PastInv, Past!RuntimeWrites
  PROVE  /\ runtime.id \in Ids /\ runtime.seen \in Found
         /\ runtime.op \in {"capture", "release", "complete", "park"}
         /\ \E r \in Recorded :
               /\ held' = held \/ held' = [held EXCEPT ![<<"lid", runtime.id>>] = r]
               /\ runtime.op = "capture" /\ runtime.seen = Past!Nothing => r = Past!Written("whatsapp", {})
               /\ runtime.op = "release" => r = [runtime.seen EXCEPT !.release = "open"]
               /\ runtime.op = "complete" => r = [runtime.seen EXCEPT !.release = "done"]
               /\ runtime.op = "park" => r = [runtime.seen EXCEPT !.disposition = "parked"]
               /\ runtime.op = "capture" /\ runtime.seen # Past!Nothing => held' = held
               /\ ~(runtime.op = "capture" /\ runtime.seen # Past!Nothing) =>
                      held' = [held EXCEPT ![<<"lid", runtime.id>>] = r]
<1>1. runtime \in [op : {"capture", "release", "complete", "park"}, id : Ids, seen : Found]
  BY DEF PastInv, PastShapes, Reading, Past!RuntimeWrites
<1>2. runtime.id \in Ids /\ runtime.seen \in Found
      /\ runtime.op \in {"capture", "release", "complete", "park"}
  BY <1>1
<1>3. CASE runtime.op = "capture"
  <2>1. Past!Written("whatsapp", {}) \in Recorded
    BY DEF Past!Written, Recorded
  <2>2. IF runtime.seen = Past!Nothing THEN held' = [held EXCEPT ![<<"lid", runtime.id>>] = Past!Written("whatsapp", {})]
                                  ELSE held' = held
    BY <1>3 DEF Past!RuntimeWrites, Past!Captures
  <2> QED
    BY <1>2, <1>3, <2>1, <2>2
<1>4. CASE runtime.op # "capture"
  <2>1. runtime.seen \in Recorded
    BY <1>2, <1>4 DEF PastInv, RuntimeHasRead, Past!Releasable, Past!Live, Found
  <2>2. /\ [runtime.seen EXCEPT !.release = "open"] \in Recorded
        /\ [runtime.seen EXCEPT !.release = "done"] \in Recorded
        /\ [runtime.seen EXCEPT !.disposition = "parked"] \in Recorded
    BY <2>1 DEF Recorded
  <2>3. held' = [held EXCEPT ![<<"lid", runtime.id>>] =
                    CASE runtime.op = "release" -> [runtime.seen EXCEPT !.release = "open"]
                      [] runtime.op = "complete" -> [runtime.seen EXCEPT !.release = "done"]
                      [] runtime.op = "park" -> [runtime.seen EXCEPT !.disposition = "parked"]]
    BY <1>4 DEF Past!RuntimeWrites, Past!Turns
  <2>4. CASE runtime.op = "release"
    BY <1>2, <2>2, <2>3, <2>4
  <2>5. CASE runtime.op = "complete"
    BY <1>2, <2>2, <2>3, <2>5
  <2>6. CASE runtime.op = "park"
    BY <1>2, <2>2, <2>3, <2>6
  <2> QED
    BY <1>2, <1>4, <2>4, <2>5, <2>6
<1> QED
  BY <1>3, <1>4

LEMMA RuntimeWritesPresent ==
  ASSUME PastInv, Past!RuntimeWrites
  PROVE  PresentIsLive' /\ RuntimeHasRead'
<1> DEFINE i == runtime.id
           was == held[<<"lid", i>>]
           is == held'[<<"lid", i>>]
<1>1. i \in Ids /\ runtime' = Past!Idle
      /\ runtime.op \in {"capture", "release", "complete", "park"}
  BY RuntimeWritesRecord DEF Past!RuntimeWrites
<1>2. PICK r \in Recorded :
               /\ held' = held \/ held' = [held EXCEPT ![<<"lid", i>>] = r]
               /\ runtime.op = "capture" /\ runtime.seen = Past!Nothing => r = Past!Written("whatsapp", {})
               /\ runtime.op = "release" => r = [runtime.seen EXCEPT !.release = "open"]
               /\ runtime.op = "complete" => r = [runtime.seen EXCEPT !.release = "done"]
               /\ runtime.op = "park" => r = [runtime.seen EXCEPT !.disposition = "parked"]
               /\ runtime.op = "capture" /\ runtime.seen # Past!Nothing => held' = held
               /\ ~(runtime.op = "capture" /\ runtime.seen # Past!Nothing) =>
                      held' = [held EXCEPT ![<<"lid", i>>] = r]
  BY RuntimeWritesRecord
<1>3. held \in [Past!Keys -> Found] /\ <<"lid", i>> \in Past!Keys
  BY <1>1 DEF PastInv, PastShapes, Past!Keys, Past!Chats
<1>4. \A j \in Ids : j # i => held'[<<"lid", j>>] = held[<<"lid", j>>]
  <2>1. ASSUME NEW j \in Ids, j # i
        PROVE  held'[<<"lid", j>>] = held[<<"lid", j>>]
    <3>1. <<"lid", j>> # <<"lid", i>> /\ <<"lid", j>> \in Past!Keys
      BY <1>3, <2>1 DEF Past!Keys, Past!Chats
    <3>2. CASE held' = held
      BY <3>2
    <3>3. CASE held' = [held EXCEPT ![<<"lid", i>>] = r]
      BY <1>3, <3>1, <3>3
    <3> QED
      BY <1>2, <3>2, <3>3
  <2> QED
    BY <2>1
<1>5. /\ crossed' = IF was = runtime.seen THEN crossed ELSE crossed \cup {i}
      /\ heard' = IF runtime.op = "capture" THEN heard \cup {i} ELSE heard
      /\ claimed' = IF runtime.op = "capture" /\ runtime.seen # Past!Nothing THEN claimed \cup {i} ELSE claimed
      /\ woken' = IF runtime.op = "release" THEN [woken EXCEPT ![i] = @ + 1] ELSE woken
  BY <1>1 DEF Past!RuntimeWrites, Past!Captures, Past!Turns
<1>6. claimed \subseteq heard /\ (runtime.op = "capture" => i \notin heard)
      /\ (runtime.op \in {"release", "park"} => Past!Releasable(runtime.seen))
      /\ (runtime.op = "complete" => Past!Live(runtime.seen) /\ runtime.seen.release = "open")
  BY DEF PastInv, RuntimeHasRead
<1>7. woken \in [Ids -> Nat]
  BY DEF PastInv, PastShapes
<1>8. ASSUME i \notin crossed'
      PROVE  /\ Past!Live(is) <=> i \in heard' \ claimed'
             /\ woken'[i] = 0 \/ (woken'[i] = 1 /\ Past!Live(is) /\ is.release # "none")
  <2>1. was = runtime.seen /\ i \notin crossed
    BY <1>5, <1>8
  <2>2. /\ Past!Live(was) <=> i \in heard \ claimed
        /\ woken[i] = 0 \/ (woken[i] = 1 /\ Past!Live(was) /\ was.release # "none")
    BY <1>1, <2>1 DEF PastInv, PresentIsLive
  <2>3. CASE runtime.op = "capture" /\ runtime.seen = Past!Nothing
    <3>1. is = Past!Written("whatsapp", {})
      BY <1>2, <1>3, <2>3
    <3>2. Past!Live(is) /\ is.release = "none"
      BY <3>1 DEF Past!Live, Past!Written, Past!Nothing
    <3>3. i \in heard' \ claimed'
      BY <1>5, <1>6, <2>3
    <3>4. ~Past!Live(was)
      BY <2>1, <2>3 DEF Past!Live
    <3> QED
      BY <1>5, <2>2, <2>3, <3>2, <3>3, <3>4
  <2>4. CASE runtime.op = "capture" /\ runtime.seen # Past!Nothing
    <3>1. is = was /\ ~Past!Live(was)
      BY <1>2, <1>6, <2>2, <2>4
    <3> QED
      BY <1>5, <2>2, <2>4, <3>1
  <2>5. CASE runtime.op = "release"
    <3>1. is = [was EXCEPT !.release = "open"] /\ Past!Live(was) /\ was.release = "none"
      BY <1>2, <1>3, <1>6, <2>1, <2>5 DEF Past!Releasable
    <3>2. was \in Recorded
      BY <1>3, <3>1 DEF Past!Live, Found
    <3>3. Past!Live(is) /\ is.release = "open"
      BY <3>1, <3>2 DEF Past!Live, Recorded, Past!Nothing
    <3>4. woken[i] = 0 /\ woken'[i] = woken[i] + 1
      BY <1>1, <1>5, <1>7, <2>2, <2>5, <3>1
    <3> QED
      BY <1>5, <2>2, <2>5, <3>1, <3>3, <3>4
  <2>6. CASE runtime.op = "complete"
    <3>1. is = [was EXCEPT !.release = "done"] /\ Past!Live(was)
      BY <1>2, <1>3, <1>6, <2>1, <2>6
    <3>2. was \in Recorded
      BY <1>3, <3>1 DEF Past!Live, Found
    <3>3. Past!Live(is) /\ is.release = "done"
      BY <3>1, <3>2 DEF Past!Live, Recorded, Past!Nothing
    <3> QED
      BY <1>5, <2>2, <2>6, <3>1, <3>3
  <2>7. CASE runtime.op = "park"
    <3>1. is = [was EXCEPT !.disposition = "parked"] /\ Past!Live(was) /\ was.release = "none"
      BY <1>2, <1>3, <1>6, <2>1, <2>7 DEF Past!Releasable
    <3>2. was \in Recorded
      BY <1>3, <3>1 DEF Past!Live, Found
    <3>3. Past!Live(is) /\ is.release = "none"
      BY <3>1, <3>2 DEF Past!Live, Recorded, Past!Nothing
    <3> QED
      BY <1>5, <2>2, <2>7, <3>1, <3>3
  <2> QED
    BY <1>1, <2>3, <2>4, <2>5, <2>6, <2>7
<1>9. ASSUME NEW j \in Ids, j # i, j \notin crossed'
      PROVE  /\ Past!Live(held'[<<"lid", j>>]) <=> j \in heard' \ claimed'
             /\ woken'[j] = 0 \/ (woken'[j] = 1 /\ Past!Live(held'[<<"lid", j>>]) /\ held'[<<"lid", j>>].release # "none")
  <2>1. j \notin crossed /\ held'[<<"lid", j>>] = held[<<"lid", j>>]
    BY <1>4, <1>5, <1>9
  <2>2. (j \in heard' <=> j \in heard) /\ (j \in claimed' <=> j \in claimed)
    BY <1>5, <1>9
  <2>3. woken'[j] = woken[j]
    BY <1>5, <1>7, <1>9
  <2> QED
    BY <2>1, <2>2, <2>3 DEF PastInv, PresentIsLive
<1>10. PresentIsLive'
  BY <1>1, <1>8, <1>9 DEF PresentIsLive
<1>11. RuntimeHasRead'
  BY <1>1, <1>5, <1>6 DEF RuntimeHasRead, Past!Idle
<1> QED
  BY <1>10, <1>11

LEMMA RuntimeWritesStep ==
  ASSUME PastConstants, PastInv, Past!RuntimeWrites
  PROVE  PastInv'
<1> DEFINE i == runtime.id
<1>1. i \in Ids
  BY RuntimeWritesRecord
<1>2. PICK r \in Recorded : held' = held \/ held' = [held EXCEPT ![<<"lid", i>>] = r]
  BY RuntimeWritesRecord
<1>3. held \in [Past!Keys -> Found] /\ <<"lid", i>> \in Past!Keys
  BY <1>1 DEF PastInv, PastShapes, Past!Keys, Past!Chats
<1>4. r # Past!Nothing
  BY DEF Recorded, Past!Nothing
<1>5. Stays /\ held' \in [Past!Keys -> Found]
  BY <1>2, <1>3, <1>4 DEF Stays, Found, Past!Keys
<1>6. /\ UNCHANGED <<raws, paired, rowsOf, corrected, import, sidecars, unlinked, runs, mishaps, slipped>>
      /\ runtime' = Past!Idle
  BY DEF Past!RuntimeWrites
<1>7. heard' \subseteq Ids
  BY <1>1 DEF Past!RuntimeWrites, Past!Captures, Past!Turns, PastInv, PastShapes
<1>8. woken' \in [Ids -> Nat]
  <2>1. woken \in [Ids -> Nat]
    BY DEF PastInv, PastShapes
  <2>2. woken' = woken \/ woken' = [woken EXCEPT ![i] = @ + 1]
    BY DEF Past!RuntimeWrites, Past!Captures, Past!Turns
  <2> QED
    BY <1>1, <2>1, <2>2
<1>9. PastShapes'
  BY <1>5, <1>6, <1>7, <1>8 DEF PastInv, PastShapes, Reading
<1> QED
  BY <1>5, <1>6, <1>9, RuntimeWritesPresent, RunStands, IndexStands, SidecarsStand, BesideStands
  DEF PastInv

(* An import.                                                              *)

\* The parts that a step of an import leaves as they are.
LEMMA RestStands ==
  ASSUME PastConstants, PastInv, UNCHANGED <<paired, rowsOf, corrected, runtime, heard, woken, claimed>>
  PROVE  RuntimeHasRead' /\ (UNCHANGED held /\ crossed \subseteq crossed' => PresentIsLive')
BY DEF PastInv, PresentIsLive, RuntimeHasRead

\* A run that is not the ledger's, or that no row is before, is at rest for the sidecars.
LEMMA AtRestStands ==
  ASSUME PastConstants, PastInv, import' = Past!AtRest,
         UNCHANGED <<held, raws, paired, rowsOf, corrected, runtime, heard, woken, runs, claimed, crossed,
                     slipped>>
  PROVE  /\ import' \in Making /\ StageHolds' /\ RowsOnce' /\ RawOnceARun' /\ FoundIsThere'
         /\ IndexIsHeld' /\ PresentIsLive' /\ RuntimeHasRead'
         /\ (UNCHANGED sidecars => SidecarsAreSourced')
<1> DEFINE none == [i \in Ids |-> Past!Unindexed]
<1>1. Past!AtRest = [at |-> "none", kind |-> "none", todo |-> <<>>, batch |-> <<>>, entries |-> <<>>,
                index |-> none, known |-> FALSE, look |-> Past!Nothing]
  BY DEF Past!AtRest
<1>2. /\ import'.at = "none" /\ import'.kind = "none" /\ import'.todo = <<>> /\ import'.batch = <<>>
      /\ import'.entries = <<>> /\ \A i \in Ids : import'.index[i] = Past!Unindexed
  BY <1>1
<1>3. import' \in Making
  <2>1. none \in [Ids -> Past!Chats \cup {Past!Unindexed}]
    OBVIOUS
  <2>2. <<>> \in Seq(Ids) /\ <<>> \in Seq([id : Ids, chat : Past!Chats]) /\ Past!Nothing \in Found
    BY DEF Found
  <2> HIDE DEF none
  <2> QED
    BY <1>1, <2>1, <2>2 DEF Making
<1>4. StageHolds' /\ RowsOnce' /\ FoundIsThere'
  BY <1>2 DEF StageHolds, RowsOnce, FoundIsThere
<1>5. RawOnceARun'
  <2>1. \A i : ~Ahead(i)'
    BY <1>2 DEF Ahead
  <2> QED
    BY <2>1 DEF PastInv, RawOnceARun
<1>6. IndexIsHeld'
  BY <1>2 DEF IndexIsHeld
<1>7. SidecarsAreSourced' \/ ~UNCHANGED sidecars
  BY <1>2 DEF PastInv, SidecarsAreSourced, Placeable, Past!Unindexed
<1> QED
  BY <1>3, <1>4, <1>5, <1>6, <1>7, RestStands

LEMMA EndStep ==
  ASSUME PastConstants, PastInv, Past!ExportDone \/ Past!CutShort
  PROVE  PastInv'
<1>1. /\ UNCHANGED <<held, raws, paired, rowsOf, corrected, runtime, heard, woken, sidecars, unlinked,
                    runs, claimed, crossed, slipped>>
      /\ import' = Past!AtRest
      /\ mishaps' = mishaps \/ (mishaps < MaxMishaps /\ mishaps' = mishaps + 1)
  BY DEF Past!ExportDone, Past!CutShort, Past!ghosts
<1>2. mishaps' \in 0 .. MaxMishaps
  BY <1>1 DEF PastConstants, PastInv, PastShapes
<1>3. import' \in Making /\ StageHolds' /\ RowsOnce' /\ RawOnceARun' /\ FoundIsThere'
      /\ IndexIsHeld' /\ PresentIsLive' /\ RuntimeHasRead' /\ SidecarsAreSourced'
  BY <1>1, AtRestStands
<1>4. PastShapes'
  BY <1>1, <1>2, <1>3 DEF PastInv, PastShapes
<1>5. Past!BesideItsMessage'
  BY <1>1, BesideStands DEF Stays
<1> QED
  BY <1>3, <1>4, <1>5 DEF PastInv

LEMMA StartStep ==
  ASSUME PastConstants, PastInv, NEW kind \in {"export", "ledger"}, Past!Start(kind)
  PROVE  PastInv'
<1> DEFINE rows == Past!SetToSeq(rowsOf)
           none == [i \in Ids |-> Past!Unindexed]
<1>1. /\ UNCHANGED <<held, raws, paired, rowsOf, corrected, runtime, heard, woken, sidecars, unlinked,
                    mishaps, claimed, crossed, slipped>>
      /\ runs < MaxRuns /\ runs' = runs + 1
      /\ import' = [at |-> "batch", kind |-> kind, todo |-> rows, batch |-> <<>>, entries |-> <<>>,
                    index |-> none, known |-> FALSE, look |-> Past!Nothing]
  BY DEF Past!Start, Past!ghosts, Past!AtRest
<1>2. /\ rows \in Seq(rowsOf) /\ rowsOf \subseteq Ids
      /\ \A m, n \in DOMAIN rows : rows[m] = rows[n] => m = n
      /\ \A i \in rowsOf : \E n \in DOMAIN rows : rows[n] = i
  BY RowsOfSources DEF PastInv, PastShapes
<1>3. rows \in Seq(Ids) /\ \A n \in DOMAIN rows : rows[n] \in rowsOf
  BY <1>2
<1> HIDE DEF rows
<1>4. /\ import'.at = "batch" /\ import'.kind = kind /\ import'.todo = rows /\ import'.batch = <<>>
      /\ import'.entries = <<>> /\ \A i \in Ids : import'.index[i] = Past!Unindexed
  BY <1>1
<1>5. runs' \in 0 .. MaxRuns
  BY <1>1 DEF PastConstants, PastInv, PastShapes
<1>6. import' \in Making
  <2>1. none \in [Ids -> Past!Chats \cup {Past!Unindexed}]
    OBVIOUS
  <2>2. <<>> \in Seq(Ids) /\ <<>> \in Seq([id : Ids, chat : Past!Chats]) /\ Past!Nothing \in Found
    BY DEF Found
  <2> HIDE DEF none
  <2> QED
    BY <1>1, <1>3, <2>1, <2>2 DEF Making
<1>7. PastShapes'
  BY <1>1, <1>5, <1>6 DEF PastInv, PastShapes
<1>8. StageHolds' /\ RowsOnce' /\ FoundIsThere'
  BY <1>2, <1>4 DEF StageHolds, RowsOnce, FoundIsThere
<1>9. RawOnceARun'
  <2>1. ASSUME NEW c \in Past!Chats, NEW i \in Ids
        PROVE  raws[<<c, i>>] < runs'
    <3>1. raws[<<c, i>>] \in Nat /\ raws[<<c, i>>] <= runs /\ runs \in Nat
      BY DEF PastInv, PastShapes, RawOnceARun, Past!Keys
    <3> QED
      BY <1>1, <3>1
  <2>2. ASSUME NEW c \in Past!Chats, NEW i \in Ids
        PROVE  raws[<<c, i>>] <= runs'
    BY <2>1, <1>5 DEF PastInv, PastShapes, Past!Keys
  <2> QED
    BY <1>1, <2>1, <2>2 DEF RawOnceARun
<1>10. IndexIsHeld'
  BY <1>1, <1>3, <1>4 DEF IndexIsHeld
<1>11. SidecarsAreSourced'
  <2>1. \A j \in rowsOf : Placeable(j)'
    BY <1>2, <1>4 DEF Placeable
  <2> QED
    BY <1>1, <1>4, <2>1 DEF PastInv, SidecarsAreSourced, Past!Unindexed
<1>12. PresentIsLive' /\ RuntimeHasRead' /\ Past!BesideItsMessage'
  BY <1>1, RestStands, BesideStands DEF Stays
<1> QED
  BY <1>7, <1>8, <1>9, <1>10, <1>11, <1>12 DEF PastInv

LEMMA IndexStep ==
  ASSUME PastConstants, PastInv, Past!Index
  PROVE  PastInv'
<1> DEFINE n == IF Len(import.todo) < Batch THEN Len(import.todo) ELSE Batch
           taken == SubSeq(import.todo, 1, n)
           rest == SubSeq(import.todo, n + 1, Len(import.todo))
           index == [i \in Ids |-> IF import.kind = "ledger" /\ i \in Past!ToSet(taken) THEN Past!ChatKey
                                   ELSE import.index[i]]
<1>1. /\ UNCHANGED <<held, raws, paired, rowsOf, corrected, runtime, heard, woken, sidecars, unlinked,
                    runs, mishaps, claimed, crossed, slipped>>
      /\ import.at = "batch" /\ import.todo # <<>>
      /\ import' = [import EXCEPT !.at = "payload", !.batch = taken, !.todo = rest, !.index = index]
  BY DEF Past!Index, Past!ghosts
<1>2. import \in Making /\ import.todo \in Seq(Ids) /\ import.batch = <<>> /\ import.entries = <<>>
  BY <1>1 DEF PastInv, PastShapes, StageHolds, Making
<1>3. n \in Nat /\ 1 <= n /\ n <= Len(import.todo) /\ Len(import.todo) \in Nat
  BY <1>1, <1>2 DEF PastConstants
<1> HIDE DEF n
<1>4. /\ taken \in Seq(Ids) /\ taken # <<>> /\ rest \in Seq(Ids)
      /\ DOMAIN taken = 1 .. n /\ DOMAIN rest = 1 .. (Len(import.todo) - n)
      /\ \A m \in 1 .. n : taken[m] = import.todo[m] /\ m \in DOMAIN import.todo
      /\ \A m \in 1 .. (Len(import.todo) - n) :
             rest[m] = import.todo[n + m] /\ n + m \in DOMAIN import.todo
  BY <1>2, <1>3, InTwo
<1>5. \A i : i \in Past!ToSet(taken) <=> \E m \in DOMAIN taken : taken[m] = i
  BY DEF Past!ToSet
<1>6. \A i : (\E m \in DOMAIN import.todo : import.todo[m] = i) <=>
             (\E m \in DOMAIN taken : taken[m] = i) \/ (\E m \in DOMAIN rest : rest[m] = i)
  <2>1. ASSUME NEW m \in DOMAIN import.todo
        PROVE  \/ m \in DOMAIN taken /\ taken[m] = import.todo[m]
               \/ m - n \in DOMAIN rest /\ rest[m - n] = import.todo[m]
    <3>1. m \in 1 .. Len(import.todo)
      BY <1>2, <2>1
    <3>2. CASE m <= n
      BY <1>3, <1>4, <3>1, <3>2
    <3>3. CASE m > n
      <4>1. m - n \in 1 .. (Len(import.todo) - n) /\ n + (m - n) = m
        BY <1>3, <3>1, <3>3
      <4> QED
        BY <1>4, <4>1
    <3> QED
      BY <1>3, <3>1, <3>2, <3>3
  <2> QED
    BY <1>4, <2>1
<1>7. index \in [Ids -> Past!Chats \cup {Past!Unindexed}]
  BY <1>2 DEF Making, Past!ChatKey, Past!Chats
<1>8. /\ import'.at = "payload" /\ import'.kind = import.kind /\ import'.todo = rest
      /\ import'.batch = taken /\ import'.entries = <<>> /\ import'.index = index
      /\ import'.look = import.look
  BY <1>1, <1>2 DEF Making
<1>9. import' \in Making
  <2> HIDE DEF taken, rest, index
  <2> QED
    BY <1>1, <1>2, <1>4, <1>7 DEF Making
<1>10. \A i \in Ids : index[i] = IF import.kind = "ledger" /\ i \in Past!ToSet(taken) THEN Past!ChatKey
                                 ELSE import.index[i]
  OBVIOUS
<1> HIDE DEF taken, rest, index
<1>11. PastShapes'
  BY <1>1, <1>9 DEF PastInv, PastShapes
<1>12. StageHolds' /\ FoundIsThere'
  BY <1>4, <1>8 DEF StageHolds, FoundIsThere
<1>13. RowsOnce'
  <2>1. \A a, b \in DOMAIN import.todo : import.todo[a] = import.todo[b] => a = b
    BY DEF PastInv, RowsOnce
  <2>2. \A a, b \in DOMAIN taken : taken[a] = taken[b] => a = b
    BY <1>4, <2>1
  <2>3. ASSUME NEW a \in DOMAIN rest, NEW b \in DOMAIN rest, rest[a] = rest[b]
        PROVE  a = b
    <3>1. n + a = n + b
      BY <1>4, <2>1, <2>3
    <3> QED
      BY <1>3, <1>4, <3>1
  <2>4. ASSUME NEW a \in DOMAIN rest, NEW b \in DOMAIN taken
        PROVE  rest[a] # taken[b]
    <3>1. n + a # b
      BY <1>3, <1>4
    <3> QED
      BY <1>4, <2>1, <3>1
  <2> QED
    BY <1>8, <2>2, <2>3, <2>4 DEF RowsOnce
<1>14. RawOnceARun'
  <2>1. ASSUME NEW i, Ahead(i)'
        PROVE  Ahead(i)
    BY <1>6, <1>8, <2>1 DEF Ahead
  <2> QED
    BY <1>1, <2>1 DEF PastInv, RawOnceARun
<1>15. IndexIsHeld'
  <2>1. \A m \in DOMAIN import.todo : import.todo[m] \in rowsOf
    BY DEF PastInv, IndexIsHeld
  <2>2. \A m \in DOMAIN rest : rest[m] \in rowsOf
    BY <1>4, <2>1
  <2>3. ASSUME NEW i \in Ids, index[i] # Past!Unindexed
        PROVE  /\ i \in rowsOf
               /\ index[i] = "lid" => paired
               /\ \/ index[i] \in slipped
                  \/ \E m \in DOMAIN taken : taken[m] = i
                  \/ held[<<index[i], i>>] # Past!Nothing
    <3>1. CASE import.kind = "ledger" /\ i \in Past!ToSet(taken)
      <4>1. PICK m \in DOMAIN taken : taken[m] = i
        BY <1>5, <3>1
      <4>2. i \in rowsOf
        BY <1>4, <2>1, <4>1
      <4>3. index[i] = Past!ChatKey
        BY <1>10, <3>1
      <4> QED
        BY <4>1, <4>2, <4>3 DEF Past!ChatKey
    <3>2. CASE ~(import.kind = "ledger" /\ i \in Past!ToSet(taken))
      <4>1. index[i] = import.index[i]
        BY <1>10, <3>2
      <4> QED
        BY <1>2, <2>3, <4>1 DEF PastInv, IndexIsHeld
    <3> QED
      BY <3>1, <3>2
  <2> QED
    BY <1>1, <1>8, <2>2, <2>3 DEF IndexIsHeld
<1>16. SidecarsAreSourced'
  <2>1. ASSUME NEW j \in Ids, Placeable(j)
        PROVE  Placeable(j)'
    BY <1>5, <1>6, <1>8, <1>10, <2>1 DEF Placeable, Past!ChatKey, Past!Unindexed
  <2>2. ASSUME sidecars["lid"] # {}
        PROVE  paired /\ \A i \in Ids : index[i] # "phone"
    BY <1>10, <2>2 DEF PastInv, SidecarsAreSourced, Past!ChatKey
  <2>3. rowsOf \subseteq Ids
    BY DEF PastInv, PastShapes
  <2> QED
    BY <1>1, <1>8, <2>1, <2>2, <2>3 DEF PastInv, SidecarsAreSourced
<1>17. PresentIsLive' /\ RuntimeHasRead' /\ Past!BesideItsMessage'
  BY <1>1, RestStands, BesideStands DEF Stays
<1> QED
  BY <1>11, <1>12, <1>13, <1>14, <1>15, <1>16, <1>17 DEF PastInv

LEMMA PayloadStep ==
  ASSUME PastConstants, PastInv, Past!Payload
  PROVE  PastInv'
<1> DEFINE i == Head(import.batch)
           entry == [id |-> i, chat |-> Past!RowKey]
           rest == Tail(import.batch)
           made == Append(import.entries, entry)
           at == IF Len(import.batch) = 1 THEN "row" ELSE "payload"
<1>1. /\ UNCHANGED <<held, raws, paired, rowsOf, corrected, runtime, heard, woken, sidecars, unlinked,
                    runs, mishaps, claimed, crossed>>
      /\ import.at = "payload" /\ import' = [import EXCEPT !.batch = rest, !.entries = made, !.at = at]
      /\ slipped' = IF import.index[i] \in {Past!Unindexed, Past!RowKey} THEN slipped
                    ELSE slipped \cup {import.index[i]}
  BY DEF Past!Payload
<1>2. /\ import \in Making /\ import.batch \in Seq(Ids) /\ import.batch # <<>>
      /\ import.entries \in Seq([id : Ids, chat : Past!Chats])
  BY <1>1 DEF PastInv, PastShapes, StageHolds, Making
<1>3. /\ i \in Ids /\ 1 \in DOMAIN import.batch /\ i = import.batch[1] /\ rest \in Seq(Ids)
      /\ (Len(import.batch) = 1 <=> rest = <<>>)
      /\ \A n \in DOMAIN rest : n + 1 \in DOMAIN import.batch /\ n + 1 # 1 /\ rest[n] = import.batch[n + 1]
      /\ \A n \in DOMAIN import.batch : n # 1 => n - 1 \in DOMAIN rest /\ rest[n - 1] = import.batch[n]
      /\ \A m, n \in DOMAIN rest : m + 1 = n + 1 => m = n
  BY <1>2, FromFront
<1>4. entry \in [id : Ids, chat : Past!Chats] /\ entry.id = i /\ entry.chat = Past!RowKey
  <2>1. import.entries # <<>> => Head(import.entries) \in [id : Ids, chat : Past!Chats]
    BY <1>2, FromFront
  <2>2. Past!RowKey \in Past!Chats
    BY <2>1 DEF Past!RowKey, Past!ChatKey, Past!Chats
  <2> QED
    BY <1>3, <2>2
<1> HIDE DEF i, rest, entry
<1>5. /\ made \in Seq([id : Ids, chat : Past!Chats]) /\ made # <<>>
      /\ \E new \in DOMAIN made :
            /\ made[new] = entry /\ new \notin DOMAIN import.entries
            /\ DOMAIN made = DOMAIN import.entries \cup {new}
      /\ \A n \in DOMAIN import.entries : made[n] = import.entries[n]
  <2>1. Len(import.entries) \in Nat /\ DOMAIN import.entries = 1 .. Len(import.entries)
    BY <1>2
  <2>2. /\ made \in Seq([id : Ids, chat : Past!Chats]) /\ Len(made) = Len(import.entries) + 1
        /\ DOMAIN made = 1 .. (Len(import.entries) + 1)
        /\ made[Len(import.entries) + 1] = entry
        /\ \A n \in 1 .. Len(import.entries) : made[n] = import.entries[n]
    BY <1>2, <1>4, <2>1
  <2>3. /\ Len(import.entries) + 1 \in DOMAIN made /\ Len(import.entries) + 1 \notin DOMAIN import.entries
        /\ DOMAIN made = DOMAIN import.entries \cup {Len(import.entries) + 1}
    BY <2>1, <2>2
  <2>4. made # <<>>
    BY <2>1, <2>2
  <2> QED
    BY <2>1, <2>2, <2>3, <2>4
<1>6. PICK new \in DOMAIN made :
            /\ made[new] = entry /\ new \notin DOMAIN import.entries
            /\ DOMAIN made = DOMAIN import.entries \cup {new}
  BY <1>5
<1> HIDE DEF made
<1>7. /\ at \in {"row", "payload"} /\ (at = "row" <=> rest = <<>>)
  BY <1>3
<1> HIDE DEF at
<1>8. /\ import'.at = at /\ import'.kind = import.kind /\ import'.todo = import.todo
      /\ import'.batch = rest /\ import'.entries = made /\ import'.index = import.index
  BY <1>1, <1>2 DEF Making
<1>9. PastShapes'
  <2>1. import' \in Making
    BY <1>1, <1>2, <1>3, <1>5, <1>7 DEF Making
  <2> QED
    BY <1>1, <2>1 DEF PastInv, PastShapes
<1>10. StageHolds' /\ FoundIsThere'
  BY <1>5, <1>7, <1>8 DEF StageHolds, FoundIsThere
<1>11. RowsOnce'
  <2> USE DEF PastInv, RowsOnce
  <2>1. \A m, n \in DOMAIN rest : rest[m] = rest[n] => m = n
    BY <1>3
  <2>2. \A n \in DOMAIN rest : rest[n] # i
    BY <1>3
  <2>3. \A m \in DOMAIN import.todo : import.todo[m] # i
    BY <1>3
  <2>4. \A n \in DOMAIN import.entries : import.entries[n].id # i
    BY <1>3
  <2>5. \A m, n \in DOMAIN made : made[m].id = made[n].id => m = n
    BY <1>4, <1>5, <1>6, <2>4
  <2>6. \A m \in DOMAIN import.todo : \A n \in DOMAIN rest : import.todo[m] # rest[n]
    BY <1>3
  <2>7. \A m \in DOMAIN import.todo : \A n \in DOMAIN made : import.todo[m] # made[n].id
    BY <1>4, <1>5, <1>6, <2>3
  <2>8. \A m \in DOMAIN rest : \A n \in DOMAIN made : rest[m] # made[n].id
    BY <1>3, <1>4, <1>5, <1>6, <2>2
  <2>9. \A m, n \in DOMAIN import.todo : import.todo[m] = import.todo[n] => m = n
    OBVIOUS
  <2> QED
    BY <1>8, <2>1, <2>5, <2>6, <2>7, <2>8, <2>9
<1>12. RawOnceARun'
  <2>1. ASSUME NEW j, Ahead(j)'
        PROVE  Ahead(j)
    <3>1. CASE \E n \in DOMAIN import.todo : import.todo[n] = j
      BY <3>1 DEF Ahead
    <3>2. CASE \E n \in DOMAIN rest : rest[n] = j
      BY <1>3, <3>2 DEF Ahead
    <3>3. CASE \E n \in DOMAIN made : made[n].id = j
      <4>1. PICK n \in DOMAIN made : made[n].id = j
        BY <3>3
      <4>2. CASE n = new
        BY <1>3, <1>4, <1>6, <4>1, <4>2 DEF Ahead
      <4>3. CASE n \in DOMAIN import.entries
        BY <1>1, <1>5, <4>1, <4>3 DEF Ahead
      <4> QED
        BY <1>6, <4>2, <4>3
    <3> QED
      BY <1>8, <2>1, <3>1, <3>2, <3>3 DEF Ahead
  <2> QED
    BY <1>1, <2>1 DEF PastInv, RawOnceARun
<1>13. slipped \subseteq slipped'
  BY <1>1
<1>14. IndexIsHeld'
  <2>1. ASSUME NEW j \in Ids, import.index[j] # Past!Unindexed
        PROVE  \/ import.index[j] \in slipped'
               \/ \E n \in DOMAIN rest : rest[n] = j
               \/ \E n \in DOMAIN made : made[n] = [id |-> j, chat |-> import.index[j]]
               \/ held[<<import.index[j], j>>] # Past!Nothing
    <3>1. \/ import.index[j] \in slipped
          \/ \E n \in DOMAIN import.batch : import.batch[n] = j
          \/ \E n \in DOMAIN import.entries :
                 import.entries[n] = [id |-> j, chat |-> import.index[j]]
          \/ held[<<import.index[j], j>>] # Past!Nothing
      BY <2>1 DEF PastInv, IndexIsHeld
    <3>2. CASE \E n \in DOMAIN import.batch : import.batch[n] = j
      <4>1. PICK n \in DOMAIN import.batch : import.batch[n] = j
        BY <3>2
      <4>2. CASE n = 1
        <5>1. j = i
          BY <1>3, <4>1, <4>2
        <5>2. CASE import.index[j] = Past!RowKey
          BY <1>6, <5>1, <5>2 DEF entry
        <5>3. CASE import.index[j] # Past!RowKey
          BY <1>1, <2>1, <5>1, <5>3
        <5> QED
          BY <5>2, <5>3
      <4>3. CASE n # 1
        BY <1>3, <4>1, <4>3
      <4> QED
        BY <4>2, <4>3
    <3>3. CASE \E n \in DOMAIN import.entries :
                 import.entries[n] = [id |-> j, chat |-> import.index[j]]
      BY <1>5, <1>6, <3>3
    <3> QED
      BY <1>13, <3>1, <3>2, <3>3
  <2>2. ASSUME NEW j \in Ids, import.index[j] # Past!Unindexed
        PROVE  j \in rowsOf' /\ (import.index[j] = "lid" => paired')
    BY <1>1, <2>2 DEF PastInv, IndexIsHeld
  <2>3. \A n \in DOMAIN import.todo : import.todo[n] \in rowsOf'
    BY <1>1 DEF PastInv, IndexIsHeld
  <2> HIDE DEF made, rest
  <2> QED
    BY <1>1, <1>8, <2>1, <2>2, <2>3 DEF IndexIsHeld
<1>15. SidecarsAreSourced'
  BY <1>1, <1>8 DEF PastInv, SidecarsAreSourced, Placeable
<1>16. PresentIsLive' /\ RuntimeHasRead' /\ Past!BesideItsMessage'
  BY <1>1, <1>13, RestStands, BesideStands DEF Stays
<1> QED
  BY <1>9, <1>10, <1>11, <1>12, <1>14, <1>15, <1>16 DEF PastInv

\* The row in hand.
LEMMA InHand ==
  ASSUME PastInv, import.at \in {"row", "raw", "look", "write", "disposition"}
  PROVE  /\ import \in Making /\ import.entries \in Seq([id : Ids, chat : Past!Chats]) /\ import.entries # <<>>
         /\ 1 \in DOMAIN import.entries /\ Head(import.entries) = import.entries[1]
         /\ Past!Row = import.entries[1].id /\ Past!Row \in Ids /\ import.entries[1].chat \in Past!Chats
         /\ Past!Place = <<import.entries[1].chat, Past!Row>> /\ Past!Place \in Past!Keys /\ held[Past!Place] \in Found
         /\ import.batch = <<>> /\ Past!Incoming \in Recorded /\ Past!Incoming.source # "whatsapp"
         /\ Past!Incoming.disposition = "captured" /\ Past!Incoming # Past!Nothing
<1>1. /\ import \in Making /\ import.entries \in Seq([id : Ids, chat : Past!Chats]) /\ import.entries # <<>>
      /\ import.batch = <<>>
  BY DEF PastInv, PastShapes, StageHolds, Making
<1>2. /\ 1 \in DOMAIN import.entries /\ Head(import.entries) = import.entries[1]
      /\ Head(import.entries) \in [id : Ids, chat : Past!Chats]
  BY <1>1, FromFront
<1>3. Past!Row = import.entries[1].id /\ Past!Row \in Ids /\ import.entries[1].chat \in Past!Chats
      /\ Past!Place = <<import.entries[1].chat, Past!Row>> /\ Past!Place \in Past!Keys
  BY <1>2 DEF Past!Row, Past!Place, Past!Keys
<1>4. held[Past!Place] \in Found
  BY <1>3 DEF PastInv, PastShapes
<1>5. Past!Files \subseteq Ids
  BY <1>3 DEF Past!Files
<1>6. Past!Incoming \in Recorded /\ Past!Incoming.source # "whatsapp" /\ Past!Incoming.disposition = "captured"
  BY <1>5 DEF Past!Incoming, Past!Written, Recorded
<1>7. Past!Incoming # Past!Nothing
  BY <1>6 DEF Recorded, Past!Nothing
<1> QED
  BY <1>1, <1>2, <1>3, <1>4, <1>6, <1>7

LEMMA AlreadyCapturedStep ==
  ASSUME PastConstants, PastInv, Past!AlreadyCaptured
  PROVE  PastInv'
<1>1. /\ UNCHANGED <<held, raws, paired, rowsOf, corrected, runtime, heard, woken, sidecars, unlinked,
                    runs, mishaps, claimed, crossed, slipped>>
      /\ import.at = "row"
      /\ import' = [import EXCEPT !.at = "raw", !.known = held[Past!Place] # Past!Nothing]
  BY DEF Past!AlreadyCaptured, Past!ghosts
<1>2. import \in Making /\ import.entries # <<>> /\ import.batch = <<>>
  BY <1>1, InHand
<1>3. /\ import'.at = "raw" /\ import'.kind = import.kind /\ import'.todo = import.todo
      /\ import'.batch = import.batch /\ import'.entries = import.entries
      /\ import'.index = import.index
  BY <1>1, <1>2 DEF Making
<1>4. PastShapes'
  <2>1. import' \in Making
    BY <1>1, <1>2 DEF Making
  <2> QED
    BY <1>1, <2>1 DEF PastInv, PastShapes
<1>5. StageHolds' /\ RowsOnce' /\ FoundIsThere'
  BY <1>2, <1>3 DEF PastInv, StageHolds, RowsOnce, FoundIsThere
<1>6. RawOnceARun'
  <2>1. \A j : Ahead(j)' => Ahead(j)
    BY <1>1, <1>3 DEF Ahead
  <2> QED
    BY <1>1, <2>1 DEF PastInv, RawOnceARun
<1>7. IndexIsHeld' /\ SidecarsAreSourced'
  <2>1. IndexIsHeld'
    BY <1>1, <1>3 DEF PastInv, IndexIsHeld
  <2>2. SidecarsAreSourced'
    BY <1>1, <1>3 DEF PastInv, SidecarsAreSourced, Placeable
  <2> QED
    BY <2>1, <2>2
<1>8. PresentIsLive' /\ RuntimeHasRead' /\ Past!BesideItsMessage'
  BY <1>1, RestStands, BesideStands DEF Stays
<1> QED
  BY <1>4, <1>5, <1>6, <1>7, <1>8 DEF PastInv

LEMMA AppendRawStep ==
  ASSUME PastConstants, PastInv, Past!AppendRaw
  PROVE  PastInv'
<1>1. /\ UNCHANGED <<held, paired, rowsOf, corrected, runtime, heard, woken, sidecars, unlinked, runs,
                    mishaps, claimed, crossed, slipped>>
      /\ import.at = "raw" /\ import' = [import EXCEPT !.at = "look", !.known = FALSE]
      /\ raws' = raws \/ raws' = [raws EXCEPT ![Past!Place] = @ + 1]
  BY DEF Past!AppendRaw, Past!ghosts
<1>2. /\ import \in Making /\ 1 \in DOMAIN import.entries /\ Past!Row = import.entries[1].id /\ Past!Row \in Ids
      /\ import.entries[1].chat \in Past!Chats /\ Past!Place = <<import.entries[1].chat, Past!Row>> /\ Past!Place \in Past!Keys
      /\ import.entries # <<>> /\ import.batch = <<>>
  BY <1>1, InHand
<1>3. /\ import'.at = "look" /\ import'.kind = import.kind /\ import'.todo = import.todo
      /\ import'.batch = import.batch /\ import'.entries = import.entries
      /\ import'.index = import.index
  BY <1>1, <1>2 DEF Making
<1>4. raws \in [Past!Keys -> Nat]
  BY DEF PastInv, PastShapes
<1>5. raws' \in [Past!Keys -> Nat]
  <2>1. raws[Past!Place] + 1 \in Nat
    BY <1>2, <1>4
  <2>2. [raws EXCEPT ![Past!Place] = @ + 1] \in [Past!Keys -> Nat]
    BY <1>2, <1>4, <2>1
  <2> QED
    BY <1>1, <1>4, <2>2
<1>6. PastShapes'
  <2>1. import' \in Making
    BY <1>1, <1>2 DEF Making
  <2> QED
    BY <1>1, <1>5, <2>1 DEF PastInv, PastShapes
<1>7. StageHolds' /\ RowsOnce' /\ FoundIsThere'
  BY <1>2, <1>3 DEF PastInv, StageHolds, RowsOnce, FoundIsThere
<1>8. RawOnceARun'
  <2>1. Ahead(Past!Row)
    BY <1>1, <1>2 DEF Ahead
  <2>2. ASSUME NEW j, Ahead(j)'
        PROVE  Ahead(j) /\ j # Past!Row
    BY <1>1, <1>2, <1>3, <2>2 DEF PastInv, Ahead, RowsOnce
  <2>3. ASSUME NEW c \in Past!Chats, NEW j \in Ids
        PROVE  raws'[<<c, j>>] <= runs' /\ (Ahead(j)' => raws'[<<c, j>>] < runs')
    <3>1. <<c, j>> \in Past!Keys /\ raws[<<c, j>>] \in Nat /\ runs \in Nat
      BY <1>4 DEF Past!Keys, PastInv, PastShapes
    <3>2. raws[<<c, j>>] <= runs /\ (Ahead(j) => raws[<<c, j>>] < runs)
      BY DEF PastInv, RawOnceARun
    <3>3. CASE raws'[<<c, j>>] = raws[<<c, j>>]
      BY <1>1, <2>2, <3>2, <3>3
    <3>4. CASE raws'[<<c, j>>] # raws[<<c, j>>]
      <4>1. <<c, j>> = Past!Place /\ raws'[<<c, j>>] = raws[<<c, j>>] + 1
        BY <1>1, <1>2, <1>4, <3>1, <3>4
      <4>2. j = Past!Row
        BY <1>2, <4>1
      <4>3. raws[<<c, j>>] < runs
        BY <2>1, <3>2, <4>2
      <4>4. raws'[<<c, j>>] <= runs
        BY <3>1, <4>1, <4>3
      <4> QED
        BY <1>1, <2>2, <4>2, <4>4
    <3> QED
      BY <3>3, <3>4
  <2> QED
    BY <2>3 DEF RawOnceARun
<1>9. IndexIsHeld' /\ SidecarsAreSourced'
  <2>1. IndexIsHeld'
    BY <1>1, <1>3 DEF PastInv, IndexIsHeld
  <2>2. SidecarsAreSourced'
    BY <1>1, <1>3 DEF PastInv, SidecarsAreSourced, Placeable
  <2> QED
    BY <2>1, <2>2
<1>10. PresentIsLive' /\ RuntimeHasRead' /\ Past!BesideItsMessage'
  BY <1>1, RestStands, BesideStands DEF Stays
<1> QED
  BY <1>6, <1>7, <1>8, <1>9, <1>10 DEF PastInv

\* A run that moves on with its row in hand.
LEMMA HandMoves ==
  ASSUME PastInv, Stays, import.at \in {"look", "write"}, import'.at \in {"write", "disposition"},
         import'.kind = import.kind, import'.todo = import.todo, import'.batch = import.batch,
         import'.entries = import.entries, import'.index = import.index,
         UNCHANGED <<raws, runs, rowsOf, paired, sidecars, corrected, slipped>>
  PROVE  StageHolds' /\ RowsOnce' /\ RawOnceARun' /\ IndexIsHeld' /\ SidecarsAreSourced'
<1>1. StageHolds' /\ RowsOnce'
  BY DEF PastInv, StageHolds, RowsOnce
<1>2. RawOnceARun'
  <2>1. \A j : Ahead(j)' => Ahead(j)
    BY DEF Ahead
  <2> QED
    BY <2>1 DEF PastInv, RawOnceARun
<1>3. IndexIsHeld'
  <2>1. \A j \in Ids : import.index[j] \in Past!Chats \cup {Past!Unindexed}
    BY DEF PastInv, PastShapes, Making
  <2>2. \A j \in Ids : import.index[j] # Past!Unindexed /\ held[<<import.index[j], j>>] # Past!Nothing
                          => held'[<<import.index[j], j>>] # Past!Nothing
    BY <2>1 DEF Stays
  <2> QED
    BY <2>2 DEF PastInv, IndexIsHeld
<1>4. SidecarsAreSourced'
  BY DEF PastInv, SidecarsAreSourced, Placeable
<1> QED
  BY <1>1, <1>2, <1>3, <1>4

\* A run that is done with its row, whose record is there.
LEMMA HandEmpties ==
  ASSUME PastInv, Stays, import.at \in {"write", "disposition"}, import' = Past!RowDone,
         held'[Past!Place] # Past!Nothing, UNCHANGED <<raws, runs, rowsOf, paired, sidecars, corrected, slipped>>
  PROVE  /\ import' \in Making /\ StageHolds' /\ RowsOnce' /\ RawOnceARun' /\ FoundIsThere'
         /\ IndexIsHeld' /\ SidecarsAreSourced'
<1> DEFINE rest == Tail(import.entries)
           at == IF Len(import.entries) = 1 THEN "batch" ELSE "row"
<1>1. /\ import \in Making /\ import.entries \in Seq([id : Ids, chat : Past!Chats]) /\ import.entries # <<>>
      /\ Past!Row = import.entries[1].id /\ Past!Row \in Ids /\ import.entries[1].chat \in Past!Chats
      /\ Past!Place = <<import.entries[1].chat, Past!Row>> /\ import.batch = <<>>
  BY InHand
<1>2. import' = [import EXCEPT !.entries = rest, !.look = Past!Nothing, !.at = at]
  BY DEF Past!RowDone
<1>3. /\ rest \in Seq([id : Ids, chat : Past!Chats]) /\ (Len(import.entries) = 1 <=> rest = <<>>)
      /\ \A n \in DOMAIN rest : n + 1 \in DOMAIN import.entries /\ n + 1 # 1
                                /\ rest[n] = import.entries[n + 1]
      /\ \A n \in DOMAIN import.entries : n # 1 => n - 1 \in DOMAIN rest /\ rest[n - 1] = import.entries[n]
      /\ \A m, n \in DOMAIN rest : m + 1 = n + 1 => m = n
  BY <1>1, FromFront
<1> HIDE DEF rest
<1>4. at \in {"batch", "row"} /\ (at = "batch" <=> rest = <<>>)
  BY <1>3
<1> HIDE DEF at
<1>5. /\ import'.at = at /\ import'.kind = import.kind /\ import'.todo = import.todo
      /\ import'.batch = import.batch /\ import'.entries = rest /\ import'.index = import.index
  BY <1>1, <1>2 DEF Making
<1>6. import' \in Making
  BY <1>1, <1>2, <1>3, <1>4 DEF Making, Found
<1>7. StageHolds' /\ FoundIsThere'
  BY <1>1, <1>4, <1>5 DEF StageHolds, FoundIsThere
<1>8. RowsOnce'
  <2>1. \A m, n \in DOMAIN rest : rest[m].id = rest[n].id => m = n
    BY <1>3 DEF PastInv, RowsOnce
  <2>2. \A m \in DOMAIN import.todo : \A n \in DOMAIN rest : import.todo[m] # rest[n].id
    BY <1>3 DEF PastInv, RowsOnce
  <2>3. \A m \in DOMAIN import.batch : \A n \in DOMAIN rest : import.batch[m] # rest[n].id
    BY <1>3 DEF PastInv, RowsOnce
  <2> QED
    BY <1>5, <2>1, <2>2, <2>3 DEF PastInv, RowsOnce
<1>9. RawOnceARun'
  <2>1. ASSUME NEW j, Ahead(j)'
        PROVE  Ahead(j)
    <3>1. CASE \E n \in DOMAIN rest : rest[n].id = j
      BY <1>3, <3>1 DEF Ahead
    <3>2. CASE ~\E n \in DOMAIN rest : rest[n].id = j
      BY <1>5, <2>1, <3>2 DEF Ahead
    <3> QED
      BY <3>1, <3>2
  <2> QED
    BY <2>1 DEF PastInv, RawOnceARun
<1>10. IndexIsHeld'
  <2>1. ASSUME NEW j \in Ids, import.index[j] # Past!Unindexed
        PROVE  /\ j \in rowsOf' /\ (import.index[j] = "lid" => paired')
               /\ \/ import.index[j] \in slipped'
                  \/ \E n \in DOMAIN import.batch : import.batch[n] = j
                  \/ \E n \in DOMAIN rest : rest[n] = [id |-> j, chat |-> import.index[j]]
                  \/ held'[<<import.index[j], j>>] # Past!Nothing
    <3>1. /\ j \in rowsOf /\ (import.index[j] = "lid" => paired)
          /\ \/ import.index[j] \in slipped
             \/ \E n \in DOMAIN import.batch : import.batch[n] = j
             \/ \E n \in DOMAIN import.entries :
                    import.entries[n] = [id |-> j, chat |-> import.index[j]]
             \/ held[<<import.index[j], j>>] # Past!Nothing
      BY <2>1 DEF PastInv, IndexIsHeld
    <3>2. CASE \E n \in DOMAIN import.entries :
                  import.entries[n] = [id |-> j, chat |-> import.index[j]]
      <4>1. PICK n \in DOMAIN import.entries : import.entries[n] = [id |-> j, chat |-> import.index[j]]
        BY <3>2
      <4>2. CASE n = 1
        <5>1. Past!Place = <<import.index[j], j>>
          BY <1>1, <4>1, <4>2
        <5> QED
          BY <3>1, <5>1
      <4>3. CASE n # 1
        BY <1>3, <3>1, <4>1, <4>3
      <4> QED
        BY <4>2, <4>3
    <3>3. CASE held[<<import.index[j], j>>] # Past!Nothing
      <4>1. import.index[j] \in Past!Chats
        BY <1>1, <2>1 DEF Making
      <4> QED
        BY <3>1, <3>3, <4>1 DEF Stays
    <3> QED
      BY <3>1, <3>2, <3>3
  <2>2. \A n \in DOMAIN import.todo : import.todo[n] \in rowsOf'
    BY DEF PastInv, IndexIsHeld
  <2> QED
    BY <1>5, <2>1, <2>2 DEF IndexIsHeld
<1>11. SidecarsAreSourced'
  BY <1>5 DEF PastInv, SidecarsAreSourced, Placeable
<1> QED
  BY <1>6, <1>7, <1>8, <1>9, <1>10, <1>11

LEMMA LookStep ==
  ASSUME PastConstants, PastInv, Past!Look
  PROVE  PastInv'
<1>1. /\ UNCHANGED <<held, raws, paired, rowsOf, corrected, runtime, heard, woken, sidecars, unlinked,
                    runs, mishaps, claimed, crossed, slipped>>
      /\ import.at = "look" /\ import' = [import EXCEPT !.at = "write", !.look = held[Past!Place]]
  BY DEF Past!Look, Past!ghosts
<1>2. import \in Making /\ held[Past!Place] \in Found
  BY <1>1, InHand
<1>3. /\ import'.at = "write" /\ import'.kind = import.kind /\ import'.todo = import.todo
      /\ import'.batch = import.batch /\ import'.entries = import.entries
      /\ import'.index = import.index /\ import'.look = held[Past!Place]
  BY <1>1, <1>2 DEF Making
<1>4. PastShapes'
  <2>1. import' \in Making
    BY <1>1, <1>2 DEF Making
  <2> QED
    BY <1>1, <2>1 DEF PastInv, PastShapes
<1>5. Stays
  BY <1>1 DEF Stays
<1>6. StageHolds' /\ RowsOnce' /\ RawOnceARun' /\ IndexIsHeld' /\ SidecarsAreSourced'
  BY <1>1, <1>3, <1>5, HandMoves
<1>7. FoundIsThere'
  BY <1>1, <1>3 DEF FoundIsThere, Past!Place, Past!Row
<1>8. PresentIsLive' /\ RuntimeHasRead' /\ Past!BesideItsMessage'
  BY <1>1, <1>5, RestStands, BesideStands
<1> QED
  BY <1>4, <1>6, <1>7, <1>8 DEF PastInv

\* What an import writes is live when what it writes over is, and released as that is.
LEMMA ImportWritesPresent ==
  ASSUME PastInv, import.at \in {"write", "disposition"}, NEW r \in Recorded,
         held' = [held EXCEPT ![Past!Place] = r], UNCHANGED <<runtime, heard, woken, claimed>>,
         crossed \subseteq crossed',
         \/ Past!Row \in crossed'
         \/ (Past!Live(r) <=> Past!Live(held[Past!Place])) /\ (Past!Live(r) => r.release = held[Past!Place].release)
  PROVE  /\ PresentIsLive' /\ RuntimeHasRead' /\ Stays /\ held' \in [Past!Keys -> Found]
         /\ held'[Past!Place] = r /\ r # Past!Nothing
<1>1. Past!Place \in Past!Keys /\ Past!Row \in Ids /\ Past!Place = <<import.entries[1].chat, Past!Row>>
  BY InHand
<1>2. held \in [Past!Keys -> Found]
  BY DEF PastInv, PastShapes
<1>3. r # Past!Nothing
  BY DEF Recorded, Past!Nothing
<1>4. held' \in [Past!Keys -> Found] /\ held'[Past!Place] = r
  BY <1>1, <1>2 DEF Found
<1>5. Stays
  <2>1. ASSUME NEW k \in Past!Keys, held[k] # Past!Nothing
        PROVE  held'[k] # Past!Nothing
    BY <1>1, <1>2, <1>3, <2>1
  <2> QED
    BY <2>1 DEF Stays, Past!Keys
<1>6. PresentIsLive'
  <2>1. ASSUME NEW j \in Ids, j \notin crossed'
        PROVE  /\ Past!Live(held'[<<"lid", j>>]) <=> j \in heard \ claimed
               /\ woken[j] = 0 \/ (woken[j] = 1 /\ Past!Live(held'[<<"lid", j>>])
                                                /\ held'[<<"lid", j>>].release # "none")
    <3>1. /\ Past!Live(held[<<"lid", j>>]) <=> j \in heard \ claimed
          /\ woken[j] = 0 \/ (woken[j] = 1 /\ Past!Live(held[<<"lid", j>>])
                                           /\ held[<<"lid", j>>].release # "none")
      BY <2>1 DEF PastInv, PresentIsLive
    <3>2. <<"lid", j>> \in Past!Keys
      BY DEF Past!Keys, Past!Chats
    <3>3. CASE <<"lid", j>> = Past!Place
      <4>1. j = Past!Row
        BY <1>1, <3>3
      <4>2. (Past!Live(r) <=> Past!Live(held[Past!Place])) /\ (Past!Live(r) => r.release = held[Past!Place].release)
        BY <2>1, <4>1
      <4> QED
        BY <1>4, <3>1, <3>3, <4>2
    <3>4. CASE <<"lid", j>> # Past!Place
      <4>1. held'[<<"lid", j>>] = held[<<"lid", j>>]
        BY <1>1, <1>2, <3>2, <3>4
      <4> QED
        BY <3>1, <4>1
    <3> QED
      BY <3>3, <3>4
  <2> QED
    BY <2>1 DEF PresentIsLive
<1>7. RuntimeHasRead'
  BY DEF PastInv, RuntimeHasRead
<1> QED
  BY <1>3, <1>4, <1>5, <1>6, <1>7

\* The record of the row, merged into what was there when capture looked.
LEMMA CaptureWrites ==
  ASSUME PastInv, Past!Capture
  PROVE  \E written \in Recorded :
            /\ written = IF import.look = Past!Nothing THEN Past!Incoming ELSE Past!Merge(import.look, Past!Incoming)
            /\ \/ held' = held /\ written = import.look
               \/ held' = [held EXCEPT ![Past!Place] = written] /\ written # import.look
            /\ held[Past!Place] = import.look =>
                  /\ Past!Live(written) <=> Past!Live(import.look)
                  /\ Past!Live(written) => written.release = import.look.release
            /\ crossed' = IF held[Past!Place] # import.look /\ written # import.look THEN crossed \cup {Past!Row}
                          ELSE crossed
            /\ import' = IF written.disposition = Past!Incoming.disposition THEN Past!RowDone
                         ELSE [import EXCEPT !.at = "disposition"]
<1> DEFINE written == IF import.look = Past!Nothing THEN Past!Incoming ELSE Past!Merge(import.look, Past!Incoming)
<1>1. import.at = "write"
  BY DEF Past!Capture
<1>2. /\ import.look \in Found /\ Past!Incoming \in Recorded /\ Past!Incoming.source # "whatsapp"
  BY <1>1, InHand DEF Making
<1>3. CASE import.look = Past!Nothing
  <2>1. written = Past!Incoming /\ ~Past!Live(written) /\ ~Past!Live(import.look)
    BY <1>2, <1>3 DEF Past!Live
  <2> QED
    BY <1>2, <1>3, <2>1 DEF Past!Capture
<1>4. CASE import.look # Past!Nothing
  <2>1. import.look \in Recorded
    BY <1>2, <1>4 DEF Found
  <2>2. written = [import.look EXCEPT !.files = @ \cup Past!Incoming.files]
    BY <1>4 DEF Past!Merge
  <2>3. Past!Incoming.files \subseteq Ids /\ import.look.files \subseteq Ids
    BY <1>2, <2>1 DEF Recorded
  <2>4. written \in Recorded /\ written.source = import.look.source
        /\ written.release = import.look.release
    BY <2>1, <2>2, <2>3 DEF Recorded
  <2>5. written # Past!Nothing
    BY <2>4 DEF Recorded, Past!Nothing
  <2>6. Past!Live(written) <=> Past!Live(import.look)
    BY <1>4, <2>4, <2>5 DEF Past!Live
  <2> HIDE DEF written
  <2>7. /\ \/ held' = held /\ written = import.look
           \/ held' = [held EXCEPT ![Past!Place] = written] /\ written # import.look
        /\ crossed' = IF held[Past!Place] # import.look /\ written # import.look THEN crossed \cup {Past!Row}
                          ELSE crossed
        /\ import' = IF written.disposition = Past!Incoming.disposition THEN Past!RowDone
                         ELSE [import EXCEPT !.at = "disposition"]
    BY DEF Past!Capture, written
  <2> QED
    BY <2>4, <2>6, <2>7 DEF written
<1> QED
  BY <1>3, <1>4

LEMMA CaptureStep ==
  ASSUME PastConstants, PastInv, Past!Capture
  PROVE  PastInv'
<1>1. /\ UNCHANGED <<raws, paired, rowsOf, corrected, runtime, heard, woken, sidecars, unlinked, runs,
                    mishaps, claimed, slipped>>
      /\ import.at = "write"
  BY DEF Past!Capture
<1>2. PICK written \in Recorded :
            /\ \/ held' = held /\ written = import.look
               \/ held' = [held EXCEPT ![Past!Place] = written] /\ written # import.look
            /\ held[Past!Place] = import.look =>
                  /\ Past!Live(written) <=> Past!Live(import.look)
                  /\ Past!Live(written) => written.release = import.look.release
            /\ crossed' = IF held[Past!Place] # import.look /\ written # import.look THEN crossed \cup {Past!Row}
                          ELSE crossed
            /\ import' = IF written.disposition = Past!Incoming.disposition THEN Past!RowDone
                         ELSE [import EXCEPT !.at = "disposition"]
  BY CaptureWrites
<1>3. crossed \subseteq crossed' /\ written # Past!Nothing
  BY <1>2 DEF Recorded, Past!Nothing
<1>4. PresentIsLive' /\ RuntimeHasRead' /\ Stays /\ held' \in [Past!Keys -> Found] /\ held'[Past!Place] # Past!Nothing
  <2>1. CASE held' = held /\ written = import.look
    <3>1. held[Past!Place] # Past!Nothing
      BY <1>1, <1>3, <2>1 DEF PastInv, FoundIsThere
    <3>2. held' \in [Past!Keys -> Found]
      BY <2>1 DEF PastInv, PastShapes
    <3> QED
      BY <1>1, <1>3, <2>1, <3>1, <3>2, RestStands DEF Stays
  <2>2. CASE held' = [held EXCEPT ![Past!Place] = written] /\ written # import.look
    <3>1. \/ Past!Row \in crossed'
          \/ (Past!Live(written) <=> Past!Live(held[Past!Place])) /\ (Past!Live(written) => written.release = held[Past!Place].release)
      BY <1>2, <2>2
    <3> QED
      BY <1>1, <1>3, <2>2, <3>1, ImportWritesPresent
  <2> QED
    BY <1>2, <2>1, <2>2
<1>5. Past!BesideItsMessage'
  BY <1>1, <1>4, BesideStands
<1>6. CASE written.disposition = Past!Incoming.disposition
  <2>1. /\ import' \in Making /\ StageHolds' /\ RowsOnce' /\ RawOnceARun' /\ FoundIsThere'
        /\ IndexIsHeld' /\ SidecarsAreSourced'
    BY <1>1, <1>2, <1>4, <1>6, HandEmpties
  <2>2. PastShapes'
    BY <1>1, <1>4, <2>1 DEF PastInv, PastShapes
  <2> QED
    BY <1>4, <1>5, <2>1, <2>2 DEF PastInv
<1>7. CASE written.disposition # Past!Incoming.disposition
  <2>1. import' = [import EXCEPT !.at = "disposition"] /\ import \in Making
    BY <1>1, <1>2, <1>7, InHand
  <2>2. /\ import' \in Making /\ import'.at = "disposition" /\ import'.kind = import.kind
        /\ import'.todo = import.todo /\ import'.batch = import.batch
        /\ import'.entries = import.entries /\ import'.index = import.index
    BY <2>1 DEF Making
  <2>3. StageHolds' /\ RowsOnce' /\ RawOnceARun' /\ IndexIsHeld' /\ SidecarsAreSourced'
    BY <1>1, <1>4, <2>2, HandMoves
  <2>4. FoundIsThere'
    BY <1>4, <2>2 DEF FoundIsThere, Past!Place, Past!Row
  <2>5. PastShapes'
    BY <1>1, <1>4, <2>2 DEF PastInv, PastShapes
  <2> QED
    BY <1>4, <1>5, <2>3, <2>4, <2>5 DEF PastInv
<1> QED
  BY <1>6, <1>7

\* The disposition the import asks for, on the record that is there.
LEMMA SetDispositionWrites ==
  ASSUME PastInv, Past!SetDisposition
  PROVE  \E r \in Recorded :
            /\ held' = [held EXCEPT ![Past!Place] = r] /\ held[Past!Place] \in Recorded
            /\ Past!Live(r) <=> Past!Live(held[Past!Place])
            /\ r.release = held[Past!Place].release
<1> DEFINE r == [held[Past!Place] EXCEPT !.disposition = Past!Incoming.disposition]
<1>1. import.at = "disposition" /\ held' = [held EXCEPT ![Past!Place].disposition = Past!Incoming.disposition]
  BY DEF Past!SetDisposition
<1>2. held[Past!Place] \in Recorded /\ Past!Incoming.disposition = "captured"
  BY <1>1, InHand DEF PastInv, FoundIsThere, Found
<1>3. held' = [held EXCEPT ![Past!Place] = r]
  BY <1>1
<1>4. r \in Recorded /\ r.source = held[Past!Place].source /\ r.release = held[Past!Place].release
  BY <1>2 DEF Recorded
<1>5. r # Past!Nothing /\ held[Past!Place] # Past!Nothing
  BY <1>2, <1>4 DEF Recorded, Past!Nothing
<1> HIDE DEF r
<1> QED
  BY <1>2, <1>3, <1>4, <1>5 DEF Past!Live

LEMMA SetDispositionStep ==
  ASSUME PastConstants, PastInv, Past!SetDisposition
  PROVE  PastInv'
<1>1. /\ UNCHANGED <<raws, paired, rowsOf, corrected, runtime, heard, woken, sidecars, unlinked, runs,
                    mishaps, claimed, crossed, slipped>>
      /\ import.at = "disposition" /\ import' = Past!RowDone
  BY DEF Past!SetDisposition
<1>2. PresentIsLive' /\ RuntimeHasRead' /\ Stays /\ held' \in [Past!Keys -> Found] /\ held'[Past!Place] # Past!Nothing
  BY <1>1, SetDispositionWrites, ImportWritesPresent
<1>3. /\ import' \in Making /\ StageHolds' /\ RowsOnce' /\ RawOnceARun' /\ FoundIsThere'
      /\ IndexIsHeld' /\ SidecarsAreSourced'
  BY <1>1, <1>2, HandEmpties
<1>4. PastShapes' /\ Past!BesideItsMessage'
  BY <1>1, <1>2, <1>3, BesideStands DEF PastInv, PastShapes
<1> QED
  BY <1>2, <1>3, <1>4 DEF PastInv

\* The corrections of a conversation as a run writes them.
LEMMA SidecarsWritten ==
  ASSUME PastConstants, PastInv, NEW failed \in SUBSET corrected, Past!WriteSidecars(failed)
  PROVE  /\ sidecars' \in [Past!Chats -> SUBSET Corrections] /\ import' = Past!AtRest
         /\ \A c \in Past!Chats : \A x \in sidecars'[c] :
                x \in sidecars[c] \/ (x \in corrected /\ \E i \in Names[x] : i \in Ids /\ import.index[i] = c)
         /\ \A c \in Past!Chats : \A x \in sidecars[c] : x \in failed \/ x \in sidecars'[c]
                \/ ((~\E i \in Names[x] : import.index[i] = c) /\ \E j \in Ids : import.index[j] = c)
<1> DEFINE mine(c) == {x \in Past!ReadCorrections(failed) : c \in Past!PlacedIn(x)}
<1>1. import' = Past!AtRest /\ sidecars' = [c \in Past!Chats |-> Past!Rewritten(c, mine(c))]
  BY DEF Past!WriteSidecars
<1>2. corrected \subseteq Corrections /\ sidecars \in [Past!Chats -> SUBSET Corrections]
      /\ (\A x \in Corrections : Names[x] \subseteq Ids)
      /\ \A c \in Past!Chats : \A x \in sidecars[c] : x \in corrected
  BY DEF PastConstants, PastInv, PastShapes, SidecarsAreSourced
<1>3. \A c \in Past!Chats : mine(c) \subseteq Corrections
  BY <1>2 DEF Past!ReadCorrections
<1>4. \A c \in Past!Chats : \A x : x \in mine(c) <=>
          x \in corrected /\ x \notin failed /\ \E i \in Names[x] : import.index[i] = c
  BY DEF Past!ReadCorrections, Past!PlacedIn, Past!Chats, Past!Unindexed
<1> HIDE DEF mine
<1>5. \A c \in Past!Chats : sidecars'[c] = IF mine(c) = {} THEN sidecars[c] ELSE mine(c)
  BY <1>1 DEF Past!Rewritten
<1>6. sidecars' \in [Past!Chats -> SUBSET Corrections]
  BY <1>1, <1>2, <1>3 DEF Past!Rewritten
<1>7. ASSUME NEW c \in Past!Chats, NEW x \in sidecars'[c], x \notin sidecars[c]
      PROVE  x \in corrected /\ \E i \in Names[x] : i \in Ids /\ import.index[i] = c
  <2>1. x \in mine(c)
    BY <1>5, <1>7
  <2> QED
    BY <1>2, <1>4, <2>1
<1>8. ASSUME NEW c \in Past!Chats, NEW x \in sidecars[c], x \notin failed, x \notin sidecars'[c]
      PROVE  (~\E i \in Names[x] : import.index[i] = c) /\ \E j \in Ids : import.index[j] = c
  <2>1. mine(c) # {} /\ x \notin mine(c)
    BY <1>5, <1>8
  <2>2. PICK y : y \in mine(c)
    BY <2>1
  <2> QED
    BY <1>2, <1>4, <1>8, <2>1, <2>2
<1> QED
  BY <1>1, <1>6, <1>7, <1>8

LEMMA WriteSidecarsStep ==
  ASSUME PastConstants, PastInv, NEW failed \in SUBSET corrected, Past!WriteSidecars(failed)
  PROVE  PastInv'
<1>1. /\ UNCHANGED <<held, raws, paired, rowsOf, corrected, runtime, heard, woken, runs, claimed, crossed,
                    slipped>>
      /\ import.at = "batch" /\ import.todo = <<>> /\ import.kind = "ledger"
      /\ mishaps' = mishaps \/ (mishaps < MaxMishaps /\ mishaps' = mishaps + 1)
  BY DEF Past!WriteSidecars
<1>2. /\ sidecars' \in [Past!Chats -> SUBSET Corrections] /\ import' = Past!AtRest
      /\ \A c \in Past!Chats : \A x \in sidecars'[c] :
            x \in sidecars[c] \/ (x \in corrected /\ \E i \in Names[x] : i \in Ids /\ import.index[i] = c)
  BY SidecarsWritten
<1>3. /\ import' \in Making /\ StageHolds' /\ RowsOnce' /\ RawOnceARun' /\ FoundIsThere'
      /\ IndexIsHeld' /\ PresentIsLive' /\ RuntimeHasRead'
  BY <1>1, <1>2, AtRestStands
<1>4. PastShapes'
  <2>1. unlinked' \subseteq Corrections
    BY DEF Past!WriteSidecars, Past!ReadCorrections, PastInv, PastShapes
  <2>2. mishaps' \in 0 .. MaxMishaps
    BY <1>1 DEF PastConstants, PastInv, PastShapes
  <2> QED
    BY <1>1, <1>2, <1>3, <2>1, <2>2 DEF PastInv, PastShapes
<1>5. import.batch = <<>> /\ import.entries = <<>>
  BY <1>1 DEF PastInv, StageHolds
<1>6. \A i \in Ids : import.index[i] \in Past!Chats =>
        /\ i \in rowsOf /\ (import.index[i] = "lid" => paired)
        /\ import.index[i] \in slipped \/ held[<<import.index[i], i>>] # Past!Nothing
  BY <1>5 DEF PastInv, IndexIsHeld, Past!Chats, Past!Unindexed
<1>7. Past!BesideItsMessage'
  BY <1>1, <1>2, <1>6 DEF PastInv, Past!BesideItsMessage
<1>8. SidecarsAreSourced'
  <2>1. import'.kind = "none" /\ \A i \in Ids : import'.index[i] = Past!Unindexed
    BY <1>2 DEF Past!AtRest
  <2>2. ASSUME NEW c \in Past!Chats, NEW x \in sidecars'[c]
        PROVE  x \in corrected /\ (\E j \in Names[x] : j \in rowsOf) /\ (c = "lid" => paired)
    <3>1. CASE x \in sidecars[c]
      BY <3>1 DEF PastInv, SidecarsAreSourced
    <3>2. CASE x \notin sidecars[c]
      BY <1>2, <1>6, <2>2, <3>2
    <3> QED
      BY <3>1, <3>2
  <2>3. sidecars'["lid"] # {} => paired
    BY <2>2 DEF Past!Chats
  <2> QED
    BY <1>1, <2>1, <2>2, <2>3 DEF SidecarsAreSourced, Placeable, Past!Unindexed
<1> QED
  BY <1>3, <1>4, <1>7, <1>8 DEF PastInv

LEMMA PastStart ==
  ASSUME PastConstants, Past!Init
  PROVE  PastInv
<1>1. /\ held = [k \in Past!Keys |-> Past!Nothing] /\ raws = [k \in Past!Keys |-> 0]
      /\ paired = FALSE /\ rowsOf = Ids \ Late /\ corrected = {} /\ import = Past!AtRest /\ runtime = Past!Idle
      /\ heard = {} /\ woken = [i \in Ids |-> 0] /\ sidecars = [c \in Past!Chats |-> {}] /\ unlinked = {}
      /\ runs = 0 /\ mishaps = 0 /\ claimed = {} /\ crossed = {}
  BY DEF Past!Init
<1> DEFINE none == [i \in Ids |-> Past!Unindexed]
<1>2. Past!AtRest = [at |-> "none", kind |-> "none", todo |-> <<>>, batch |-> <<>>, entries |-> <<>>,
                index |-> none, known |-> FALSE, look |-> Past!Nothing]
  BY DEF Past!AtRest
<1>3. /\ import.at = "none" /\ import.kind = "none" /\ import.todo = <<>> /\ import.batch = <<>>
      /\ import.entries = <<>> /\ \A i \in Ids : import.index[i] = Past!Unindexed
  BY <1>1, <1>2
<1>4. import \in Making
  <2>1. none \in [Ids -> Past!Chats \cup {Past!Unindexed}]
    OBVIOUS
  <2>2. <<>> \in Seq(Ids) /\ <<>> \in Seq([id : Ids, chat : Past!Chats]) /\ Past!Nothing \in Found
    BY DEF Found
  <2> HIDE DEF none
  <2> QED
    BY <1>1, <1>2, <2>1, <2>2 DEF Making
<1>5. PastShapes
  <2>1. held \in [Past!Keys -> Found] /\ runtime \in Reading
    BY <1>1 DEF Found, Reading
  <2>2. raws \in [Past!Keys -> Nat] /\ woken \in [Ids -> Nat] /\ sidecars \in [Past!Chats -> SUBSET Corrections]
    BY <1>1
  <2>3. runs \in 0 .. MaxRuns /\ mishaps \in 0 .. MaxMishaps
    BY <1>1 DEF PastConstants
  <2> QED
    BY <1>1, <1>4, <2>1, <2>2, <2>3 DEF PastShapes
<1>6. StageHolds /\ RowsOnce /\ FoundIsThere
  BY <1>1, <1>3 DEF StageHolds, RowsOnce, FoundIsThere
<1>7. RawOnceARun
  <2>1. \A i : ~Ahead(i)
    BY <1>3 DEF Ahead
  <2> QED
    BY <1>1, <2>1 DEF RawOnceARun, Past!Keys
<1>8. PresentIsLive
  BY <1>1 DEF PresentIsLive, Past!Live, Past!Keys, Past!Chats
<1>9. RuntimeHasRead
  BY <1>1 DEF RuntimeHasRead, Past!Idle
<1>10. IndexIsHeld /\ SidecarsAreSourced /\ Past!BesideItsMessage
  BY <1>1, <1>3 DEF IndexIsHeld, SidecarsAreSourced, Past!BesideItsMessage, Past!Chats
<1> QED
  BY <1>5, <1>6, <1>7, <1>8, <1>9, <1>10 DEF PastInv

LEMMA PastStep ==
  ASSUME PastConstants, PastInv, [Past!Next]_(Past!vars)
  PROVE  PastInv'
<1>1. CASE UNCHANGED Past!vars
  <2>1. UNCHANGED <<held, raws, paired, rowsOf, corrected, import, runtime, heard, woken, sidecars,
                    unlinked, runs, mishaps, claimed, crossed, slipped>>
    BY <1>1 DEF Past!vars
  <2>2. PastShapes' /\ Stays
    BY <2>1 DEF PastInv, PastShapes, Stays
  <2> QED
    BY <2>1, <2>2, RunStands, PresentStands, IndexStands, SidecarsStand, BesideStands DEF PastInv
<1>2. CASE (\E i \in Ids : Past!RowAppears(i)) \/ (\E x \in Corrections : Past!CorrectionAppears(x)) \/ Past!LearnPair
  BY <1>2, SourcesStep
<1>3. CASE \E i \in Ids : \E op \in {"capture", "release", "complete", "park"} : Past!RuntimeReads(op, i)
  BY <1>3, RuntimeReadsStep
<1>4. CASE Past!RuntimeWrites
  BY <1>4, RuntimeWritesStep
<1>5. CASE \E kind \in {"export", "ledger"} : Past!Start(kind)
  BY <1>5, StartStep
<1>6. CASE Past!Importing
  BY <1>6, IndexStep, PayloadStep, AlreadyCapturedStep, AppendRawStep, LookStep, CaptureStep, SetDispositionStep,
     EndStep,
     WriteSidecarsStep DEF Past!Importing
<1>7. CASE Past!CutShort
  BY <1>7, EndStep
<1>8. Past!Next =>
        \/ \E i \in Ids : Past!RowAppears(i)
        \/ \E i \in Ids : \E op \in {"capture", "release", "complete", "park"} : Past!RuntimeReads(op, i)
        \/ (\E x \in Corrections : Past!CorrectionAppears(x)) \/ Past!LearnPair \/ Past!RuntimeWrites
        \/ (\E kind \in {"export", "ledger"} : Past!Start(kind)) \/ Past!Importing \/ Past!CutShort
  BY DEF Past!Next
<1> QED
  BY <1>1, <1>2, <1>3, <1>4, <1>5, <1>6, <1>7, <1>8

\* What the invariant promises.
LEMMA PastPromise == ASSUME PastConstants, PastInv PROVE Past!PastIsPast
<1>1. Past!TypeOK
  <2>1. \A k \in Past!Keys : held[k] # Past!Nothing => held[k] \in Recorded
    BY DEF PastInv, PastShapes, Found
  <2>2. raws \in [Past!Keys -> 0 .. MaxRuns]
    <3>1. ASSUME NEW k \in Past!Keys
          PROVE  raws[k] \in 0 .. MaxRuns
      <4>1. PICK c \in Past!Chats, i \in Ids : k = <<c, i>>
        BY DEF Past!Keys
      <4>2. raws[k] \in Nat /\ raws[k] <= runs
        BY <4>1 DEF PastInv, PastShapes, RawOnceARun
      <4> QED
        BY <4>2 DEF PastConstants, PastInv, PastShapes
    <3> QED
      BY <3>1 DEF PastInv, PastShapes
  <2>3. import.at \in {"none", "batch", "payload", "row", "raw", "look", "write", "disposition"}
    BY DEF PastInv, PastShapes, Making
  <2> QED
    BY <2>1, <2>2, <2>3 DEF PastInv, PastShapes, Past!TypeOK, Recorded
<1>2. Past!PastWakesNothing /\ Past!HeardIsTheAgents
  <2>1. woken \in [Ids -> Nat]
    BY DEF PastInv, PastShapes
  <2>2. ASSUME NEW i \in Ids, i \notin crossed
        PROVE  /\ Past!Live(held[<<"lid", i>>]) <=> i \in heard \ claimed
               /\ woken[i] = 0 \/ (woken[i] = 1 /\ Past!Live(held[<<"lid", i>>]))
    BY <2>2 DEF PastInv, PresentIsLive
  <2>3. Past!PastWakesNothing
    <3>1. ASSUME NEW i \in Ids
          PROVE  /\ woken[i] > 0 => i \in heard \ claimed \/ i \in crossed
                 /\ woken[i] > 1 => i \in crossed
      <4>1. CASE woken[i] = 0
        BY <4>1
      <4>2. CASE i \in crossed
        BY <4>2
      <4>3. CASE woken[i] # 0 /\ i \notin crossed
        <5>1. woken[i] = 1 /\ Past!Live(held[<<"lid", i>>])
          BY <2>2, <4>3, Zenon
        <5>2. i \in heard \ claimed
          BY <2>2, <4>3, <5>1, Zenon
        <5> QED
          BY <5>1, <5>2
      <4> QED
        BY <4>1, <4>2, <4>3
    <3> QED
      BY <3>1 DEF Past!PastWakesNothing
  <2>4. Past!HeardIsTheAgents
    BY <2>2 DEF Past!HeardIsTheAgents, PastInv, PastShapes
  <2> QED
    BY <2>3, <2>4
<1> QED
  BY <1>1, <1>2 DEF Past!PastIsPast, PastInv

(* What the runtime has read is there, and so is what it took from under an  *)
(* import that was about to bring it.                                       *)
OvertakenHolds ==
    /\ runtime.op \in {"release", "complete", "park"} => held[<<"lid", runtime.id>>] # Past!Nothing
    /\ import.at = "raw" /\ ~import.known /\ held[Past!Place] # Past!Nothing =>
           Past!Place[1] = "lid" /\ Past!Row \in overtaken

\* Nothing but a capture makes a record, and nothing takes one away.
LEMMA RecordsStay ==
  ASSUME PastInv, [Past!Next]_(Past!vars)
  PROVE  Stays
<1>1. held \in [Past!Keys -> Found]
  BY DEF PastInv, PastShapes
<1>2. \A r \in Recorded : r # Past!Nothing
  BY DEF Recorded, Past!Nothing
<1>3. CASE Past!RuntimeWrites
  <2>1. PICK r \in Recorded : held' = held \/ held' = [held EXCEPT ![<<"lid", runtime.id>>] = r]
    BY <1>3, RuntimeWritesRecord
  <2> QED
    BY <1>1, <1>2, <2>1 DEF Stays, Past!Keys
<1>4. CASE Past!Capture
  <2>1. PICK r \in Recorded : held' = held \/ held' = [held EXCEPT ![Past!Place] = r]
    BY <1>4, CaptureWrites
  <2> QED
    BY <1>1, <1>2, <2>1 DEF Stays, Past!Keys
<1>5. CASE Past!SetDisposition
  <2>1. PICK r \in Recorded : held' = [held EXCEPT ![Past!Place] = r]
    BY <1>5, SetDispositionWrites
  <2> QED
    BY <1>1, <1>2, <2>1 DEF Stays, Past!Keys
<1>6. CASE ~(Past!RuntimeWrites \/ Past!Capture \/ Past!SetDisposition)
  <2>1. UNCHANGED held
    BY <1>6 DEF Past!Next, Past!RowAppears, Past!RuntimeReads, Past!CorrectionAppears, Past!LearnPair,
       Past!Start, Past!Importing, Past!Index, Past!Payload, Past!AlreadyCaptured, Past!AppendRaw, Past!Look,
       Past!ExportDone, Past!WriteSidecars, Past!CutShort, Past!vars
  <2> QED
    BY <2>1 DEF Stays
<1> QED
  BY <1>3, <1>4, <1>5, <1>6

LEMMA OvertakenStep ==
  ASSUME PastConstants, PastInv, OvertakenHolds, [Past!Next]_(Past!vars)
  PROVE  OvertakenHolds'
<1>1. Stays /\ held \in [Past!Keys -> Found] /\ import \in Making
  BY RecordsStay DEF PastInv, PastShapes
<1>2. (runtime.op \in {"release", "complete", "park"} => held[<<"lid", runtime.id>>] # Past!Nothing)'
  <2>1. CASE runtime' = runtime
    <3>1. runtime.op \in {"release", "complete", "park"} => runtime.id \in Ids
      BY DEF PastInv, PastShapes, Reading, Past!Idle
    <3> QED
      BY <1>1, <2>1, <3>1 DEF OvertakenHolds, Stays, Past!Chats
  <2>2. CASE Past!RuntimeWrites
    BY <2>2 DEF Past!RuntimeWrites, Past!Idle
  <2>3. ASSUME NEW i \in Ids, NEW op \in {"capture", "release", "complete", "park"}, Past!RuntimeReads(op, i)
        PROVE  (runtime.op \in {"release", "complete", "park"} =>
                    held[<<"lid", runtime.id>>] # Past!Nothing)'
    <3>1. UNCHANGED held /\ runtime' = [op |-> op, id |-> i, seen |-> held[<<"lid", i>>]]
      BY <2>3 DEF Past!RuntimeReads
    <3>2. op \in {"release", "complete", "park"} => held[<<"lid", i>>] # Past!Nothing
      BY <2>3 DEF Past!RuntimeReads, Past!Releasable, Past!Live
    <3> QED
      BY <3>1, <3>2
  <2>4. \/ runtime' = runtime \/ Past!RuntimeWrites
        \/ \E i \in Ids : \E op \in {"capture", "release", "complete", "park"} : Past!RuntimeReads(op, i)
    BY DEF Past!Next, Past!RowAppears, Past!CorrectionAppears, Past!LearnPair, Past!Start,
       Past!Importing, Past!Index, Past!Payload, Past!AlreadyCaptured, Past!AppendRaw, Past!Look, Past!Capture,
       Past!SetDisposition, Past!ExportDone, Past!WriteSidecars, Past!CutShort, Past!vars
  <2> QED
    BY <2>1, <2>2, <2>3, <2>4
<1>3. (import.at = "raw" /\ ~import.known /\ held[Past!Place] # Past!Nothing =>
           Past!Place[1] = "lid" /\ Past!Row \in overtaken)'
  <2>1. CASE UNCHANGED <<import, held, overtaken>>
    BY <2>1 DEF OvertakenHolds, Past!Place, Past!Row
  <2>2. CASE Past!RuntimeWrites
    <3>1. UNCHANGED import /\ Past!Place' = Past!Place /\ Past!Row' = Past!Row /\ overtaken \subseteq overtaken'
      BY <2>2 DEF Past!RuntimeWrites, Past!Place, Past!Row
    <3> SUFFICES ASSUME import.at = "raw", ~import.known, held'[Past!Place] # Past!Nothing
                 PROVE  Past!Place[1] = "lid" /\ Past!Row \in overtaken'
      BY <3>1
    <3>2. Past!Place \in Past!Keys /\ Past!Row = Past!Place[2]
      BY InHand
    <3>3. CASE held[Past!Place] # Past!Nothing
      BY <3>1, <3>3 DEF OvertakenHolds
    <3>4. CASE held[Past!Place] = Past!Nothing
      <4>1. PICK r \in Recorded : held' = held \/ held' = [held EXCEPT ![<<"lid", runtime.id>>] = r]
        BY <2>2, RuntimeWritesRecord
      <4>2. Past!Place = <<"lid", runtime.id>>
        BY <1>1, <3>2, <3>4, <4>1
      <4>3. runtime.op = "capture"
        BY <2>2, <3>4, <4>2, RuntimeWritesRecord DEF OvertakenHolds
      <4>4. runtime.id \in overtaken'
        BY <2>2, <4>2, <4>3 DEF Past!RuntimeWrites
      <4> QED
        BY <3>2, <4>2, <4>4
    <3> QED
      BY <3>3, <3>4
  <2>3. CASE Past!AlreadyCaptured
    <3>1. UNCHANGED held /\ import' = [import EXCEPT !.at = "raw", !.known = held[Past!Place] # Past!Nothing]
      BY <2>3 DEF Past!AlreadyCaptured
    <3>2. import'.entries = import.entries /\ import'.known = (held[Past!Place] # Past!Nothing)
      BY <1>1, <3>1 DEF Making
    <3> QED
      BY <3>1, <3>2 DEF Past!Place, Past!Row
  <2>4. ASSUME NEW kind \in {"export", "ledger"}, Past!Start(kind) PROVE import'.at # "raw"
    BY <2>4 DEF Past!Start, Past!AtRest
  <2>5. CASE Past!Index \/ Past!Payload
    BY <1>1, <2>5 DEF Past!Index, Past!Payload, Making
  <2>6. CASE Past!AppendRaw \/ Past!Look \/ Past!Capture \/ Past!SetDisposition
    BY <1>1, <2>6 DEF Past!AppendRaw, Past!Look, Past!Capture, Past!SetDisposition, Past!RowDone, Making
  <2>7. CASE (\E failed \in SUBSET corrected : Past!WriteSidecars(failed)) \/ Past!ExportDone \/ Past!CutShort
    BY <2>7 DEF Past!WriteSidecars, Past!ExportDone, Past!CutShort, Past!AtRest
  <2>8. \/ UNCHANGED <<import, held, overtaken>> \/ Past!RuntimeWrites \/ Past!AlreadyCaptured
        \/ (\E kind \in {"export", "ledger"} : Past!Start(kind)) \/ Past!Index \/ Past!Payload
        \/ Past!AppendRaw \/ Past!Look \/ Past!Capture \/ Past!SetDisposition
        \/ (\E failed \in SUBSET corrected : Past!WriteSidecars(failed)) \/ Past!ExportDone \/ Past!CutShort
    BY DEF Past!Next, Past!RowAppears, Past!CorrectionAppears, Past!LearnPair, Past!RuntimeReads,
       Past!Importing, Past!vars, Past!ghosts
  <2> QED
    BY <2>1, <2>2, <2>3, <2>4, <2>5, <2>6, <2>7, <2>8
<1> QED
  BY <1>2, <1>3 DEF OvertakenHolds

LEMMA AddsStep ==
  ASSUME PastConstants, PastInv, OvertakenHolds, [Past!Next]_(Past!vars)
  PROVE  [Past!AddsOnly]_(Past!vars)
<1>1. CASE ~(Past!AppendRaw \/ Past!Capture \/ Past!SetDisposition)
  <2>1. import' = import \/ UNCHANGED <<held, raws>>
    BY <1>1 DEF Past!Next, Past!RowAppears, Past!RuntimeReads, Past!CorrectionAppears,
       Past!LearnPair, Past!RuntimeWrites, Past!Start, Past!Importing, Past!Index, Past!Payload,
       Past!AlreadyCaptured, Past!Look, Past!ExportDone, Past!WriteSidecars, Past!CutShort, Past!vars
  <2>2. ASSUME UNCHANGED <<held, raws>>, NEW k \in Past!Keys, held[k] # Past!Nothing
        PROVE  /\ raws'[k] = raws[k] /\ held'[k] # Past!Nothing
               /\ held'[k] = [held[k] EXCEPT !.files = held'[k].files]
               /\ held[k].files \subseteq held'[k].files
    <3>1. held[k] \in Recorded
      BY <2>2 DEF PastInv, PastShapes, Found
    <3> QED
      BY <2>2, <3>1 DEF Recorded
  <2> QED
    BY <2>1, <2>2 DEF Past!AddsOnly
<1>2. CASE Past!AppendRaw
  <2>1. UNCHANGED held /\ import.at = "raw"
    BY <1>2 DEF Past!AppendRaw
  <2>2. Past!Place \in Past!Keys /\ Past!Row = Past!Place[2]
    BY <2>1, InHand
  <2>3. raws' = IF import.known THEN raws ELSE [raws EXCEPT ![Past!Place] = @ + 1]
    BY <1>2 DEF Past!AppendRaw
  <2>4. ASSUME NEW k \in Past!Keys, held[k] # Past!Nothing
        PROVE  /\ raws'[k] = raws[k] \/ (k[1] = "lid" /\ k[2] \in overtaken)
               /\ held'[k] # Past!Nothing /\ held'[k] = [held[k] EXCEPT !.files = held'[k].files]
               /\ held[k].files \subseteq held'[k].files
    <3>1. held[k] \in Recorded
      BY <2>4 DEF PastInv, PastShapes, Found
    <3>2. CASE raws'[k] # raws[k]
      <4>1. k = Past!Place /\ ~import.known
        BY <2>2, <2>3, <3>2 DEF PastInv, PastShapes
      <4>2. k[1] = "lid" /\ k[2] \in overtaken
        BY <2>1, <2>2, <2>4, <4>1 DEF OvertakenHolds
      <4> QED
        BY <2>1, <2>4, <3>1, <4>2 DEF Recorded
    <3>3. CASE raws'[k] = raws[k]
      BY <2>1, <2>4, <3>1, <3>3 DEF Recorded
    <3> QED
      BY <3>2, <3>3
  <2> QED
    BY <2>4 DEF Past!AddsOnly
<1>3. CASE Past!Capture
  <2>1. UNCHANGED raws /\ import.at = "write"
    BY <1>3 DEF Past!Capture
  <2>2. Past!Place \in Past!Keys /\ Past!Row = Past!Place[2] /\ held \in [Past!Keys -> Found]
    BY <2>1, InHand DEF PastInv, PastShapes
  <2>3. PICK written \in Recorded :
            /\ written = IF import.look = Past!Nothing THEN Past!Incoming ELSE Past!Merge(import.look, Past!Incoming)
            /\ \/ held' = held /\ written = import.look
               \/ held' = [held EXCEPT ![Past!Place] = written] /\ written # import.look
            /\ crossed' = IF held[Past!Place] # import.look /\ written # import.look THEN crossed \cup {Past!Row}
                          ELSE crossed
    BY <1>3, CaptureWrites
  <2>4. written # Past!Nothing
    BY DEF Recorded, Past!Nothing
  <2>5. ASSUME NEW k \in Past!Keys, held[k] # Past!Nothing
        PROVE  \/ /\ held'[k] # Past!Nothing /\ held'[k] = [held[k] EXCEPT !.files = held'[k].files]
                  /\ held[k].files \subseteq held'[k].files
               \/ k[2] \in crossed' \cup reopened'
    <3>1. held[k] \in Recorded
      BY <2>2, <2>5 DEF Found
    <3>2. CASE held'[k] = held[k]
      BY <2>5, <3>1, <3>2 DEF Recorded
    <3>3. CASE held'[k] # held[k]
      <4>1. k = Past!Place /\ held'[k] = written /\ written # import.look
        BY <2>2, <2>3, <3>3
      <4>2. CASE held[Past!Place] # import.look
        BY <2>2, <2>3, <4>1, <4>2
      <4>3. CASE held[Past!Place] = import.look
        <5>1. written = [held[k] EXCEPT !.files = @ \cup Past!Incoming.files]
          BY <2>3, <2>5, <4>1, <4>3 DEF Past!Merge
        <5>2. held'[k].files = held[k].files \cup Past!Incoming.files
          BY <3>1, <4>1, <5>1 DEF Recorded
        <5> QED
          BY <2>4, <3>1, <4>1, <5>1, <5>2 DEF Recorded
      <4> QED
        BY <4>2, <4>3
    <3> QED
      BY <3>2, <3>3
  <2> QED
    BY <2>1, <2>5 DEF Past!AddsOnly
<1>4. CASE Past!SetDisposition
  <2>1. UNCHANGED raws /\ import.at = "disposition" /\ reopened' = reopened \cup {Past!Row}
    BY <1>4 DEF Past!SetDisposition
  <2>2. Past!Place \in Past!Keys /\ Past!Row = Past!Place[2] /\ held \in [Past!Keys -> Found]
    BY <2>1, InHand DEF PastInv, PastShapes
  <2>3. PICK r \in Recorded : held' = [held EXCEPT ![Past!Place] = r]
    BY <1>4, SetDispositionWrites
  <2>4. ASSUME NEW k \in Past!Keys, held[k] # Past!Nothing
        PROVE  \/ /\ held'[k] # Past!Nothing /\ held'[k] = [held[k] EXCEPT !.files = held'[k].files]
                  /\ held[k].files \subseteq held'[k].files
               \/ k[2] \in crossed' \cup reopened'
    <3>1. held[k] \in Recorded
      BY <2>2, <2>4 DEF Found
    <3>2. CASE k = Past!Place
      BY <2>1, <2>2, <3>2
    <3>3. CASE k # Past!Place
      <4>1. held'[k] = held[k]
        BY <2>2, <2>3, <3>3
      <4> QED
        BY <2>4, <3>1, <4>1 DEF Recorded
    <3> QED
      BY <3>2, <3>3
  <2> QED
    BY <2>1, <2>4 DEF Past!AddsOnly
<1> QED
  BY <1>1, <1>2, <1>3, <1>4

LEMMA CorrectionStep ==
  ASSUME PastConstants, PastInv, [Past!Next]_(Past!vars)
  PROVE  [Past!CorrectionStays]_(Past!vars)
<1>1. CASE UNCHANGED sidecars
  BY <1>1 DEF Past!CorrectionStays
<1>2. CASE \E failed \in SUBSET corrected : Past!WriteSidecars(failed)
  <2>1. PICK failed \in SUBSET corrected : Past!WriteSidecars(failed)
    BY <1>2
  <2>2. unread' = failed /\ import.todo = <<>> /\ import.kind = "ledger"
    BY <2>1 DEF Past!WriteSidecars
  <2>3. \A c \in Past!Chats : \A x \in sidecars[c] : x \in failed \/ x \in sidecars'[c]
                \/ ((~\E i \in Names[x] : import.index[i] = c) /\ \E j \in Ids : import.index[j] = c)
    BY <2>1, SidecarsWritten
  <2>4. ASSUME NEW c \in Past!Chats, NEW x \in sidecars[c], x \notin failed, x \notin sidecars'[c]
        PROVE  c = "phone" /\ Past!Straddles
    <3>1. PICK j \in Names[x] : j \in rowsOf /\ Placeable(j)
      BY DEF PastInv, SidecarsAreSourced
    <3>2. j \in Ids /\ import.index[j] # Past!Unindexed
      BY <2>2, <3>1 DEF Placeable, PastInv, PastShapes
    <3>3. import.index[j] \in Past!Chats
      BY <3>2 DEF PastInv, PastShapes, Making
    <3>4. import.index[j] # c
      BY <2>3, <2>4, <3>1
    <3>5. PICK i \in Ids : import.index[i] = c
      BY <2>3, <2>4
    <3>6. c = "phone"
      BY <3>2, <3>3, <3>4, <2>4 DEF PastInv, SidecarsAreSourced, Past!Chats
    <3>7. Past!Straddles
      BY <3>2, <3>3, <3>4, <3>5 DEF Past!Straddles, Past!Chats
    <3> QED
      BY <3>6, <3>7
  <2> QED
    BY <2>2, <2>4 DEF Past!CorrectionStays
<1>3. UNCHANGED sidecars \/ \E failed \in SUBSET corrected : Past!WriteSidecars(failed)
  BY DEF Past!Next, Past!RowAppears, Past!RuntimeReads, Past!CorrectionAppears, Past!LearnPair,
     Past!RuntimeWrites, Past!Start,
     Past!Importing, Past!Index, Past!Payload, Past!AlreadyCaptured, Past!AppendRaw, Past!Look, Past!Capture,
     Past!SetDisposition, Past!ExportDone, Past!CutShort, Past!vars
<1> QED
  BY <1>1, <1>2, <1>3

\* carbon-import beside the runtime, over any rows, corrections, runs and mishaps: the past
\* wakes nothing, what was heard is the agent's, and a correction is beside its message.
THEOREM PastStaysPast == ASSUME PastConstants PROVE AllSpec => []PastIsPast
<1>1. AllInit => Past!Init
  BY DEF AllInit
<1>2. [AllNext]_<<vars, pastVars, outboundVars, part>> => [Past!Next]_(Past!vars)
  BY DEF AllNext, pastVars, Past!vars
<1>3. PastInv => PastIsPast
  BY PastPromise DEF PastIsPast
<1>4. Past!Init => PastInv
  BY PastStart
<1>5. PastInv /\ [Past!Next]_(Past!vars) => PastInv'
  BY PastStep
<1> QED
  BY <1>1, <1>2, <1>3, <1>4, <1>5, PTL DEF AllSpec

\* carbon-import: an import only adds to a record that is there, but for a record that two
\* processes wrote at once or that had been parked, and appends no raw line for it but when it
\* was captured live since the import had asked; and a correction stays in its file.
THEOREM ImportsAdd == ASSUME PastConstants PROVE AllSpec => ImportsOnlyAdd
<1>1. AllInit => Past!Init
  BY DEF AllInit
<1>2. [AllNext]_<<vars, pastVars, outboundVars, part>> => [Past!Next]_(Past!vars)
  BY DEF AllNext, pastVars, Past!vars
<1>3. Past!Init => PastInv /\ OvertakenHolds
  <2>1. Past!Init => runtime.op = "none" /\ import.at = "none"
    BY DEF Past!Init, Past!Idle, Past!AtRest
  <2> QED
    BY <2>1, PastStart DEF OvertakenHolds
<1>4. PastInv /\ OvertakenHolds /\ [Past!Next]_(Past!vars) => (PastInv /\ OvertakenHolds)'
  BY PastStep, OvertakenStep
<1>5. PastInv /\ OvertakenHolds /\ [Past!Next]_(Past!vars)
          => [Past!AddsOnly]_(Past!vars) /\ [Past!CorrectionStays]_(Past!vars)
  BY AddsStep, CorrectionStep
<1> QED
  BY <1>1, <1>2, <1>3, <1>4, <1>5, PTL DEF AllSpec, ImportsOnlyAdd, Past!ImportsOnlyAdd

=============================================================================

------------------------------- MODULE Intake -------------------------------
(***************************************************************************)
(* How an update of a Telegram account becomes a record of the store: the  *)
(* long poll of adapters/telegram/live.ts, the cursors and the payload of  *)
(* adapters/telegram/index.ts, capture of runtime/loop.ts and the store's  *)
(* own capture.                                                            *)
(*                                                                         *)
(* An update is its number in the account's stream, which is its update    *)
(* id.  The server deletes an update when a call asks past it.  The loop's *)
(* capture does not yield, so the long poll stands still while it runs,    *)
(* and a kill can still fall between any two of its writes.                *)
(***************************************************************************)
EXTENDS Integers, FiniteSets, FiniteSetsExt

CONSTANTS
    N,              \* updates are 1..N
    Conversations,  \* the chats
    Feeds,          \* the streams an account may have: [1..N -> Update]
    MaxKills        \* bound: kills, stops and writes that throw

Updates == 1..N

\* What an update is to this adapter: a message it reads, a service message, a
\* message the validator refuses, an update of a type it has no reading for,
\* or the edit of a message.
Kinds == {"text", "service", "bad", "unknown", "edit"}

\* pos is the chat's number for the message, stamp the second of an edit.
Update == [kind: Kinds, conv: Conversations, pos: Nat, stamp: Nat]

ASSUME IntakeAssumption ==
    /\ N \in Nat /\ MaxKills \in Nat
    /\ Feeds \subseteq [Updates -> Update]

\* A chat numbers its messages as they come, an edit comes after the message it
\* names, and an update of a type without a reading is of no chat.
ASSUME StreamsAssumption ==
    \A f \in Feeds : \A u, v \in Updates :
        /\ f[u].kind = "text" /\ f[v].kind # "unknown" /\ f[u].conv = f[v].conv =>
              /\ f[u].pos # 0
              /\ f[u].pos = f[v].pos \/ (f[u].pos < f[v].pos /\ f[v].kind # "edit") => u <= v
        /\ f[u].kind = "unknown" /\ f[v].kind # "unknown" => f[u].conv # f[v].conv

VARIABLES
    feed,       \* the stream of this account
    \* the server
    sent,       \* updates 1..sent have happened
    forgotten,  \* updates 1..forgotten are deleted
    \* durable
    records,    \* the files: [conv, msg, rev] and the update whose body it holds
    cursor,     \* the two cursors of each chat, 0 for null
    offset,     \* the cursor of the update stream, 0 for null
    \* the long poll
    mode,       \* "up" or "down"
    poll,       \* "gate", "calling", "answered" or "retrying"
    asked,      \* the offset the call in flight asked for
    seen,       \* updates remembered and not confirmed
    batch,      \* entry.items: what was handed over last
    highest,    \* the highest update handed over, 0 for null
    fault,      \* a failed call nobody has heard of
    \* the capture in progress
    phase,      \* "idle", "record", "cursor", "consume" or "offset"
    pending,    \* updates of the batch yet to be written
    owed,       \* updates of the batch yet to be consumed
    plan,       \* the revision the payload gave each update
    \* history
    shown,      \* updates the server showed this process
    beside,     \* edits met in one batch with a message not yet on disk
    mixed,      \* edits counted in one batch with those of another chat's number
    torn,       \* updates whose write threw
    kills

disk    == <<records, cursor, offset>>
worker  == <<poll, asked, seen, batch, highest, fault, shown>>
noted   == <<beside, mixed>>
capture == <<phase, pending, owed, plan, noted>>
ends    == <<mode, torn, kills>>
server  == <<feed, sent, forgotten>>
vars    == <<server, disk, worker, capture, ends>>

File == [conv: Conversations, msg: Nat, rev: Nat, of: Updates]

TypeOK ==
    /\ feed \in Feeds /\ sent \in 0..N /\ forgotten \in 0..N
    /\ records \subseteq File /\ offset \in 0..N
    /\ cursor \in [Conversations -> [message: Nat, revision: Nat]]
    /\ mode \in {"up", "down"}
    /\ poll \in {"gate", "calling", "answered", "retrying"}
    /\ asked \in 0..N+1 /\ highest \in 0..N /\ fault \in BOOLEAN
    /\ seen \subseteq Updates /\ batch \subseteq Updates /\ shown \subseteq Updates
    /\ phase \in {"idle", "record", "cursor", "consume", "offset"}
    /\ pending \subseteq Updates /\ owed \subseteq Updates
    /\ plan \in [Updates -> Nat]
    /\ beside \subseteq Updates /\ mixed \subseteq Updates /\ torn \subseteq Updates
    /\ kills \in 0..MaxKills

NoPlan == [u \in Updates |-> 0]

Init ==
    /\ feed \in Feeds /\ sent = 0 /\ forgotten = 0
    /\ records = {} /\ offset = 0
    /\ cursor = [c \in Conversations |-> [message |-> 0, revision |-> 0]]
    /\ mode = "up" /\ poll = "gate" /\ asked = 0 /\ seen = {} /\ batch = {}
    /\ highest = 0 /\ fault = FALSE
    /\ phase = "idle" /\ pending = {} /\ owed = {} /\ plan = NoPlan
    /\ shown = {} /\ beside = {} /\ mixed = {} /\ torn = {} /\ kills = 0

IsEdit(u) == feed[u].kind = "edit"

\* What the payload parks: a service message, and a type it cannot read.
Parks(u) == feed[u].kind \in {"service", "unknown"}

\* A message is named by its chat and its number there; an update with no
\* chat is named by itself.
MsgOf(u) == IF feed[u].kind = "unknown" THEN u ELSE feed[u].pos

SameMessage(u, v) == feed[u].conv = feed[v].conv /\ MsgOf(u) = MsgOf(v)

FilesOf(u) == {r \in records : r.conv = feed[u].conv /\ r.msg = MsgOf(u)}

Written(u) == \E r \in records : r.of = u

-----------------------------------------------------------------------------
(* The long poll.                                                          *)

\* Something happens in a chat.
Arrive ==
    /\ sent < N
    /\ sent' = sent + 1
    /\ UNCHANGED <<feed, forgotten, disk, worker, capture, ends>>

\* Mutation of NextOffset: past what was handed over, consumed or not.
NextOffsetHanded == IF Max({offset, highest}) = 0 THEN 0 ELSE Max({offset, highest}) + 1

\* The offset the next call asks for; 0 asks for whatever the server holds.
NextOffset == IF offset = 0 THEN 0 ELSE offset + 1

\* What was handed over and is not consumed holds the next call back.
Waits == highest # 0 /\ NextOffset <= highest

\* The worker runs while the loop is not in its capture.
Works(p) == mode = "up" /\ phase = "idle" /\ poll = p

Ask ==
    /\ Works("gate") /\ ~Waits
    /\ seen' = {u \in seen : u >= NextOffset}
    /\ asked' = NextOffset
    /\ forgotten' = Max({forgotten, asked' - 1})
    /\ poll' = "calling"
    /\ UNCHANGED <<feed, sent, disk, capture, ends, batch, highest, fault, shown>>

\* An answer may repeat, omit or reorder what this worker was shown, and shows
\* nothing new ahead of something it has not been shown.
CanAnswer(S) ==
    /\ S \subseteq {u \in 1..sent : u > forgotten /\ u >= asked}
    /\ \A u \in S : \A v \in 1..u : v > forgotten /\ v >= asked => v \in S \cup seen

\* Mutation of Remember: only the last answer.
RememberLatest(S) == seen' = S

\* remember: what the answer shows for the first time.
Remember(S) == seen' = seen \cup S

Answer(S) ==
    /\ Works("calling") /\ CanAnswer(S)
    /\ Remember(S)
    /\ shown' = shown \cup S
    /\ poll' = "answered"
    /\ UNCHANGED <<server, disk, capture, ends, asked, batch, highest, fault>>

\* Everything remembered and not confirmed, whatever the last answer named.
Retained == {u \in seen : u >= asked}

\* A member of an album is younger than the window: the same offset is asked
\* again.  Whether one is, is the clock's choice.
AskAgain ==
    /\ Works("answered") /\ Retained # {}
    /\ poll' = "calling"
    /\ UNCHANGED <<server, disk, capture, ends, asked, seen, batch, highest, fault, shown>>

\* The batch settles, its files are fetched, and the loop may take it.
HandOver ==
    /\ Works("answered")
    /\ batch' = Retained
    /\ highest' = IF Retained = {} THEN highest ELSE Max(Retained)
    /\ fault' = FALSE
    /\ poll' = "gate"
    /\ UNCHANGED <<server, disk, capture, ends, asked, seen, shown>>

\* The call fails, and the worker waits before it tries again.
CallFails ==
    /\ Works("calling")
    /\ fault' = TRUE
    /\ poll' = "retrying"
    /\ UNCHANGED <<server, disk, capture, ends, asked, seen, batch, highest, shown>>

Retry ==
    /\ Works("retrying")
    /\ poll' = "gate"
    /\ UNCHANGED <<server, disk, capture, ends, asked, seen, batch, highest, fault, shown>>

-----------------------------------------------------------------------------
(* One pass of the loop: what it hears, and what it captures.              *)

Idle == mode = "up" /\ phase = "idle"

\* arrivals throws the fault to a pass that has nothing to be handed, and the
\* runtime counts a failed poll.
HearFault ==
    /\ Idle /\ batch = {} /\ fault
    /\ fault' = FALSE
    /\ UNCHANGED <<server, disk, capture, ends, poll, asked, seen, batch, highest, shown>>

\* pastCursors: the cursor decides for a message; for an edit below the cursor
\* the store is asked for a record edited at that second.
IsPending(u) ==
    \/ feed[u].kind = "unknown"
    \/ ~IsEdit(u) /\ cursor[feed[u].conv].message < feed[u].pos
    \/ IsEdit(u) /\ cursor[feed[u].conv].revision < feed[u].pos
    \/ IsEdit(u) /\ ~\E r \in records : r.conv = feed[u].conv /\ feed[r.of].stamp = feed[u].stamp

\* The payload counts the files of the edited message, then the edits of one
\* number it has met in this batch, whatever their chat.
Revision(S, u) ==
    LET met == {v \in S : v <= u /\ IsEdit(v) /\ feed[v].pos = feed[u].pos}
    IN  IF IsEdit(u) THEN Cardinality(FilesOf(Min(met))) + Cardinality(met) - 1 ELSE 0

TakeBatch ==
    LET S == {u \in batch : IsPending(u)} IN
    /\ Idle /\ S # {}
    /\ phase' = "record" /\ pending' = S /\ owed' = S
    /\ plan' = [u \in Updates |-> IF u \in S THEN Revision(S, u) ELSE 0]
    /\ beside' = beside \cup {u \in S : IsEdit(u) /\ FilesOf(u) = {}
                                        /\ \E v \in S : ~IsEdit(v) /\ SameMessage(u, v)}
    /\ mixed' = mixed \cup {u \in S : IsEdit(u) /\ \E v \in S : /\ IsEdit(v) /\ ~SameMessage(u, v)
                                                              /\ feed[u].pos = feed[v].pos}
    /\ UNCHANGED <<server, disk, worker, ends>>

\* Mutation of NextOf: newest first.
NextOfNewest(S) == Max(S)

\* Everything readable first, then everything parked, each in stream order.
NextOf(S) == LET readable == {u \in S : ~Parks(u)}
             IN  IF readable = {} THEN Min(S) ELSE Min(readable)

FileOf(u) == [conv |-> feed[u].conv, msg |-> MsgOf(u), rev |-> plan[u], of |-> u]

\* Mutation of Write: a file that is there is written over.
WriteOver(u) ==
    records' = {r \in records : ~(r \in FilesOf(u) /\ r.rev = plan[u])} \cup {FileOf(u)}

\* A file that is there is merged into, and its body stays the first one.
Write(u) ==
    records' = IF \E r \in FilesOf(u) : r.rev = plan[u] THEN records
               ELSE records \cup {FileOf(u)}

\* The pass moves past u to the next update, or to consume.
Wrote(u) ==
    /\ pending' = pending \ {u}
    /\ phase' = IF pending = {u} THEN "consume" ELSE "record"

WriteRecord ==
    LET u == NextOf(pending) IN
    /\ mode = "up" /\ phase = "record" /\ feed[u].kind # "bad"
    /\ Write(u)
    /\ phase' = "cursor"
    /\ UNCHANGED <<server, cursor, offset, worker, ends, pending, owed, plan, noted>>

\* The validator refuses the record: it is logged, and the pass goes on.
Refuse ==
    LET u == NextOf(pending) IN
    /\ mode = "up" /\ phase = "record" /\ feed[u].kind = "bad"
    /\ Wrote(u)
    /\ UNCHANGED <<server, disk, worker, ends, owed, plan, noted>>

\* advanceCursor: a cursor never moves back.  An update with no chat has no
\* position, and moves none.
Advanced(u) ==
    IF feed[u].kind = "unknown" THEN cursor
    ELSE LET kind == IF IsEdit(u) THEN "revision" ELSE "message"
         IN  [cursor EXCEPT ![feed[u].conv][kind] = Max({@, feed[u].pos})]

CaptureCursor ==
    LET u == NextOf(pending) IN
    /\ mode = "up" /\ phase = "cursor"
    /\ cursor' = Advanced(u)
    /\ Wrote(u)
    /\ UNCHANGED <<server, records, offset, worker, ends, owed, plan, noted>>

\* consume, once everything pending is written: the chat's cursor, then the
\* offset of the update stream.
ConsumeCursor ==
    /\ mode = "up" /\ phase = "consume"
    /\ cursor' = Advanced(Min(owed))
    /\ phase' = "offset"
    /\ UNCHANGED <<server, records, offset, worker, ends, pending, owed, plan, noted>>

ConsumeOffset ==
    /\ mode = "up" /\ phase = "offset"
    /\ offset' = Max({offset, Min(owed)})
    /\ owed' = owed \ {Min(owed)}
    /\ phase' = IF owed = {Min(owed)} THEN "idle" ELSE "consume"
    /\ UNCHANGED <<server, records, cursor, worker, ends, pending, plan, noted>>

-----------------------------------------------------------------------------
(* The end of a process and the start of the next.                         *)

Die ==
    /\ mode' = "down" /\ poll' = "gate" /\ asked' = 0 /\ seen' = {} /\ batch' = {}
    /\ highest' = 0 /\ fault' = FALSE /\ shown' = {}
    /\ phase' = "idle" /\ pending' = {} /\ owed' = {} /\ plan' = NoPlan

\* A kill, or a stop, which aborts the call in flight.
Kill ==
    /\ mode = "up" /\ kills < MaxKills
    /\ kills' = kills + 1
    /\ Die
    /\ UNCHANGED <<server, disk, noted, torn>>

\* The write of the record throws: the cursor is advanced all the same, and the
\* throw ends the process.
WriteThrows ==
    LET u == NextOf(pending) IN
    /\ mode = "up" /\ phase = "record" /\ feed[u].kind # "bad" /\ kills < MaxKills
    /\ kills' = kills + 1
    /\ cursor' = Advanced(u)
    /\ torn' = torn \cup {u}
    /\ Die
    /\ UNCHANGED <<server, records, offset, noted>>

Start ==
    /\ mode = "down"
    /\ mode' = "up"
    /\ UNCHANGED <<server, disk, worker, capture, torn, kills>>

-----------------------------------------------------------------------------

Answers  == \E S \in SUBSET Updates : Answer(S)
LongPoll == Ask \/ Answers \/ AskAgain \/ HandOver \/ CallFails \/ Retry
Capture  == TakeBatch \/ WriteRecord \/ Refuse \/ CaptureCursor \/ ConsumeCursor \/ ConsumeOffset
Ends     == Kill \/ WriteThrows \/ Start

Next == Arrive \/ LongPoll \/ HearFault \/ Capture \/ Ends

Spec == Init /\ [][Next]_vars

\* A server that is asked shows what it holds.
ShowsMore == \E S \in SUBSET Updates : ~(S \subseteq seen) /\ Answer(S)

\* The worker and the passes run as long as the process does, with the sleep of
\* a sweep between two passes for the worker's timers; a call ends, if only by
\* its timeout, and an album's window closes.
Runs ==
    /\ SF_vars(Ask) /\ SF_vars(Answers \/ CallFails) /\ SF_vars(Retry)
    /\ SF_vars(HandOver)
    /\ WF_vars(Capture) /\ WF_vars(HearFault) /\ WF_vars(Start)

Fairness == Runs /\ SF_vars(Answers) /\ SF_vars(ShowsMore)
FairSpec == Spec /\ Fairness

-----------------------------------------------------------------------------
(* Safety.                                                                 *)

\* Neither the server nor the worker has u any more.
Gone(u) == u <= forgotten /\ u \notin batch

\* An edit of another message of the chat, made in the same second, is on disk.
SharesItsSecond(u) ==
    IsEdit(u) /\ \E r \in records : /\ r.of # u /\ r.conv = feed[u].conv
                                    /\ feed[r.of].stamp = feed[u].stamp

\* An edit of the same message was numbered among those of another chat, so that
\* the message's revisions have a gap, and the count of them names one that is taken.
Miscounted(u) == \E v \in mixed : SameMessage(u, v)

\* "The offset is only ever advanced past a record that is on disk" (live.ts).
\* An update nobody holds any more is on disk, except: a service message, a
\* refused one, one whose own write threw, an edit met in one batch with a
\* message not yet written, one that shares its second with another, and one whose
\* message had an edit counted with another chat's.
PassedIsKept ==
    \A u \in Updates :
        Gone(u) /\ feed[u].kind \in {"text", "unknown", "edit"} =>
            Written(u) \/ u \in torn \/ u \in beside \/ SharesItsSecond(u) \/ Miscounted(u)

\* A chat's message cursor is what keeps a message from being read again, so no
\* readable message is at or below it unless it is on disk or its write threw.
CursorBehindRecords ==
    \A u \in 1..sent :
        feed[u].kind = "text" /\ feed[u].pos <= cursor[feed[u].conv].message =>
            Written(u) \/ u \in torn

\* countRevisions numbers the edits of a message so that a later revision is a
\* later edit, over batches, kills and repeats, the edits above excepted.
RevisionsInOrder ==
    \A r, s \in records :
        /\ r.conv = s.conv /\ r.msg = s.msg /\ r.rev < s.rev
        /\ {r.of, s.of} \cap beside = {} /\ ~Miscounted(r.of)
        => r.of <= s.of

\* An edit becomes one revision, and one more at most for each end of a process
\* that came between its file and its cursor.
EditsOnceBarKills ==
    \A u \in Updates : IsEdit(u) => Cardinality({r \in records : r.of = u}) <= 1 + kills

\* mergeRecords keeps the first body: a file is never rewritten with another
\* update's words, and no two updates hold one file.
FilesKeepTheirFirstBody ==
    [][/\ records \subseteq records'
       /\ \A r, s \in records' : r.conv = s.conv /\ r.msg = s.msg /\ r.rev = s.rev => r = s]_vars

\* An edit is a revision beside its message, in order, and over nothing.
EditsAreBeside == [](TypeOK /\ RevisionsInOrder /\ EditsOnceBarKills) /\ FilesKeepTheirFirstBody

\* A batch is everything this process was shown and the store has not passed,
\* whatever the last answer named, and nothing of it was handed over before: an
\* album seen whole is handed over whole, once.
HandedOnceWhole ==
    [][mode' = "up" /\ batch' # batch =>
          /\ {u \in shown : u > offset} \subseteq batch'
          /\ batch' \cap batch = {}]_vars

-----------------------------------------------------------------------------
(* Liveness.                                                               *)

\* The worker waits for the loop to consume the last update it handed over, and
\* the loop finds that one written already.
Stalled ==
    /\ mode = "up" /\ phase = "idle" /\ poll = "gate"
    /\ offset < highest /\ ~IsPending(highest)

\* Every update is consumed, unless the worker waits on what is written already.
ArrivedIsPassed == \A u \in Updates : u <= sent ~> (u <= offset \/ Stalled)

=============================================================================

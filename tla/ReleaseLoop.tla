----------------------------- MODULE ReleaseLoop -----------------------------
(***************************************************************************)
(* The release loop of one channel: runtime/loop.ts from a captured        *)
(* message to a closed release, with what a restart owes, the latch of a   *)
(* refused turn and the drain of runtime/index.ts.                         *)
(*                                                                         *)
(* A message is a number, its place in the order of arrival.  A release is *)
(* named by its first message, as releaseIdFor names it.  Every file write *)
(* is an action, so a kill can fall between any two.  The reply has the    *)
(* life ReplyPromise states.  The harness is Codex, release is quiet and   *)
(* the unit of work is the conversation.                                   *)
(***************************************************************************)
EXTENDS Naturals, FiniteSetsExt

CONSTANTS
    N,             \* messages are 1..N
    Conversations,
    Management,    \* the management conversations; the others are customers'
    ConvOf,        \* the conversation of each message
    Operators,     \* the messages an operator wrote
    MaxCrashes,    \* bound: kills, harness deaths and drains
    MaxHolds       \* bound: how often a required server is found down

Messages == 1..N

ASSUME LoopAssumption ==
    /\ N \in Nat /\ MaxCrashes \in Nat /\ MaxHolds \in Nat
    /\ Management \subseteq Conversations
    /\ ConvOf \in [Messages -> Conversations] /\ Operators \subseteq Messages

VARIABLES
    \* durable
    arrived,     \* messages 1..arrived are captured
    release,     \* release.turn_id of each message, 0 for none
    done,        \* messages whose release has completed_at
    parked,      \* messages of disposition parked
    refused,     \* messages of disposition permanent-error
    declared,    \* messages annotated no-reply-declared
    reply,       \* delivery.status of the reply written under each release
    shelved,     \* releases whose held reply is parked
    taught,      \* releases under which a teaching was recorded
    latched,
    \* volatile
    mode,        \* "down", "recovering" or "up"
    recovered,   \* releases recover() owes a turn
    phase,       \* where the pass is
    queue,       \* messages the pass chose and has not reached
    group,       \* messages of the release in progress
    todo,        \* messages the loop in progress has yet to write
    asking,      \* what the turn is for: "answer", "reply" or "teach"
    stopping,    \* a stop signal was taken
    restless,    \* conversations whose quiet_ms has not passed at this choice
    heldByOp,    \* conversations an operator's hold is on
    \* history
    excused,     \* releases whose turn answered NOTHING_TAUGHT
    stranded,    \* open releases nothing in this process will ask again
    crashes, holds

inbound == <<arrived, release, done, parked, refused, declared>>
outbox  == <<reply, shelved, taught>>
pass    == <<phase, queue, group, todo, asking>>
world   == <<restless, heldByOp, holds>>
life    == <<mode, recovered, stopping, latched, crashes>>
history == <<excused, stranded>>
vars    == <<inbound, outbox, pass, world, life, history>>

Phases == {"idle", "selecting", "releasing", "writing", "turn", "declaring", "parking",
           "checking", "closing", "failing", "delivering"}

Captured == 1..arrived

TypeOK ==
    /\ arrived \in 0..N /\ release \in [Messages -> 0..N]
    /\ done \subseteq Messages /\ parked \subseteq Messages /\ refused \subseteq Messages
    /\ declared \subseteq Messages
    /\ reply \in [Messages -> {"absent", "pending", "pending-teach-check",
                               "sent", "unknown", "failed"}]
    /\ shelved \subseteq Messages /\ taught \subseteq Messages /\ latched \in BOOLEAN
    /\ mode \in {"down", "recovering", "up"} /\ recovered \subseteq Messages
    /\ phase \in Phases /\ asking \in {"answer", "reply", "teach"}
    /\ queue \subseteq Messages /\ group \subseteq Messages /\ todo \subseteq Messages
    /\ stopping \in BOOLEAN
    /\ restless \subseteq Conversations /\ heldByOp \subseteq Conversations
    /\ excused \subseteq Messages /\ stranded \subseteq Messages
    /\ crashes \in 0..MaxCrashes /\ holds \in 0..MaxHolds

Init ==
    /\ arrived = 0 /\ release = [m \in Messages |-> 0]
    /\ done = {} /\ parked = {} /\ refused = {} /\ declared = {}
    /\ reply = [m \in Messages |-> "absent"] /\ shelved = {} /\ taught = {} /\ latched = FALSE
    /\ mode = "recovering" /\ recovered = {} /\ stopping = FALSE
    /\ phase = "idle" /\ queue = {} /\ group = {} /\ todo = {} /\ asking = "answer"
    /\ restless = {} /\ heldByOp = {} /\ holds = 0
    /\ excused = {} /\ stranded = {} /\ crashes = 0

\* The release in progress.
Current == IF release[Min(group)] = 0 THEN Min(group) ELSE release[Min(group)]

Open(m) == release[m] # 0 /\ m \notin done

\* An operator's hold applies in a customer's conversation and in no other.
HoldApplies(c) == c \notin Management

-----------------------------------------------------------------------------
(* The end of a process and the start of the next.                         *)

Die ==
    /\ mode' = "down" /\ recovered' = {} /\ stopping' = FALSE
    /\ phase' = "idle" /\ queue' = {} /\ group' = {} /\ todo' = {} /\ asking' = "answer"
    /\ stranded' = {}

\* A kill, or the harness child dying in a turn.
Crash ==
    /\ mode # "down" /\ crashes < MaxCrashes
    /\ crashes' = crashes + 1
    /\ Die
    /\ UNCHANGED <<inbound, outbox, world, latched, excused>>

\* SIGTERM: no new release starts, and the pass in progress ends the process.
Signal ==
    /\ mode = "up" /\ ~stopping /\ crashes < MaxCrashes
    /\ crashes' = crashes + 1
    /\ stopping' = TRUE
    /\ UNCHANGED <<inbound, outbox, pass, world, history, mode, recovered, latched>>

\* A latched agent does not start.
Start ==
    /\ mode = "down" /\ ~latched
    /\ mode' = "recovering"
    /\ UNCHANGED <<inbound, outbox, pass, world, history, recovered, stopping, latched, crashes>>

\* A person fixes the cause, and the next install clears the latch.
Install ==
    /\ mode = "down" /\ latched
    /\ latched' = FALSE
    /\ UNCHANGED <<inbound, outbox, pass, world, history, mode, recovered, stopping, crashes>>

-----------------------------------------------------------------------------
(* recover: what a restart owes, read from the store.                      *)

Answered(m) == Open(m) /\ reply[release[m]] = "sent"

RecoverClose(m) ==
    /\ mode = "recovering"
    /\ Answered(m)
    /\ done' = done \cup {m}
    /\ UNCHANGED <<arrived, release, parked, refused, declared, outbox, pass, world, life, history>>

\* Mutations of Owed: a reply waiting to be sent is asked for again; a release
\* with no reply at all is not owed one.
OwedPending == {release[m] : m \in {n \in Captured : Open(n) /\
                   reply[release[n]] \in {"absent", "failed", "pending", "pending-teach-check"}}}
OwedReplied == {release[m] : m \in {n \in Captured : Open(n) /\
                   reply[release[n]] \in {"failed", "pending-teach-check"}}}

\* An open release that no sent, unknown or pending reply accounts for.
Owed == {release[m] : m \in {n \in Captured : Open(n) /\
                   reply[release[n]] \in {"absent", "failed", "pending-teach-check"}}}

RecoverDone ==
    /\ mode = "recovering"
    /\ \A m \in Captured : ~Answered(m)
    /\ recovered' = Owed
    /\ mode' = "up"
    /\ UNCHANGED <<inbound, outbox, pass, world, history, stopping, latched, crashes>>

-----------------------------------------------------------------------------
(* A pass: capture, choose, release group by group, deliver.               *)

\* What is pending on the channel is captured; an operator's message sets a hold,
\* and a conversation that just spoke may not be quiet yet.
PassStart ==
    /\ mode = "up" /\ phase = "idle" /\ ~stopping
    /\ arrived' \in arrived..N
    /\ LET new == (arrived + 1)..arrived' IN
         /\ restless' \in SUBSET {ConvOf[m] : m \in new}
         /\ heldByOp' = heldByOp \cup {ConvOf[m] : m \in new \cap Operators}
    /\ phase' = "selecting"
    /\ UNCHANGED <<release, done, parked, refused, declared, outbox, queue, group, todo, asking,
                   holds, life, history>>

\* A required server or the provider proxy is found down.
FoundDown == holds < MaxHolds /\ holds' = holds + 1

\* Found before the choice: nothing is released this pass.
SelectHeld ==
    /\ phase = "selecting"
    /\ FoundDown
    /\ recovered' = {}
    /\ stranded' = stranded \cup recovered
    /\ phase' = "delivering" /\ restless' = {}
    /\ UNCHANGED <<inbound, outbox, queue, group, todo, asking, heldByOp,
                   mode, stopping, latched, crashes, excused>>

\* releaseDecision.
Releasable(m) ==
    /\ m \notin parked /\ release[m] = 0
    /\ HoldApplies(ConvOf[m]) => m \notin Operators /\ ConvOf[m] \notin heldByOp
    /\ ConvOf[m] \notin restless

Select ==
    /\ phase = "selecting"
    /\ queue' = {m \in Captured : Releasable(m) \/ (Open(m) /\ release[m] \in recovered)}
    /\ recovered' = {}
    /\ phase' = "releasing" /\ restless' = {}
    /\ UNCHANGED <<inbound, outbox, group, todo, asking, heldByOp, holds, history,
                   mode, stopping, latched, crashes>>

\* The messages released with m: its conversation's, or its open release's.
GroupOf(m) == {n \in queue : ConvOf[n] = ConvOf[m] /\ release[n] = release[m]}

NextGroup == GroupOf(Min(queue))

\* Found with the thread open: the group waits.  Found after a turn: all the groups
\* left wait.  A re-issued one waits for the next start.
GroupHeld ==
    /\ phase = "releasing" /\ queue # {} /\ ~stopping
    /\ FoundDown
    /\ queue' \in {queue \ NextGroup, {}}
    /\ stranded' = stranded \cup ({release[m] : m \in queue \ queue'} \ {0})
    /\ UNCHANGED <<inbound, outbox, phase, group, todo, asking, restless, heldByOp, life, excused>>

\* A re-issue goes to its turn; a fresh release is written on every message first.
GroupStart ==
    /\ phase = "releasing" /\ queue # {} /\ ~stopping
    /\ group' = NextGroup /\ queue' = queue \ NextGroup
    /\ asking' = "answer"
    /\ IF release[Min(queue)] = 0 THEN phase' = "writing" /\ todo' = NextGroup
                                    ELSE phase' = "turn"    /\ todo' = {}
    /\ UNCHANGED <<inbound, outbox, world, life, history>>

\* Mutation of WriteRelease: the turn starts with the first message written.
WriteReleaseFirst(m) ==
    /\ phase = "writing" /\ m = Min(todo)
    /\ release' = [release EXCEPT ![m] = Current]
    /\ todo' = {} /\ phase' = "turn"
    /\ UNCHANGED <<arrived, done, parked, refused, declared, outbox, queue, group, asking,
                   world, life, history>>

\* store.release on one message of the group.
WriteRelease(m) ==
    /\ phase = "writing" /\ todo # {} /\ m = Min(todo)
    /\ release' = [release EXCEPT ![m] = Current]
    /\ todo' = todo \ {m}
    /\ phase' = IF todo' = {} THEN "turn" ELSE "writing"
    /\ UNCHANGED <<arrived, done, parked, refused, declared, outbox, queue, group, asking,
                   world, life, history>>

-----------------------------------------------------------------------------
(* The turn.  The model calls the reply tool and the teaching tools in it. *)

\* Store.reply under the release id; a reply already there is answered, not repeated.
ModelReplies ==
    /\ phase = "turn"
    /\ reply[Current] = "absent"
    /\ reply' = [reply EXCEPT ![Current] =
                   IF ConvOf[Current] \in Management THEN "pending-teach-check" ELSE "pending"]
    /\ UNCHANGED <<inbound, shelved, taught, pass, world, life, history>>

\* remember or raise_change, which refuse every other conversation.
ModelTeaches ==
    /\ phase = "turn"
    /\ ConvOf[Current] \in Management /\ Current \notin taught
    /\ taught' = taught \cup {Current}
    /\ UNCHANGED <<inbound, reply, shelved, pass, world, life, history>>

Written == reply[Current] # "absent"

\* A turn for an answer that completed: ask once for the reply, where there is none.
TurnCompleted ==
    /\ phase = "turn" /\ asking = "answer"
    /\ IF Written THEN phase' = "checking" /\ UNCHANGED asking
                  ELSE asking' = "reply" /\ UNCHANGED phase
    /\ UNCHANGED <<inbound, outbox, queue, group, todo, world, life, history>>

\* The release stays open, for the next start.
TurnInterrupted ==
    /\ phase = "turn" /\ asking = "answer"
    /\ stranded' = stranded \cup {Current}
    /\ phase' = "releasing" /\ group' = {}
    /\ UNCHANGED <<inbound, outbox, queue, todo, asking, world, life, excused>>

TurnFailed ==
    /\ phase = "turn" /\ asking = "answer"
    /\ phase' = "failing" /\ todo' = group
    /\ UNCHANGED <<inbound, outbox, queue, group, asking, world, life, history>>

\* setDisposition and completeRelease, message by message, and then the latch.
FailMark(m) ==
    /\ phase = "failing" /\ todo # {} /\ m = Min(todo) /\ m \notin refused
    /\ refused' = refused \cup {m}
    /\ UNCHANGED <<arrived, release, done, parked, declared, outbox, pass, world, life, history>>

FailClose(m) ==
    /\ phase = "failing" /\ todo # {} /\ m = Min(todo) /\ m \in refused
    /\ done' = done \cup {m} /\ todo' = todo \ {m}
    /\ UNCHANGED <<arrived, release, parked, refused, declared, outbox,
                   phase, queue, group, asking, world, life, history>>

Latch ==
    /\ phase = "failing" /\ todo = {}
    /\ latched' = TRUE
    /\ Die
    /\ UNCHANGED <<inbound, outbox, world, crashes, excused>>

\* The follow-up for a reply has ended, whatever its status: the model replied, or
\* said NO_REPLY, or neither.
ReplyAsked ==
    /\ phase = "turn" /\ asking = "reply"
    /\ IF Written
         THEN phase' = "checking" /\ UNCHANGED todo
         ELSE phase' \in {"declaring", "parking"} /\ todo' = group
    /\ UNCHANGED <<inbound, outbox, queue, group, asking, world, life, history>>

\* Mutation of Declare: the outcome goes on the first message only.
DeclareFirst(m) ==
    /\ phase = "declaring" /\ m = Min(todo)
    /\ declared' = declared \cup {m}
    /\ todo' = {} /\ phase' = "checking"
    /\ UNCHANGED <<arrived, release, done, parked, refused, outbox,
                   queue, group, asking, world, life, history>>

\* markReplyOutcome.
Declare(m) ==
    /\ phase = "declaring" /\ m = Min(todo)
    /\ declared' = declared \cup {m}
    /\ todo' = todo \ {m}
    /\ phase' = IF todo' = {} THEN "checking" ELSE "declaring"
    /\ UNCHANGED <<arrived, release, done, parked, refused, outbox,
                   queue, group, asking, world, life, history>>

\* parkFailed with reason no-reply.
Park(m) ==
    /\ phase = "parking" /\ m = Min(todo)
    /\ parked' = parked \cup {m}
    /\ todo' = todo \ {m}
    /\ phase' = IF todo' = {} THEN "checking" ELSE "parking"
    /\ UNCHANGED <<arrived, release, done, refused, declared, outbox,
                   queue, group, asking, world, life, history>>

-----------------------------------------------------------------------------
(* ensureTeachCheck and the end of the release.                            *)

Held == reply[Current] = "pending-teach-check"

LetGo == reply' = [reply EXCEPT ![Current] = "pending"]

Close == phase' = "closing" /\ todo' = group

\* Mutation of TeachCheck: a held reply goes without a record behind it.
TeachCheckSkipped ==
    /\ phase = "checking"
    /\ IF Held THEN LetGo ELSE UNCHANGED reply
    /\ Close
    /\ UNCHANGED <<inbound, shelved, taught, queue, group, asking, world, life, history>>

\* A reply that is not held closes; a held one with a record behind it is let go;
\* any other is asked about once.
TeachCheck ==
    /\ phase = "checking"
    /\ \/ ~Held /\ Close /\ UNCHANGED <<reply, asking>>
       \/ Held /\ Current \in taught /\ LetGo /\ Close /\ UNCHANGED asking
       \/ /\ Held /\ Current \notin taught
          /\ phase' = "turn" /\ asking' = "teach"
          /\ UNCHANGED <<reply, todo>>
    /\ UNCHANGED <<inbound, shelved, taught, queue, group, world, life, history>>

\* The follow-up about teaching has ended: recorded, or said NOTHING_TAUGHT, or
\* neither, and then the reply is parked where it is.
TeachAsked ==
    /\ phase = "turn" /\ asking = "teach"
    /\ \/ Current \in taught /\ LetGo /\ UNCHANGED <<shelved, excused>>
       \/ Current \notin taught /\ LetGo
            /\ excused' = excused \cup {Current} /\ UNCHANGED shelved
       \/ Current \notin taught /\ shelved' = shelved \cup {Current}
            /\ UNCHANGED <<reply, excused>>
    /\ Close
    /\ UNCHANGED <<inbound, taught, queue, group, asking, world, life, stranded>>

CloseOne(m) ==
    /\ phase = "closing" /\ m = Min(todo)
    /\ done' = done \cup {m}
    /\ todo' = todo \ {m}
    /\ IF todo' = {} THEN phase' = "releasing" /\ group' = {} ELSE UNCHANGED <<phase, group>>
    /\ UNCHANGED <<arrived, release, parked, refused, declared, outbox,
                   queue, asking, world, life, history>>

\* The groups are done, or a stop was asked for: deliver what there is.
GroupsDone ==
    /\ phase = "releasing"
    /\ queue = {} \/ stopping
    /\ queue' = {} /\ phase' = "delivering"
    /\ UNCHANGED <<inbound, outbox, group, todo, asking, world, life, history>>

-----------------------------------------------------------------------------
(* deliver, with the transport's part left to ReplyFence.                  *)

DeliverOne(r, s) ==
    /\ phase = "delivering" /\ todo = {}
    /\ reply[r] = "pending"
    /\ reply' = [reply EXCEPT ![r] = s]
    /\ todo' = IF s = "sent" THEN {m \in Captured : Open(m) /\ release[m] = r} ELSE {}
    /\ UNCHANGED <<inbound, shelved, taught, phase, queue, group, asking, world, life, history>>

DeliverClose(m) ==
    /\ phase = "delivering" /\ todo # {} /\ m = Min(todo)
    /\ done' = done \cup {m} /\ todo' = todo \ {m}
    /\ UNCHANGED <<arrived, release, parked, refused, declared, outbox,
                   phase, queue, group, asking, world, life, history>>

DeliverDone ==
    /\ phase = "delivering" /\ todo = {}
    /\ \A r \in Messages : reply[r] # "pending"
    /\ ~stopping
    /\ phase' = "idle"
    /\ UNCHANGED <<inbound, outbox, queue, group, todo, asking, world, life, history>>

\* The drain: the pass has delivered, or none was running, and the process ends.
Drained ==
    /\ mode = "up" /\ stopping
    /\ \/ phase = "idle"
       \/ phase = "delivering" /\ todo = {} /\ \A r \in Messages : reply[r] # "pending"
    /\ Die
    /\ UNCHANGED <<inbound, outbox, world, latched, crashes, excused>>

-----------------------------------------------------------------------------

\* The hold's release_after_ms passes.  Only the choice reads the hold.
HoldExpires(c) ==
    /\ phase = "idle" /\ c \in heldByOp
    /\ heldByOp' = heldByOp \ {c}
    /\ UNCHANGED <<inbound, outbox, pass, restless, holds, life, history>>

-----------------------------------------------------------------------------

Recover == RecoverDone \/ \E m \in Messages : RecoverClose(m)

Release ==
    \/ SelectHeld \/ Select \/ GroupHeld \/ GroupStart \/ GroupsDone
    \/ \E m \in Messages : WriteRelease(m)

TurnEnds == TurnCompleted \/ TurnInterrupted \/ TurnFailed \/ ReplyAsked \/ TeachAsked

Settle ==
    \/ TeachCheck \/ Latch
    \/ \E m \in Messages : FailMark(m) \/ FailClose(m) \/ Declare(m) \/ Park(m) \/ CloseOne(m)

Deliver ==
    \/ DeliverDone \/ Drained
    \/ \E m \in Messages : DeliverClose(m)
    \/ \E r \in Messages : \E s \in {"sent", "unknown", "failed"} : DeliverOne(r, s)

Process == Start \/ Recover \/ PassStart \/ Release \/ TurnEnds \/ Settle \/ Deliver

Next ==
    \/ Process \/ ModelReplies \/ ModelTeaches \/ Crash \/ Signal \/ Install
    \/ \E c \in Conversations : HoldExpires(c)

Spec == Init /\ [][Next]_vars

(***************************************************************************)
(* Fairness.  The unit restarts the process and its loop never stops; a    *)
(* turn ends, by max_turn_ms if by nothing else.  No model need reply, no  *)
(* hold need expire and nobody need clear a latch.                         *)
(***************************************************************************)
Fairness == WF_vars(Process)

FairSpec == Spec /\ Fairness

-----------------------------------------------------------------------------
(* Properties.                                                             *)

\* README, nine rules, 1: a restart asks again only where there is no reply; never
\* a release that is done, sent, waiting to be sent or unknown.
AsksOnlyTheUnanswered ==
    [][phase # "turn" /\ phase' = "turn" =>
         /\ group' \cap done = {}
         /\ asking' = "answer" =>
              reply[Current'] \in {"absent", "failed", "pending-teach-check"}]_vars

\* The same rule, the other half: the release is on every message of the group
\* before the turn starts, so a restart finds it.
WrittenBeforeTurn ==
    phase = "turn" => \A m \in group : release[m] = Current

\* README, nine rules, 4: a reply held for the teach check goes only when something
\* was recorded under its release or the model said nothing was taught.
SpokenIsRecorded ==
    \A r \in Messages :
      ConvOf[r] \in Management /\ reply[r] \notin {"absent", "pending-teach-check"}
        => r \in taught \cup excused

\* README, nine rules, 4: a completed turn is not an answered message.  A release
\* closes with a reply, a reason for none, or a person named to look at it.
ClosedIsExplained ==
    \A m \in done :
      \/ reply[release[m]] \notin {"absent", "pending-teach-check"}
      \/ release[m] \in shelved
      \/ m \in declared \cup parked \cup refused

\* releaseDecision: no fresh release is written over an operator in a customer's
\* conversation, nor onto what is parked, however long after the choice.
ReleaseRespectsHold ==
    [][\A m \in Messages : release[m] = 0 /\ release'[m] # 0 =>
         /\ m \notin parked
         /\ HoldApplies(ConvOf[m]) => m \notin Operators /\ ConvOf[m] \notin heldByOp]_vars

\* A release is written for a reason: nobody has answered yet, and nobody holds it.
ReleasesWithReason == []TypeOK /\ AsksOnlyTheUnanswered /\ ReleaseRespectsHold

\* A message that arrived for the agent ends: its release closes, or it is left to
\* a person (a parked message, an unknown or failed send, an operator's hold, a
\* latch) or to the next start (an interrupted turn, a re-issue that met a hold).
ForAgent(m) == m <= arrived /\ ~(m \in Operators /\ HoldApplies(ConvOf[m]))

LeftFor(m) ==
    \/ release[m] # 0 /\ (release[m] \in stranded \/ reply[release[m]] \in {"unknown", "failed"})
    \/ release[m] = 0 /\ HoldApplies(ConvOf[m]) /\ ConvOf[m] \in heldByOp

MessagesEnd ==
    \A m \in Messages :
      ForAgent(m) ~> m \in done \cup parked \/ LeftFor(m) \/ latched

\* parkFailed: the record is never released again.
ParkedStaysParked == phase = "turn" => group \cap parked = {}
=============================================================================

----------------------------- MODULE ReplyFence -----------------------------
(***************************************************************************)
(* The reply fence: stream/store.ts (reply, settleDelivery and the marks), *)
(* the deliver pass and the first half of recover in runtime/loop.ts, and  *)
(* the records receipt of a claimed send in runtime/reply-tool.ts.         *)
(*                                                                         *)
(* One reply is two files: the outbound record under captures/ and the     *)
(* request file under outbound/requests/.  Each is written whole (temp,    *)
(* fsync, rename), the record first, so a crash can fall between them.     *)
(* The process is one event loop: what it does between two awaits is one   *)
(* action, and the reply tool's calls interleave at the awaits.            *)
(***************************************************************************)
EXTENDS Naturals

CONSTANTS
    Requests,    \* request ids the reply tool is called with
    Managed,     \* those of the management conversation: written held
    Claimed,     \* those written with delivery.action_claim
    Tearable,    \* those whose two reply() writes a crash may separate
    Channels,    \* the channels of this agent, one release loop each
    ChannelOf,   \* the channel each request's conversation arrived on
    MaxCrashes,  \* bound: how often the process is killed
    NoRequest, NoChannel

ASSUME RequestAssumption ==
    /\ Managed \subseteq Requests /\ Claimed \subseteq Requests /\ Tearable \subseteq Requests
    /\ NoRequest \notin Requests
ASSUME ChannelAssumption ==
    /\ ChannelOf \in [Requests -> Channels]
    /\ NoChannel \notin Channels
ASSUME CrashAssumption == MaxCrashes \in Nat

VARIABLES
    \* durable: the store, and what the records service holds
    record,      \* delivery.status of the outbound record; "absent" when no file
    request,     \* status of the request file; "absent" when no file
    reconcile,   \* records annotated action_reconcile_required
    booked,      \* records annotated action_recorded_at
    moves,       \* claims the records service finished
    \* volatile: the process
    mode,        \* "down", "recovering" or "up"
    stage,       \* where the deliver pass is: "idle", "booking" or "sending"
    deliverer,   \* the channel whose loop runs the deliver pass
    queue,       \* what the deliver pass read as pending and has yet to send
    inFlight,    \* the request handed to the transport and not answered
    noting,      \* the claimed send whose receipt is being posted
    \* history, read by the properties only
    accepted,    \* copies the channel took: none, one, or 2 for several
    fate,        \* of the copy in flight: "open", or "taken" by the channel
    handed,      \* requests this process life handed to a transport
    cut,         \* requests in flight when the process was killed
    torn,        \* requests whose reply() the kill separated
    letGo,       \* held replies the teach check let go
    crashes

store    == <<record, request, reconcile, booked, moves>>
process  == <<mode, stage, deliverer, queue, inFlight, noting>>
history  == <<accepted, fate, handed, cut, torn, letGo, crashes>>
vars     == <<store, process, history>>

Status  == {"absent", "pending", "pending-teach-check", "sent", "unknown", "failed"}
Settled == {"sent", "unknown", "failed"}

OneMore(n) == IF n = 0 THEN 1 ELSE 2

TypeOK ==
    /\ record \in [Requests -> Status] /\ request \in [Requests -> Status]
    /\ reconcile \subseteq Requests /\ booked \subseteq Requests /\ moves \subseteq Requests
    /\ mode \in {"down", "recovering", "up"}
    /\ stage \in {"idle", "booking", "sending"}
    /\ deliverer \in Channels \cup {NoChannel}
    /\ queue \subseteq Requests
    /\ inFlight \in Requests \cup {NoRequest} /\ noting \in Requests \cup {NoRequest}
    /\ accepted \in [Requests -> 0..2] /\ fate \in {"open", "taken"}
    /\ handed \subseteq Requests /\ cut \subseteq Requests /\ torn \subseteq Requests
    /\ letGo \subseteq Requests
    /\ crashes \in 0..MaxCrashes

Init ==
    /\ record = [r \in Requests |-> "absent"] /\ request = [r \in Requests |-> "absent"]
    /\ reconcile = {} /\ booked = {} /\ moves = {}
    /\ mode = "recovering" /\ stage = "idle" /\ deliverer = NoChannel
    /\ queue = {} /\ inFlight = NoRequest /\ noting = NoRequest
    /\ accepted = [r \in Requests |-> 0] /\ fate = "open"
    /\ handed = {} /\ cut = {} /\ torn = {} /\ letGo = {} /\ crashes = 0

-----------------------------------------------------------------------------
(* The end of the process, by a kill or by a fault nothing catches.        *)

Die ==
    /\ mode' = "down" /\ stage' = "idle" /\ deliverer' = NoChannel
    /\ queue' = {} /\ inFlight' = NoRequest /\ noting' = NoRequest
    /\ fate' = "open" /\ handed' = {}

\* A kill.  Nobody learns the fate of a send that was in flight.
Killed ==
    /\ crashes < MaxCrashes
    /\ crashes' = crashes + 1
    /\ cut' = cut \cup ({inFlight} \ {NoRequest})
    /\ Die

\* A kill between two actions.
Crash ==
    /\ mode # "down"
    /\ Killed
    /\ UNCHANGED <<store, accepted, torn, letGo>>

Start ==
    /\ mode = "down"
    /\ mode' = "recovering"
    /\ UNCHANGED <<store, stage, deliverer, queue, inFlight, noting, history>>

-----------------------------------------------------------------------------
(* Store.reply and Store.settleDelivery.                                   *)

WrittenAt(r) == IF r \in Managed THEN "pending-teach-check" ELSE "pending"

\* Sent, pending, held and unknown fence the request id; failed does not.
Unfenced(r) == request[r] \in {"absent", "failed"}

\* Store.capture: a record already on disk is merged, and its delivery stays.
Captured(r) ==
    record' = IF record[r] = "absent" THEN [record EXCEPT ![r] = WrittenAt(r)] ELSE record

Reply(r) ==
    /\ mode = "up"
    /\ Unfenced(r)
    /\ Captured(r)
    /\ request' = [request EXCEPT ![r] = WrittenAt(r)]
    /\ UNCHANGED <<reconcile, booked, moves, process, history>>

\* The kill lands after the capture and before the request file.
ReplyTorn(r) ==
    /\ mode = "up"
    /\ r \in Tearable
    /\ Unfenced(r)
    /\ Captured(r)
    /\ Killed
    /\ torn' = torn \cup {r}
    /\ UNCHANGED <<request, reconcile, booked, moves, accepted, letGo>>

Settle(r, s) ==
    /\ request[r] # "absent"
    /\ record'  = [record EXCEPT ![r] = s]
    /\ request' = [request EXCEPT ![r] = s]

\* The kill lands between settleDelivery's two writes.
SettleCut(r, s) ==
    /\ request[r] # "absent"
    /\ record' = [record EXCEPT ![r] = s]
    /\ Killed
    /\ UNCHANGED request

\* REQUEST_UNKNOWN: settleDelivery throws before it writes, and the fault ends
\* the process.
SettleThrows(r) == request[r] = "absent" /\ Die /\ UNCHANGED <<record, request>>

-----------------------------------------------------------------------------
(* The teach check's hold let go: releaseHeldReply.  A release turn and a  *)
(* deliver pass are never in progress together.                            *)

Holding(r) == mode = "up" /\ stage = "idle" /\ record[r] = "pending-teach-check"

LetGo(r) ==
    /\ Holding(r)
    /\ request[r] = "pending-teach-check"
    /\ Settle(r, "pending")
    /\ letGo' = letGo \cup {r}
    /\ UNCHANGED <<reconcile, booked, moves, process, accepted, fate, handed, cut, torn, crashes>>

LetGoCut(r) ==
    /\ Holding(r)
    /\ request[r] = "pending-teach-check"
    /\ SettleCut(r, "pending")
    /\ letGo' = letGo \cup {r}
    /\ UNCHANGED <<reconcile, booked, moves, accepted, torn>>

\* REPLY_NOT_HELD: the request file does not say held, and the fault ends the
\* process.
LetGoThrows(r) ==
    /\ Holding(r)
    /\ request[r] # "pending-teach-check"
    /\ Die
    /\ UNCHANGED <<store, accepted, cut, torn, letGo, crashes>>

-----------------------------------------------------------------------------
(* The deliver pass of one channel's loop.  It reads the whole store.      *)

DeliverStart(c) ==
    /\ mode = "up" /\ stage = "idle"
    /\ stage' = "booking" /\ deliverer' = c
    /\ UNCHANGED <<store, mode, queue, inFlight, noting, history>>

\* Mutation of Unbooked: an unknown send is booked too.
UnbookedDoubtful == {r \in Claimed : record[r] \in {"sent", "unknown"} /\ r \notin booked}

\* Sent under a claim whose receipt is not known to be recorded.
Unbooked == {r \in Claimed : record[r] = "sent" /\ r \notin booked}

NoteStart(r) ==
    /\ stage = "booking" /\ noting = NoRequest
    /\ r \in Unbooked
    /\ noting' = r
    /\ UNCHANGED <<store, mode, stage, deliverer, queue, inFlight, history>>

\* The post is answered and the record is annotated in the same turn of the loop.
NoteDone ==
    /\ noting # NoRequest
    /\ moves' = moves \cup {noting} /\ booked' = booked \cup {noting}
    /\ noting' = NoRequest
    /\ UNCHANGED <<record, request, reconcile, mode, stage, deliverer, queue, inFlight, history>>

\* The service does not answer, having recorded the receipt or not: the fault
\* ends the process.
NoteThrows ==
    /\ noting # NoRequest
    /\ moves' \in {moves, moves \cup {noting}}
    /\ Die
    /\ UNCHANGED <<record, request, reconcile, booked, accepted, cut, torn, letGo, crashes>>

\* The receipt is recorded and the process is killed before the annotation.
NoteCut ==
    /\ noting # NoRequest
    /\ moves' = moves \cup {noting}
    /\ Killed
    /\ UNCHANGED <<record, request, reconcile, booked, accepted, torn, letGo>>

\* Mutations of Pending: held or unknown replies are sent like pending ones.
PendingOrHeld    == {r \in Requests : record[r] \in {"pending", "pending-teach-check"}}
PendingOrUnknown == {r \in Requests : record[r] \in {"pending", "unknown"}}

\* What is pending now is what this pass sends, in the order the directories are
\* read: any order.
Pending == {r \in Requests : record[r] = "pending"}

\* Mutation of BeginSending: the pass reads the fence, not the record.
BeginSendingByFence ==
    /\ stage = "booking" /\ noting = NoRequest
    /\ Unbooked = {}
    /\ stage' = "sending"
    /\ queue' = {r \in Pending : request[r] = "pending"}
    /\ UNCHANGED <<store, mode, deliverer, inFlight, noting, history>>

BeginSending ==
    /\ stage = "booking" /\ noting = NoRequest
    /\ Unbooked = {}
    /\ stage' = "sending"
    /\ queue' = Pending
    /\ UNCHANGED <<store, mode, deliverer, inFlight, noting, history>>

SendStart(r) ==
    /\ stage = "sending" /\ inFlight = NoRequest /\ noting = NoRequest
    /\ r \in queue
    /\ inFlight' = r
    /\ handed' = handed \cup {r}
    /\ UNCHANGED <<store, mode, stage, deliverer, queue, noting,
                   accepted, fate, cut, torn, letGo, crashes>>

\* The channel takes the copy it was handed, or never does.
ChannelTakes ==
    /\ inFlight # NoRequest /\ fate = "open"
    /\ fate' = "taken"
    /\ accepted' = [accepted EXCEPT ![inFlight] = OneMore(@)]
    /\ UNCHANGED <<store, process, handed, cut, torn, letGo, crashes>>

\* Mutation of Answer: the answer is booked without reading it.
AnswerUnread(s) == inFlight # NoRequest

\* The transport's answer.  A throw is booked unknown; a status that is neither
\* sent nor unknown is booked failed, and failed says no copy was taken.
Answer(s) ==
    /\ inFlight # NoRequest
    /\ s = "sent"   => fate = "taken"
    /\ s = "failed" => fate = "open"

SendDone(s) ==
    /\ Answer(s)
    /\ Settle(inFlight, s)
    /\ queue' = queue \ {inFlight}
    /\ inFlight' = NoRequest /\ fate' = "open"
    /\ noting' = IF s = "sent" /\ inFlight \in Claimed THEN inFlight ELSE NoRequest
    /\ UNCHANGED <<reconcile, booked, moves, mode, stage, deliverer,
                   accepted, handed, cut, torn, letGo, crashes>>

SendCut(s) ==
    /\ Answer(s)
    /\ SettleCut(inFlight, s)
    /\ UNCHANGED <<reconcile, booked, moves, accepted, torn, letGo>>

SendThrows(s) ==
    /\ Answer(s)
    /\ SettleThrows(inFlight)
    /\ UNCHANGED <<reconcile, booked, moves, accepted, cut, torn, letGo, crashes>>

DeliverDone ==
    /\ stage = "sending" /\ inFlight = NoRequest /\ noting = NoRequest
    /\ queue = {}
    /\ stage' = "idle" /\ deliverer' = NoChannel
    /\ UNCHANGED <<store, mode, queue, inFlight, noting, history>>

-----------------------------------------------------------------------------
(* recover: a claimed send that a dead process left pending is unknown.    *)

Doubtful == Pending \cap Claimed

RecoverClaimed(r) ==
    /\ mode = "recovering"
    /\ r \in Doubtful
    /\ Settle(r, "unknown")
    /\ reconcile' = reconcile \cup {r}
    /\ UNCHANGED <<booked, moves, process, history>>

\* The kill lands after the record, or after the request, and before the
\* annotation.
RecoverCut(r) ==
    /\ mode = "recovering"
    /\ r \in Doubtful
    /\ SettleCut(r, "unknown") \/ (Settle(r, "unknown") /\ Killed)
    /\ UNCHANGED <<reconcile, booked, moves, accepted, torn, letGo>>

RecoverThrows(r) ==
    /\ mode = "recovering"
    /\ r \in Doubtful
    /\ SettleThrows(r)
    /\ UNCHANGED <<reconcile, booked, moves, accepted, cut, torn, letGo, crashes>>

\* Mutation of RecoverDone: a restart leaves claimed sends pending.
RecoverDoneEarly ==
    /\ mode = "recovering"
    /\ mode' = "up"
    /\ UNCHANGED <<store, stage, deliverer, queue, inFlight, noting, history>>

RecoverDone ==
    /\ mode = "recovering"
    /\ Doubtful = {}
    /\ mode' = "up"
    /\ UNCHANGED <<store, stage, deliverer, queue, inFlight, noting, history>>

-----------------------------------------------------------------------------

Recover == RecoverDone \/ \E r \in Requests : RecoverClaimed(r) \/ RecoverThrows(r)

Deliver ==
    \/ \E c \in Channels : DeliverStart(c)
    \/ \E r \in Requests : NoteStart(r) \/ SendStart(r)
    \/ BeginSending \/ DeliverDone \/ NoteDone
    \/ \E s \in Settled : SendDone(s) \/ SendThrows(s)

\* The model's calls, and the turn's end.
Turn == \E r \in Requests : Reply(r) \/ LetGo(r) \/ LetGoThrows(r)

Kill ==
    \/ Crash \/ NoteCut
    \/ \E r \in Requests : ReplyTorn(r) \/ LetGoCut(r) \/ RecoverCut(r)
    \/ \E s \in Settled : SendCut(s)

Next == Start \/ Recover \/ Deliver \/ ChannelTakes \/ Turn \/ NoteThrows \/ Kill

Spec == Init /\ [][Next]_vars

(***************************************************************************)
(* Fairness.  The unit restarts the process and its loop sweeps for ever,  *)
(* so the process is never idle while a step of its own is enabled.  The   *)
(* model need not reply, and no kill is owed.  The records service may     *)
(* fail any one post; a post that is tried for ever is answered once.      *)
(***************************************************************************)
Fairness == WF_vars(Start \/ Recover \/ Deliver) /\ SF_vars(NoteDone)

FairSpec == Spec /\ Fairness

-----------------------------------------------------------------------------
(* Properties.                                                             *)

\* README rule 6: a reply held for the teach check cannot leave the box by any
\* path, including a restart.  Only the teach check's release lets it go.
HeldStays == \A r \in Managed : (accepted[r] > 0 \/ r \in handed) => r \in letGo

\* The fence against a second copy: the channel takes one reply twice only when
\* a kill caught the send in flight or separated the reply's two writes.
TwiceOnlyAfterCrash == \A r \in Requests : accepted[r] = 2 => r \in cut \cup torn

\* A claimed send is never repeated, whatever crashes: recover turns the doubtful
\* one into unknown before any deliver pass can read it.
ClaimedNeverTwice == \A r \in Claimed : accepted[r] < 2

\* What may reach a transport, and how often: nothing that is held, and no copy
\* beside the first but of what a kill left in doubt, a claimed send excepted.
CopiesAreFenced == HeldStays /\ TwiceOnlyAfterCrash /\ ClaimedNeverTwice

\* The records service hears of a send only when the record says sent and the
\* channel did take it, and a note of the receipt is never ahead of the receipt.
ReceiptsAreTrue ==
    /\ booked \subseteq moves
    /\ \A r \in moves : record[r] = "sent" /\ accepted[r] > 0

\* The record is written before the fence, so the fence never tells the model of
\* an outcome the record does not show, nor fences a reply that is not there.
FenceFollowsRecord ==
    \A r \in Requests : /\ request[r] # "absent" => record[r] # "absent"
                        /\ request[r] \in Settled => record[r] = request[r]

\* What the records service and the model are told is what the record shows.
ToldIsTrue == ReceiptsAreTrue /\ FenceFollowsRecord

\* An answered reply is closed: no retry, restart or late settle reopens it or
\* lets the channel take another copy.  In particular unknown is never retried.
SettledStays ==
    [][\A r \in Requests : record[r] \in Settled =>
         record'[r] = record[r] /\ accepted'[r] = accepted[r]]_vars

\* One process life hands a reply to the transport at most once, across passes,
\* channels, retries and the reply tool's calls in between.
OncePerLife ==
    [][\A r \in Requests : inFlight' = r /\ inFlight # r => r \notin handed]_vars

\* An answer is final, within a life and over the lives.
AnswerIsFinal == SettledStays /\ OncePerLife

\* The fence keeps the promise of ReplyPromise.
Promise == INSTANCE ReplyPromise WITH status <- record, copies <- accepted
KeepsPromise == Promise!Spec

\* A reply that was written leaves the box or is settled for a person; it is
\* never stuck between passes or restarts, unless a kill tore a reply in two.
RepliesSettle ==
    \A r \in Requests : record[r] = "pending" ~> record[r] \in Settled \/ torn # {}

\* A claimed send that went out is booked with the records service, whatever
\* post of the receipt fails and whenever the process dies around it.
ReceiptsRecorded ==
    \A r \in Claimed : record[r] = "sent" ~> r \in booked \/ torn # {}

\* Every reply ends, and what it claimed is booked, as long as passes are made: a
\* turn that failed for good latches the agent (exit 78, loop.ts:1531), and a channel
\* whose polls fail is held and delivers nothing (loop.ts:1987).  Neither end is here;
\* ReleaseLoop has the first and Sweep the second.
EveryReplyEnds == RepliesSettle /\ ReceiptsRecorded

-----------------------------------------------------------------------------
(* The inductive invariant.                                                *)

\* Where the process is, its volatile state says so.
ProcessShape ==
    /\ mode # "up" => stage = "idle" /\ handed = {}
    /\ stage = "idle" => queue = {} /\ noting = NoRequest
    /\ stage = "booking" => queue = {}
    /\ inFlight # NoRequest => inFlight \in queue /\ noting = NoRequest
    /\ noting # NoRequest => record[noting] = "sent" /\ noting \in Claimed

\* What a deliver pass has read as pending is still pending.
QueueIsPending == queue \subseteq Pending

\* Only a torn reply has a record and no request file.
LostFence == \A r \in Requests : record[r] # "absent" /\ request[r] = "absent" => r \in torn

\* Copies were taken only where the record lets them be.
Accounted(r) ==
    /\ record[r] \in {"absent", "pending-teach-check"} => accepted[r] = 0
    /\ record[r] = "pending" /\ accepted[r] > 0 =>
          r \in cut \cup torn \/ (inFlight = r /\ fate = "taken" /\ accepted[r] = 1)
    /\ record[r] = "sent" => accepted[r] > 0
    /\ r \in handed => inFlight = r \/ record[r] \in Settled

CopiesAreAccounted == \A r \in Requests : Accounted(r)

\* A copy taken in flight has been counted.
FlightIsCounted == fate = "taken" => inFlight # NoRequest /\ accepted[inFlight] > 0

\* A claimed reply that may have reached the channel is not pending while passes run.
Certain(r) ==
    record[r] = "pending" =>
      /\ accepted[r] < 2
      /\ mode = "up" /\ accepted[r] > 0 => inFlight = r /\ fate = "taken"

ClaimedIsCertain == \A r \in Claimed : Certain(r)

\* A managed reply past its hold was let go, and no other reply is ever held.
HoldIsManaged ==
    \A r \in Requests :
      /\ r \in Managed => record[r] \in {"absent", "pending-teach-check"} \/ r \in letGo
      /\ r \notin Managed => record[r] # "pending-teach-check"

\* The flag a restart leaves for reconciliation sits on an unknown send.
FlagMeansUnknown == \A r \in reconcile : record[r] = "unknown"

Inv ==
    /\ TypeOK /\ ProcessShape /\ QueueIsPending /\ LostFence /\ CopiesAreAccounted
    /\ FlightIsCounted /\ ClaimedIsCertain /\ HoldIsManaged /\ FlagMeansUnknown
    /\ TwiceOnlyAfterCrash /\ ClaimedNeverTwice /\ ReceiptsAreTrue /\ FenceFollowsRecord
=============================================================================

-------------------------------- MODULE Jobs --------------------------------
(***************************************************************************)
(* The gate of the records service: a client tool may change a client       *)
(* system only under a claim on the job's track, and the job moves only on  *)
(* what was observed (records/job-tools.ts, records/sop-definition.ts,      *)
(* tools/lib/action-check.ts).  One job.  The tools are processes of their  *)
(* own, which die and start again under another process generation; the     *)
(* service is a process too, and each of its transactions is atomic on the  *)
(* job's row, which every one of them locks.                                *)
(***************************************************************************)
EXTENDS Integers, FiniteSets, SequencesExt

CONSTANTS Sop,        \* step |-> [via, moves, requires, actions], as installed
          Initial,    \* track |-> its initial position
          Places,     \* track |-> its positions
          Tools,      \* the client tools
          Senders,    \* those that keep what they did over a restart: carbon-send
          Causes,     \* the ids of messages and timer events: negative integers
          MaxClaims,  \* bound: claims and reservations
          MaxDeaths,  \* bound: deaths of tools
          MaxKills    \* bound: kills of the records service

(* What validateSop requires of the parts the gate reads.                   *)
ValidSop ==
    /\ DOMAIN Initial = DOMAIN Places /\ \A track \in DOMAIN Initial : Initial[track] \in Places[track]
    /\ \A s \in DOMAIN Sop :
        /\ Sop[s].actions # {} => Sop[s].via = "agent_action"
        /\ \A r \in Sop[s].requires : r[1] \in DOMAIN Places /\ r[2] \in Places[r[1]]
        /\ \A i \in DOMAIN Sop[s].moves : LET move == Sop[s].moves[i] IN
            /\ move.track \in DOMAIN Places
            /\ move.from # {} /\ move.from \subseteq Places[move.track] /\ move.to \in Places[move.track]
ASSUME SopAssumption == ValidSop
(* A step's moves are a list.                                              *)
ASSUME MovesAssumption == \A s \in DOMAIN Sop : Sop[s].moves \in Seq(Range(Sop[s].moves))
ASSUME CausesAssumption == Causes \subseteq {-n : n \in 1..9} /\ Senders \subseteq Tools

VARIABLES
    positions, \* track |-> position
    pending,   \* key |-> the claim on it, or NoClaim; a key is a track or a step
    events,    \* the job's log: [step, kind, source]
    receipts,  \* carbon.action_receipts: [id, step, source]
    collected, \* carbon.collected_events: [source, channel]
    next,      \* the id of the next claim
    generation,\* per tool: its process generation
    alive,     \* the tools whose process lives
    at,        \* per tool: where its call is
    mine,      \* per tool: the claim its call is about
    request,   \* per tool: its request inside the service, or NoRequest
    effects,   \* the claims whose effect the client system took
    absent,    \* the claims a reconciliation let go
    displaced, \* the claims an observation that was not theirs let go
    deaths, kills

job == <<positions, pending, events, receipts, collected, next>>
tools == <<generation, alive, at, mine, request>>
vars == <<job, tools, effects, absent, displaced, deaths, kills>>

NoClaim == [id |-> 0]
NoRequest == [stage |-> "none"]
NoOwner == [tool |-> "nobody", generation |-> 0]
Tracks == DOMAIN Initial
Keys == Tracks \cup DOMAIN Sop

----------------------------------------------------------------------------
(* The SOP's rules.                                                         *)

Primary(step) == IF Sop[step].moves = <<>> THEN step ELSE Sop[step].moves[1].track
From(step) == UNION {Sop[step].moves[i].from :
    i \in {j \in DOMAIN Sop[step].moves : Sop[step].moves[j].track = Primary(step)}}

Required(step, where) == \A r \in Sop[step].requires : where[r[1]] = r[2]

Legal(step, where) ==
    /\ Required(step, where)
    /\ Sop[step].moves # <<>> => where[Primary(step)] \in From(step)

(* Each track takes the first move that fits it; the primary track takes    *)
(* the last of its moves when none does.                                    *)
MovesOf(step, track) == SelectSeq(Sop[step].moves, LAMBDA move : move.track = track)
Fitting(step, track, where) ==
    SelectSeq(MovesOf(step, track), LAMBDA move : where[track] \in move.from)

Applied(step, where) == [track \in Tracks |->
    LET fitting == Fitting(step, track, where) IN
    CASE fitting # <<>> -> fitting[1].to
      [] fitting = <<>> /\ track = Primary(step) -> Last(MovesOf(step, track)).to
      [] OTHER -> where[track]]

----------------------------------------------------------------------------
(* The service's transactions.                                              *)

Init ==
    /\ positions = Initial /\ pending = [k \in Keys |-> NoClaim]
    /\ events = {} /\ receipts = {} /\ collected = {} /\ next = 1
    /\ generation = [t \in Tools |-> 1] /\ alive = Tools
    /\ at = [t \in Tools |-> "idle"] /\ mine = [t \in Tools |-> NoClaim]
    /\ request = [t \in Tools |-> NoRequest]
    /\ effects = {} /\ absent = {} /\ displaced = {} /\ deaths = 0 /\ kills = 0

Lives(owner) ==
    /\ owner # NoOwner
    /\ owner.tool \in alive /\ generation[owner.tool] = owner.generation

Holder(id) == {k \in Keys : pending[k].id = id}
Observed(step, source) == [step |-> step, kind |-> "observation", source |-> source] \in events
Intended(step, source) == [step |-> step, kind |-> "intent", source |-> source]

Claims(step, source, state, owner) ==
    /\ next <= MaxClaims
    /\ Legal(step, positions) /\ pending[Primary(step)] = NoClaim
    /\ pending' = [pending EXCEPT ![Primary(step)] =
         [id |-> next, step |-> step, source |-> source, state |-> state, owner |-> owner]]
    /\ events' = events \cup {Intended(step, source)}
    /\ next' = next + 1
    /\ UNCHANGED <<positions, receipts, collected>>

(* The model calls job_record: an intent reserves the track in nobody's     *)
(* name.                                                                    *)
RecordIntent(step, source) ==
    /\ Sop[step].actions # {}
    /\ Intended(step, source) \notin events
    /\ Claims(step, source, "reserved", NoOwner)
    /\ UNCHANGED <<tools, effects, absent, displaced, deaths, kills>>

Trusted(step, source) == \E k \in Keys :
    /\ pending[k] # NoClaim /\ pending[k].step = step
    /\ [id |-> pending[k].id, step |-> step, source |-> source] \in receipts

Verified(step, source) == IF Sop[step].via = "agent_action" THEN Trusted(step, source)
                          ELSE [source |-> source, channel |-> Sop[step].via] \in collected

(* What job_record does with an observation it may record: the tracks that  *)
(* change place lose their claim, whoever holds it.                         *)
Observe(step, source) ==
    LET now == Applied(step, positions)
        moved == {track \in Tracks : now[track] # positions[track]}
        gone == {pending[k].id : k \in {k \in moved : pending[k] # NoClaim}}
        own == {r.id : r \in {r \in receipts : r.step = step /\ r.source = source}} IN
    /\ positions' = now
    /\ pending' = [k \in Keys |-> IF k \in moved THEN NoClaim ELSE pending[k]]
    /\ events' = events \cup {[step |-> step, kind |-> "observation", source |-> source]}
    /\ displaced' = displaced \cup (gone \ (IF Sop[step].via = "agent_action" THEN own ELSE {}))
    /\ UNCHANGED <<receipts, collected, next>>

(* The model, or the loop for a captured message, records what a channel    *)
(* brought; the model may also try to claim what no tool did.               *)
RecordObservation(step, source) ==
    /\ ~Observed(step, source) /\ Verified(step, source)
    /\ Observe(step, source)
    /\ UNCHANGED <<tools, effects, absent, deaths, kills>>

Collect(source, channel) ==
    /\ collected' = collected \cup {[source |-> source, channel |-> channel]}
    /\ collected' # collected
    /\ UNCHANGED <<positions, pending, events, receipts, next, tools, effects, absent, displaced, deaths, kills>>

----------------------------------------------------------------------------
(* A client tool: claim, change the client system, finish.                  *)

Go(t, where) == at' = [at EXCEPT ![t] = where]
Free(t) == t \in alive /\ request[t] = NoRequest
Rest == UNCHANGED <<effects, absent, displaced, deaths, kills>>

Begin(t, step, source) ==
    /\ Free(t) /\ at[t] = "idle" /\ t \in Sop[step].actions
    /\ Go(t, "begin")
    /\ request' = [request EXCEPT ![t] = [stage |-> "begin", step |-> step, source |-> source]]
    /\ UNCHANGED <<job, generation, alive, mine>> /\ Rest

(* action_begin asks for the owner's generation before its transaction.     *)
OwnerChecked(t) ==
    /\ request[t].stage = "begin"
    /\ IF t \in alive
         THEN /\ request' = [request EXCEPT ![t] = [request[t] EXCEPT !.stage = "claim"]]
              /\ UNCHANGED at
         ELSE request' = [request EXCEPT ![t] = NoRequest] /\ UNCHANGED at
    /\ UNCHANGED <<job, generation, alive, mine>> /\ Rest

Claim(t) ==
    LET ask == request[t] IN
    /\ ask.stage = "claim"
    /\ Claims(ask.step, ask.source, "claimed", [tool |-> t, generation |-> generation[t]])
    /\ IF t \in alive THEN /\ mine' = [mine EXCEPT ![t] = pending'[Primary(ask.step)]]
                           /\ Go(t, "act")
                      ELSE UNCHANGED <<mine, at>>
    /\ request' = [request EXCEPT ![t] = NoRequest]
    /\ UNCHANGED <<generation, alive>> /\ Rest

Refused(t) ==
    LET ask == request[t] IN
    /\ ask.stage = "claim"
    /\ ~Legal(ask.step, positions) \/ pending[Primary(ask.step)] # NoClaim \/ next > MaxClaims
    /\ request' = [request EXCEPT ![t] = NoRequest]
    /\ at' = [at EXCEPT ![t] = IF t \in alive THEN "idle" ELSE @]
    /\ UNCHANGED <<job, generation, alive, mine>> /\ Rest

(* The client system takes the change and the tool knows it, or the tool    *)
(* does not know whether it did.                                            *)
Act(t) ==
    /\ t \in alive /\ at[t] = "act"
    /\ effects' = effects \cup {mine[t].id}
    /\ Go(t, "finish") \/ (Go(t, "idle") /\ t \notin Senders)
    /\ UNCHANGED <<job, generation, alive, mine, request, absent, displaced, deaths, kills>>

ActFails(t) ==
    /\ t \in alive /\ at[t] = "act" /\ Go(t, "idle")
    /\ UNCHANGED <<job, generation, alive, mine, request>> /\ Rest

(* What a tool names as the source of its observation: carbon-send the hash *)
(* of the message it sent, another the event it acted on.                   *)
Proof(t) == IF t \in Senders THEN mine[t].id ELSE mine[t].source

Receipt(t) == [id |-> mine[t].id, step |-> mine[t].step, source |-> Proof(t)]

Finish(t) ==
    /\ Free(t) /\ at[t] = "finish"
    /\ request' = [request EXCEPT ![t] = [stage |-> "receipt"]]
    /\ UNCHANGED <<job, generation, alive, at, mine>> /\ Rest

(* A slip: a repeat of a finish that was done is refused.                   *)
PostReceiptOnce(t) ==
    /\ request[t].stage = "receipt"
    /\ \E k \in Holder(mine[t].id) : pending[k].step = mine[t].step /\ pending[k].state = "claimed"
    /\ receipts' = receipts \cup {Receipt(t)}
    /\ request' = [request EXCEPT ![t] = [stage |-> "observe"]]
    /\ UNCHANGED <<positions, pending, events, collected, next, generation, alive, at, mine>> /\ Rest

(* The first transaction of action_finish.                                  *)
PostReceipt(t) ==
    /\ request[t].stage = "receipt"
    /\ \/ /\ \E k \in Holder(mine[t].id) : pending[k].step = mine[t].step /\ pending[k].state = "claimed"
          /\ receipts' = IF \E r \in receipts : r.id = mine[t].id THEN receipts
                         ELSE receipts \cup {Receipt(t)}
       \/ Holder(mine[t].id) = {} /\ Receipt(t) \in receipts /\ UNCHANGED receipts
    /\ request' = [request EXCEPT ![t] = [stage |-> "observe"]]
    /\ UNCHANGED <<positions, pending, events, collected, next, generation, alive, at, mine>> /\ Rest

NoClaimToFinish(t) ==
    /\ request[t].stage = "receipt"
    /\ Holder(mine[t].id) = {} /\ Receipt(t) \notin receipts
    /\ request' = [request EXCEPT ![t] = NoRequest]
    /\ at' = [at EXCEPT ![t] = IF t \in Senders THEN @ ELSE "idle"]
    /\ UNCHANGED <<job, generation, alive, mine>> /\ Rest

(* The second: job_record.                                                  *)
ObserveOwn(t) ==
    LET seen == Observed(mine[t].step, Proof(t))
        trusted == Trusted(mine[t].step, Proof(t)) IN
    /\ request[t].stage = "observe"
    /\ IF seen \/ ~trusted THEN UNCHANGED <<job, displaced>>
       ELSE Observe(mine[t].step, Proof(t))
    /\ request' = [request EXCEPT ![t] = NoRequest]
    /\ at' = [at EXCEPT ![t] = IF seen \/ trusted \/ t \notin Senders THEN "idle" ELSE @]
    /\ UNCHANGED <<generation, alive, mine, effects, absent, deaths, kills>>

----------------------------------------------------------------------------
(* Reconciliation: a tool takes over a claim whose owner is gone.           *)

(* A slip: the owner is asked after only by the transaction that lets go.   *)
ReadyAnyOwner(t, k) ==
    /\ Free(t) /\ at[t] = "idle"
    /\ pending[k] # NoClaim /\ pending[k].owner # NoOwner
    /\ mine' = [mine EXCEPT ![t] = pending[k]] /\ Go(t, "read")
    /\ UNCHANGED <<job, generation, alive, request>> /\ Rest

Ready(t, k) ==
    /\ Free(t) /\ at[t] = "idle"
    /\ pending[k] # NoClaim /\ pending[k].owner # NoOwner /\ ~Lives(pending[k].owner)
    /\ mine' = [mine EXCEPT ![t] = pending[k]] /\ Go(t, "read")
    /\ UNCHANGED <<job, generation, alive, request>> /\ Rest

ReadEffect(t) ==
    /\ t \in alive /\ at[t] = "read"
    /\ Go(t, IF mine[t].id \in effects THEN "idle" ELSE "absent")
    /\ UNCHANGED <<job, generation, alive, mine, request>> /\ Rest

ReconcileAbsent(t) ==
    /\ t \in alive /\ at[t] = "absent" /\ Go(t, "idle")
    /\ IF \E k \in Holder(mine[t].id) : ~Lives(pending[k].owner)
         THEN /\ pending' = [k \in Keys |-> IF pending[k].id = mine[t].id THEN NoClaim ELSE pending[k]]
              /\ events' = events \cup {[step |-> mine[t].step, kind |-> "reconciled_absent", source |-> mine[t].id]}
              /\ absent' = absent \cup {mine[t].id}
         ELSE UNCHANGED <<pending, events, absent>>
    /\ UNCHANGED <<positions, receipts, collected, next, generation, alive, mine, request, effects, displaced, deaths, kills>>

----------------------------------------------------------------------------
(* Deaths.  A request a dead tool made goes on in the service; carbon-send  *)
(* takes up what it sent from its files.                                    *)

Die(t) ==
    /\ t \in alive /\ deaths < MaxDeaths /\ deaths' = deaths + 1
    /\ alive' = alive \ {t}
    /\ at' = [at EXCEPT ![t] = IF t \in Senders /\ @ = "finish" THEN @ ELSE "idle"]
    /\ UNCHANGED <<job, generation, mine, request, effects, absent, displaced, kills>>

Restart(t) ==
    /\ t \notin alive /\ request[t] = NoRequest
    /\ alive' = alive \cup {t} /\ generation' = [generation EXCEPT ![t] = @ + 1]
    /\ UNCHANGED <<job, at, mine, request>> /\ Rest

(* Each request in the service is lost, and each tool that waited is told   *)
(* the service did not answer, though its transaction may be done.          *)
Kill ==
    /\ kills < MaxKills /\ kills' = kills + 1
    /\ \/ UNCHANGED <<job, displaced>>
       \/ \E t \in alive : /\ request[t].stage = "claim" /\ UNCHANGED displaced
                           /\ Claims(request[t].step, request[t].source, "claimed",
                                     [tool |-> t, generation |-> generation[t]])
       \/ \E t \in alive : /\ request[t].stage = "observe"
                           /\ ~Observed(mine[t].step, Proof(t)) /\ Trusted(mine[t].step, Proof(t))
                           /\ Observe(mine[t].step, Proof(t))
    /\ request' = [t \in Tools |-> NoRequest]
    /\ at' = [t \in Tools |-> IF request[t] # NoRequest /\ ~(t \in Senders /\ at[t] = "finish")
                              THEN "idle" ELSE at[t]]
    /\ UNCHANGED <<generation, alive, mine, effects, absent, deaths>>

Channels == {Sop[s].via : s \in DOMAIN Sop} \ {"agent_action"}

Service(t) == OwnerChecked(t) \/ Claim(t) \/ Refused(t) \/ PostReceipt(t) \/ NoClaimToFinish(t) \/ ObserveOwn(t)

Next ==
    \/ \E step \in DOMAIN Sop, source \in Causes : RecordIntent(step, source) \/ RecordObservation(step, source)
    \/ \E source \in Causes, channel \in Channels : Collect(source, channel)
    \/ \E t \in Tools :
        \/ \E step \in DOMAIN Sop, source \in Causes : Begin(t, step, source)
        \/ Service(t) \/ Act(t) \/ ActFails(t) \/ Finish(t)
        \/ (\E k \in Keys : Ready(t, k)) \/ ReadEffect(t) \/ ReconcileAbsent(t)
        \/ Die(t) \/ Restart(t)
    \/ Kill

(* The service answers, and carbon-send posts what it sent at every pass of *)
(* its loop, and is started again by its unit.                              *)
Fairness == \A t \in Tools :
    /\ WF_vars(Service(t)) /\ WF_vars(Restart(t)) /\ WF_vars(Finish(t))

Spec == Init /\ [][Next]_vars /\ Fairness

----------------------------------------------------------------------------
(* What the gate promises.                                                  *)

(* An effect the client system took is never let go as absent: its claim    *)
(* waits, or has its receipt, or an observation of another channel moved    *)
(* the track under it.  job-tools.ts:254 lets a claim go only of a process  *)
(* that is gone, and action-check.ts:123 reads the effect after that.       *)
NoEffectForgotten == \A id \in effects :
    \/ Holder(id) # {} \/ id \in displaced
    \/ \E r \in receipts : r.id = id

(* Two tools never stand before one track's effect at once, unless an       *)
(* observation moved the track under the first of them.                     *)
OneActorPerTrack == \A t, u \in Tools :
    (t # u /\ at[t] = "act" /\ at[u] = "act" /\ Primary(mine[t].step) = Primary(mine[u].step))
        => mine[t].id \in displaced \/ mine[u].id \in displaced

(* A job moves on an agent's step only after that step's own effect: what   *)
(* the log observes of a tool has an effect of the same claim, and no two   *)
(* observations share one.                                                  *)
MovesAreBacked == \A e \in events :
    (e.kind = "observation" /\ Sop[e.step].via = "agent_action")
        => \E r \in receipts : r.step = e.step /\ r.source = e.source /\ r.id \in effects

(* The gate of a job: one actor before an effect, none of them forgotten,   *)
(* and no move without one.                                                 *)
GateHolds == NoEffectForgotten /\ OneActorPerTrack /\ MovesAreBacked

(* What carbon-send sent under a claim is in the job's log in the end, over *)
(* deaths and a kill between the two transactions of action_finish, unless  *)
(* the track was moved under it.                                            *)
SentIsRecorded == \A t \in Senders :
    (at[t] = "finish") ~> (at[t] = "idle" \/ mine[t].id \in displaced)
=============================================================================

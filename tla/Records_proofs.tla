---------------------------- MODULE Records_proofs ---------------------------
(***************************************************************************)
(* The records service, for any runtimes, releases, tools, claims and       *)
(* causes, every SOP and any deaths and kills: the gate of a job holds, and  *)
(* the turn that the service has let in is the current one.                  *)
(***************************************************************************)
EXTENDS MCRecords, TLAPS, SequenceTheorems

-----------------------------------------------------------------------------
(* The gate. The inductive invariant.                                      *)

Owners == [tool : Tools, generation : Nat \ {0}] \cup {NoOwner}
ClaimSet == [id : Nat \ {0}, step : DOMAIN Sop, source : Causes,
             state : {"reserved", "claimed"}, owner : Owners]
Asks == [stage : {"begin", "claim"}, step : DOMAIN Sop, source : Causes]
Posts == [stage : {"none", "receipt", "observe"}]

Shapes ==
    /\ pending \in [Keys -> ClaimSet \cup {NoClaim}]
    /\ mine \in [Tools -> ClaimSet \cup {NoClaim}]
    /\ request \in [Tools -> Asks \cup Posts]
    /\ at \in [Tools -> {"idle", "begin", "act", "finish", "read", "absent"}]
    /\ generation \in [Tools -> Nat \ {0}]
    /\ alive \subseteq Tools
    /\ next \in Nat \ {0}

\* The claims that wait and those the tools hold a copy of.
Known == {pending[k] : k \in Keys} \cup {mine[t] : t \in Tools}

\* A claim is known by its id, and its owner is a process of now or before.
KnownById ==
    /\ \A c \in Known : c.id < next
    /\ \A c, d \in Known : c.id = d.id => c = d
    /\ \A c \in Known : c # NoClaim /\ c.owner # NoOwner =>
           c.owner.generation <= generation[c.owner.tool]

\* A claim waits at the primary track of its step.
AtItsTrack == \A k \in Keys : pending[k] # NoClaim => k = Primary(pending[k].step)

EffectsAreNumbered == \A id \in effects : id \in Nat \ {0} /\ id < next

Own(t) == [tool |-> t, generation |-> generation[t]]

\* Before its effect a tool lives, and its claim waits or was moved away.
ActorsHold == \A t \in Tools : at[t] = "act" =>
    /\ t \in alive /\ mine[t] # NoClaim /\ mine[t].owner = Own(t)
    /\ mine[t].id \notin effects
    /\ (\E k \in Keys : pending[k].id = mine[t].id) \/ mine[t].id \in displaced

\* Who finishes has had its effect, and so has every receipt.
FinishersActed ==
    /\ \A t \in Tools : at[t] = "finish" => mine[t].id \in effects
    /\ \A t \in Tools : request[t].stage \in {"receipt", "observe"} => mine[t].id \in effects
    /\ \A r \in receipts : r.id \in effects

\* Who reconciles does it for an owner that is gone, and who found no effect is right.
ReadersAreLate == \A t \in Tools : at[t] \in {"read", "absent"} =>
    /\ mine[t] # NoClaim /\ mine[t].owner # NoOwner /\ ~Lives(mine[t].owner)
    /\ at[t] = "absent" => mine[t].id \notin effects

JobsInv ==
    /\ Shapes /\ KnownById /\ AtItsTrack /\ EffectsAreNumbered
    /\ ActorsHold /\ FinishersActed /\ ReadersAreLate
    /\ NoEffectForgotten /\ MovesAreBacked

-----------------------------------------------------------------------------
(* Lemmas.                                                                 *)

\* A step's primary track is a key of the job, as validateSop sees to.
LEMMA PrimaryIsKey == ASSUME NEW s \in DOMAIN Sop PROVE Primary(s) \in Keys
<1>1. CASE Sop[s].moves = <<>>
  BY <1>1 DEF Primary, Keys
<1>2. CASE Sop[s].moves # <<>>
  <2>1. 1 \in DOMAIN Sop[s].moves
    <3> DEFINE m == Sop[s].moves
    <3>1. m \in Seq(Range(m))
      BY MovesAssumption
    <3> HIDE DEF m
    <3>2. m # <<>> => 1 \in DOMAIN m
      BY <3>1
    <3> QED
      BY <1>2, <3>2 DEF m
  <2>2. Sop[s].moves[1].track \in DOMAIN Places /\ DOMAIN Initial = DOMAIN Places
    BY <2>1, SopAssumption DEF ValidSop
  <2> QED
    BY <1>2, <2>2 DEF Primary, Keys, Tracks
<1> QED
  BY <1>1, <1>2

\* What is known has the shape of a claim.
LEMMA KnownClaims == ASSUME Shapes, NEW c \in Known
                     PROVE  c = NoClaim \/ c \in ClaimSet
BY DEF Shapes, Known

\* An owner that is gone stays gone while no dead process takes its number again.
LEMMA GoneStaysGone ==
  ASSUME Shapes, Shapes', KnownById, NEW c \in Known, c # NoClaim, c.owner # NoOwner, ~Lives(c.owner),
         \A t \in Tools : generation'[t] >= generation[t],
         \A t \in alive' : t \in alive \/ generation'[t] > generation[t]
  PROVE  ~Lives(c.owner)'
<1>1. c.owner \in [tool : Tools, generation : Nat \ {0}]
  BY KnownClaims DEF ClaimSet, Owners
<1>2. c.owner.generation <= generation[c.owner.tool]
  BY DEF KnownById
<1>3. c.owner.tool \notin alive \/ generation[c.owner.tool] # c.owner.generation
  BY <1>1 DEF Lives
<1> DEFINE o == c.owner.tool
           g == c.owner.generation
<1>4. o \in Tools /\ g \in Nat /\ g <= generation[o] /\ (o \notin alive \/ generation[o] # g)
  BY <1>1, <1>2, <1>3
<1>5. generation[o] \in Nat /\ generation'[o] \in Nat
  BY <1>4 DEF Shapes
<1> HIDE DEF o, g
<1>6. ~(o \in alive' /\ generation'[o] = g)
  BY <1>4, <1>5
<1> QED
  BY <1>6 DEF Lives, o, g

\* Whose claim a tool before its effect holds is alive: the claim of no late reader.
LEMMA ActorIsNotLate ==
  ASSUME JobsInv, NEW t \in Tools, at[t] = "act"
  PROVE  mine[t] # NoClaim /\ mine[t].owner # NoOwner /\ Lives(mine[t].owner)
<1>1. t \in alive /\ mine[t] # NoClaim /\ mine[t].owner = Own(t)
  BY DEF JobsInv, ActorsHold
<1>2. generation[t] \in Nat \ {0}
  BY DEF JobsInv, Shapes
<1>3. Own(t) # NoOwner
  BY <1>2 DEF Own, NoOwner
<1>4. Lives(Own(t))
  BY <1>1, <1>3 DEF Lives, Own
<1> QED
  BY <1>1, <1>3, <1>4

\* A step that touches no claim and takes no effect.
Untouched == UNCHANGED <<pending, mine, effects, displaced, next>>

\* Who goes on without a claim's change goes where the invariant lets it.
Goes == \A t \in Tools :
    /\ at'[t] \in {"idle", "begin", at[t]} \/ (at[t] = "read" /\ at'[t] = "absent" /\ mine[t].id \notin effects)
    /\ at'[t] = "act" => t \in alive' /\ generation'[t] = generation[t]
    /\ request'[t].stage \in {"receipt", "observe"} =>
         request[t].stage \in {"receipt", "observe"} \/ at[t] = "finish"
    /\ generation'[t] >= generation[t]
    /\ t \in alive' => t \in alive \/ generation'[t] > generation[t]

\* Such a step keeps the invariant, with a receipt of an effect it may add.
LEMMA StillKeeps ==
  ASSUME JobsInv, Shapes', Untouched, Goes, UNCHANGED events,
         receipts \subseteq receipts', \A r \in receipts' : r \in receipts \/ r.id \in effects
  PROVE  JobsInv'
<1> USE DEF JobsInv
<1>1. Known' = Known
  BY DEF Untouched, Known
<1>2. KnownById'
  <2>1. ASSUME NEW c \in Known, c # NoClaim, c.owner # NoOwner
        PROVE  c.owner.generation <= generation'[c.owner.tool]
    <3>1. c.owner \in [tool : Tools, generation : Nat \ {0}]
      BY <2>1, KnownClaims DEF ClaimSet, Owners
    <3> DEFINE o == c.owner.tool
               g == c.owner.generation
    <3>2. o \in Tools /\ g \in Nat
      BY <3>1
    <3>3. g <= generation[o]
      BY <2>1 DEF KnownById
    <3>4. generation[o] \in Nat /\ generation'[o] \in Nat /\ generation'[o] >= generation[o]
      BY <3>2 DEF Shapes, Goes
    <3> HIDE DEF o, g
    <3>5. g <= generation'[o]
      BY <3>2, <3>3, <3>4
    <3> QED
      BY <3>5 DEF o, g
  <2> QED
    BY <1>1, <2>1 DEF KnownById, Untouched
<1>3. AtItsTrack' /\ EffectsAreNumbered'
  BY DEF AtItsTrack, EffectsAreNumbered, Untouched
<1>4. ActorsHold'
  BY DEF ActorsHold, Goes, Untouched, Own
<1>5. FinishersActed'
  BY DEF FinishersActed, Goes, Untouched
<1>6. ReadersAreLate'
  <2> SUFFICES ASSUME NEW t \in Tools, at'[t] \in {"read", "absent"}
               PROVE  /\ mine[t] # NoClaim /\ mine[t].owner # NoOwner /\ ~Lives(mine[t].owner)'
                      /\ at'[t] = "absent" => mine[t].id \notin effects
    BY DEF ReadersAreLate, Untouched, Lives
  <2>1. at[t] \in {"read", "absent"} /\ (at'[t] = at[t] \/ mine[t].id \notin effects)
    BY DEF Goes
  <2>2. mine[t] # NoClaim /\ mine[t].owner # NoOwner /\ ~Lives(mine[t].owner)
    BY <2>1 DEF ReadersAreLate
  <2>3. mine[t] \in Known
    BY DEF Known
  <2>4. /\ \A u \in Tools : generation'[u] >= generation[u]
        /\ \A u \in alive' : u \in alive \/ generation'[u] > generation[u]
    BY DEF Goes, Shapes
  <2>5. ~Lives(mine[t].owner)'
    <3> DEFINE c == mine[t]
    <3>1. c \in Known /\ c # NoClaim /\ c.owner # NoOwner /\ ~Lives(c.owner)
      BY <2>2, <2>3
    <3>2. c' = c
      BY DEF Untouched
    <3> QED
      BY <3>1, <3>2, <2>4, GoneStaysGone DEF Lives
  <2> QED
    BY <2>1, <2>2, <2>5 DEF ReadersAreLate
<1>7. NoEffectForgotten'
  BY DEF NoEffectForgotten, Holder, Untouched
<1>8. MovesAreBacked'
  BY DEF MovesAreBacked, Untouched
<1> QED
  BY <1>2, <1>3, <1>4, <1>5, <1>6, <1>7, <1>8

\* No copy or claim that was not known before: ids go on naming claims.
LEMMA FewerKnown ==
  ASSUME JobsInv, Known' \subseteq Known \cup {NoClaim}, UNCHANGED <<next, generation>>
  PROVE  KnownById'
<1> USE DEF JobsInv
<1>1. NoClaim.id < next /\ \A c \in Known : c.id = NoClaim.id => c = NoClaim
  BY KnownClaims DEF NoClaim, Shapes, ClaimSet
<1>2. ASSUME NEW c \in Known', NEW d \in Known', c.id = d.id PROVE c = d
  BY <1>1, <1>2 DEF KnownById
<1>3. ASSUME NEW c \in Known' PROVE c.id < next
  BY <1>1 DEF KnownById
<1>4. ASSUME NEW c \in Known', c # NoClaim, c.owner # NoOwner
      PROVE  c.owner.generation <= generation[c.owner.tool]
  BY <1>4 DEF KnownById
<1> QED
  BY <1>2, <1>3, <1>4 DEF KnownById

-----------------------------------------------------------------------------
(* Observations.                                                           *)

\* What an observation lets go of is displaced or has its receipt.
LEMMA Observing ==
  ASSUME Shapes, NEW step, NEW source, Observe(step, source)
  PROVE  /\ pending' \in [Keys -> ClaimSet \cup {NoClaim}]
         /\ \A k \in Keys : \/ pending'[k] = pending[k]
                            \/ /\ pending'[k] = NoClaim
                               /\ \/ pending[k] = NoClaim
                                  \/ pending[k].id \in displaced'
                                  \/ \E r \in receipts : r.id = pending[k].id
         /\ displaced \subseteq displaced'
         /\ events' = events \cup {[step |-> step, kind |-> "observation", source |-> source]}
         /\ UNCHANGED <<receipts, next>>
<1> DEFINE now == Applied(step, positions)
           moved == {track \in Tracks : now[track] # positions[track]}
           gone == {pending[k].id : k \in {k \in moved : pending[k] # NoClaim}}
           own == {r.id : r \in {r \in receipts : r.step = step /\ r.source = source}}
<1>1. pending' = [k \in Keys |-> IF k \in moved THEN NoClaim ELSE pending[k]]
  BY DEF Observe
<1>2. displaced' = displaced \cup (gone \ (IF Sop[step].via = "agent_action" THEN own ELSE {}))
  BY DEF Observe
<1>3. \A id \in own : \E r \in receipts : r.id = id
  OBVIOUS
<1>4. \A k \in moved : pending[k] # NoClaim => pending[k].id \in gone
  OBVIOUS
<1>5. /\ events' = events \cup {[step |-> step, kind |-> "observation", source |-> source]}
      /\ UNCHANGED <<receipts, next>>
  BY DEF Observe
<1> HIDE DEF now, moved, gone, own
<1>6. pending' \in [Keys -> ClaimSet \cup {NoClaim}]
  BY <1>1 DEF Shapes
<1>7. ASSUME NEW k \in Keys
      PROVE  \/ pending'[k] = pending[k]
             \/ /\ pending'[k] = NoClaim
                /\ \/ pending[k] = NoClaim
                   \/ pending[k].id \in displaced'
                   \/ \E r \in receipts : r.id = pending[k].id
  <2>1. CASE k \notin moved
    BY <1>1, <2>1
  <2>2. CASE k \in moved
    <3>1. pending'[k] = NoClaim
      BY <1>1, <2>2
    <3>2. pending[k] # NoClaim => pending[k].id \in displaced' \/ pending[k].id \in own
      BY <1>2, <1>4, <2>2
    <3> QED
      BY <1>3, <3>1, <3>2
  <2> QED
    BY <2>1, <2>2
<1> QED
  BY <1>2, <1>5, <1>6, <1>7

\* An observation that is trusted keeps the invariant, whoever makes it.
LEMMA ObserveKeeps ==
  ASSUME JobsInv, Shapes', NEW step, NEW source, Observe(step, source),
         Sop[step].via = "agent_action" => Trusted(step, source),
         UNCHANGED <<mine, effects, generation, alive>>,
         \A t \in Tools : at'[t] \in {"idle", at[t]} /\ request'[t] \in {NoRequest, request[t]}
  PROVE  JobsInv'
<1> USE DEF JobsInv
<1> DEFINE letgo(k) == \/ pending[k] = NoClaim
                       \/ pending[k].id \in displaced'
                       \/ \E r \in receipts : r.id = pending[k].id
<1>1. /\ \A k \in Keys : pending'[k] = pending[k] \/ (pending'[k] = NoClaim /\ letgo(k))
      /\ displaced \subseteq displaced'
      /\ events' = events \cup {[step |-> step, kind |-> "observation", source |-> source]}
      /\ UNCHANGED <<receipts, next>>
  BY Observing
<1>2. KnownById'
  <2>1. Known' \subseteq Known \cup {NoClaim}
    BY <1>1 DEF Known
  <2> QED
    BY <1>1, <2>1, FewerKnown
<1>3. AtItsTrack'
  BY <1>1 DEF AtItsTrack
<1>4. EffectsAreNumbered'
  BY <1>1 DEF EffectsAreNumbered
<1>5. ActorsHold'
  <2> SUFFICES ASSUME NEW t \in Tools, at'[t] = "act"
               PROVE  /\ t \in alive /\ mine[t] # NoClaim /\ mine[t].owner = Own(t)
                      /\ mine[t].id \notin effects
                      /\ (\E k \in Keys : pending'[k].id = mine[t].id) \/ mine[t].id \in displaced'
    BY DEF ActorsHold, Own
  <2>1. /\ t \in alive /\ mine[t] # NoClaim /\ mine[t].owner = Own(t)
        /\ mine[t].id \notin effects
        /\ (\E k \in Keys : pending[k].id = mine[t].id) \/ mine[t].id \in displaced
    BY DEF ActorsHold
  <2>2. ASSUME NEW k \in Keys, pending[k].id = mine[t].id
        PROVE  pending'[k].id = mine[t].id \/ mine[t].id \in displaced'
    <3>1. pending[k] # NoClaim
      BY <2>1, <2>2 DEF KnownById, Known
    <3>2. ~(\E r \in receipts : r.id = mine[t].id)
      BY <2>1 DEF FinishersActed
    <3> QED
      BY <1>1, <2>2, <3>1, <3>2
  <2> QED
    BY <1>1, <2>1, <2>2
<1>6. FinishersActed'
  BY <1>1 DEF FinishersActed, NoRequest
<1>7. ReadersAreLate'
  BY DEF ReadersAreLate, Lives
<1>8. NoEffectForgotten'
  <2> SUFFICES ASSUME NEW id \in effects
               PROVE  \/ \E k \in Keys : pending'[k].id = id
                      \/ id \in displaced'
                      \/ \E r \in receipts : r.id = id
    BY <1>1 DEF NoEffectForgotten, Holder
  <2>1. ASSUME NEW k \in Keys, pending[k].id = id
        PROVE  pending'[k].id = id \/ id \in displaced' \/ \E r \in receipts : r.id = id
    <3>1. pending[k] # NoClaim
      BY <2>1 DEF EffectsAreNumbered, NoClaim
    <3> QED
      BY <1>1, <2>1, <3>1
  <2> QED
    BY <1>1, <2>1 DEF NoEffectForgotten, Holder
<1>9. MovesAreBacked'
  <2> SUFFICES ASSUME NEW e \in events', e.kind = "observation", Sop[e.step].via = "agent_action"
               PROVE  \E r \in receipts : r.step = e.step /\ r.source = e.source /\ r.id \in effects
    BY <1>1 DEF MovesAreBacked
  <2>1. CASE e \in events
    BY <2>1 DEF MovesAreBacked
  <2>2. CASE e = [step |-> step, kind |-> "observation", source |-> source]
    <3>1. Trusted(step, source)
      BY <2>2
    <3>2. PICK k \in Keys : [id |-> pending[k].id, step |-> step, source |-> source] \in receipts
      BY <3>1 DEF Trusted
    <3> DEFINE r == [id |-> pending[k].id, step |-> step, source |-> source]
    <3>3. r \in receipts /\ r.id \in effects
      BY <3>2 DEF FinishersActed
    <3> QED
      BY <2>2, <3>3
  <2> QED
    BY <1>1, <2>1, <2>2
<1> QED
  BY <1>2, <1>3, <1>4, <1>5, <1>6, <1>7, <1>8, <1>9

-----------------------------------------------------------------------------
(* Claims.                                                                 *)

\* A claim, by the model or by a tool that is told of it or is not, keeps the invariant.
LEMMA ClaimKeeps ==
  ASSUME JobsInv, NEW step \in DOMAIN Sop, NEW source \in Causes, NEW state \in {"reserved", "claimed"},
         NEW owner \in Owners, owner # NoOwner => owner.generation <= generation[owner.tool],
         Claims(step, source, state, owner),
         UNCHANGED <<effects, displaced, generation, alive>>,
         mine' \in [Tools -> ClaimSet \cup {NoClaim}],
         request' \in [Tools -> Asks \cup Posts],
         at' \in [Tools -> {"idle", "begin", "act", "finish", "read", "absent"}],
         \A t \in Tools : request'[t] \in {NoRequest, request[t]},
         \A t \in Tools : \/ mine'[t] = mine[t] /\ at'[t] \in {"idle", at[t]}
                          \/ /\ mine'[t] = pending'[Primary(step)] /\ at'[t] = "act"
                             /\ t \in alive /\ owner = Own(t) /\ request'[t] = NoRequest
  PROVE  JobsInv'
<1> USE DEF JobsInv
<1> DEFINE key == Primary(step)
           new == [id |-> next, step |-> step, source |-> source, state |-> state, owner |-> owner]
<1>1. key \in Keys
  BY PrimaryIsKey
<1>2. /\ pending[key] = NoClaim /\ pending' = [pending EXCEPT ![key] = new]
      /\ events' = events \cup {Intended(step, source)}
      /\ next' = next + 1 /\ receipts' = receipts
  BY DEF Claims
<1>3. new \in ClaimSet /\ new.id = next /\ new.owner = owner /\ new.step = step /\ new # NoClaim
  <2>1. next \in Nat \ {0}
    BY DEF Shapes
  <2>2. new.id = next
    OBVIOUS
  <2>3. new # NoClaim
    BY <2>1, <2>2 DEF NoClaim
  <2> QED
    BY <2>1, <2>3 DEF ClaimSet
<1> HIDE DEF key, new
<1>4. pending'[key] = new /\ \A k \in Keys : k # key => pending'[k] = pending[k]
  BY <1>1, <1>2 DEF Shapes
<1>5. Shapes'
  <2>1. pending' \in [Keys -> ClaimSet \cup {NoClaim}]
    BY <1>1, <1>2, <1>3 DEF Shapes
  <2>2. next' \in Nat \ {0}
    BY <1>2 DEF Shapes
  <2> QED
    BY <2>1, <2>2 DEF Shapes
<1>6. \A t \in Tools : \/ mine'[t] = mine[t] /\ at'[t] \in {"idle", at[t]}
                       \/ /\ mine'[t] = new /\ at'[t] = "act"
                          /\ t \in alive /\ owner = Own(t) /\ request'[t] = NoRequest
  BY <1>4 DEF key
<1>7. KnownById'
  <2>1. \A c \in Known' : c \in Known \/ c = new
    BY <1>4, <1>6 DEF Known
  <2>2. \A c \in Known : c.id < next /\ c.id \in Nat
    BY KnownClaims DEF KnownById, NoClaim, ClaimSet
  <2>3. next \in Nat
    BY DEF Shapes
  <2>4. ASSUME NEW c \in Known' PROVE c.id < next'
    BY <1>2, <1>3, <2>1, <2>2, <2>3
  <2>5. ASSUME NEW c \in Known', NEW d \in Known', c.id = d.id PROVE c = d
    <3>1. ASSUME NEW e \in Known PROVE e.id # new.id
      BY <1>3, <2>2, <2>3
    <3> QED
      BY <2>1, <2>5, <3>1 DEF KnownById
  <2>6. ASSUME NEW c \in Known', c # NoClaim, c.owner # NoOwner
        PROVE  c.owner.generation <= generation[c.owner.tool]
    BY <1>3, <2>1, <2>6 DEF KnownById
  <2> QED
    BY <2>4, <2>5, <2>6 DEF KnownById
<1>8. AtItsTrack'
  BY <1>3, <1>4 DEF AtItsTrack, key
<1>9. EffectsAreNumbered'
  BY <1>2 DEF EffectsAreNumbered, Shapes
<1>10. ActorsHold'
  <2> SUFFICES ASSUME NEW t \in Tools, at'[t] = "act"
               PROVE  /\ t \in alive /\ mine'[t] # NoClaim /\ mine'[t].owner = Own(t)
                      /\ mine'[t].id \notin effects
                      /\ (\E k \in Keys : pending'[k].id = mine'[t].id) \/ mine'[t].id \in displaced
    BY DEF ActorsHold, Own
  <2>1. CASE mine'[t] = new /\ t \in alive /\ owner = Own(t)
    <3>1. next \notin effects
      BY DEF EffectsAreNumbered, Shapes
    <3> QED
      BY <1>1, <1>3, <1>4, <2>1, <3>1
  <2>2. CASE mine'[t] = mine[t] /\ at[t] = "act"
    <3>1. /\ t \in alive /\ mine[t] # NoClaim /\ mine[t].owner = Own(t) /\ mine[t].id \notin effects
          /\ (\E k \in Keys : pending[k].id = mine[t].id) \/ mine[t].id \in displaced
      BY <2>2 DEF ActorsHold
    <3>2. ASSUME NEW k \in Keys, pending[k].id = mine[t].id PROVE k # key
      <4>1. pending[k] = mine[t]
        BY <3>2 DEF KnownById, Known
      <4> QED
        BY <1>2, <3>1, <4>1
    <3> QED
      BY <1>4, <2>2, <3>1, <3>2
  <2> QED
    BY <1>6, <2>1, <2>2
<1>11. FinishersActed'
  <2>1. ASSUME NEW t \in Tools, request'[t].stage \in {"receipt", "observe"}
        PROVE  mine'[t].id \in effects
    <3>1. request'[t] = request[t] /\ request'[t] # NoRequest
      BY <2>1 DEF NoRequest
    <3> QED
      BY <1>6, <2>1, <3>1 DEF FinishersActed
  <2>2. ASSUME NEW t \in Tools, at'[t] = "finish" PROVE mine'[t].id \in effects
    BY <1>6, <2>2 DEF FinishersActed
  <2> QED
    BY <1>2, <2>1, <2>2 DEF FinishersActed
<1>12. ReadersAreLate'
  <2> SUFFICES ASSUME NEW t \in Tools, at'[t] \in {"read", "absent"}
               PROVE  /\ mine'[t] # NoClaim /\ mine'[t].owner # NoOwner /\ ~Lives(mine'[t].owner)
                      /\ at'[t] = "absent" => mine'[t].id \notin effects
    BY DEF ReadersAreLate, Lives
  <2>1. mine'[t] = mine[t] /\ at'[t] = at[t]
    BY <1>6
  <2> QED
    BY <2>1 DEF ReadersAreLate
<1>13. NoEffectForgotten'
  <2> SUFFICES ASSUME NEW id \in effects
               PROVE  \/ \E k \in Keys : pending'[k].id = id
                      \/ id \in displaced
                      \/ \E r \in receipts : r.id = id
    BY <1>2 DEF NoEffectForgotten, Holder
  <2>1. ASSUME NEW k \in Keys, pending[k].id = id PROVE k # key
    BY <1>2, <2>1 DEF EffectsAreNumbered, NoClaim
  <2> QED
    BY <1>4, <2>1 DEF NoEffectForgotten, Holder
<1>14. MovesAreBacked'
  <2>1. \A e \in events' : e.kind = "observation" => e \in events
    BY <1>2 DEF Intended
  <2> QED
    BY <1>2, <2>1 DEF MovesAreBacked
<1> QED
  BY <1>5, <1>7, <1>8, <1>9, <1>10, <1>11, <1>12, <1>13, <1>14

-----------------------------------------------------------------------------
(* The actions.                                                            *)

LEMMA JobsInit == ASSUME Init PROVE JobsInv
<1> USE DEF Init
<1>1. Shapes
  BY DEF Shapes, NoRequest, Posts
<1>2. \A c \in Known : c = NoClaim
  BY DEF Known
<1>3. KnownById
  BY <1>2 DEF KnownById, NoClaim
<1>4. AtItsTrack /\ EffectsAreNumbered
  BY DEF AtItsTrack, EffectsAreNumbered
<1>5. ActorsHold /\ FinishersActed /\ ReadersAreLate
  BY DEF ActorsHold, FinishersActed, ReadersAreLate, NoRequest
<1>6. NoEffectForgotten /\ MovesAreBacked
  BY DEF NoEffectForgotten, MovesAreBacked
<1> QED
  BY <1>1, <1>3, <1>4, <1>5, <1>6 DEF JobsInv

LEMMA RecordIntentKeeps ==
  ASSUME JobsInv, NEW step \in DOMAIN Sop, NEW source \in Causes, RecordIntent(step, source)
  PROVE  JobsInv'
<1>1. NoOwner \in Owners
  BY DEF Owners
<1>2. mine' = mine /\ at' = at /\ request' = request /\ UNCHANGED <<effects, displaced, generation, alive>>
  BY DEF RecordIntent, tools
<1>3. Claims(step, source, "reserved", NoOwner)
  BY DEF RecordIntent
<1> QED
  BY <1>1, <1>2, <1>3, ClaimKeeps DEF JobsInv, Shapes

LEMMA RecordObservationKeeps ==
  ASSUME JobsInv, NEW step \in DOMAIN Sop, NEW source \in Causes, RecordObservation(step, source)
  PROVE  JobsInv'
<1>1. Observe(step, source) /\ (Sop[step].via = "agent_action" => Trusted(step, source))
  BY DEF RecordObservation, Verified
<1>2. UNCHANGED <<mine, at, request, effects, generation, alive>>
  BY DEF RecordObservation, tools
<1>3. Shapes'
  BY <1>1, <1>2, Observing DEF JobsInv, Shapes
<1> QED
  BY <1>1, <1>2, <1>3, ObserveKeeps

LEMMA CollectKeeps ==
  ASSUME JobsInv, NEW source, NEW channel, Collect(source, channel)
  PROVE  JobsInv'
<1>1. /\ UNCHANGED <<pending, events, receipts, next, mine, effects, displaced>>
      /\ UNCHANGED <<at, request, generation, alive>>
  BY DEF Collect, tools
<1>2. Shapes' /\ Untouched
  BY <1>1 DEF JobsInv, Shapes, Untouched
<1>3. Goes
  BY <1>1 DEF Goes, JobsInv, Shapes, ActorsHold
<1> QED
  BY <1>1, <1>2, <1>3, StillKeeps

LEMMA BeginKeeps ==
  ASSUME JobsInv, NEW t \in Tools, NEW step \in DOMAIN Sop, NEW source \in Causes, Begin(t, step, source)
  PROVE  JobsInv'
<1>1. /\ UNCHANGED <<pending, events, receipts, next, mine, effects, displaced>>
      /\ UNCHANGED <<generation, alive>>
  BY DEF Begin, Rest, job
<1>2. /\ at' = [at EXCEPT ![t] = "begin"]
      /\ request' = [request EXCEPT ![t] = [stage |-> "begin", step |-> step, source |-> source]]
  BY DEF Begin, Go
<1>3. Shapes' /\ Untouched
  BY <1>1, <1>2 DEF JobsInv, Shapes, Untouched, Asks
<1>4. Goes
  BY <1>1, <1>2 DEF Goes, JobsInv, Shapes, ActorsHold
<1> QED
  BY <1>1, <1>3, <1>4, StillKeeps

LEMMA OwnerCheckedKeeps ==
  ASSUME JobsInv, NEW t \in Tools, OwnerChecked(t)
  PROVE  JobsInv'
<1>1. /\ UNCHANGED <<pending, events, receipts, next, mine, effects, displaced>>
      /\ UNCHANGED <<generation, alive, at>>
  BY DEF OwnerChecked, Rest, job
<1>2. request[t] \in Asks
  BY DEF JobsInv, Shapes, Posts, OwnerChecked
<1>3. [request[t] EXCEPT !.stage = "claim"] \in Asks
  BY <1>2 DEF Asks
<1>4. \E a \in Asks \cup {NoRequest} : request' = [request EXCEPT ![t] = a]
  BY <1>3 DEF OwnerChecked
<1>5. PICK a \in Asks \cup {NoRequest} : request' = [request EXCEPT ![t] = a]
  BY <1>4
<1>6. a \in Asks \cup Posts /\ a.stage \notin {"receipt", "observe"}
  BY DEF Asks, Posts, NoRequest
<1>7. Shapes' /\ Untouched
  BY <1>1, <1>5, <1>6 DEF JobsInv, Shapes, Untouched
<1>8. Goes
  BY <1>1, <1>5, <1>6 DEF Goes, JobsInv, Shapes, ActorsHold
<1> QED
  BY <1>1, <1>7, <1>8, StillKeeps

LEMMA ClaimActionKeeps ==
  ASSUME JobsInv, NEW t \in Tools, Claim(t)
  PROVE  JobsInv'
<1> DEFINE ask == request[t]
           claim == pending'[Primary(ask.step)]
<1>1. ask \in Asks
  BY DEF JobsInv, Shapes, Posts, Claim
<1>2. ask.step \in DOMAIN Sop /\ ask.source \in Causes
  BY <1>1 DEF Asks
<1>3. Claims(ask.step, ask.source, "claimed", Own(t))
  BY DEF Claim, Own
<1>4. Own(t) \in Owners /\ Own(t).generation = generation[Own(t).tool] /\ Own(t).generation \in Nat
  BY DEF Own, Owners, JobsInv, Shapes
<1>5. /\ request' = [request EXCEPT ![t] = NoRequest]
      /\ UNCHANGED <<generation, alive, effects, displaced>>
  BY DEF Claim, Rest
<1>6. \/ t \in alive /\ mine' = [mine EXCEPT ![t] = claim] /\ at' = [at EXCEPT ![t] = "act"]
      \/ UNCHANGED <<mine, at>>
  BY DEF Claim, Go
<1>7. claim \in ClaimSet
  <2>1. Primary(ask.step) \in Keys
    BY <1>2, PrimaryIsKey
  <2>2. claim = [id |-> next, step |-> ask.step, source |-> ask.source, state |-> "claimed", owner |-> Own(t)]
    BY <1>3, <2>1 DEF Claims, JobsInv, Shapes
  <2>3. next \in Nat \ {0}
    BY DEF JobsInv, Shapes
  <2> QED
    BY <1>2, <1>4, <2>2, <2>3 DEF ClaimSet
<1>8. /\ mine' \in [Tools -> ClaimSet \cup {NoClaim}]
      /\ request' \in [Tools -> Asks \cup Posts]
      /\ at' \in [Tools -> {"idle", "begin", "act", "finish", "read", "absent"}]
      /\ \A u \in Tools : request'[u] \in {NoRequest, request[u]}
  BY <1>5, <1>6, <1>7 DEF JobsInv, Shapes, NoRequest, Posts
<1>9. \A u \in Tools : \/ mine'[u] = mine[u] /\ at'[u] \in {"idle", at[u]}
                       \/ /\ mine'[u] = claim /\ at'[u] = "act"
                          /\ u \in alive /\ Own(t) = Own(u) /\ request'[u] = NoRequest
  BY <1>5, <1>6 DEF JobsInv, Shapes
<1>10. Own(t).generation <= generation[Own(t).tool]
  BY <1>4
<1> HIDE DEF ask
<1> QED
  BY <1>2, <1>3, <1>4, <1>5, <1>8, <1>9, <1>10, ClaimKeeps

LEMMA RefusedKeeps ==
  ASSUME JobsInv, NEW t \in Tools, Refused(t)
  PROVE  JobsInv'
<1>1. /\ UNCHANGED <<pending, events, receipts, next, mine, effects, displaced>>
      /\ UNCHANGED <<generation, alive>>
  BY DEF Refused, Rest, job
<1>2. /\ at' = [at EXCEPT ![t] = IF t \in alive THEN "idle" ELSE at[t]]
      /\ request' = [request EXCEPT ![t] = NoRequest]
  BY DEF Refused
<1>3. Shapes' /\ Untouched
  BY <1>1, <1>2 DEF JobsInv, Shapes, Untouched, Posts, NoRequest
<1>4. Goes
  BY <1>1, <1>2 DEF Goes, JobsInv, Shapes, ActorsHold, NoRequest
<1> QED
  BY <1>1, <1>3, <1>4, StillKeeps

\* The effect: its own claim waits or was moved away, and no other tool is at it or past it.
LEMMA ActKeeps ==
  ASSUME JobsInv, NEW t \in Tools, Act(t)
  PROVE  JobsInv'
<1> USE DEF JobsInv
<1>1. /\ t \in alive /\ at[t] = "act" /\ effects' = effects \cup {mine[t].id}
      /\ UNCHANGED <<pending, events, receipts, next, mine, displaced>>
      /\ UNCHANGED <<generation, alive, request>>
      /\ \E p \in {"finish", "idle"} : at' = [at EXCEPT ![t] = p]
  BY DEF Act, Go, job
<1>2. /\ mine[t] # NoClaim /\ mine[t].owner = Own(t) /\ mine[t].id \notin effects
      /\ (\E k \in Keys : pending[k].id = mine[t].id) \/ mine[t].id \in displaced
  BY <1>1 DEF ActorsHold
<1>3. mine[t] \in Known /\ mine[t] \in ClaimSet /\ mine[t].id \in Nat \ {0} /\ mine[t].id < next
  BY <1>2 DEF Known, Shapes, ClaimSet, KnownById
<1>4. Shapes'
  BY <1>1 DEF Shapes
<1>5. KnownById'
  BY <1>1, FewerKnown DEF Known
<1>6. AtItsTrack' /\ EffectsAreNumbered'
  BY <1>1, <1>3 DEF AtItsTrack, EffectsAreNumbered
<1>7. ActorsHold'
  <2>1. ASSUME NEW u \in Tools, at'[u] = "act" PROVE u # t /\ at[u] = "act"
    BY <1>1, <2>1 DEF Shapes
  <2>2. ASSUME NEW u \in Tools, at[u] = "act", mine[u].id = mine[t].id PROVE u = t
    <3>1. mine[u] = mine[t]
      BY <2>2 DEF KnownById, Known
    <3>2. Own(u) = Own(t)
      BY <1>2, <2>2, <3>1 DEF ActorsHold
    <3> QED
      BY <3>2 DEF Own
  <2> QED
    BY <1>1, <2>1, <2>2 DEF ActorsHold, Own
<1>8. FinishersActed'
  BY <1>1 DEF FinishersActed, Shapes
<1>9. ReadersAreLate'
  <2> SUFFICES ASSUME NEW u \in Tools, at'[u] \in {"read", "absent"}
               PROVE  /\ mine[u] # NoClaim /\ mine[u].owner # NoOwner /\ ~Lives(mine[u].owner)
                      /\ at'[u] = "absent" => mine[u].id \notin effects'
    BY <1>1 DEF ReadersAreLate, Lives
  <2>1. at'[u] = at[u]
    BY <1>1 DEF Shapes
  <2>2. /\ mine[u] # NoClaim /\ mine[u].owner # NoOwner /\ ~Lives(mine[u].owner)
        /\ at[u] = "absent" => mine[u].id \notin effects
    BY <2>1 DEF ReadersAreLate
  <2>3. mine[u].id # mine[t].id
    <3>1. Lives(mine[t].owner)
      BY <1>1, ActorIsNotLate
    <3>2. mine[u] # mine[t]
      BY <2>2, <3>1
    <3> QED
      BY <3>2 DEF KnownById, Known
  <2> QED
    BY <1>1, <2>1, <2>2, <2>3
<1>10. NoEffectForgotten'
  BY <1>1, <1>2 DEF NoEffectForgotten, Holder
<1>11. MovesAreBacked'
  BY <1>1 DEF MovesAreBacked
<1> QED
  BY <1>4, <1>5, <1>6, <1>7, <1>8, <1>9, <1>10, <1>11

LEMMA ActFailsKeeps ==
  ASSUME JobsInv, NEW t \in Tools, ActFails(t)
  PROVE  JobsInv'
<1>1. /\ UNCHANGED <<pending, events, receipts, next, mine, effects, displaced>>
      /\ UNCHANGED <<generation, alive, request>>
  BY DEF ActFails, Rest, job
<1>2. at' = [at EXCEPT ![t] = "idle"]
  BY DEF ActFails, Go
<1>3. Shapes' /\ Untouched
  BY <1>1, <1>2 DEF JobsInv, Shapes, Untouched
<1>4. Goes
  BY <1>1, <1>2 DEF Goes, JobsInv, Shapes, ActorsHold
<1> QED
  BY <1>1, <1>3, <1>4, StillKeeps

LEMMA FinishKeeps ==
  ASSUME JobsInv, NEW t \in Tools, Finish(t)
  PROVE  JobsInv'
<1>1. /\ UNCHANGED <<pending, events, receipts, next, mine, effects, displaced>>
      /\ UNCHANGED <<generation, alive, at>>
  BY DEF Finish, Rest, job
<1>2. at[t] = "finish" /\ request' = [request EXCEPT ![t] = [stage |-> "receipt"]]
  BY DEF Finish
<1>3. Shapes' /\ Untouched
  BY <1>1, <1>2 DEF JobsInv, Shapes, Untouched, Posts
<1>4. Goes
  BY <1>1, <1>2 DEF Goes, JobsInv, Shapes, ActorsHold
<1> QED
  BY <1>1, <1>3, <1>4, StillKeeps

LEMMA PostReceiptKeeps ==
  ASSUME JobsInv, NEW t \in Tools, PostReceipt(t)
  PROVE  JobsInv'
<1>1. /\ UNCHANGED <<pending, events, next, mine, effects, displaced>>
      /\ UNCHANGED <<generation, alive, at>>
  BY DEF PostReceipt, Rest
<1>2. /\ request[t].stage = "receipt" /\ request' = [request EXCEPT ![t] = [stage |-> "observe"]]
      /\ receipts' \in {receipts, receipts \cup {Receipt(t)}}
  BY DEF PostReceipt
<1>3. Receipt(t).id \in effects
  BY <1>2 DEF Receipt, JobsInv, FinishersActed
<1>4. receipts \subseteq receipts' /\ \A r \in receipts' : r \in receipts \/ r.id \in effects
  BY <1>2, <1>3
<1>5. Shapes' /\ Untouched
  BY <1>1, <1>2 DEF JobsInv, Shapes, Untouched, Posts
<1>6. Goes
  BY <1>1, <1>2 DEF Goes, JobsInv, Shapes, ActorsHold
<1> QED
  BY <1>1, <1>4, <1>5, <1>6, StillKeeps

LEMMA NoClaimToFinishKeeps ==
  ASSUME JobsInv, NEW t \in Tools, NoClaimToFinish(t)
  PROVE  JobsInv'
<1>1. /\ UNCHANGED <<pending, events, receipts, next, mine, effects, displaced>>
      /\ UNCHANGED <<generation, alive>>
  BY DEF NoClaimToFinish, Rest, job
<1>2. /\ \E p \in {"idle", at[t]} : at' = [at EXCEPT ![t] = p]
      /\ request' = [request EXCEPT ![t] = NoRequest]
  BY DEF NoClaimToFinish
<1>3. Shapes' /\ Untouched
  BY <1>1, <1>2 DEF JobsInv, Shapes, Untouched, Posts, NoRequest
<1>4. Goes
  BY <1>1, <1>2 DEF Goes, JobsInv, Shapes, ActorsHold, NoRequest
<1> QED
  BY <1>1, <1>3, <1>4, StillKeeps

LEMMA ObserveOwnKeeps ==
  ASSUME JobsInv, NEW t \in Tools, ObserveOwn(t)
  PROVE  JobsInv'
<1> DEFINE step == mine[t].step
           source == Proof(t)
<1>1. UNCHANGED <<generation, alive, mine, effects>>
  BY DEF ObserveOwn
<1>2. /\ \E p \in {"idle", at[t]} : at' = [at EXCEPT ![t] = p]
      /\ request' = [request EXCEPT ![t] = NoRequest]
  BY DEF ObserveOwn
<1>3. \/ UNCHANGED <<job, displaced>>
      \/ Trusted(step, source) /\ Observe(step, source)
  BY DEF ObserveOwn
<1>4. NoRequest \in Asks \cup Posts
  BY DEF NoRequest, Posts
<1>5. CASE UNCHANGED <<job, displaced>>
  <2>1. UNCHANGED <<pending, events, receipts, next>>
    BY <1>5 DEF job
  <2>2. Shapes' /\ Untouched
    BY <1>1, <1>2, <1>4, <1>5, <2>1 DEF JobsInv, Shapes, Untouched
  <2>3. Goes
    BY <1>1, <1>2 DEF Goes, JobsInv, Shapes, ActorsHold, NoRequest
  <2> QED
    BY <2>1, <2>2, <2>3, StillKeeps
<1>6. CASE Trusted(step, source) /\ Observe(step, source)
  <2> HIDE DEF step, source
  <2>1. pending' \in [Keys -> ClaimSet \cup {NoClaim}] /\ next' = next
    BY <1>6, Observing DEF JobsInv
  <2>2. Shapes'
    BY <1>1, <1>2, <1>4, <2>1 DEF JobsInv, Shapes
  <2>3. \A u \in Tools : at'[u] \in {"idle", at[u]} /\ request'[u] \in {NoRequest, request[u]}
    BY <1>2 DEF JobsInv, Shapes
  <2> QED
    BY <1>1, <1>6, <2>2, <2>3, ObserveKeeps
<1> QED
  BY <1>3, <1>5, <1>6

LEMMA ReadyKeeps ==
  ASSUME JobsInv, NEW t \in Tools, NEW k \in Keys, Ready(t, k)
  PROVE  JobsInv'
<1> USE DEF JobsInv
<1>1. /\ request[t] = NoRequest /\ at[t] = "idle"
      /\ pending[k] # NoClaim /\ pending[k].owner # NoOwner /\ ~Lives(pending[k].owner)
      /\ mine' = [mine EXCEPT ![t] = pending[k]] /\ at' = [at EXCEPT ![t] = "read"]
      /\ UNCHANGED <<pending, events, receipts, next, effects, displaced>>
      /\ UNCHANGED <<generation, alive, request>>
  BY DEF Ready, Free, Go, Rest, job
<1>2. Shapes'
  BY <1>1 DEF Shapes
<1>3. KnownById'
  <2>1. Known' \subseteq Known \cup {NoClaim}
    BY <1>1 DEF Known, Shapes
  <2> QED
    BY <1>1, <2>1, FewerKnown
<1>4. AtItsTrack' /\ EffectsAreNumbered'
  BY <1>1 DEF AtItsTrack, EffectsAreNumbered
<1>5. \A u \in Tools : u # t => mine'[u] = mine[u] /\ at'[u] = at[u]
  BY <1>1 DEF Shapes
<1>6. mine'[t] = pending[k] /\ at'[t] = "read"
  BY <1>1 DEF Shapes
<1>7. ActorsHold'
  BY <1>1, <1>5, <1>6 DEF ActorsHold, Own
<1>8. FinishersActed'
  BY <1>1, <1>5, <1>6 DEF FinishersActed, NoRequest
<1>9. ReadersAreLate'
  BY <1>1, <1>5, <1>6 DEF ReadersAreLate, Lives
<1>10. NoEffectForgotten' /\ MovesAreBacked'
  BY <1>1 DEF NoEffectForgotten, Holder, MovesAreBacked
<1> QED
  BY <1>2, <1>3, <1>4, <1>7, <1>8, <1>9, <1>10

LEMMA ReadEffectKeeps ==
  ASSUME JobsInv, NEW t \in Tools, ReadEffect(t)
  PROVE  JobsInv'
<1>1. /\ UNCHANGED <<pending, events, receipts, next, mine, effects, displaced>>
      /\ UNCHANGED <<generation, alive, request>>
  BY DEF ReadEffect, Rest, job
<1>2. /\ at[t] = "read"
      /\ at' = [at EXCEPT ![t] = IF mine[t].id \in effects THEN "idle" ELSE "absent"]
  BY DEF ReadEffect, Go
<1>3. Shapes' /\ Untouched
  BY <1>1, <1>2 DEF JobsInv, Shapes, Untouched
<1>4. Goes
  BY <1>1, <1>2 DEF Goes, JobsInv, Shapes, ActorsHold
<1> QED
  BY <1>1, <1>3, <1>4, StillKeeps

\* What is let go had no effect, and will have none: its owner is gone.
LEMMA ReconcileAbsentKeeps ==
  ASSUME JobsInv, NEW t \in Tools, ReconcileAbsent(t)
  PROVE  JobsInv'
<1> USE DEF JobsInv
<1>1. /\ at[t] = "absent" /\ at' = [at EXCEPT ![t] = "idle"]
      /\ UNCHANGED <<receipts, next, mine, effects, displaced>>
      /\ UNCHANGED <<generation, alive, request>>
  BY DEF ReconcileAbsent, Go
<1>2. mine[t].id \notin effects /\ mine[t] # NoClaim /\ ~Lives(mine[t].owner)
  BY <1>1 DEF ReadersAreLate
<1>3. /\ pending' \in [Keys -> ClaimSet \cup {NoClaim}]
      /\ \A k \in Keys : pending'[k] = pending[k] \/ (pending'[k] = NoClaim /\ pending[k].id = mine[t].id)
      /\ \A e \in events' : e.kind = "observation" => e \in events
  BY DEF ReconcileAbsent, Shapes
<1>4. Shapes'
  BY <1>1, <1>3 DEF Shapes
<1>5. KnownById'
  <2>1. Known' \subseteq Known \cup {NoClaim}
    BY <1>1, <1>3 DEF Known
  <2> QED
    BY <1>1, <2>1, FewerKnown
<1>6. AtItsTrack' /\ EffectsAreNumbered'
  BY <1>1, <1>3 DEF AtItsTrack, EffectsAreNumbered
<1>7. \A u \in Tools : at'[u] \in {"idle", at[u]}
  BY <1>1 DEF Shapes
<1>8. ActorsHold'
  <2>1. ASSUME NEW u \in Tools, at[u] = "act" PROVE mine[u].id # mine[t].id
    <3>1. Lives(mine[u].owner)
      BY <2>1, ActorIsNotLate
    <3>2. mine[u] # mine[t]
      BY <1>2, <3>1
    <3> QED
      BY <3>2 DEF KnownById, Known
  <2> QED
    BY <1>1, <1>3, <1>7, <2>1 DEF ActorsHold, Own
<1>9. FinishersActed' /\ ReadersAreLate'
  BY <1>1, <1>7 DEF FinishersActed, ReadersAreLate, Lives
<1>10. NoEffectForgotten'
  BY <1>1, <1>2, <1>3 DEF NoEffectForgotten, Holder
<1>11. MovesAreBacked'
  BY <1>1, <1>3 DEF MovesAreBacked
<1> QED
  BY <1>4, <1>5, <1>6, <1>8, <1>9, <1>10, <1>11

LEMMA DieKeeps ==
  ASSUME JobsInv, NEW t \in Tools, Die(t)
  PROVE  JobsInv'
<1>1. /\ UNCHANGED <<pending, events, receipts, next, mine, effects, displaced>>
      /\ UNCHANGED <<generation, request>> /\ alive' = alive \ {t}
  BY DEF Die, job
<1>2. at' = [at EXCEPT ![t] = IF t \in Senders /\ at[t] = "finish" THEN at[t] ELSE "idle"]
  BY DEF Die
<1>3. Shapes' /\ Untouched
  BY <1>1, <1>2 DEF JobsInv, Shapes, Untouched
<1>4. Goes
  BY <1>1, <1>2 DEF Goes, JobsInv, Shapes, ActorsHold
<1> QED
  BY <1>1, <1>3, <1>4, StillKeeps

\* A tool starts again under another number, so what it held before stays its dead self's.
LEMMA RestartKeeps ==
  ASSUME JobsInv, NEW t \in Tools, Restart(t)
  PROVE  JobsInv'
<1>1. /\ UNCHANGED <<pending, events, receipts, next, mine, effects, displaced>>
      /\ UNCHANGED <<at, request>>
      /\ t \notin alive /\ alive' = alive \cup {t}
      /\ generation' = [generation EXCEPT ![t] = generation[t] + 1]
  BY DEF Restart, Rest, job
<1>2. Shapes' /\ Untouched
  BY <1>1 DEF JobsInv, Shapes, Untouched
<1>3. \A u \in Tools : at[u] = "act" => u \in alive /\ u # t
  BY <1>1 DEF JobsInv, ActorsHold
<1>4. Goes
  BY <1>1, <1>3 DEF Goes, JobsInv, Shapes
<1> QED
  BY <1>1, <1>2, <1>4, StillKeeps

\* A kill of the service, before or after the transaction of one request it had.
LEMMA KillKeeps ==
  ASSUME JobsInv, Kill
  PROVE  JobsInv'
<1>1. /\ UNCHANGED <<generation, alive, mine, effects>>
      /\ request' = [t \in Tools |-> NoRequest]
      /\ at' \in [Tools -> {"idle", "begin", "act", "finish", "read", "absent"}]
      /\ \A t \in Tools : at'[t] \in {"idle", at[t]}
  BY DEF Kill, JobsInv, Shapes
<1>2. request' \in [Tools -> Asks \cup Posts] /\ \A t \in Tools : request'[t] = NoRequest
  BY <1>1 DEF Posts, NoRequest
<1>3. CASE UNCHANGED <<job, displaced>>
  <2>1. UNCHANGED <<pending, events, receipts, next>>
    BY <1>3 DEF job
  <2>2. Shapes' /\ Untouched
    BY <1>1, <1>2, <1>3, <2>1 DEF JobsInv, Shapes, Untouched
  <2>3. Goes
    BY <1>1, <1>2 DEF Goes, JobsInv, Shapes, ActorsHold, NoRequest
  <2> QED
    BY <2>1, <2>2, <2>3, StillKeeps
<1>4. ASSUME NEW t \in alive, request[t].stage = "claim", UNCHANGED displaced,
             Claims(request[t].step, request[t].source, "claimed", Own(t))
      PROVE  JobsInv'
  <2> DEFINE ask == request[t]
  <2>1. t \in Tools /\ ask \in Asks
    BY <1>4 DEF JobsInv, Shapes, Posts
  <2>2. ask.step \in DOMAIN Sop /\ ask.source \in Causes
    BY <2>1 DEF Asks
  <2>3. Own(t) \in Owners /\ Own(t).generation <= generation[Own(t).tool]
    BY <2>1 DEF Own, Owners, JobsInv, Shapes
  <2>4. mine' \in [Tools -> ClaimSet \cup {NoClaim}]
    BY <1>1 DEF JobsInv, Shapes
  <2> HIDE DEF ask
  <2>5. Claims(ask.step, ask.source, "claimed", Own(t))
    BY <1>4 DEF ask
  <2> QED
    BY <1>1, <1>2, <1>4, <2>2, <2>3, <2>4, <2>5, ClaimKeeps
<1>5. ASSUME NEW t \in alive, Trusted(mine[t].step, Proof(t)), Observe(mine[t].step, Proof(t))
      PROVE  JobsInv'
  <2>1. pending' \in [Keys -> ClaimSet \cup {NoClaim}] /\ next' = next
    BY <1>5, Observing DEF JobsInv
  <2>2. Shapes'
    BY <1>1, <1>2, <2>1 DEF JobsInv, Shapes
  <2> QED
    BY <1>1, <1>2, <1>5, <2>2, ObserveKeeps
<1> QED
  BY <1>3, <1>4, <1>5 DEF Kill, Own

LEMMA JobsNext == ASSUME JobsInv, [Next]_vars PROVE JobsInv'
<1>1. ASSUME NEW step \in DOMAIN Sop, NEW source \in Causes,
             RecordIntent(step, source) \/ RecordObservation(step, source)
      PROVE  JobsInv'
  BY <1>1, RecordIntentKeeps, RecordObservationKeeps
<1>2. ASSUME NEW source \in Causes, NEW channel \in Channels, Collect(source, channel)
      PROVE  JobsInv'
  BY <1>2, CollectKeeps
<1>3. ASSUME NEW t \in Tools, NEW step \in DOMAIN Sop, NEW source \in Causes, Begin(t, step, source)
      PROVE  JobsInv'
  BY <1>3, BeginKeeps
<1>4. ASSUME NEW t \in Tools, Service(t) PROVE JobsInv'
  BY <1>4, OwnerCheckedKeeps, ClaimActionKeeps, RefusedKeeps, PostReceiptKeeps,
     NoClaimToFinishKeeps, ObserveOwnKeeps DEF Service
<1>5. ASSUME NEW t \in Tools, Act(t) \/ ActFails(t) \/ Finish(t) PROVE JobsInv'
  BY <1>5, ActKeeps, ActFailsKeeps, FinishKeeps
<1>6. ASSUME NEW t \in Tools, NEW k \in Keys, Ready(t, k) PROVE JobsInv'
  BY <1>6, ReadyKeeps
<1>7. ASSUME NEW t \in Tools, ReadEffect(t) \/ ReconcileAbsent(t) PROVE JobsInv'
  BY <1>7, ReadEffectKeeps, ReconcileAbsentKeeps
<1>8. ASSUME NEW t \in Tools, Die(t) \/ Restart(t) PROVE JobsInv'
  BY <1>8, DieKeeps, RestartKeeps
<1>9. CASE Kill
  BY <1>9, KillKeeps
<1>10. CASE UNCHANGED vars
  <2>1. /\ UNCHANGED <<pending, events, receipts, next, mine, effects, displaced>>
        /\ UNCHANGED <<generation, alive, at, request>>
    BY <1>10 DEF vars, job, tools
  <2>2. Shapes' /\ Untouched
    BY <2>1 DEF JobsInv, Shapes, Untouched
  <2>3. Goes
    BY <2>1 DEF Goes, JobsInv, Shapes, ActorsHold
  <2> QED
    BY <2>1, <2>2, <2>3, StillKeeps
<1> QED
  BY <1>1, <1>2, <1>3, <1>4, <1>5, <1>6, <1>7, <1>8, <1>9, <1>10 DEF Next

-----------------------------------------------------------------------------
(* Theorems.                                                               *)

\* The gate's inductive invariant: a claim is known by its id and lies at its
\* track, an actor lives and holds its claim, a reconciler's owner is gone.
THEOREM JobsInvariant == Spec => []JobsInv
<1>1. Init => JobsInv
  BY JobsInit
<1>2. JobsInv /\ [Next]_vars => JobsInv'
  BY JobsNext
<1> QED
  BY <1>1, <1>2, PTL DEF Spec

\* Two tools before one track's effect would hold one claim, whose owner is one tool
\* (action_begin and the row lock of job-tools.ts).
LEMMA OneActor == ASSUME JobsInv PROVE OneActorPerTrack
<1> USE DEF JobsInv
<1> SUFFICES ASSUME NEW t \in Tools, NEW u \in Tools, t # u, at[t] = "act", at[u] = "act",
                    Primary(mine[t].step) = Primary(mine[u].step),
                    mine[t].id \notin displaced, mine[u].id \notin displaced
             PROVE  FALSE
  BY DEF OneActorPerTrack
<1>1. PICK k \in Keys : pending[k].id = mine[t].id
  BY DEF ActorsHold
<1>2. PICK l \in Keys : pending[l].id = mine[u].id
  BY DEF ActorsHold
<1>3. pending[k] = mine[t] /\ pending[l] = mine[u]
  BY <1>1, <1>2 DEF KnownById, Known
<1>4. /\ mine[t] # NoClaim /\ mine[t].owner = Own(t)
      /\ mine[u] # NoClaim /\ mine[u].owner = Own(u)
  BY DEF ActorsHold
<1>5. k = Primary(mine[t].step) /\ l = Primary(mine[u].step)
  BY <1>3, <1>4 DEF AtItsTrack
<1>6. Own(t) = Own(u)
  BY <1>3, <1>4, <1>5
<1> QED
  BY <1>6 DEF Own

\* The gate of a job holds whatever dies when: no effect is forgotten, no track has
\* two actors, and no move of an agent's step is without its effect.
THEOREM GateStands == Spec => []GateHolds
<1>1. JobsInv => GateHolds
  BY OneActor DEF JobsInv, GateHolds
<1> QED
  BY <1>1, JobsInvariant, PTL

-----------------------------------------------------------------------------
\* What the proofs need of the constants: no runtime has the name of nobody.
TurnsConstants == "nobody" \notin Runtimes /\ MaxReleases \in Nat

-----------------------------------------------------------------------------
(* The queue. The inductive invariant.                                     *)

InTurn == {"granted", "turn", "ending"}
RuntimePlaces == {"idle", "asked", "queued", "down"} \cup InTurn

Contexts == [of : Runtimes, rel : Nat, live : BOOLEAN]

QueueTypes ==
    /\ service \in {"starting", "up", "draining", "down"}
    /\ active \in Contexts \cup {Queue!Nobody} /\ waiting \in Seq(Contexts)
    /\ where \in [Runtimes -> RuntimePlaces] /\ rel \in [Runtimes -> Nat]

\* A service that does not run knows nobody, and one that drains lets nobody wait.
KnowsOnlyUp ==
    /\ service \in {"starting", "down"} => active = Queue!Nobody
    /\ service # "up" => waiting = <<>>

\* A living context that waits is of a runtime that is queued for the release it names.
WaitsForItsTurn ==
    \A i \in 1..Len(waiting) : waiting[i].live =>
      where[waiting[i].of] = "queued" /\ rel[waiting[i].of] = waiting[i].rel

\* No runtime waits twice.
WaitsOnce ==
    \A i, j \in 1..Len(waiting) :
      waiting[i].live /\ waiting[j].live /\ waiting[i].of = waiting[j].of => i = j

\* A living current context is of a runtime in its turn.
CurrentIsInTurn == active.live => where[active.of] \in InTurn /\ rel[active.of] = active.rel

TurnsInv ==
    QueueTypes /\ KnowsOnlyUp /\ WaitsForItsTurn /\ WaitsOnce /\ CurrentIsInTurn /\ Queue!TurnIsCurrent
-----------------------------------------------------------------------------
(* Facts about the queue as a sequence.                                    *)

\* What waits is a context, and so is what follows the head.
LEMMA Waiting == ASSUME QueueTypes
                 PROVE  /\ Len(waiting) \in Nat /\ DOMAIN waiting = 1..Len(waiting)
                        /\ \A i \in 1..Len(waiting) : waiting[i] \in Contexts
BY DEF QueueTypes

\* A wait that is cancelled leaves the others in their order.
LEMMA RemoveOne ==
  ASSUME NEW S, NEW s \in Seq(S), NEW i \in 1..Len(s)
  PROVE  /\ Queue!RemoveAt(s, i) \in Seq(S) /\ Len(Queue!RemoveAt(s, i)) = Len(s) - 1
         /\ \A k \in 1..(Len(s) - 1) : Queue!RemoveAt(s, i)[k] = IF k < i THEN s[k] ELSE s[k + 1]
<1>1. Len(s) \in Nat /\ i \in Nat /\ 1 <= i /\ i <= Len(s) /\ \A k \in 1..Len(s) : s[k] \in S
  OBVIOUS
<1> DEFINE a == SubSeq(s, 1, i - 1)
           b == SubSeq(s, i + 1, Len(s))
<1>2. a \in Seq(S) /\ Len(a) = i - 1 /\ \A k \in 1..(i - 1) : a[k] = s[k]
  BY <1>1, SubSeqProperties
<1>3. b \in Seq(S) /\ Len(b) = Len(s) - i /\ \A k \in 1..(Len(s) - i) : b[k] = s[k + i]
  BY <1>1, SubSeqProperties
<1>4. Queue!RemoveAt(s, i) = a \o b
  BY DEF Queue!RemoveAt
<1> HIDE DEF a, b
<1>5. /\ a \o b \in Seq(S) /\ Len(a \o b) = Len(a) + Len(b)
      /\ \A k \in 1..(Len(a) + Len(b)) : (a \o b)[k] = IF k <= Len(a) THEN a[k] ELSE b[k - Len(a)]
  BY <1>2, <1>3, ConcatProperties
<1>6. ASSUME NEW k \in 1..(Len(s) - 1)
      PROVE  (a \o b)[k] = IF k < i THEN s[k] ELSE s[k + 1]
  <2>1. CASE k < i
    BY <1>1, <1>2, <1>3, <1>5, <2>1
  <2>2. CASE ~(k < i)
    <3>1. k - (i - 1) \in 1..(Len(s) - i) /\ k - (i - 1) + i = k + 1
      BY <1>1, <2>2
    <3>2. (a \o b)[k] = b[k - (i - 1)]
      BY <1>1, <1>2, <1>3, <1>5, <2>2
    <3>3. b[k - (i - 1)] = s[k - (i - 1) + i]
      BY <1>3, <3>1
    <3> QED
      BY <2>2, <3>1, <3>2, <3>3
  <2> QED
    BY <2>1, <2>2
<1> QED
  BY <1>1, <1>2, <1>3, <1>4, <1>5, <1>6

\* What a death does to a context.
LEMMA DeadContext ==
  ASSUME TurnsConstants, NEW c \in Contexts \cup {Queue!Nobody}, NEW r \in Runtimes
  PROVE  /\ c \in Contexts => Queue!Dead(c, r) \in Contexts
         /\ c = Queue!Nobody => Queue!Dead(c, r) = Queue!Nobody
         /\ c.of # r => Queue!Dead(c, r) = c
         /\ Queue!Dead(c, r).live => c.of # r
<1>1. CASE c = Queue!Nobody
  BY <1>1 DEF TurnsConstants, Queue!Dead, Queue!Nobody, Contexts
<1>2. CASE c \in Contexts
  <2>1. [c EXCEPT !.live = FALSE] \in Contexts /\ ~[c EXCEPT !.live = FALSE].live
    BY <1>2 DEF Contexts
  <2>2. c # Queue!Nobody
    BY <1>2 DEF TurnsConstants, Contexts, Queue!Nobody
  <2> QED
    BY <1>2, <2>1, <2>2 DEF Queue!Dead
<1> QED
  BY <1>1, <1>2

-----------------------------------------------------------------------------
(* The end of a process and the grant of a turn.                           *)

\* A process that ends leaves its contexts dead and the others as they are.
LEMMA EndsTurns ==
  ASSUME TurnsConstants, TurnsInv, NEW r \in Runtimes, Queue!Ends(r), service' = service,
         rel' \in [Runtimes -> Nat], \A q \in Runtimes \ {r} : rel'[q] = rel[q]
  PROVE  TurnsInv'
<1> USE DEF TurnsConstants, TurnsInv, QueueTypes, Queue!Ends, Queue!Go
<1>1. /\ Len(waiting') = Len(waiting) /\ waiting' \in Seq(Contexts)
      /\ \A i \in 1..Len(waiting) : waiting'[i] = Queue!Dead(waiting[i], r)
  <2>1. \A i \in 1..Len(waiting) : Queue!Dead(waiting[i], r) \in Contexts
    BY Waiting, DeadContext
  <2>2. waiting' = [i \in 1..Len(waiting) |-> Queue!Dead(waiting[i], r)]
    BY Waiting
  <2>3. waiting' \in [1..Len(waiting) -> Contexts]
    BY <2>1, <2>2
  <2> QED
    BY <2>2, <2>3, Waiting
<1>2. \A i \in 1..Len(waiting) : waiting'[i].live => waiting'[i] = waiting[i] /\ waiting[i].of # r
  BY <1>1, Waiting, DeadContext
<1>3. active'.live => active' = active /\ active.of # r
  BY DeadContext
<1>4. active' \in Contexts \cup {Queue!Nobody} /\ (active = Queue!Nobody => active' = Queue!Nobody)
  BY DeadContext
<1>5. QueueTypes'
  BY <1>1, <1>4 DEF RuntimePlaces
<1>6. KnowsOnlyUp'
  <2>1. waiting = <<>> => waiting' = <<>>
    BY <1>1
  <2> QED
    BY <1>4, <2>1 DEF KnowsOnlyUp
<1>7. WaitsForItsTurn' /\ WaitsOnce'
  <2>1. Len(waiting') = Len(waiting)
    BY <1>1
  <2>2. \A i \in 1..Len(waiting) : waiting[i].of \in Runtimes
    BY Waiting DEF Contexts
  <2>3. ASSUME NEW i \in 1..Len(waiting'), waiting'[i].live
        PROVE  /\ i \in 1..Len(waiting) /\ waiting'[i] = waiting[i] /\ waiting[i].live
               /\ waiting[i].of \in Runtimes /\ waiting[i].of # r
    BY <1>2, <2>1, <2>2, <2>3
  <2>4. WaitsForItsTurn'
    <3>1. \A q \in Runtimes \ {r} : where'[q] = where[q] /\ rel'[q] = rel[q]
      OBVIOUS
    <3> SUFFICES ASSUME NEW i \in 1..Len(waiting'), waiting'[i].live
                 PROVE  where'[waiting'[i].of] = "queued" /\ rel'[waiting'[i].of] = waiting'[i].rel
      BY DEF WaitsForItsTurn
    <3>2. where[waiting[i].of] = "queued" /\ rel[waiting[i].of] = waiting[i].rel
      BY <2>3 DEF WaitsForItsTurn
    <3>3. waiting'[i] = waiting[i] /\ waiting[i].of \in Runtimes \ {r}
      BY <2>3
    <3> HIDE DEF Queue!Ends
    <3> QED
      BY <3>1, <3>2, <3>3
  <2>5. WaitsOnce'
    <3> SUFFICES ASSUME NEW i \in 1..Len(waiting'), NEW j \in 1..Len(waiting'),
                        waiting'[i].live, waiting'[j].live, waiting'[i].of = waiting'[j].of
                 PROVE  i = j
      BY DEF WaitsOnce
    <3> QED
      BY <2>3 DEF WaitsOnce
  <2> QED
    BY <2>4, <2>5
<1>8. CurrentIsInTurn'
  BY <1>3 DEF CurrentIsInTurn, Contexts, Queue!Nobody
<1>9. Queue!TurnIsCurrent'
  <2> SUFFICES ASSUME NEW q \in Runtimes, where'[q] \in InTurn, q \notin older'
               PROVE  active'.of = q /\ active'.rel = rel'[q] /\ active'.live
    BY DEF Queue!TurnIsCurrent, InTurn
  <2>1. q # r /\ where[q] \in InTurn /\ q \notin older
    BY DEF InTurn
  <2>2. active.of = q /\ active.rel = rel[q] /\ active.live
    BY <2>1 DEF Queue!TurnIsCurrent, InTurn
  <2> QED
    BY <2>1, <2>2 DEF Queue!Dead
<1> QED
  BY <1>5, <1>6, <1>7, <1>8, <1>9

\* Whoever is let in next was waiting for it.
LEMMA AdvancesTurns ==
  ASSUME TurnsConstants, TurnsInv, NEW also \in [Runtimes -> RuntimePlaces], Queue!Advances(also),
         service' = service, service \in {"up", "draining"},
         rel' \in [Runtimes -> Nat], \A q \in Runtimes : where[q] = "queued" => rel'[q] = rel[q],
         \A q \in Runtimes : where[q] = "queued" => also[q] = "queued",
         \A q \in Runtimes : also[q] \in InTurn => q \in older'
  PROVE  TurnsInv'
<1> USE DEF TurnsConstants, TurnsInv, QueueTypes, Queue!Advances
<1>1. CASE waiting = <<>>
  <2>1. active' = Queue!Nobody /\ where' = also /\ waiting' = <<>>
    BY <1>1
  <2>2. ~Queue!Nobody.live
    BY DEF Queue!Nobody
  <2>3. QueueTypes' /\ KnowsOnlyUp'
    BY <2>1 DEF KnowsOnlyUp
  <2>4. WaitsForItsTurn' /\ WaitsOnce' /\ CurrentIsInTurn'
    BY <2>1, <2>2 DEF WaitsForItsTurn, WaitsOnce, CurrentIsInTurn
  <2>5. Queue!TurnIsCurrent'
    BY <2>1 DEF Queue!TurnIsCurrent, InTurn
  <2> QED
    BY <2>3, <2>4, <2>5
<1>2. CASE waiting # <<>>
  <2> DEFINE head == Head(waiting)
  <2>1. /\ Len(waiting) >= 1 /\ head = waiting[1] /\ head \in Contexts /\ active' = head
        /\ waiting' = Tail(waiting) /\ waiting' \in Seq(Contexts)
        /\ Len(waiting') = Len(waiting) - 1
        /\ \A i \in 1..Len(waiting') : waiting'[i] = waiting[i + 1]
    <3>1. active' = head /\ waiting' = Tail(waiting) /\ Len(waiting) >= 1 /\ head = waiting[1]
      BY <1>2
    <3> QED
      BY <1>2, <3>1, HeadTailProperties
  <2> HIDE DEF head
  <2>2. /\ head.live => where' = [also EXCEPT ![head.of] = "granted"]
        /\ ~head.live => where' = also
    BY <1>2 DEF head
  <2>3. head.live => where[head.of] = "queued" /\ rel[head.of] = head.rel
    BY <2>1 DEF WaitsForItsTurn
  <2>4. /\ where' \in [Runtimes -> RuntimePlaces]
        /\ \A q \in Runtimes : ~(head.live /\ head.of = q) => where'[q] = also[q]
        /\ head.live => where'[head.of] = "granted" /\ head.of \in Runtimes
    <3>1. head.of \in Runtimes /\ "granted" \in RuntimePlaces
      BY <2>1 DEF Contexts, RuntimePlaces, InTurn
    <3> QED
      BY <2>2, <3>1
  <2>5. QueueTypes' /\ KnowsOnlyUp'
    BY <2>1, <2>4, <1>2 DEF KnowsOnlyUp
  <2>6. WaitsForItsTurn'
    <3> SUFFICES ASSUME NEW i \in 1..Len(waiting'), waiting'[i].live
                 PROVE  where'[waiting'[i].of] = "queued" /\ rel'[waiting'[i].of] = waiting'[i].rel
      BY DEF WaitsForItsTurn
    <3> DEFINE c == waiting[i + 1]
    <3>1. c = waiting'[i] /\ c \in Contexts /\ c.live /\ i + 1 \in 1..Len(waiting) /\ i + 1 # 1
      BY <2>1, Waiting
    <3>2. where[c.of] = "queued" /\ rel[c.of] = c.rel /\ c.of \in Runtimes
      BY <3>1 DEF WaitsForItsTurn, Contexts
    <3>3. ~(head.live /\ head.of = c.of)
      BY <2>1, <3>1 DEF WaitsOnce
    <3> QED
      BY <2>4, <3>1, <3>2, <3>3
  <2>7. WaitsOnce'
    <3> SUFFICES ASSUME NEW i \in 1..Len(waiting'), NEW j \in 1..Len(waiting'),
                        waiting'[i].live, waiting'[j].live, waiting'[i].of = waiting'[j].of
                 PROVE  i = j
      BY DEF WaitsOnce
    <3>1. i + 1 \in 1..Len(waiting) /\ j + 1 \in 1..Len(waiting)
      BY <2>1
    <3>2. i + 1 = j + 1
      BY <2>1, <3>1 DEF WaitsOnce
    <3> QED
      BY <3>2
  <2>8. CurrentIsInTurn'
    BY <2>1, <2>3, <2>4 DEF CurrentIsInTurn, InTurn
  <2>9. Queue!TurnIsCurrent'
    <3> SUFFICES ASSUME NEW q \in Runtimes, where'[q] \in InTurn, q \notin older'
                 PROVE  active'.of = q /\ active'.rel = rel'[q] /\ active'.live
      BY DEF Queue!TurnIsCurrent, InTurn
    <3>1. head.live /\ head.of = q
      BY <2>4
    <3> QED
      BY <2>1, <2>3, <3>1
  <2> QED
    BY <2>5, <2>6, <2>7, <2>8, <2>9
<1> QED
  BY <1>1, <1>2

-----------------------------------------------------------------------------
(* Every action keeps the invariant.                                       *)

\* A step of a runtime that leaves the queue and the releases alone and neither starts
\* nor leaves a wait, nor starts a turn.
LEMMA MovesTurns ==
  ASSUME TurnsConstants, TurnsInv, NEW r \in Runtimes, NEW there \in RuntimePlaces, Queue!Go(r, there),
         UNCHANGED <<service, active, waiting, rel, older>>, where[r] # "queued",
         there \in InTurn <=> where[r] \in InTurn
  PROVE  TurnsInv'
<1> USE DEF TurnsConstants, TurnsInv, QueueTypes, Queue!Go
<1>1. QueueTypes' /\ KnowsOnlyUp' /\ WaitsOnce'
  BY DEF KnowsOnlyUp, WaitsOnce
<1>2. WaitsForItsTurn'
  BY Waiting DEF WaitsForItsTurn, Contexts
<1>3. CurrentIsInTurn' /\ Queue!TurnIsCurrent'
  <2>1. \A q \in Runtimes : where'[q] \in InTurn <=> where[q] \in InTurn
    OBVIOUS
  <2>2. active.live => active.of \in Runtimes
    BY DEF Contexts, Queue!Nobody
  <2> QED
    BY <2>1, <2>2 DEF CurrentIsInTurn, Queue!TurnIsCurrent, InTurn
<1> QED
  BY <1>1, <1>2, <1>3

\* A runtime's own steps.
LEMMA RuntimeTurns == ASSUME TurnsConstants, TurnsInv, NEW r \in Runtimes, Queue!Runtime(r) \/ Queue!Restart(r)
                      PROVE  TurnsInv'
<1>1. CASE Queue!Ask(r)
  BY <1>1, MovesTurns DEF Queue!Ask, RuntimePlaces, InTurn, Queue!queue
<1>2. CASE Queue!Granted(r)
  BY <1>2, MovesTurns DEF Queue!Granted, RuntimePlaces, InTurn, Queue!queue
<1>3. CASE Queue!TurnDone(r)
  BY <1>3, MovesTurns DEF Queue!TurnDone, RuntimePlaces, InTurn, Queue!queue
<1>4. CASE Queue!Restart(r)
  BY <1>4, MovesTurns DEF Queue!Restart, RuntimePlaces, InTurn, Queue!queue
<1> QED
  BY <1>1, <1>2, <1>3, <1>4 DEF Queue!Runtime

\* A turn asked for is let in where there is none, and waits otherwise.
LEMMA StartTurns == ASSUME TurnsConstants, TurnsInv, NEW r \in Runtimes, Queue!Start(r) PROVE TurnsInv'
<1> USE DEF TurnsConstants, TurnsInv, QueueTypes, Queue!Start, Queue!Go
<1>1. Queue!Context(r) \in Contexts /\ Queue!Context(r).of = r /\ Queue!Context(r).rel = rel[r] /\ Queue!Context(r).live
  BY DEF Queue!Context, Contexts
<1>2. /\ where[r] = "asked" /\ service = "up" /\ service' = service
      /\ rel' = rel /\ older' = older
      /\ \A q \in Runtimes \ {r} : where'[q] = where[q]
  OBVIOUS
<1>3. \A i \in 1..Len(waiting) : waiting[i].live => waiting[i].of # r /\ waiting[i].of \in Runtimes
  BY <1>2, Waiting DEF WaitsForItsTurn, Contexts
<1>4. CASE active = Queue!Nobody
  <2>1. active' = Queue!Context(r) /\ where' = [where EXCEPT ![r] = "granted"] /\ waiting' = waiting
    BY <1>4
  <2>2. QueueTypes' /\ KnowsOnlyUp' /\ WaitsOnce'
    BY <1>1, <1>2, <2>1 DEF KnowsOnlyUp, WaitsOnce, RuntimePlaces, InTurn
  <2>3. WaitsForItsTurn'
    BY <1>2, <1>3, <2>1 DEF WaitsForItsTurn
  <2>4. CurrentIsInTurn'
    BY <1>1, <1>2, <2>1 DEF CurrentIsInTurn, InTurn
  <2>5. Queue!TurnIsCurrent'
    BY <1>1, <1>2, <1>4, <2>1 DEF Queue!TurnIsCurrent, Queue!Nobody
  <2> QED
    BY <2>2, <2>3, <2>4, <2>5
<1>5. CASE active # Queue!Nobody
  <2>1. active' = active /\ where' = [where EXCEPT ![r] = "queued"] /\ waiting' = Append(waiting, Queue!Context(r))
    BY <1>5
  <2>2. /\ waiting' \in Seq(Contexts) /\ Len(waiting') = Len(waiting) + 1
        /\ waiting'[Len(waiting) + 1] = Queue!Context(r)
        /\ \A i \in 1..Len(waiting) : waiting'[i] = waiting[i]
    BY <1>1, <2>1
  <2>3. QueueTypes' /\ KnowsOnlyUp'
    BY <1>2, <2>1, <2>2 DEF KnowsOnlyUp, RuntimePlaces
  <2>4. WaitsForItsTurn'
    <3> SUFFICES ASSUME NEW i \in 1..Len(waiting'), waiting'[i].live
                 PROVE  where'[waiting'[i].of] = "queued" /\ rel'[waiting'[i].of] = waiting'[i].rel
      BY DEF WaitsForItsTurn
    <3>1. CASE i = Len(waiting) + 1
      BY <1>1, <1>2, <2>1, <2>2, <3>1
    <3>2. CASE i \in 1..Len(waiting)
      BY <1>2, <1>3, <2>2, <3>2 DEF WaitsForItsTurn
    <3> QED
      BY <2>2, <3>1, <3>2
  <2>5. WaitsOnce'
    <3> SUFFICES ASSUME NEW i \in 1..Len(waiting'), NEW j \in 1..Len(waiting'),
                        waiting'[i].live, waiting'[j].live, waiting'[i].of = waiting'[j].of
                 PROVE  i = j
      BY DEF WaitsOnce
    <3>1. \A k \in 1..Len(waiting') : k \in 1..Len(waiting) \/ k = Len(waiting) + 1
      BY <2>2
    <3>2. \A k \in 1..Len(waiting) : waiting'[k].live => waiting'[k].of # r
      BY <1>3, <2>2
    <3>3. waiting'[Len(waiting) + 1].of = r
      BY <1>1, <2>2
    <3>4. CASE i \in 1..Len(waiting) /\ j \in 1..Len(waiting)
      BY <2>2, <3>4 DEF WaitsOnce
    <3> QED
      BY <3>1, <3>2, <3>3, <3>4
  <2>6. CurrentIsInTurn' /\ Queue!TurnIsCurrent'
    <3>1. active.live => active.of \in Runtimes /\ active.of # r
      BY <1>2 DEF CurrentIsInTurn, Contexts, Queue!Nobody, InTurn
    <3> QED
      BY <1>2, <2>1, <3>1 DEF CurrentIsInTurn, Queue!TurnIsCurrent, InTurn
  <2> QED
    BY <2>3, <2>4, <2>5, <2>6
<1> QED
  BY <1>4, <1>5

\* The calls: a turn asked for, and ended by the runtime whose turn it is.
LEMMA CallTurns == ASSUME TurnsConstants, TurnsInv, NEW r \in Runtimes, Queue!Call(r) PROVE TurnsInv'
<1>1. CASE Queue!StartRefused(r)
  BY <1>1, EndsTurns DEF Queue!StartRefused, TurnsInv, QueueTypes
<1>2. CASE Queue!EndRefused(r)
  <2>1. rel' \in [Runtimes -> Nat] /\ \A q \in Runtimes \ {r} : rel'[q] = rel[q]
    BY <1>2 DEF Queue!EndRefused, TurnsInv, QueueTypes
  <2> QED
    BY <1>2, <2>1, EndsTurns DEF Queue!EndRefused
<1>3. CASE Queue!End(r)
  <2> DEFINE also == [where EXCEPT ![r] = "idle"]
  <2>1. also \in [Runtimes -> RuntimePlaces] /\ also[r] = "idle" /\ \A q \in Runtimes \ {r} : also[q] = where[q]
    BY DEF TurnsInv, QueueTypes, RuntimePlaces
  <2>2. Queue!Advances(also) /\ service' = service /\ service \in {"up", "draining"}
    BY <1>3 DEF Queue!End
  <2>3. /\ rel' \in [Runtimes -> Nat] /\ where[r] = "ending"
        /\ \A q \in Runtimes : where[q] = "queued" => rel'[q] = rel[q]
    BY <1>3 DEF Queue!End, TurnsInv, QueueTypes
  <2>4. ASSUME NEW q \in Runtimes, also[q] \in InTurn PROVE q \in older'
    BY <1>3, <2>1, <2>4 DEF Queue!End, TurnsInv, Queue!TurnIsCurrent, InTurn
  <2>5. \A q \in Runtimes : where[q] = "queued" => also[q] = "queued"
    BY <2>1, <2>3
  <2> HIDE DEF also
  <2> QED
    BY <2>1, <2>2, <2>3, <2>4, <2>5, AdvancesTurns
<1> QED
  BY <1>1, <1>2, <1>3, StartTurns DEF Queue!Call

\* A current turn whose runtime died is passed over.
LEMMA MonitorTurns == ASSUME TurnsConstants, TurnsInv, Queue!Monitor PROVE TurnsInv'
<1>1. \A q \in Runtimes : where[q] \in InTurn => q \in older'
  BY DEF Queue!Monitor, TurnsInv, Queue!TurnIsCurrent, InTurn
<1> QED
  BY <1>1, AdvancesTurns DEF Queue!Monitor, TurnsInv, QueueTypes

\* A dead wait is taken out.
LEMMA CancelledTurns == ASSUME TurnsConstants, TurnsInv, Queue!Cancelled PROVE TurnsInv'
<1> USE DEF TurnsConstants, TurnsInv, QueueTypes
<1>1. PICK i \in DOMAIN waiting : ~waiting[i].live /\
        waiting' = Queue!RemoveAt(waiting, i)
  BY DEF Queue!Cancelled
<1>2. i \in 1..Len(waiting) /\ Len(waiting) \in Nat
  BY Waiting
<1>3. /\ waiting' \in Seq(Contexts) /\ Len(waiting') = Len(waiting) - 1
      /\ \A k \in 1..(Len(waiting) - 1) : waiting'[k] = IF k < i THEN waiting[k] ELSE waiting[k + 1]
  BY <1>1, <1>2, RemoveOne
<1>4. UNCHANGED <<service, active, where, rel, older>>
  BY DEF Queue!Cancelled
<1>5. QueueTypes' /\ KnowsOnlyUp'
  <2>1. waiting # <<>>
    BY <1>2
  <2> QED
    BY <1>3, <1>4, <2>1 DEF KnowsOnlyUp
<1> DEFINE was(k) == IF k < i THEN k ELSE k + 1
<1>6. WaitsForItsTurn' /\ WaitsOnce'
  <2>1. \A k \in 1..(Len(waiting) - 1) : was(k) \in 1..Len(waiting) /\ waiting'[k] = waiting[was(k)]
    BY <1>2, <1>3
  <2>2. \A k, l \in 1..(Len(waiting) - 1) : was(k) = was(l) => k = l
    BY <1>2
  <2> HIDE DEF was
  <2>3. WaitsForItsTurn'
    <3> SUFFICES ASSUME NEW k \in 1..Len(waiting'), waiting'[k].live
                 PROVE  where'[waiting'[k].of] = "queued" /\ rel'[waiting'[k].of] = waiting'[k].rel
      BY DEF WaitsForItsTurn
    <3>1. was(k) \in 1..Len(waiting) /\ waiting'[k] = waiting[was(k)]
      BY <1>3, <2>1
    <3>2. where[waiting[was(k)].of] = "queued" /\ rel[waiting[was(k)].of] = waiting[was(k)].rel
      BY <3>1 DEF WaitsForItsTurn
    <3> QED
      BY <1>4, <3>1, <3>2
  <2>4. WaitsOnce'
    BY <1>3, <1>4, <2>1, <2>2 DEF WaitsOnce
  <2> QED
    BY <2>3, <2>4
<1>7. CurrentIsInTurn' /\ Queue!TurnIsCurrent'
  BY <1>4 DEF CurrentIsInTurn, Queue!TurnIsCurrent
<1> QED
  BY <1>5, <1>6, <1>7

\* The service stops, is killed or starts: who waited is told, and nobody is current.
LEMMA ServiceTurns ==
  ASSUME TurnsConstants, TurnsInv,
         Queue!Drain \/ Queue!Drained \/ Queue!KillService \/ Queue!StartService \/ Queue!Ready \/ Queue!NotReady
  PROVE  TurnsInv'
<1> USE DEF TurnsConstants, TurnsInv, QueueTypes
<1>1. Queue!Rejected \subseteq {q \in Runtimes : where[q] = "queued"}
  BY Waiting DEF Queue!Rejected, WaitsForItsTurn, Contexts
<1>2. CASE Queue!Drain
  <2>1. /\ waiting' = <<>> /\ service' = "draining" /\ service = "up"
        /\ UNCHANGED <<active, rel, older>> /\ where' \in [Runtimes -> RuntimePlaces]
    BY <1>2 DEF Queue!Drain, RuntimePlaces
  <2>2. \A q \in Runtimes : where'[q] \in InTurn <=> where[q] \in InTurn
    BY <1>1, <1>2 DEF Queue!Drain, InTurn
  <2>3. QueueTypes' /\ KnowsOnlyUp' /\ WaitsForItsTurn' /\ WaitsOnce'
    BY <2>1 DEF KnowsOnlyUp, WaitsForItsTurn, WaitsOnce
  <2>4. CurrentIsInTurn' /\ Queue!TurnIsCurrent'
    <3>1. active.live => active.of \in Runtimes
      BY DEF Contexts, Queue!Nobody
    <3> QED
      BY <2>1, <2>2, <3>1 DEF CurrentIsInTurn, Queue!TurnIsCurrent, InTurn
  <2> QED
    BY <2>3, <2>4
<1>3. CASE Queue!Drained \/ Queue!KillService
  <2>1. /\ service' = "down" /\ active' = Queue!Nobody /\ waiting' = <<>> /\ rel' = rel
        /\ where' \in [Runtimes -> RuntimePlaces]
        /\ \A q \in Runtimes : where'[q] \in InTurn => q \in older'
    <3>1. CASE Queue!Drained
      BY <3>1 DEF Queue!Drained, KnowsOnlyUp, InTurn
    <3>2. CASE Queue!KillService
      BY <3>2 DEF Queue!KillService, InTurn, RuntimePlaces
    <3> QED
      BY <1>3, <3>1, <3>2
  <2>2. QueueTypes' /\ KnowsOnlyUp' /\ WaitsForItsTurn' /\ WaitsOnce'
    BY <2>1 DEF KnowsOnlyUp, WaitsForItsTurn, WaitsOnce
  <2>3. CurrentIsInTurn' /\ Queue!TurnIsCurrent'
    BY <2>1 DEF CurrentIsInTurn, Queue!TurnIsCurrent, InTurn, Queue!Nobody
  <2> QED
    BY <2>2, <2>3
<1>4. CASE Queue!StartService \/ Queue!Ready \/ Queue!NotReady
  <2>1. /\ service' \in {"starting", "up", "down"} /\ service \in {"down", "starting"}
        /\ UNCHANGED <<active, waiting, where, rel, older>>
    BY <1>4 DEF Queue!StartService, Queue!Ready, Queue!NotReady
  <2> QED
    BY <2>1 DEF KnowsOnlyUp, WaitsForItsTurn, WaitsOnce, CurrentIsInTurn, Queue!TurnIsCurrent
<1> QED
  BY <1>2, <1>3, <1>4

-----------------------------------------------------------------------------
(* Every step, and what follows for every behaviour.                       *)

\* At the beginning nobody asks.
LEMMA InitTurns == ASSUME TurnsConstants, Queue!Init PROVE TurnsInv
<1>1. QueueTypes
  BY DEF TurnsConstants, Queue!Init, QueueTypes, RuntimePlaces
<1>2. KnowsOnlyUp /\ WaitsForItsTurn /\ WaitsOnce
  BY DEF Queue!Init, KnowsOnlyUp, WaitsForItsTurn, WaitsOnce
<1>3. CurrentIsInTurn /\ Queue!TurnIsCurrent
  BY DEF Queue!Init, CurrentIsInTurn, Queue!TurnIsCurrent, Queue!Nobody
<1> QED
  BY <1>1, <1>2, <1>3 DEF TurnsInv

\* Every step keeps the invariant.
LEMMA StepTurns == ASSUME TurnsConstants, TurnsInv, [Queue!Next]_(Queue!vars) PROVE TurnsInv'
<1>1. ASSUME NEW r \in Runtimes, Queue!Die(r) PROVE TurnsInv'
  BY <1>1, EndsTurns DEF Queue!Die, TurnsInv, QueueTypes
<1>2. CASE Queue!Next
  BY <1>1, <1>2, RuntimeTurns, CallTurns, MonitorTurns, CancelledTurns, ServiceTurns DEF Queue!Next
<1>3. CASE UNCHANGED Queue!vars
  BY <1>3 DEF Queue!vars, TurnsInv, QueueTypes, KnowsOnlyUp, WaitsForItsTurn, WaitsOnce,
     CurrentIsInTurn,
     Queue!TurnIsCurrent
<1> QED
  BY <1>2, <1>3

\* The invariant of the queue holds in every reachable state.
THEOREM TurnsInvariant == ASSUME TurnsConstants PROVE Queue!Spec => []TurnsInv
<1>1. Queue!Init => TurnsInv
  BY InitTurns
<1>2. TurnsInv /\ [Queue!Next]_(Queue!vars) => TurnsInv'
  BY StepTurns
<1> QED
  BY <1>1, <1>2, PTL DEF Queue!Spec

\* records-tool.ts, "one turn is current": over deaths, cancelled waits, drains and late
\* ends, a runtime in a turn the running service let in is the current one.
THEOREM CurrentTurn == ASSUME TurnsConstants PROVE Queue!Spec => []Queue!TurnIsCurrent
<1>1. TurnsInv => Queue!TurnIsCurrent
  BY DEF TurnsInv
<1> QED
  BY <1>1, TurnsInvariant, PTL

\* The same of the run's specification, where the queue is one of two parts; while the
\* jobs move it stands, with nobody in a turn.
THEOREM CurrentTurnStands == ASSUME TurnsConstants PROVE BothSpec => []TurnIsCurrent
<1>1. BothInit => TurnsInv
  <2>1. CASE Queue!Init
    BY <2>1, InitTurns
  <2>2. CASE Still
    <3>1. QueueTypes
      BY <2>2 DEF Still, QueueTypes, TurnsConstants, RuntimePlaces, Queue!Nobody
    <3> QED
      BY <2>2, <3>1 DEF Still, TurnsInv, KnowsOnlyUp, WaitsForItsTurn, WaitsOnce, CurrentIsInTurn,
         Queue!TurnIsCurrent, Queue!Nobody
  <2> QED
    BY <2>1, <2>2 DEF BothInit
<1>2. TurnsInv /\ [BothNext]_<<vars, queueVars, part>> => TurnsInv'
  <2>1. [BothNext]_<<vars, queueVars, part>> => [Queue!Next]_(Queue!vars)
    BY DEF BothNext, queueVars, Queue!vars
  <2> QED
    BY <2>1, StepTurns
<1>3. TurnsInv => TurnIsCurrent
  BY DEF TurnsInv, TurnIsCurrent
<1> QED
  BY <1>1, <1>2, <1>3, PTL DEF BothSpec
=============================================================================

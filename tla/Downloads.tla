------------------------------ MODULE Downloads ------------------------------
(* The downloads of the Telegram long poll (adapters/telegram/live.ts).     *)
(* While an album's window is open its members' files are fetched eagerly,  *)
(* within a bound of members and bytes and through a few lanes; when the    *)
(* window has closed the batch awaits what is running and fetches the rest. *)
(* Module Intake has the updates, the offset and the records; here they are *)
(* seen, handed over and confirmed.                                         *)
(*                                                                          *)
(* What runs between two awaits is one step.  Ages are not counted: a       *)
(* member that is being fetched speculatively may be too old at any ask.    *)
EXTENDS Integers, Sequences, FiniteSets, FiniteSetsExt, SequencesExt

CONSTANTS
    Members,            \* the updates that bring a file, by their numbers
    Said,               \* the size the provider gives for it, Unsaid when none
    Real,               \* the length of its body
    Unsaid,
    Limit,              \* max_attachment_bytes
    DOWNLOAD_CHAINS, SPECULATIVE_MEMBERS, SPECULATIVE_CHAINS

VARIABLES
    window,     \* the worker: open, settling, handed or stopped
    seen,       \* members remembered and not confirmed
    gone,       \* members confirmed
    spec,       \* the bytes reserved for each speculative member, None when it is none
    abandoned,  \* members never speculated again
    cache,      \* entry.media: none, file or failure
    chains,     \* the fetches running: [id, nth], an eager one first
    inflight,   \* entry.inflight: which of them is the member's own, 0 for none
    ended,      \* fetches whose signal is aborted
    free, queue,\* the lanes
    given,      \* what the settled batch has for each member: none, file, failure
    troubled    \* members a fetch of which failed, or whose body is over the limit

vars == <<window, seen, gone, spec, abandoned, cache, chains, inflight, ended, free, queue, given, troubled>>

None == -1
Speculative == {i \in Members : spec[i] # None}
Held(reserved) == MapThenSumSet(LAMBDA i : reserved[i], {i \in Members : reserved[i] # None})
Chain(i, nth) == [id |-> i, nth |-> nth]
Running(i) == Chain(i, inflight[i])
HoldsLane == chains \ ToSet(queue)

(* A declared size over the limit is not fetched at all.                    *)
Wanted(i) == Said[i] = Unsaid \/ Said[i] <= Limit
Reserve(i) == IF Said[i] = Unsaid THEN Limit ELSE Said[i]

Init ==
    /\ window = "open" /\ seen = {} /\ gone = {}
    /\ spec = [i \in Members |-> None] /\ abandoned = {}
    /\ cache = [i \in Members |-> "none"] /\ chains = {}
    /\ inflight = [i \in Members |-> 0] /\ ended = {}
    /\ free = DOWNLOAD_CHAINS /\ queue = <<>>
    /\ given = [i \in Members |-> "none"] /\ troubled = {}

(***************************************************************************)
(* The lanes, and the parts of the worker a step changes, as one record.    *)
(***************************************************************************)

Now == [spec |-> spec, abandoned |-> abandoned, cache |-> cache, chains |-> chains,
        inflight |-> inflight, ended |-> ended, free |-> free, queue |-> queue]
Becomes(w) ==
    /\ spec' = w.spec /\ abandoned' = w.abandoned /\ cache' = w.cache /\ chains' = w.chains
    /\ inflight' = w.inflight /\ ended' = w.ended /\ free' = w.free /\ queue' = w.queue

(* A lane when one is free, or a place in the queue.                        *)
Take(w, chain) ==
    IF w.free > 0 THEN [w EXCEPT !.free = @ - 1, !.chains = @ \cup {chain}]
    ELSE [w EXCEPT !.queue = Append(@, chain), !.chains = @ \cup {chain}]

(* The lane goes straight to the next that waits.                           *)
GiveToNobody(w) == [w EXCEPT !.queue = IF @ = <<>> THEN @ ELSE Tail(@),
                           !.free = IF w.queue = <<>> THEN @ + 1 ELSE @,
                           !.chains = IF w.queue = <<>> THEN @ ELSE @ \ {Head(w.queue)}]
Give(w) == IF w.queue # <<>> THEN [w EXCEPT !.queue = Tail(@)] ELSE [w EXCEPT !.free = @ + 1]

(* A fetch whose signal ends leaves the queue and never starts.             *)
Abort(w, these) ==
    LET waiting == these \cap ToSet(w.queue) IN
    [w EXCEPT !.queue = SelectSeq(@, LAMBDA c : c \notin waiting),
              !.chains = @ \ waiting, !.ended = @ \cup (these \ waiting),
              !.inflight = [i \in Members |-> IF Chain(i, @[i]) \in waiting THEN 0 ELSE @[i]]]

(***************************************************************************)
(* The worker.                                                              *)
(***************************************************************************)

(* startEager: what has waited too long is let go, and its fetch aborted;   *)
(* then each member of the batch that is not being fetched, as far as the   *)
(* bound allows.                                                            *)
Expire(old) ==
    LET w == Abort(Now, {Running(i) : i \in {i \in old : inflight[i] # 0}}) IN
    [w EXCEPT !.spec = [i \in Members |-> IF i \in old THEN None ELSE @[i]],
              !.abandoned = @ \cup old,
              !.cache = [i \in Members |-> IF i \in old THEN "none" ELSE @[i]],
              !.inflight = [i \in Members |-> IF i \in old THEN 0 ELSE @[i]]]

Cap == SPECULATIVE_CHAINS * Limit

Speculate(w, i) ==
    IF \/ ~Wanted(i) \/ w.cache[i] # "none" \/ w.inflight[i] # 0 \/ i \in w.abandoned
       \/ Cardinality({j \in Members : w.spec[j] # None}) >= SPECULATIVE_MEMBERS
       \/ Held(w.spec) + Reserve(i) > Cap
    THEN w
    ELSE Take([w EXCEPT !.spec[i] = Reserve(i), !.inflight[i] = 1], Chain(i, 1))

InOrder(ids) == SetToSortSeq(ids, <)

(* An answer that leaves the album's window open.                           *)
Ask(new, old) ==
    /\ window = "open" /\ new \subseteq Members \ (seen \cup gone) /\ seen \cup new # {}
    /\ old \subseteq Speculative
    /\ seen' = seen \cup new
    /\ Becomes(FoldLeft(Speculate, Expire(old), InOrder(seen \cup new)))
    /\ UNCHANGED <<window, gone, given, troubled>>

(* mediaFor of a settled member: it is speculative no longer, and what is   *)
(* cached or running is used before a fetch is started.                     *)
Settle(w, i) ==
    LET taken == [w EXCEPT !.spec[i] = None] IN
    IF ~Wanted(i) THEN w
    ELSE IF taken.cache[i] # "none" \/ taken.inflight[i] # 0 THEN taken
    ELSE Take([taken EXCEPT !.inflight[i] = 2], Chain(i, 2))

(* The answer on which the window has closed.                               *)
Settled(new) ==
    /\ window = "open" /\ new \subseteq Members \ (seen \cup gone) /\ seen \cup new # {}
    /\ window' = "settling" /\ seen' = seen \cup new
    /\ Becomes(FoldLeft(Settle, Now, InOrder(seen \cup new)))
    /\ given' = [i \in Members |-> IF i \in seen \cup new THEN cache[i] ELSE "none"]
    /\ UNCHANGED <<gone, troubled>>

(* A fetch comes back: with its body, with nothing, or refused for its      *)
(* size; an aborted one may have had its body already.                      *)
Outcomes(chain) == {"nothing", IF Real[chain.id] > Limit THEN "oversize" ELSE "body"}

(* The bytes a speculative body really takes may be more than were kept for *)
(* it: over the budget it is dropped, and not cached.                       *)
JudgeBySaid(w, i) == TRUE
Judge(w, i) == w.spec[i] = None \/ Held([w.spec EXCEPT ![i] = Real[i]]) <= Cap

ComesBack(chain, outcome) ==
    LET i == chain.id
        own == inflight[i] = chain.nth
        keep == chain \notin ended
        fits == outcome # "body" \/ Judge(Now, i)
        result == IF outcome = "body" /\ fits THEN "file" ELSE "failure"
        w == Give([Now EXCEPT !.chains = @ \ {chain}, !.ended = @ \ {chain}])
    IN
    /\ chain \in HoldsLane /\ outcome \in Outcomes(chain)
    /\ Becomes([w EXCEPT
           !.inflight[i] = IF own THEN 0 ELSE @,
           !.cache[i] = IF keep /\ fits /\ window # "stopped" THEN result ELSE @,
           !.spec[i] = IF outcome = "oversize" \/ (keep /\ ~fits) THEN None
                       ELSE IF keep /\ outcome = "body" /\ @ # None THEN Real[i] ELSE @,
           !.abandoned = IF keep /\ ~fits THEN @ \cup {i} ELSE @])
    /\ given' = IF own /\ window = "settling" /\ i \in seen THEN [given EXCEPT ![i] = result] ELSE given
    /\ troubled' = IF keep /\ outcome # "body" THEN troubled \cup {i} ELSE troubled
    /\ UNCHANGED <<window, seen, gone>>

(* Every fetch of the batch has come back: it is handed over.               *)
HandOver ==
    /\ window = "settling" /\ \A i \in seen : Wanted(i) => given[i] # "none"
    /\ window' = "handed"
    /\ UNCHANGED <<seen, gone, spec, abandoned, cache, chains, inflight, ended, free, queue, given, troubled>>

(* The loop has consumed the batch: what the store confirmed is forgotten.  *)
DropConfirmed ==
    /\ window = "handed" /\ window' = "open"
    /\ gone' = gone \cup seen /\ seen' = {}
    /\ spec' = [i \in Members |-> IF i \in seen THEN None ELSE spec[i]]
    /\ cache' = [i \in Members |-> IF i \in seen THEN "none" ELSE cache[i]]
    /\ abandoned' = abandoned \ seen
    /\ given' = [i \in Members |-> "none"]
    /\ UNCHANGED <<chains, inflight, ended, free, queue, troubled>>

(* stop(): every fetch is aborted, and the batch is not handed over.        *)
Stop ==
    /\ window # "stopped" /\ window' = "stopped"
    /\ Becomes(Abort(Now, chains))
    /\ UNCHANGED <<seen, gone, given, troubled>>

Returns == \E chain \in chains : \E outcome \in {"body", "oversize", "nothing"} : ComesBack(chain, outcome)

Next ==
    \/ \E new \in SUBSET Members : Settled(new) \/ \E old \in SUBSET Members : Ask(new, old)
    \/ Returns \/ HandOver \/ DropConfirmed \/ Stop

(* A call has a deadline, and the loop hands over what is ready.            *)
Fairness == WF_vars(Returns) /\ WF_vars(HandOver)
Spec == Init /\ [][Next]_vars /\ Fairness

(***************************************************************************)
(* Properties.                                                              *)
(***************************************************************************)

(* "free + held always equals DOWNLOAD_CHAINS", and nobody waits beside a   *)
(* free lane, through aborts of fetches that wait and that run.             *)
LanesAreKept ==
    /\ free + Cardinality(HoldsLane) = DOWNLOAD_CHAINS
    /\ queue # <<>> => free = 0
    /\ ToSet(queue) \subseteq chains

(* The bytes kept for speculative members are within the cap, whatever the  *)
(* provider said of their sizes, and their number within its own; and the   *)
(* body of a cached one is what is kept for it.                             *)
WithinBudget ==
    /\ Held(spec) <= Cap /\ Cardinality(Speculative) <= SPECULATIVE_MEMBERS
    /\ \A i \in Speculative : cache[i] = "file" => spec[i] = Real[i]

(* What is handed over has its file unless a fetch of it failed or its body *)
(* is over the limit: never because a speculation was too old, was dropped  *)
(* for the budget, or because a stop ended it.                              *)
NothingDroppedIsHanded == window = "handed" =>
    \A i \in seen : Wanted(i) => given[i] = "file" \/ i \in troubled

(* A batch whose window has closed is handed over, however many fetches     *)
(* that nobody awaits hold the lanes, unless a stop ends it.                *)
BatchIsHanded == window = "settling" ~> window \in {"handed", "stopped"}

TypeOK ==
    /\ seen \subseteq Members /\ gone \cap seen = {} /\ free \in 0..DOWNLOAD_CHAINS
    /\ spec \in [Members -> {None} \cup 0..Limit] /\ cache \in [Members -> {"none", "file", "failure"}]
    /\ inflight \in [Members -> 0..2] /\ \A i \in Members : inflight[i] # 0 => Running(i) \in chains

(* Eager fetches stay within lanes and bytes, and cost no message its file. *)
DownloadsAreBounded == TypeOK /\ LanesAreKept /\ WithinBudget /\ NothingDroppedIsHanded
=============================================================================

------------------------------ MODULE Program ------------------------------
(***************************************************************************)
(* The program harness (harness/program) under its release loop: one child  *)
(* that prepares what was captured while nothing is asked, one child for    *)
(* each turn, the group of processes each of them may leave behind, the     *)
(* artifacts they hand over in work/prepared, and the result the loop takes *)
(* to the reply gate.  A child dies with its process (bwrap                 *)
(* --die-with-parent).  An artifact is named by the record it was made of.  *)
(***************************************************************************)
EXTENDS Integers, FiniteSets, Sequences, SequencesExt

CONSTANTS Items,     \* records with a file: a message at a revision
          MessageOf, ConversationOf,
          Tracked,   \* bound: PREPARE_TRACKED
          MaxEnds    \* bound: kills and stops

VARIABLES
    up, stopping, ends,
    item,      \* of each record: "outside", "captured", "asked", "closed"
    release,   \* of each record: the records it was released with
    replies, sent, \* the releases with an outbound record, and with a sent one
    preparing, \* the records of the job whose child runs
    preparers, \* a process of that child's group lives
    ready,     \* the settled jobs: [of, files]
    jobs,      \* prepareJobs, in the order of its keys: <<message, job>>
    prepared,  \* the records with an artifact in work/prepared
    turn,      \* [of, kept, phase]: the release being taken
    handlers,  \* a process of the turn's group lives
    stray      \* artifacts that no release has to remove

process == <<up, stopping, ends>>
store == <<item, release, replies, sent>>
preparation == <<preparing, preparers, ready, jobs>>
taking == <<turn, handlers>>
progVars == <<process, store, preparation, prepared, taking, stray>>

NoTurn == [of |-> {}, kept |-> {}, phase |-> "none"]
Idle == up /\ turn = NoTurn

Init ==
    /\ up = TRUE /\ stopping = FALSE /\ ends = 0
    /\ item = [i \in Items |-> "outside"] /\ release = [i \in Items |-> {}]
    /\ replies = {} /\ sent = {}
    /\ preparing = {} /\ preparers = FALSE /\ ready = {} /\ jobs = <<>>
    /\ prepared = {} /\ turn = NoTurn /\ handlers = FALSE /\ stray = {}

----------------------------------------------------------------------------
(* Preparation.                                                             *)

(* A key that is there already keeps its place, and the oldest go.          *)
Track(batch) ==
    LET known == {jobs[k][1] : k \in DOMAIN jobs}
        kept == [k \in DOMAIN jobs |-> IF jobs[k][1] \in {MessageOf[i] : i \in batch}
                                       THEN <<jobs[k][1], batch>> ELSE jobs[k]]
        all == kept \o SetToSeq({<<MessageOf[i], batch>> : i \in {j \in batch : MessageOf[j] \notin known}})
    IN IF Len(all) > Tracked THEN SubSeq(all, Len(all) - Tracked + 1, Len(all)) ELSE all

Followed(list) == UNION {{<<i, list[k][2]>> : i \in {j \in list[k][2] : MessageOf[j] = list[k][1]}}
                         : k \in DOMAIN list}

(* A settled job is kept by the keys that lead to it.                       *)
Kept(settled, list) == {r \in settled : \E k \in DOMAIN list : list[k][2] = r.of}

(* The records whose job the list no longer leads to.                       *)
LostBy(list) == {pair[1] : pair \in Followed(jobs) \ Followed(list)}

(* A pass captures, and starts one child for what is new, if none runs.     *)
Capture(batch) ==
    /\ Idle /\ batch # {} /\ \A i \in batch : item[i] = "outside"
    /\ item' = [i \in Items |-> IF i \in batch THEN "captured" ELSE item[i]]
    /\ IF preparing # {} \/ stopping
       THEN UNCHANGED <<preparation, stray, prepared>>
       ELSE /\ preparing' = batch /\ preparers' = TRUE /\ jobs' = Track(batch)
            /\ stray' = stray \cup LostBy(jobs')
                        \cup {i \in batch : <<i, batch>> \notin Followed(jobs')}
            /\ ready' = Kept(ready, jobs') /\ UNCHANGED prepared
    /\ UNCHANGED <<process, release, replies, sent, taking>>

(* Its child closes, fails or is out of time: what it has made is bound and *)
(* renamed into place, or nothing is, and its group is killed.              *)
PrepareEnds(files) ==
    /\ up /\ preparing # {} /\ files \subseteq preparing
    /\ ready' = Kept(ready \cup {[of |-> preparing, files |-> files]}, jobs)
    /\ prepared' = prepared \cup files
    /\ preparing' = {} /\ preparers' = FALSE
    /\ UNCHANGED <<process, store, jobs, taking, stray>>

----------------------------------------------------------------------------
(* A turn.                                                                  *)

Quiet(c) == {i \in Items : ConversationOf[i] = c /\ item[i] = "captured"}
Owed == {release[i] : i \in {j \in Items : item[j] = "asked" /\ release[j] \notin replies}}

(* The entries of other messages, in their order.                           *)
Without(list, messages) ==
    LET left == {k \in DOMAIN list : list[k][1] \notin messages}
        Rank(k) == Cardinality({j \in left : j <= k})
    IN [n \in 1 .. Cardinality(left) |-> list[CHOOSE k \in left : Rank(k) = n]]

JobsOf(group) == {jobs[k][2] : k \in {n \in DOMAIN jobs : jobs[n][1] \in {MessageOf[i] : i \in group}}}
IsRunning(job) == preparing # {} /\ job = preparing

(* The release is written, and joinPrepare takes what is ready and cancels  *)
(* what runs.                                                               *)
Ask(group) ==
    LET joined == JobsOf(group)
        cancelled == {job \in joined : IsRunning(job)} IN
    /\ Idle /\ ~stopping /\ group # {}
    /\ item' = [i \in Items |-> IF i \in group THEN "asked" ELSE item[i]]
    /\ release' = [i \in Items |-> IF i \in group THEN group ELSE release[i]]
    /\ jobs' = Without(jobs, {MessageOf[i] : i \in group})
    /\ ready' = Kept(ready \cup {[of |-> job, files |-> {}] : job \in cancelled}, jobs')
    /\ IF cancelled = {} THEN UNCHANGED <<preparing, preparers>> ELSE preparing' = {} /\ preparers' = FALSE
    /\ turn' = [of |-> group, kept |-> UNION {job.files : job \in {r \in ready : r.of \in joined}}, phase |-> "asked"]
    /\ UNCHANGED <<process, replies, sent, prepared, handlers, stray>>

Spawn ==
    /\ turn.phase = "asked" /\ turn' = [turn EXCEPT !.phase = "runs"] /\ handlers' = TRUE
    /\ UNCHANGED <<process, store, preparation, prepared, stray>>

(* The handler is gone and what it started still holds its pipes.           *)
HandlerExits ==
    /\ turn.phase = "runs" /\ turn' = [turn EXCEPT !.phase = "lingers"]
    /\ UNCHANGED <<process, store, preparation, prepared, handlers, stray>>

FinishAlone == handlers' \in {FALSE, handlers}    \* a slip: the child alone is over
(* finish: the timer goes and the group is killed.                          *)
Finish == handlers' = FALSE

Discard == prepared' = prepared \ turn.kept

(* The child closed with exit 0 and a result.                               *)
Result(disposition) ==
    /\ turn.phase = "runs" /\ Finish /\ Discard
    /\ turn' = [turn EXCEPT !.phase = disposition]
    /\ UNCHANGED <<process, store, preparation, stray>>

Closes ==
    /\ item' = [i \in Items |-> IF i \in turn.of THEN "closed" ELSE item[i]]
    /\ turn' = NoTurn
    /\ UNCHANGED release

(* A program's fault is parked with its messages: no other harness is asked. *)
Faults ==
    /\ Finish /\ Discard /\ Closes
    /\ UNCHANGED <<process, replies, sent, preparation, stray>>

(* A secret cannot be had and no child is started, the child fails or says  *)
(* too much, or what it said is not a result for this release.              *)
Unspawned == turn.phase = "asked" /\ Faults
Fails == turn.phase = "runs" /\ Faults
Invalid == turn.phase = "runs" /\ Faults
MayExpireRunning == turn.phase = "runs"    \* a slip: the exit stops the clock
MayExpire == turn.phase \in {"runs", "lingers"}
Expires == MayExpire /\ Faults

(* The reply goes through the gate as a tool's would.                       *)
WriteReply ==
    /\ turn.phase = "reply" /\ replies' = replies \cup {turn.of}
    /\ turn' = [turn EXCEPT !.phase = "replied"]
    /\ UNCHANGED <<process, item, release, sent, preparation, prepared, handlers, stray>>

(* What was replied, declared to need none, or refused by the gate.         *)
Close ==
    /\ turn.phase \in {"replied", "declared", "reply"} /\ Closes
    /\ UNCHANGED <<process, replies, sent, preparation, prepared, handlers, stray>>

(* What is sent completes its release, when a kill left that open.          *)
Deliver ==
    /\ Idle /\ sent # replies /\ sent' = replies
    /\ item' = [i \in Items |-> IF item[i] = "asked" /\ release[i] \in replies \ sent THEN "closed" ELSE item[i]]
    /\ UNCHANGED <<process, release, replies, preparation, prepared, taking, stray>>

----------------------------------------------------------------------------
(* The process.                                                             *)

Gone(files) ==
    /\ up' = FALSE /\ stopping' = FALSE
    /\ preparing' = {} /\ preparers' = FALSE /\ ready' = {} /\ jobs' = <<>>
    /\ turn' = NoTurn /\ handlers' = FALSE
    /\ prepared' = prepared \cup files /\ stray' = stray \cup prepared'
    /\ UNCHANGED store

StopSignal ==
    /\ up /\ ~stopping /\ ends < MaxEnds /\ stopping' = TRUE /\ ends' = ends + 1
    /\ UNCHANGED <<up, store, preparation, prepared, taking, stray>>

(* The drain is over: session.stop kills what is left.                      *)
Leave == Idle /\ stopping /\ Gone({}) /\ UNCHANGED ends

(* A kill may come between two artifacts of one job.                        *)
Kill(files) ==
    /\ up /\ ends < MaxEnds /\ files \subseteq preparing
    /\ ends' = ends + 1 /\ Gone(files)

(* A start sweeps what is old, and closes what was sent.                    *)
Start ==
    /\ ~up /\ up' = TRUE /\ prepared' \in {prepared, {}}
    /\ item' = [i \in Items |-> IF item[i] = "asked" /\ release[i] \in sent THEN "closed" ELSE item[i]]
    /\ UNCHANGED <<stopping, ends, release, replies, sent, preparation, taking, stray>>

Prepare == \E files \in SUBSET preparing : PrepareEnds(files)
Release == \E group \in {Quiet(c) : c \in {ConversationOf[i] : i \in Items}} \cup Owed : Ask(group)
Settle == WriteReply \/ Close

Next ==
    \/ \E batch \in SUBSET Items : Capture(batch)
    \/ Prepare \/ Release \/ Spawn \/ Unspawned \/ HandlerExits \/ Fails \/ Invalid \/ Expires
    \/ \E disposition \in {"reply", "declared"} : Result(disposition)
    \/ Settle \/ Deliver \/ StopSignal \/ Leave
    \/ \E files \in SUBSET preparing : Kill(files)
    \/ Start

Spec == Init /\ [][Next]_progVars

(* The turn's timer and the loop's own steps.                               *)
Fairness ==
    /\ WF_progVars(Spawn \/ Unspawned) /\ WF_progVars(Expires) /\ WF_progVars(Settle)
FairSpec == Spec /\ Fairness

----------------------------------------------------------------------------
(* No process of a child's group outlives the wait for it, whoever it left  *)
(* behind (harness/program/index.ts:413 killGroup).                         *)
NoChildIsLeft ==
    /\ handlers => turn.phase \in {"runs", "lingers"}
    /\ preparers => preparing # {}

(* After the end of its release nothing is left of what was prepared for a  *)
(* message (loop.ts:1511), but for what no release had to remove: a job     *)
(* pushed out of the table or off its message by a later one, or a process  *)
(* that ended.                                                              *)
ArtifactsGo == turn = NoTurn => \A i \in prepared : item[i] = "closed" => i \in stray

(* While its handler runs, a message gets no further artifact: a release    *)
(* takes what is ready and cancels the rest (loop.ts:1258).                 *)
StillDuringTurn == [][turn.phase \in {"runs", "lingers"} =>
    (prepared' \ prepared) \cap turn.of \subseteq stray]_progVars

(* A turn ends though its handler hangs, or leaves a process that holds its *)
(* output open.                                                             *)
EachTurnEnds == (turn # NoTurn) ~> (turn = NoTurn)

(* A release leaves no process and no artifact behind.                      *)
NothingIsLeft == NoChildIsLeft /\ ArtifactsGo

(* A turn ends, and the files it was given do not change under it.          *)
TurnsEnd == StillDuringTurn /\ EachTurnEnds
=============================================================================

------------------------------- MODULE Imports -------------------------------
(* carbon-import whatsapp and carbon-import ledger-sqlite, writing a        *)
(* client's history into the store of an agent that is running: two         *)
(* processes with no lock between them, each reading a record's file and    *)
(* then replacing it.  The chat is keyed by phone number in the sources and *)
(* by linked id by the live adapter, which learns the pair at some moment.  *)
(*                                                                          *)
(* A file is written whole (tmp and rename); reading it and replacing it    *)
(* are two steps, of either process.  A row's attachment is put beside its  *)
(* record before the record, and an orphan of it is not told apart.         *)
EXTENDS Naturals, Sequences, FiniteSets, SequencesExt

CONSTANTS
    Ids,          \* the platform's message ids of the one chat
    Late,         \* the ids of the rows the sources gain after the start
    Arriving,     \* the ids that come over the live channel, now or once more
    Pictures,     \* the ids whose row has a file in the export
    Corrections,  \* the corrections of the ledger, each of a query of its own
    Names,        \* the ids a correction names
    MaxRuns,      \* bound: how often an import is started
    MaxMishaps,   \* bound: imports cut short, and queries that fail
    Batch         \* BATCH: the rows taken at once

VARIABLES
    held,       \* the record of each conversation and id, Nothing when none
    raws,       \* the raw lines the imports appended for it
    paired,     \* the live adapter has written the pair into its map
    rowsOf,     \* the ids the sources hold
    noted,      \* the corrections the ledger holds
    import,     \* the import's process
    runtime,    \* what the runtime's process has read and is about to write
    heard,      \* the ids the live adapter has consumed
    woken,      \* how often each message was released to the agent
    sidecars,   \* corrections/<conversation>.json
    unlinked,   \* corrections/unlinked.json
    runs, mishaps,
    claimed,    \* live captures refused: the id was an import's already
    crossed,    \* records replaced by a process that had read an older one
    reopened,   \* parked captures that a row of an import set captured again
    slipped,    \* conversations indexed under the key of before the pair
    overtaken,  \* the message of the row, when it was captured live since the import
                \* asked whether it was there
    unread      \* corrections whose query failed in the last run

vars == <<held, raws, paired, rowsOf, noted, import, runtime, heard, woken, sidecars,
          unlinked, runs, mishaps, claimed, crossed, reopened, slipped, overtaken, unread>>

(* No file at the path.                                                     *)
Nothing == [source |-> "none", disposition |-> "none", release |-> "none", files |-> {}]
Unindexed == "none"
Chats == {"phone", "lid"}
Keys == Chats \X Ids

(* The runtime writes whatsapp records and no history.  A record's text and *)
(* times follow from the source that wrote it first.                        *)
Written(source, files) ==
    [source |-> source, disposition |-> "captured", release |-> "none", files |-> files]
Live(record) == record # Nothing /\ record.source = "whatsapp"

(* mergeRecords: everything of the existing record, and the files of both.  *)
MergeOver(existing, incoming) == [incoming EXCEPT !.files = @ \cup existing.files]
Merge(existing, incoming) == [existing EXCEPT !.files = @ \cup incoming.files]

AtRest == [at |-> "none", kind |-> "none", todo |-> <<>>, batch |-> <<>>, entries |-> <<>>,
           index |-> [i \in Ids |-> Unindexed], known |-> FALSE, look |-> Nothing]
Idle == [op |-> "none", id |-> "none", seen |-> Nothing]

Init ==
    /\ held = [k \in Keys |-> Nothing] /\ raws = [k \in Keys |-> 0]
    /\ paired = FALSE /\ rowsOf = Ids \ Late /\ noted = {}
    /\ import = AtRest /\ runtime = Idle
    /\ heard = {} /\ woken = [i \in Ids |-> 0]
    /\ sidecars = [c \in Chats |-> {}] /\ unlinked = {}
    /\ runs = 0 /\ mishaps = 0
    /\ claimed = {} /\ crossed = {} /\ reopened = {} /\ slipped = {} /\ overtaken = {} /\ unread = {}

ghosts == <<claimed, crossed, reopened, slipped, overtaken, unread>>

(* The row an import is at, and the path of its record.                     *)
Row == Head(import.entries).id
Place == <<Head(import.entries).chat, Row>>

(***************************************************************************)
(* The client's own system, and the runtime.                                *)
(***************************************************************************)

RowAppears(i) ==
    /\ i \notin rowsOf /\ rowsOf' = rowsOf \cup {i}
    /\ UNCHANGED <<held, raws, paired, noted, import, runtime, heard, woken, sidecars, unlinked, runs, mishaps>>
    /\ UNCHANGED ghosts

CorrectionAppears(x) ==
    /\ x \notin noted /\ Names[x] \cap rowsOf # {}
    /\ noted' = noted \cup {x}
    /\ UNCHANGED <<held, raws, paired, rowsOf, import, runtime, heard, woken, sidecars, unlinked, runs, mishaps>>
    /\ UNCHANGED ghosts

LearnPair ==
    /\ ~paired /\ paired' = TRUE
    /\ UNCHANGED <<held, raws, rowsOf, noted, import, runtime, heard, woken, sidecars, unlinked, runs, mishaps>>
    /\ UNCHANGED ghosts

(* releaseDecision: not of history, not parked, not released already.       *)
ReleasableOfAny(record) ==
    record # Nothing /\ record.disposition # "parked" /\ record.release = "none"
Releasable(record) ==
    Live(record) /\ record.disposition # "parked" /\ record.release = "none"

RuntimeReads(op, i) ==
    LET record == held[<<"lid", i>>] IN
    /\ runtime = Idle
    /\ CASE op = "capture" -> i \in Arriving \ heard
         [] op \in {"release", "park"} -> Releasable(record)
         [] op = "complete" -> Live(record) /\ record.release = "open"
    /\ runtime' = [op |-> op, id |-> i, seen |-> record]
    /\ UNCHANGED <<held, raws, paired, rowsOf, noted, import, heard, woken, sidecars, unlinked, runs, mishaps>>
    /\ UNCHANGED ghosts

(* A live source does not merge into another's record: the capture is       *)
(* refused, and the item is consumed all the same.                          *)
Captures(i) ==
    /\ heard' = heard \cup {i}
    /\ IF runtime.seen = Nothing
       THEN held' = [held EXCEPT ![<<"lid", i>>] = Written("whatsapp", {})] /\ UNCHANGED claimed
       ELSE claimed' = claimed \cup {i} /\ UNCHANGED held
    /\ UNCHANGED woken

Turns(i) ==
    /\ held' = [held EXCEPT ![<<"lid", i>>] =
           CASE runtime.op = "release" -> [runtime.seen EXCEPT !.release = "open"]
             [] runtime.op = "complete" -> [runtime.seen EXCEPT !.release = "done"]
             [] runtime.op = "park" -> [runtime.seen EXCEPT !.disposition = "parked"]]
    /\ woken' = IF runtime.op = "release" THEN [woken EXCEPT ![i] = @ + 1] ELSE woken
    /\ UNCHANGED <<heard, claimed>>

RuntimeWrites ==
    LET i == runtime.id IN
    /\ runtime # Idle
    /\ \/ runtime.op = "capture" /\ Captures(i)
       \/ runtime.op # "capture" /\ Turns(i)
    /\ crossed' = IF held[<<"lid", i>>] = runtime.seen THEN crossed ELSE crossed \cup {i}
    /\ overtaken' = IF import.at = "raw" /\ Place = <<"lid", i>> /\ runtime.op = "capture"
                    THEN overtaken \cup {i} ELSE overtaken
    /\ runtime' = Idle
    /\ UNCHANGED <<raws, paired, rowsOf, noted, import, sidecars, unlinked, runs, mishaps, reopened, slipped, unread>>

(***************************************************************************)
(* An import.                                                               *)
(***************************************************************************)

(* chatKeyFor, under the map as it is read now.                             *)
ChatKey == IF paired THEN "lid" ELSE "phone"

Start(kind) ==
    /\ import.at = "none" /\ runs < MaxRuns
    /\ runs' = runs + 1
    /\ import' = [AtRest EXCEPT !.at = "batch", !.kind = kind, !.todo = SetToSeq(rowsOf)]
    /\ UNCHANGED <<held, raws, paired, rowsOf, noted, runtime, heard, woken, sidecars, unlinked, mishaps>>
    /\ UNCHANGED ghosts

(* The ledger's rows are indexed a batch at a time, before the records of   *)
(* the batch are made, and the index of a run is of all its batches.        *)
Index ==
    LET n == IF Len(import.todo) < Batch THEN Len(import.todo) ELSE Batch
        taken == SubSeq(import.todo, 1, n) IN
    /\ import.at = "batch" /\ import.todo # <<>>
    /\ import' = [import EXCEPT !.at = "payload", !.batch = taken,
                     !.todo = SubSeq(import.todo, n + 1, Len(import.todo)),
                     !.index = [i \in Ids |->
                         IF import.kind = "ledger" /\ i \in ToSet(taken) THEN ChatKey ELSE @[i]]]
    /\ UNCHANGED <<held, raws, paired, rowsOf, noted, runtime, heard, woken, sidecars, unlinked, runs, mishaps>>
    /\ UNCHANGED ghosts

(* The ledger's rows read the map one by one, those of an export once for   *)
(* all of a batch.                                                          *)
RowKey == IF import.kind = "export" /\ import.entries # <<>> THEN Head(import.entries).chat ELSE ChatKey

(* A record is made of a row.                                               *)
Payload ==
    LET i == Head(import.batch) IN
    /\ import.at = "payload"
    /\ import' = [import EXCEPT !.batch = Tail(@), !.entries = Append(@, [id |-> i, chat |-> RowKey]),
                     !.at = IF Len(import.batch) = 1 THEN "row" ELSE "payload"]
    /\ slipped' = IF import.index[i] \in {Unindexed, RowKey} THEN slipped ELSE slipped \cup {import.index[i]}
    /\ UNCHANGED <<held, raws, paired, rowsOf, noted, runtime, heard, woken, sidecars, unlinked, runs, mishaps>>
    /\ UNCHANGED <<claimed, crossed, reopened, overtaken, unread>>

Files == IF import.kind = "export" /\ Row \in Pictures THEN {Row} ELSE {}
Incoming == Written(IF import.kind = "export" THEN "import:carbon-capture" ELSE "import:ledger-sqlite", Files)

RowDone == [import EXCEPT !.entries = Tail(@), !.look = Nothing,
                          !.at = IF Len(import.entries) = 1 THEN "batch" ELSE "row"]

(* alreadyCaptured: whether the path has a record as the row is come to.    *)
AlreadyCaptured ==
    /\ import.at = "row"
    /\ import' = [import EXCEPT !.at = "raw", !.known = held[Place] # Nothing]
    /\ UNCHANGED <<held, raws, paired, rowsOf, noted, runtime, heard, woken, sidecars, unlinked, runs, mishaps>>
    /\ UNCHANGED ghosts

(* The raw line, when the path had none; then what capture finds there.     *)
AppendRaw ==
    /\ import.at = "raw"
    /\ raws' = IF import.known THEN raws ELSE [raws EXCEPT ![Place] = @ + 1]
    /\ import' = [import EXCEPT !.at = "look", !.known = FALSE]
    /\ overtaken' = {}
    /\ UNCHANGED <<held, paired, rowsOf, noted, runtime, heard, woken, sidecars, unlinked, runs, mishaps>>
    /\ UNCHANGED <<claimed, crossed, reopened, slipped, unread>>

Look ==
    /\ import.at = "look"
    /\ import' = [import EXCEPT !.at = "write", !.look = held[Place]]
    /\ UNCHANGED <<held, raws, paired, rowsOf, noted, runtime, heard, woken, sidecars, unlinked, runs, mishaps>>
    /\ UNCHANGED ghosts

(* The record as it was not there, or the merge when it says anything new;  *)
(* then the disposition the import asks for, when what it wrote has another.*)
Capture ==
    LET written == IF import.look = Nothing THEN Incoming ELSE Merge(import.look, Incoming) IN
    /\ import.at = "write"
    /\ held' = IF written = import.look THEN held ELSE [held EXCEPT ![Place] = written]
    /\ crossed' = IF held[Place] # import.look /\ written # import.look THEN crossed \cup {Row} ELSE crossed
    /\ import' = IF written.disposition = Incoming.disposition THEN RowDone
                 ELSE [import EXCEPT !.at = "disposition"]
    /\ UNCHANGED <<raws, paired, rowsOf, noted, runtime, heard, woken, sidecars, unlinked, runs, mishaps>>
    /\ UNCHANGED <<claimed, reopened, slipped, overtaken, unread>>

SetDisposition ==
    /\ import.at = "disposition"
    /\ held' = [held EXCEPT ![Place].disposition = Incoming.disposition]
    /\ reopened' = reopened \cup {Row}
    /\ import' = RowDone
    /\ UNCHANGED <<raws, paired, rowsOf, noted, runtime, heard, woken, sidecars, unlinked, runs, mishaps>>
    /\ UNCHANGED <<claimed, crossed, slipped, overtaken, unread>>

(* placementsOf: the conversations of the messages the correction names,    *)
(* among those this run indexed.  No correction here has a chat_key, which  *)
(* would place one that names none of them.                                 *)
PlacedIn(x) == {import.index[i] : i \in Names[x]} \ {Unindexed}

Rewritten(c, mine) == IF mine = {} THEN sidecars[c] ELSE mine

(* The corrections are read when the records are written, by queries of     *)
(* their own; one that fails is reported and the rest still run.            *)
ReadCorrections(failed) == noted \ failed

(* A file is written whole, for each conversation that has a correction,    *)
(* and the unlinked ones when there are any.                                *)
WriteSidecars(failed) ==
    LET read == ReadCorrections(failed)
        homeless == {x \in read : PlacedIn(x) = {}} IN
    /\ import.at = "batch" /\ import.todo = <<>> /\ import.kind = "ledger"
    /\ failed = {} \/ mishaps < MaxMishaps
    /\ mishaps' = IF failed = {} THEN mishaps ELSE mishaps + 1
    /\ unread' = failed
    /\ sidecars' = [c \in Chats |-> Rewritten(c, {x \in read : c \in PlacedIn(x)})]
    /\ unlinked' = IF homeless = {} THEN unlinked ELSE homeless
    /\ import' = AtRest
    /\ UNCHANGED <<held, raws, paired, rowsOf, noted, runtime, heard, woken, runs>>
    /\ UNCHANGED <<claimed, crossed, reopened, slipped, overtaken>>

ExportDone ==
    /\ import.at = "batch" /\ import.todo = <<>> /\ import.kind = "export"
    /\ import' = AtRest
    /\ UNCHANGED <<held, raws, paired, rowsOf, noted, runtime, heard, woken, sidecars, unlinked, runs, mishaps>>
    /\ UNCHANGED ghosts

(* A row the store refuses ends the run with nothing after it written, and  *)
(* so does a kill, at any point.                                            *)
CutShort ==
    /\ import.at # "none" /\ mishaps < MaxMishaps
    /\ mishaps' = mishaps + 1
    /\ import' = AtRest /\ overtaken' = {}
    /\ UNCHANGED <<held, raws, paired, rowsOf, noted, runtime, heard, woken, sidecars, unlinked, runs>>
    /\ UNCHANGED <<claimed, crossed, reopened, slipped, unread>>

Importing == Index \/ Payload \/ AlreadyCaptured \/ AppendRaw \/ Look \/ Capture \/ SetDisposition \/ ExportDone
             \/ \E failed \in SUBSET noted : WriteSidecars(failed)

Next ==
    \/ \E i \in Ids : RowAppears(i) \/ \E op \in {"capture", "release", "complete", "park"} : RuntimeReads(op, i)
    \/ \E x \in Corrections : CorrectionAppears(x)
    \/ LearnPair \/ RuntimeWrites
    \/ \E kind \in {"export", "ledger"} : Start(kind)
    \/ Importing \/ CutShort

Spec == Init /\ [][Next]_vars

(***************************************************************************)
(* Properties.                                                              *)
(***************************************************************************)

(* carbon-import promises that where a capture exists it wins on every      *)
(* field and may only gain an attachment, and that running an import again  *)
(* changes no byte: whatever an import does to a record that is there, in   *)
(* whichever run, only adds a file, and no second raw line comes with it.   *)
(* Three are not so kept: a record the other process replaced between the   *)
(* import's reading of it and its writing, a parked one, which capture's    *)
(* last step sets captured, and the raw line of a message that was captured *)
(* live while the import was about to bring it.                             *)
AddsOnly == import' # import => \A k \in Keys : held[k] # Nothing =>
    /\ raws'[k] = raws[k] \/ (k[1] = "lid" /\ k[2] \in overtaken)
    /\ \/ held'[k] # Nothing /\ held'[k] = [held[k] EXCEPT !.files = held'[k].files]
                             /\ held[k].files \subseteq held'[k].files
       \/ k[2] \in crossed' \cup reopened'

(* The client's past wakes nothing, and the present is not woken twice:     *)
(* a message is released only when the live adapter captured it, once, and  *)
(* never after it was parked, unless a process wrote over what the other    *)
(* had written or an import opened it again.                                *)
PastWakesNothing == \A i \in Ids :
    /\ woken[i] > 0 => i \in heard \ claimed \/ i \in crossed
    /\ woken[i] > 1 => i \in crossed

(* A message the live adapter consumed is the agent's to answer: its record *)
(* is a capture and not a piece of history.  It is lost to the agent when   *)
(* an import had claimed its id already, or wrote over the capture having   *)
(* read that there was none.                                                *)
HeardIsTheAgents == \A i \in heard \ (claimed \cup crossed) : Live(held[<<"lid", i>>])

(* A correction is written beside the messages it names: whatever a         *)
(* conversation's file lists names a message whose record is in that        *)
(* conversation, unless the pair was learnt between the two readings of     *)
(* the map.                                                                 *)
BesideItsMessage == \A c \in Chats : c \notin slipped =>
    \A x \in sidecars[c] : \E i \in Names[x] : held[<<c, i>>] # Nothing

(* The pair was learnt while a run was indexing.                            *)
Straddles == Chats \subseteq {import.index[i] : i \in Ids}

(* A correction that reached its conversation's file stays there as long as *)
(* the ledger holds it.  Only two runs write the file without it: one whose *)
(* query for it failed, and one that learnt the pair between two batches,   *)
(* which has messages of the chat under either key and writes the file of   *)
(* the phone number with the corrections of those it read first.            *)
CorrectionStays == \A c \in Chats : \A x \in sidecars[c] :
    x \in sidecars'[c] \/ x \in unread' \/ (c = "phone" /\ Straddles)

TypeOK ==
    /\ \A k \in Keys : held[k] # Nothing =>
           /\ held[k].disposition \in {"captured", "parked"}
           /\ held[k].release \in {"none", "open", "done"} /\ held[k].files \subseteq Ids
    /\ raws \in [Keys -> 0..MaxRuns] /\ runs \in 0..MaxRuns /\ mishaps \in 0..MaxMishaps
    /\ sidecars \in [Chats -> SUBSET Corrections] /\ unlinked \subseteq Corrections
    /\ import.at \in {"none", "batch", "payload", "row", "raw", "look", "write", "disposition"}

(* A client's past beside its present: it wakes nothing, takes nothing from *)
(* the agent and is corrected where its messages are.                       *)
PastIsPast == TypeOK /\ PastWakesNothing /\ HeardIsTheAgents /\ BesideItsMessage

(* No run of an import takes back what is written, by itself or by others.  *)
ImportsOnlyAdd == [][AddsOnly]_vars /\ [][CorrectionStays]_vars
=============================================================================

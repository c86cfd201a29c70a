------------------------------- MODULE Outbound ------------------------------
(* carbon-import ledger-outbound: what a client's agent sent, out of the    *)
(* three places its system wrote it down.  The places go on being written   *)
(* while they are read, one after the other; the marks that were read are   *)
(* joined into sends, and each send is captured as a record of its own, or  *)
(* merges into the one that stands under its id.                            *)
(*                                                                          *)
(* A line that is half written is no mark yet.  One capture is one step     *)
(* here: module Imports takes the steps of it apart.                        *)
EXTENDS Naturals, Sequences, FiniteSets, SequencesExt

CONSTANTS
    Lines,      \* every line the three places come to hold, as records
                \* [kind, id, chat, at, chosen]
    NoTime,     \* the moment of a line whose timestamp says nothing
    NoId,       \* the id of a line that has none
    Before,     \* the lines the places hold at the start
    Ledger,     \* the ids an earlier import of the ledger had written
    Tolerance,  \* link.tolerance_seconds of the mapping
    MaxTries,   \* bound: how often the import is started
    MaxCuts     \* bound: imports that are killed

VARIABLES
    lines,      \* the lines the places hold
    stage,      \* the import: none, audit, turns (the next place), write
    items,      \* the marks it has read
    sends,      \* the sends it has yet to write
    joined,     \* all the sends of this run
    captures,   \* the record under each id, or Unwritten
    tries, cuts

vars == <<lines, stage, items, sends, joined, captures, tries, cuts>>

Kinds == <<"turn", "audit">>
IdsOf == {l.id : l \in Lines} \ {NoId}
Unwritten == [source |-> "none", marks |-> {}, read |-> {}]

(***************************************************************************)
(* The join (outbound-link.ts).  A send is the mark it is keyed by and the  *)
(* marks attached to it.                                                    *)
(***************************************************************************)

(* What the mapping selects, and of it what has an id.                      *)
Selects(l) == l.chosen
Usable(l) == Selects(l) /\ l.id # NoId

(* A line read into the item every place is read into, under its own kind.  *)
ItemFrom(l) == [kind |-> l.kind, id |-> l.id, chat |-> l.chat, at |-> l.at]

(* Earliest first, and the source's own id breaks a tie.                    *)
Earlier(a, b) ==
    LET millis(m) == IF m.at = NoTime THEN 0 ELSE m.at IN
    \/ millis(a) < millis(b)
    \/ millis(a) = millis(b) /\ a.id < b.id
Ordered(marks) == SetToSortSeq(marks, Earlier)

SendFor(m) == [item |-> m, attached |-> {}]
Carries(send, kind) == send.item.kind = kind \/ \E m \in send.attached : m.kind = kind
MarksOf(send) == {send.item} \cup send.attached

Distance(a, b) == IF a.at > b.at THEN a.at - b.at ELSE b.at - a.at
Within(send, m) ==
    /\ send.item.chat = m.chat
    /\ m.at # NoTime /\ send.item.at # NoTime
    /\ Distance(send.item, m) <= Tolerance

NearestOf(pool, m, candidates) ==
    CHOOSE n \in candidates : \A o \in candidates :
        \/ Distance(pool[n].item, m) < Distance(pool[o].item, m)
        \/ /\ Distance(pool[n].item, m) = Distance(pool[o].item, m)
           /\ pool[n].item.id <= pool[o].item.id

(* The places in the pool a mark may be attached at.                        *)
Candidates(pool, m) == {n \in 1..Len(pool) : ~Carries(pool[n], m.kind) /\ Within(pool[n], m)}

(* The mark goes to the nearest send, or becomes a send of its own.         *)
JoinBeside(pool, m) ==
    LET candidates == Candidates(pool, m) IN
    IF candidates = {} THEN Append(pool, SendFor(m))
    ELSE Append([pool EXCEPT ![NearestOf(pool, m, candidates)].attached = @ \cup {m}], SendFor(m))
Join(pool, m) ==
    LET candidates == Candidates(pool, m) IN
    IF candidates = {} THEN Append(pool, SendFor(m))
    ELSE [pool EXCEPT ![NearestOf(pool, m, candidates)].attached = {a \in @ : a.kind # m.kind} \cup {m}]

(* The captures are the spine; the turns are joined before the audit's rows.*)
JoinOutbound(marks) ==
    LET spine == [n \in 1..Cardinality({m \in marks : m.kind = "event"}) |->
                     SendFor(Ordered({m \in marks : m.kind = "event"})[n])]
        pass(pool, kind) == FoldLeft(Join, pool, Ordered({m \in marks : m.kind = kind}))
    IN FoldLeft(pass, spine, Kinds)

(***************************************************************************)
(* The record of a send (carbon-ledger-outbound.ts).                        *)
(***************************************************************************)

(* What went out, in the words of the capture or else of the turn, whose    *)
(* each is a mark of the record's; and beside it, all the run had read.     *)
(* The time of the record is that of the mark the send is keyed by: a send  *)
(* whose mark says no time makes no record the schema takes.                *)
Dated(send) == send.item.at # NoTime
RecordFor(send) == [source |-> "import:ledger-outbound", marks |-> MarksOf(send), read |-> items]

(***************************************************************************)
(* The import.                                                              *)
(***************************************************************************)

Init ==
    /\ lines = Before /\ stage = "none" /\ items = {} /\ sends = <<>> /\ joined = <<>>
    /\ captures = [i \in IdsOf |-> IF i \in Ledger THEN [Unwritten EXCEPT !.source = "import:ledger-sqlite"]
                                   ELSE Unwritten]
    /\ tries = 0 /\ cuts = 0

LineAppears(l) ==
    /\ l \notin lines /\ lines' = lines \cup {l}
    /\ UNCHANGED <<stage, items, sends, joined, captures, tries, cuts>>

Read(kind) == {ItemFrom(l) : l \in {l \in lines : l.kind = kind /\ Usable(l)}}

ReadEvents ==
    /\ stage = "none" /\ tries < MaxTries
    /\ tries' = tries + 1 /\ stage' = "audit"
    /\ items' = Read("event")
    /\ sends' = <<>> /\ joined' = <<>>
    /\ UNCHANGED <<lines, captures, cuts>>

ReadAudit ==
    /\ stage = "audit" /\ stage' = "turns"
    /\ items' = items \cup Read("audit")
    /\ UNCHANGED <<lines, sends, joined, captures, tries, cuts>>

(* The last place, and the join of what was read: nothing is written before.*)
ReadTurns ==
    LET read == items \cup Read("turn") IN
    /\ stage = "turns" /\ stage' = "write"
    /\ items' = read
    /\ joined' = JoinOutbound(read) /\ sends' = JoinOutbound(read)
    /\ UNCHANGED <<lines, captures, tries, cuts>>

(* The store has no overwrite: under an id that has a record, whoever wrote *)
(* it, the record stays what it is.                                         *)
WriteEntry ==
    LET send == Head(sends)
        id == send.item.id IN
    /\ stage = "write" /\ sends # <<>> /\ Dated(send)
    /\ captures' = IF captures[id] = Unwritten THEN [captures EXCEPT ![id] = RecordFor(send)] ELSE captures
    /\ sends' = Tail(sends)
    /\ UNCHANGED <<lines, stage, items, joined, tries, cuts>>

(* A send that has no time is refused, and the run ends there: the sends    *)
(* after it are not written, in this run or in any that reads it again.     *)
EntryRefused ==
    /\ stage = "write" /\ sends # <<>> /\ ~Dated(Head(sends))
    /\ stage' = "none"
    /\ UNCHANGED <<lines, items, sends, joined, captures, tries, cuts>>

Summary ==
    /\ stage = "write" /\ sends = <<>>
    /\ stage' = "none"
    /\ UNCHANGED <<lines, items, sends, joined, captures, tries, cuts>>

(* A kill, or a place that cannot be read.                                  *)
CutShort ==
    /\ stage # "none" /\ cuts < MaxCuts
    /\ cuts' = cuts + 1 /\ stage' = "none" /\ sends' = <<>> /\ joined' = <<>> /\ items' = {}
    /\ UNCHANGED <<lines, captures, tries>>

Next == \/ \E l \in Lines : LineAppears(l)
        \/ ReadEvents \/ ReadAudit \/ ReadTurns \/ WriteEntry \/ EntryRefused \/ Summary \/ CutShort

Spec == Init /\ [][Next]_vars

(***************************************************************************)
(* Properties.                                                              *)
(***************************************************************************)

JoinedBefore(kind, other) ==
    <<kind, other>> \in {<<"event", "turn">>, <<"event", "audit">>, <<"turn", "audit">>}

(* Joining loses nothing and leaves nothing aside that could be joined:     *)
(* every mark is in one send and one only, a send has one mark of a kind,   *)
(* each within the tolerance of the mark it is keyed by, and a mark that    *)
(* stands alone has no send beside it that ended without one of its kind.   *)
JoinIsWhole == joined # <<>> =>
    /\ items = UNION {MarksOf(joined[n]) : n \in DOMAIN joined}
    /\ \A n, o \in DOMAIN joined : n # o => MarksOf(joined[n]) \cap MarksOf(joined[o]) = {}
    /\ \A n \in DOMAIN joined :
           /\ \A a, b \in MarksOf(joined[n]) : a.kind = b.kind => a = b
           /\ \A m \in joined[n].attached : Within(joined[n], m)
           /\ \A o \in DOMAIN joined :
                  JoinedBefore(joined[o].item.kind, joined[n].item.kind) /\ Within(joined[o], joined[n].item) =>
                      Carries(joined[o], joined[n].item.kind)

(* When a run is over, every mark it read is on a record of the store,      *)
(* unless the id of its send had a record of a run that had read other      *)
(* marks, or of another import: a record is not changed for a mark that was *)
(* written down after it was imported.  A run that ends before its last     *)
(* send ends at one that has no time, and has kept those before it.         *)
Wrote(n) == n <= Len(joined) - Len(sends)
MarksAreKept == stage = "none" /\ joined # <<>> =>
    /\ sends # <<>> => ~Dated(Head(sends))
    /\ \A n \in DOMAIN joined : Wrote(n) =>
           LET standing == captures[joined[n].item.id] IN
           standing.read = items => MarksOf(joined[n]) \subseteq standing.marks

(* One send is one record, through kills and repeated runs.  A mark is on   *)
(* two records only when they are of runs that had not read the same marks: *)
(* what stood alone is joined to its capture when that is found.            *)
OneRecordPerMark == \A i, j \in IdsOf :
    i # j /\ captures[i].marks \cap captures[j].marks # {} => captures[i].read # captures[j].read

TypeOK == /\ lines \subseteq Lines /\ stage \in {"none", "audit", "turns", "write"}
          /\ tries \in 0..MaxTries /\ cuts \in 0..MaxCuts
          /\ \A i \in IdsOf : captures[i].marks \subseteq {ItemFrom(l) : l \in Lines}

(* Marks, sends and records stay in step over runs, cuts and lines that     *)
(* come late.                                                               *)
JoinKeepsAll == TypeOK /\ JoinIsWhole /\ MarksAreKept /\ OneRecordPerMark
=============================================================================

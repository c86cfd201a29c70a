------------------------------ MODULE MCIntake ------------------------------
(* Instances of Intake for TLC. *)
EXTENDS Intake

CONSTANTS chat, other, unreadable

Message(k, u) == [kind |-> k, conv |-> chat, pos |-> u, stamp |-> 0]
EditIn(c, p, s) == [kind |-> "edit", conv |-> c, pos |-> p, stamp |-> s]
Edit(p, s)    == EditIn(chat, p, s)
Unknown       == [kind |-> "unknown", conv |-> unreadable, pos |-> 0, stamp |-> 0]

\* Messages are numbered in order, an edit is of an earlier message or of one
\* this account never read, and the clock of the edits does not go back.
OneChat ==
    {f \in [1..N -> {Message(k, u) : k \in {"text", "service", "bad"}, u \in 1..N}
                    \cup {Edit(p, s) : p \in 1..N, s \in 1..2} \cup {Unknown}] :
        /\ \A u \in 1..N :
              /\ f[u].kind \in {"text", "service", "bad"} => f[u].pos = u
              /\ f[u].kind = "edit" => f[u].pos < u /\ f[f[u].pos].kind # "service"
        /\ \A u, v \in 1..N : u < v /\ f[u].kind = "edit" /\ f[v].kind = "edit"
                              => f[u].stamp <= f[v].stamp}

\* The first message of one chat, and the edits of it and of the first of another.
TwoChats ==
    {f \in [1..N -> {[kind |-> "text", conv |-> other, pos |-> 1, stamp |-> 0]}
                    \cup {EditIn(c, 1, s) : c \in {chat, other}, s \in 1..2}] :
        /\ \E u, v \in 1..N : f[u].kind = "edit" /\ f[v].kind = "edit" /\ f[u].conv # f[v].conv
        /\ \A u, v \in 1..N :
              u < v => f[v].kind = "edit" /\ f[u].stamp <= f[v].stamp}

MCFeeds == OneChat \cup TwoChats
=============================================================================

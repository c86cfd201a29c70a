---------------------------- MODULE Account_proofs ----------------------------
(***************************************************************************)
(* The recorder of the provider's account, for any accounts, logins, uses,   *)
(* turns and faults: with no read out and nothing under way the record tells *)
(* of who is signed in, and the connection holds one request of each kind.   *)
(***************************************************************************)
EXTENDS MCAccount, TLAPS, SequenceTheorems, FiniteSetTheorems

(* The inductive invariant.                                                *)

Requests == [id : Nat, method : Methods]
Outcomes == [is : {"waiting"}, id : Nat] \cup [is : {"answer"}, of : Holders, seen : Nat]
            \cup [is : {"error"}]
Limits == [of : SUBSET Holders, seen : Nat]
Events == [is : {"account.updated"}]
          \cup [is : {"account.rate_limits"}, of : (SUBSET Holders) \ {{}}, seen : Nat]
          \cup [is : {"response"}, id : Nat, outcome : Outcomes]

AccountShapes ==
  /\ signedIn \in Holders /\ figure \in Nat /\ nextId \in Nat
  /\ wire \in Seq(Events) /\ answers \in [Methods -> Outcomes]
  /\ pending \subseteq Requests /\ \A p \in pending : p.id < nextId
  /\ taken \subseteq [id : Nat, method : Methods, outcome : Outcomes]
  /\ \A r \in taken : r.id < nextId
  /\ running \in {"idle", "asked", "out"} /\ closed \in BOOLEAN /\ again \in BOOLEAN
  /\ sinceRead \in Limits
  /\ record \in [account : Holders, confirmed : BOOLEAN, limits : Limits, error : BOOLEAN,
                 turned : BOOLEAN]

\* The app-server answers what it was asked.
RepliesAreAnswers ==
  \A k \in DOMAIN wire :
    wire[k].is = "response" => wire[k].id < nextId /\ wire[k].outcome.is # "waiting"

\* A request is known by its id, and a method has one.
OneOfEach ==
  /\ outstanding = {p.method : p \in pending}
  /\ \A p, q \in pending : p.method = q.method \/ p.id = q.id => p = q
  /\ \A m \in Methods : answers[m].is = "waiting" =>
       running = "out" /\ \E p \in pending : p.method = m /\ answers[m] = Waiting(p.id)
  /\ \A r \in taken, m \in Methods : answers[m] = Waiting(r.id) => r.method = m

\* A change of login was announced that no read has seen, or will be read again.
SwitchOnWire == \E k \in DOMAIN wire : wire[k].is = "account.updated"
ToldOfSwitch == again \/ SwitchOnWire
NoUseOnWire == \A k \in DOMAIN wire : wire[k].is # "account.rate_limits"

\* The figures on the wire are of who is signed in, up to the next switch, and the last
\* of them are the newest.
UsesInOrder ==
  \A k \in DOMAIN wire : wire[k].is = "account.rate_limits" =>
    /\ wire[k].of = {signedIn} \/ \E j \in DOMAIN wire : j > k /\ wire[j].is = "account.updated"
    /\ wire[k].seen = figure \/ \E j \in DOMAIN wire : j > k /\ wire[j].is = "account.rate_limits"

\* An answer to the read that is out tells of who is signed in, and the limits are the
\* newest unless a newer update came or is to come.
TellsTruth(m, outcome) ==
  outcome.is = "answer" =>
    /\ outcome.of = signedIn \/ ToldOfSwitch
    /\ m = "account/rateLimits/read" /\ sinceRead = NoLimits /\ NoUseOnWire => outcome.seen = figure

AnswersAreTrue ==
  running = "out" /\ ~closed =>
    /\ \A m \in Methods : TellsTruth(m, answers[m])
    /\ \A k \in DOMAIN wire, m \in Methods :
         wire[k].is = "response" /\ answers[m] = Waiting(wire[k].id) => TellsTruth(m, wire[k].outcome)
    /\ \A r \in taken : answers[r.method] = Waiting(r.id) => TellsTruth(r.method, r.outcome)

\* What came since the read began is of who is signed in, and the last of it the newest.
SinceReadIsTrue ==
  running = "out" /\ ~closed =>
    /\ sinceRead.of \subseteq {signedIn} \/ ToldOfSwitch
    /\ sinceRead # NoLimits /\ NoUseOnWire => sinceRead.seen = figure

\* With no read to come the record is true, up to what is on the wire.
RecordFollows ==
  running = "idle" /\ ~closed /\ ~record.error =>
    /\ (record.account = signedIn /\ record.limits.of \subseteq {signedIn}) \/ SwitchOnWire
    /\ NoUseOnWire => record.turned \/ record.limits.seen = figure

AccountInv ==
  /\ AccountShapes /\ RepliesAreAnswers /\ OneOfEach /\ UsesInOrder
  /\ AnswersAreTrue /\ SinceReadIsTrue /\ RecordFollows

-----------------------------------------------------------------------------
(* Outcomes and the wire.                                                  *)

\* The three outcomes of a request, told apart.
LEMMA OutcomeForms ==
  /\ \A i \in Nat : Waiting(i) \in Outcomes /\ Waiting(i).is = "waiting"
  /\ \A i, j \in Nat : Waiting(i) = Waiting(j) => i = j
  /\ \A a \in Holders, f \in Nat : /\ Answer(a, f) \in Outcomes /\ Answer(a, f).is = "answer"
                                   /\ Answer(a, f).of = a /\ Answer(a, f).seen = f
  /\ Error \in Outcomes /\ Error.is = "error"
  /\ \A o \in Outcomes : /\ o.is \in {"waiting", "answer", "error"}
                         /\ o.is = "answer" => o.of \in Holders /\ o.seen \in Nat
<1>1. \A i \in Nat : Waiting(i) \in Outcomes /\ Waiting(i).is = "waiting"
  BY DEF Waiting, Outcomes
<1>2. ASSUME NEW i \in Nat, NEW j \in Nat, Waiting(i) = Waiting(j)
      PROVE  i = j
  <2>1. Waiting(i).id = i /\ Waiting(j).id = j
    BY DEF Waiting
  <2> QED
    BY <1>2, <2>1
<1>3. \A a \in Holders, f \in Nat : /\ Answer(a, f) \in Outcomes /\ Answer(a, f).is = "answer"
                                    /\ Answer(a, f).of = a /\ Answer(a, f).seen = f
  BY DEF Answer, Outcomes
<1>4. Error \in Outcomes /\ Error.is = "error"
  BY DEF Error, Outcomes
<1>5. \A o \in Outcomes : /\ o.is \in {"waiting", "answer", "error"}
                          /\ o.is = "answer" => o.of \in Holders /\ o.seen \in Nat
  BY DEF Outcomes
<1> QED
  BY <1>1, <1>2, <1>3, <1>4, <1>5

\* A notification and a reply, told apart.
LEMMA EventForms ==
  \A e \in Events :
    /\ e.is \in {"account.updated", "account.rate_limits", "response"}
    /\ e.is = "response" => e.id \in Nat /\ e.outcome \in Outcomes
    /\ e.is = "account.rate_limits" => e.of \in SUBSET Holders /\ e.of # {} /\ e.seen \in Nat
BY DEF Events

\* What is written comes last on the wire.
LEMMA Written ==
  ASSUME wire \in Seq(Events), NEW e \in Events, wire' = Append(wire, e)
  PROVE  /\ wire' \in Seq(Events)
         /\ \E n \in Nat : /\ DOMAIN wire' = DOMAIN wire \cup {n} /\ wire'[n] = e
                           /\ \A k \in DOMAIN wire : k \in Nat /\ k < n /\ wire'[k] = wire[k]
<1>1. /\ wire' \in Seq(Events) /\ Len(wire) \in Nat /\ Len(wire') = Len(wire) + 1
      /\ DOMAIN wire = 1 .. Len(wire) /\ DOMAIN wire' = 1 .. Len(wire')
      /\ wire'[Len(wire) + 1] = e /\ \A k \in 1 .. Len(wire) : wire'[k] = wire[k]
  OBVIOUS
<1>2. DOMAIN wire' = DOMAIN wire \cup {Len(wire) + 1}
  BY <1>1
<1>3. \A k \in DOMAIN wire : k \in Nat /\ k < Len(wire) + 1 /\ wire'[k] = wire[k]
  BY <1>1
<1> QED
  BY <1>1, <1>2, <1>3

\* What is read was first on the wire, and the rest moves up.
LEMMA ReadOff ==
  ASSUME wire \in Seq(Events), wire # <<>>, wire' = Tail(wire)
  PROVE  /\ wire' \in Seq(Events) /\ 1 \in DOMAIN wire /\ Head(wire) = wire[1] /\ wire[1] \in Events
         /\ \A k \in DOMAIN wire' : k \in Nat /\ k + 1 \in DOMAIN wire /\ wire'[k] = wire[k + 1]
         /\ \A k \in DOMAIN wire : k \in Nat /\ (k # 1 => k - 1 \in DOMAIN wire'
                                                         /\ wire'[k - 1] = wire[k])
<1>1. /\ wire' \in Seq(Events) /\ Len(wire) \in Nat /\ Len(wire) # 0 /\ Len(wire') = Len(wire) - 1
      /\ DOMAIN wire = 1 .. Len(wire) /\ DOMAIN wire' = 1 .. Len(wire')
      /\ Head(wire) = wire[1] /\ \A k \in 1 .. Len(wire') : wire'[k] = wire[k + 1]
  OBVIOUS
<1>2. 1 \in DOMAIN wire
  BY <1>1
<1>3. \A k \in DOMAIN wire' : k \in Nat /\ k + 1 \in DOMAIN wire /\ wire'[k] = wire[k + 1]
  BY <1>1
<1>4. \A k \in DOMAIN wire : k # 1 => k - 1 \in 1 .. Len(wire')
  BY <1>1
<1>5. ASSUME NEW k \in DOMAIN wire
      PROVE  k \in Nat /\ (k # 1 => k - 1 \in DOMAIN wire' /\ wire'[k - 1] = wire[k])
  <2>1. k \in Nat /\ (k - 1) + 1 = k
    BY <1>1
  <2> QED
    BY <1>1, <1>3, <1>4, <2>1
<1> QED
  BY <1>1, <1>2, <1>3, <1>5

\* The order of the figures stands when the first of the wire is read.
LEMMA RestInOrder ==
  ASSUME wire \in Seq(Events), wire # <<>>, wire' = Tail(wire), UNCHANGED <<signedIn, figure>>,
         UsesInOrder
  PROVE  UsesInOrder'
<1> SUFFICES ASSUME NEW k \in DOMAIN wire', wire'[k].is = "account.rate_limits"
             PROVE  /\ \/ wire'[k].of = {signedIn}
                       \/ \E j \in DOMAIN wire' : j > k /\ wire'[j].is = "account.updated"
                    /\ \/ wire'[k].seen = figure
                       \/ \E j \in DOMAIN wire' : j > k /\ wire'[j].is = "account.rate_limits"
  BY DEF UsesInOrder
<1>1. /\ wire' \in Seq(Events)
      /\ \A n \in DOMAIN wire' : n \in Nat /\ n + 1 \in DOMAIN wire /\ wire'[n] = wire[n + 1]
      /\ \A n \in DOMAIN wire : n \in Nat /\ (n # 1 => n - 1 \in DOMAIN wire'
                                                      /\ wire'[n - 1] = wire[n])
  BY ReadOff
<1>2. k \in Nat /\ k + 1 \in DOMAIN wire /\ wire[k + 1].is = "account.rate_limits"
  BY <1>1
<1>3. ASSUME NEW j \in DOMAIN wire, j > k + 1
      PROVE  j - 1 \in DOMAIN wire' /\ j - 1 > k /\ wire'[j - 1] = wire[j]
  <2>1. j \in Nat /\ j # 1
    BY <1>1, <1>2, <1>3
  <2>2. j - 1 > k
    BY <1>2, <1>3, <2>1
  <2> QED
    BY <1>1, <2>1, <2>2
<1>4. /\ \/ wire[k + 1].of = {signedIn}
         \/ \E j \in DOMAIN wire : j > k + 1 /\ wire[j].is = "account.updated"
      /\ \/ wire[k + 1].seen = figure
         \/ \E j \in DOMAIN wire : j > k + 1 /\ wire[j].is = "account.rate_limits"
  BY <1>2 DEF UsesInOrder
<1>5. wire'[k] = wire[k + 1]
  BY <1>1
<1> QED
  BY <1>3, <1>4, <1>5

\* An answer stays true while the login and the newest figure it tells of stand, or news
\* of them is about.
LEMMA TruthStays ==
  ASSUME ToldOfSwitch => ToldOfSwitch', signedIn' = signedIn \/ ToldOfSwitch',
         sinceRead' = NoLimits /\ NoUseOnWire' =>
           sinceRead = NoLimits /\ NoUseOnWire /\ figure' = figure
  PROVE  \A m, o : TellsTruth(m, o) => TellsTruth(m, o)'
BY DEF TellsTruth

\* The wire and the login stand, and nothing that is out is answered.
LEMMA SameWire ==
  ASSUME UNCHANGED <<signedIn, figure, wire>>
  PROVE  SwitchOnWire' = SwitchOnWire /\ NoUseOnWire' = NoUseOnWire /\ (UsesInOrder => UsesInOrder')
BY DEF SwitchOnWire, NoUseOnWire, UsesInOrder

-----------------------------------------------------------------------------
(* The steps of the app-server.                                            *)

\* A step that touches nothing of reads, record and wire, closes the recorder or loses
\* requests.
LEMMA StillKeeps ==
  ASSUME AccountInv, taken' \subseteq taken, closed' \in BOOLEAN, closed => closed',
         UNCHANGED <<signedIn, figure, wire, request, reader, record>>
  PROVE  AccountInv'
<1>1. UNCHANGED <<signedIn, figure, wire, pending, nextId, outstanding, answers, running, again,
                  sinceRead, record>>
  BY DEF request, reader
<1>2. AccountShapes' /\ RepliesAreAnswers'
  BY <1>1 DEF AccountInv, AccountShapes, RepliesAreAnswers
<1>3. OneOfEach'
  BY <1>1 DEF AccountInv, OneOfEach
<1>4. UsesInOrder' /\ (SwitchOnWire' <=> SwitchOnWire) /\ (NoUseOnWire' <=> NoUseOnWire)
  BY <1>1 DEF AccountInv, UsesInOrder, SwitchOnWire, NoUseOnWire
<1>5. ToldOfSwitch' <=> ToldOfSwitch
  BY <1>1, <1>4 DEF ToldOfSwitch
<1>6. \A m, o : TellsTruth(m, o) => TellsTruth(m, o)'
  BY <1>1, <1>4, <1>5 DEF TellsTruth
<1>7. AnswersAreTrue'
  BY <1>1, <1>6 DEF AccountInv, AnswersAreTrue
<1>8. SinceReadIsTrue' /\ RecordFollows'
  BY <1>1, <1>4, <1>5 DEF AccountInv, SinceReadIsTrue, RecordFollows
<1> QED
  BY <1>2, <1>3, <1>4, <1>7, <1>8 DEF AccountInv

\* The app-server writes of itself: a switch, or a use.
LEMMA NoticeKeeps ==
  ASSUME AccountInv, Switch \/ Uses
  PROVE  AccountInv'
<1> DEFINE e == [is |-> "account.updated"]
           u == [is |-> "account.rate_limits", of |-> {signedIn}, seen |-> figure']
<1>1. /\ UNCHANGED <<taken, pending, nextId, outstanding, answers, running, again, sinceRead, closed,
                     record>>
      /\ signedIn' \in Holders /\ figure' \in Nat /\ ~closed
      /\ \/ wire' = Append(wire, e) /\ figure' = figure
         \/ wire' = Append(wire, u) /\ signedIn' = signedIn /\ figure' = figure + 1
  BY DEF Switch, Uses, request, reader, AccountInv, AccountShapes
<1>2. e \in Events /\ u \in Events
  BY <1>1 DEF Events, AccountInv, AccountShapes
<1> HIDE DEF e, u
<1>3. wire \in Seq(Events)
  BY DEF AccountInv, AccountShapes
<1>4. PICK n \in Nat, f \in {e, u} :
        /\ wire' \in Seq(Events) /\ wire'[n] = f /\ DOMAIN wire' = DOMAIN wire \cup {n}
        /\ \A k \in DOMAIN wire : k \in Nat /\ k < n /\ wire'[k] = wire[k]
        /\ f = e => figure' = figure
        /\ f = u => signedIn' = signedIn /\ figure' = figure + 1
  <2>1. CASE wire' = Append(wire, e) /\ figure' = figure
    <3>1. CASE e = u
      BY <1>1, <3>1 DEF e, u
    <3> QED
      BY <1>2, <1>3, <2>1, <3>1, Written
  <2>2. CASE wire' = Append(wire, u) /\ signedIn' = signedIn /\ figure' = figure + 1
    <3>1. e # u
      BY DEF e, u
    <3> QED
      BY <1>2, <1>3, <2>2, <3>1, Written
  <2> QED
    BY <1>1, <2>1, <2>2
<1>5. /\ e.is = "account.updated" /\ u.is = "account.rate_limits"
      /\ u.of = {signedIn} /\ u.seen = figure'
  BY DEF e, u
<1>6. AccountShapes'
  BY <1>1, <1>4 DEF AccountInv, AccountShapes
<1>7. RepliesAreAnswers'
  BY <1>1, <1>4, <1>5 DEF AccountInv, RepliesAreAnswers
<1>8. OneOfEach'
  BY <1>1 DEF AccountInv, OneOfEach
<1>9. UsesInOrder'
  BY <1>4, <1>5 DEF AccountInv, UsesInOrder
<1>10. /\ ToldOfSwitch => ToldOfSwitch'
       /\ SwitchOnWire => SwitchOnWire'
       /\ signedIn' = signedIn \/ SwitchOnWire'
       /\ NoUseOnWire' => NoUseOnWire /\ figure' = figure
  BY <1>1, <1>4, <1>5 DEF ToldOfSwitch, SwitchOnWire, NoUseOnWire
<1>11. SwitchOnWire' => ToldOfSwitch'
  BY DEF ToldOfSwitch
<1>12. \A m, o : TellsTruth(m, o) => TellsTruth(m, o)'
  BY <1>1, <1>10, <1>11, TruthStays
<1>13. AnswersAreTrue'
  <2> SUFFICES ASSUME running = "out"
               PROVE  AnswersAreTrue'
    BY <1>1 DEF AnswersAreTrue
  <2>1. \A k \in DOMAIN wire', m \in Methods :
          wire'[k].is = "response" /\ answers'[m] = Waiting(wire'[k].id)
            => k \in DOMAIN wire /\ wire'[k] = wire[k]
    BY <1>4, <1>5
  <2> QED
    BY <1>1, <1>12, <2>1 DEF AccountInv, AnswersAreTrue
<1>14. SinceReadIsTrue'
  BY <1>1, <1>10, <1>11 DEF AccountInv, SinceReadIsTrue
<1>15. RecordFollows'
  BY <1>1, <1>10 DEF AccountInv, RecordFollows
<1> QED
  BY <1>6, <1>7, <1>8, <1>9, <1>13, <1>14, <1>15 DEF AccountInv

\* It looks the limits up: the answer it will give is of that moment.
LEMMA LookKeeps ==
  ASSUME AccountInv, NEW r \in taken, Look(r)
  PROVE  AccountInv'
<1> DEFINE looked == IF signedIn = SignedOut THEN Error ELSE Answer(signedIn, figure)
           q == [r EXCEPT !.outcome = looked]
<1>1. /\ UNCHANGED <<signedIn, figure, wire, pending, nextId, outstanding, answers, running, again,
                     sinceRead, closed, record>>
      /\ taken' = (taken \ {r}) \cup {q}
  BY DEF Look, request, reader
<1>2. looked \in Outcomes /\ \A o : o = looked => TellsTruth(r.method, o)'
  BY <1>1, OutcomeForms DEF AccountInv, AccountShapes, TellsTruth
<1> HIDE DEF looked
<1>3. q.id = r.id /\ q.method = r.method /\ q.outcome = looked
      /\ q \in [id : Nat, method : Methods, outcome : Outcomes] /\ r.id < nextId
  BY <1>2 DEF AccountInv, AccountShapes
<1> HIDE DEF q
<1>4. AccountShapes'
  BY <1>1, <1>3 DEF AccountInv, AccountShapes
<1>5. OneOfEach'
  BY <1>1, <1>3 DEF AccountInv, OneOfEach
<1>6. RepliesAreAnswers' /\ UsesInOrder' /\ SinceReadIsTrue' /\ RecordFollows'
  BY <1>1 DEF AccountInv, RepliesAreAnswers, UsesInOrder, SinceReadIsTrue, RecordFollows,
              ToldOfSwitch, SwitchOnWire, NoUseOnWire
<1>7. \A m, o : TellsTruth(m, o) => TellsTruth(m, o)'
  BY <1>1 DEF TellsTruth, ToldOfSwitch, SwitchOnWire, NoUseOnWire
<1>8. AnswersAreTrue'
  <2> SUFFICES ASSUME running = "out", ~closed
               PROVE  AnswersAreTrue'
    BY <1>1 DEF AnswersAreTrue
  <2>1. ASSUME NEW s \in taken', answers'[s.method] = Waiting(s.id), NEW p, p = s.outcome
        PROVE  TellsTruth(s.method, p)'
    <3>1. CASE s = q
      BY <1>2, <1>3, <2>1, <3>1
    <3>2. CASE s # q
      BY <1>1, <1>7, <2>1, <3>2 DEF AccountInv, AnswersAreTrue
    <3> QED
      BY <3>1, <3>2
  <2>2. \A m \in Methods, k \in DOMAIN wire' :
          /\ answers'[m] = answers[m] /\ wire'[k] = wire[k] /\ k \in DOMAIN wire
          /\ wire'[k].is = "response" /\ answers'[m] = Waiting(wire'[k].id)
               => TellsTruth(m, wire[k].outcome)
    BY <1>1 DEF AccountInv, AnswersAreTrue
  <2>3. (SwitchOnWire' <=> SwitchOnWire) /\ (NoUseOnWire' <=> NoUseOnWire)
        /\ (ToldOfSwitch' <=> ToldOfSwitch)
    BY <1>1 DEF SwitchOnWire, NoUseOnWire, ToldOfSwitch
  <2>4. \A m \in Methods : TellsTruth(m, answers[m])'
    <3>1. \A m \in Methods : TellsTruth(m, answers[m])
      BY DEF AccountInv, AnswersAreTrue
    <3> QED
      BY <1>1, <2>3, <3>1 DEF TellsTruth
  <2>5. \A k \in DOMAIN wire', m \in Methods :
          wire'[k].is = "response" /\ answers'[m] = Waiting(wire'[k].id)
            => TellsTruth(m, wire[k].outcome)'
    BY <1>1, <2>2, <2>3 DEF TellsTruth
  <2>6. \A s \in taken' : answers'[s.method] = Waiting(s.id) => TellsTruth(s.method, s.outcome)'
    BY <2>1 DEF TellsTruth
  <2> QED
    BY <1>1, <2>4, <2>5, <2>6 DEF AnswersAreTrue
<1> QED
  BY <1>4, <1>5, <1>6, <1>8 DEF AccountInv

\* It answers, or refuses.
LEMMA AnswersKeeps ==
  ASSUME AccountInv, NEW r \in taken, Answers(r) \/ Refuses(r)
  PROVE  AccountInv'
<1>1. PICK o \in Outcomes :
        /\ o.is # "waiting"
        /\ o = Error \/ o = Answer(signedIn, figure)
           \/ (r.method = "account/rateLimits/read" /\ o = r.outcome)
        /\ wire' = Append(wire, [is |-> "response", id |-> r.id, outcome |-> o])
        /\ taken' = taken \ {r}
        /\ UNCHANGED <<signedIn, figure, pending, nextId, outstanding, answers, running, again,
                       sinceRead, closed, record>>
  <2>1. CASE Refuses(r)
    BY <2>1, OutcomeForms DEF Refuses, request, reader
  <2>2. CASE Answers(r) /\ r.method = "account/read"
    <3>1. Answer(signedIn, figure) \in Outcomes /\ Answer(signedIn, figure).is # "waiting"
      BY OutcomeForms DEF AccountInv, AccountShapes
    <3> QED
      BY <2>2, <3>1 DEF Answers, request, reader
  <2>3. CASE Answers(r) /\ r.method # "account/read"
    <3>1. r.outcome \in Outcomes /\ r.method = "account/rateLimits/read"
      BY <2>3 DEF AccountInv, AccountShapes, Methods
    <3> QED
      BY <2>3, <3>1 DEF Answers, request, reader
  <2> QED
    BY <2>1, <2>2, <2>3
<1> DEFINE e == [is |-> "response", id |-> r.id, outcome |-> o]
<1>2. e \in Events /\ e.is = "response" /\ e.id = r.id /\ e.outcome = o /\ r.id \in Nat
  BY DEF Events, AccountInv, AccountShapes
<1>3. wire' = Append(wire, e) /\ wire \in Seq(Events)
  BY <1>1 DEF AccountInv, AccountShapes
<1> HIDE DEF e
<1>4. PICK n \in Nat :
        /\ wire' \in Seq(Events) /\ wire'[n] = e /\ DOMAIN wire' = DOMAIN wire \cup {n}
        /\ \A k \in DOMAIN wire : k \in Nat /\ k < n /\ wire'[k] = wire[k]
  BY <1>2, <1>3, Written
<1>5. AccountShapes'
  BY <1>1, <1>4 DEF AccountInv, AccountShapes
<1>6. RepliesAreAnswers'
  BY <1>1, <1>2, <1>4 DEF AccountInv, RepliesAreAnswers, AccountShapes
<1>7. OneOfEach'
  BY <1>1 DEF AccountInv, OneOfEach
<1>8. UsesInOrder' /\ (SwitchOnWire' <=> SwitchOnWire) /\ (NoUseOnWire' <=> NoUseOnWire)
  BY <1>1, <1>2, <1>4 DEF AccountInv, UsesInOrder, SwitchOnWire, NoUseOnWire
<1>9. ToldOfSwitch' <=> ToldOfSwitch
  BY <1>1, <1>8 DEF ToldOfSwitch
<1>10. \A m, p : TellsTruth(m, p) => TellsTruth(m, p)'
  BY <1>1, <1>8, <1>9 DEF TellsTruth
<1>11. ASSUME running = "out", ~closed, NEW m \in Methods, answers[m] = Waiting(r.id)
       PROVE  TellsTruth(m, o)
  <2>1. r.method = m
    BY <1>11 DEF AccountInv, OneOfEach
  <2>2. CASE r.method = "account/rateLimits/read" /\ o = r.outcome
    BY <1>11, <2>1, <2>2 DEF AccountInv, AnswersAreTrue
  <2>3. CASE o = Error \/ o = Answer(signedIn, figure)
    BY <2>3, OutcomeForms DEF TellsTruth, AccountInv, AccountShapes
  <2> QED
    BY <1>1, <2>2, <2>3
<1>12. AnswersAreTrue'
  <2> SUFFICES ASSUME running = "out", ~closed
               PROVE  AnswersAreTrue'
    BY <1>1 DEF AnswersAreTrue
  <2>1. ASSUME NEW k \in DOMAIN wire', NEW m \in Methods, NEW p, p = wire'[k].outcome,
               wire'[k].is = "response" /\ answers'[m] = Waiting(wire'[k].id)
        PROVE  TellsTruth(m, p)'
    <3>1. CASE k = n
      BY <1>1, <1>2, <1>4, <1>10, <1>11, <2>1, <3>1
    <3>2. CASE k # n
      BY <1>1, <1>4, <1>10, <2>1, <3>2 DEF AccountInv, AnswersAreTrue
    <3> QED
      BY <3>1, <3>2
  <2> QED
    BY <1>1, <1>10, <2>1 DEF AccountInv, AnswersAreTrue, TellsTruth
<1>13. SinceReadIsTrue' /\ RecordFollows'
  BY <1>1, <1>8, <1>9 DEF AccountInv, SinceReadIsTrue, RecordFollows
<1> QED
  BY <1>5, <1>6, <1>7, <1>8, <1>12, <1>13 DEF AccountInv

-----------------------------------------------------------------------------
(* The steps of the connection and the recorder.                           *)

\* A change of login is announced, or a turn ends: a read is asked for.
LEMMA AskedAgain ==
  ASSUME AccountInv, ~closed, Request,
         UNCHANGED <<signedIn, figure, pending, nextId, outstanding, answers, taken, closed, record>>,
         UNCHANGED wire \/ (wire # <<>> /\ Head(wire).is = "account.updated" /\ wire' = Tail(wire))
  PROVE  AccountInv'
<1>1. /\ sinceRead' = sinceRead /\ running' \in {"idle", "asked", "out"} /\ again' \in BOOLEAN
      /\ running' # "idle" /\ (running' = "out" <=> running = "out")
      /\ again => again'
      /\ running = "out" => again'
  BY DEF Request, AccountInv, AccountShapes
<1>2. /\ wire \in Seq(Events) /\ wire' \in Seq(Events)
      /\ \A k \in DOMAIN wire : wire[k].is # "account.updated" =>
           \E j \in DOMAIN wire' : wire'[j] = wire[k]
      /\ \A k \in DOMAIN wire' : \E j \in DOMAIN wire : wire'[k] = wire[j]
      /\ UsesInOrder'
  <2>1. wire \in Seq(Events) /\ UsesInOrder
    BY DEF AccountInv, AccountShapes
  <2>2. CASE UNCHANGED wire
    BY <2>1, <2>2 DEF UsesInOrder
  <2>3. CASE wire # <<>> /\ Head(wire).is = "account.updated" /\ wire' = Tail(wire)
    <3>1. /\ wire' \in Seq(Events) /\ 1 \in DOMAIN wire /\ wire[1].is = "account.updated"
          /\ \A k \in DOMAIN wire' : k \in Nat /\ k + 1 \in DOMAIN wire /\ wire'[k] = wire[k + 1]
          /\ \A k \in DOMAIN wire : k \in Nat /\ (k # 1 => k - 1 \in DOMAIN wire'
                                                          /\ wire'[k - 1] = wire[k])
      BY <2>1, <2>3, ReadOff
    <3>2. UsesInOrder'
      BY <2>1, <2>3, RestInOrder
    <3> QED
      BY <2>1, <3>1, <3>2
  <2> QED
    BY <2>2, <2>3
<1>3. AccountShapes'
  BY <1>1, <1>2 DEF AccountInv, AccountShapes
<1>4. RepliesAreAnswers'
  BY <1>2 DEF AccountInv, RepliesAreAnswers
<1>5. OneOfEach'
  BY <1>1 DEF AccountInv, OneOfEach
<1>6. NoUseOnWire' <=> NoUseOnWire
  BY <1>2 DEF NoUseOnWire
<1>7. running = "out" => \A m, o : TellsTruth(m, o) => TellsTruth(m, o)'
  BY <1>1, <1>6 DEF TellsTruth, ToldOfSwitch
<1>8. AnswersAreTrue'
  <2> SUFFICES ASSUME running = "out"
               PROVE  AnswersAreTrue'
    BY <1>1 DEF AnswersAreTrue
  <2>1. \A k \in DOMAIN wire', m \in Methods :
          wire'[k].is = "response" /\ answers'[m] = Waiting(wire'[k].id)
            => TellsTruth(m, wire'[k].outcome)
    BY <1>2 DEF AccountInv, AnswersAreTrue
  <2>2. \A m \in Methods : TellsTruth(m, answers[m])
    BY DEF AccountInv, AnswersAreTrue
  <2>3. \A r \in taken : answers[r.method] = Waiting(r.id) => TellsTruth(r.method, r.outcome)
    BY DEF AccountInv, AnswersAreTrue
  <2> QED
    BY <1>1, <1>6, <2>1, <2>2, <2>3 DEF AnswersAreTrue, TellsTruth, ToldOfSwitch
<1>9. SinceReadIsTrue' /\ RecordFollows'
  BY <1>1, <1>6 DEF AccountInv, SinceReadIsTrue, RecordFollows, ToldOfSwitch
<1> QED
  BY <1>2, <1>3, <1>4, <1>5, <1>8, <1>9 DEF AccountInv

\* A reply is read: its request settles.
LEMMA ReplyKeeps ==
  ASSUME AccountInv, Deliver, Head(wire).is = "response"
  PROVE  AccountInv'
<1> DEFINE e == Head(wire)
           waiter == {p \in pending : p.id = e.id}
<1>1. wire \in Seq(Events) /\ wire # <<>> /\ wire' = Tail(wire) /\ UsesInOrder
  BY DEF Deliver, AccountInv, AccountShapes
<1>2. /\ Response(e.id, e.outcome)
      /\ UNCHANGED <<signedIn, figure, taken, running, again, sinceRead, closed, record>>
  BY DEF Deliver, server, reader
<1>3. /\ wire' \in Seq(Events) /\ 1 \in DOMAIN wire /\ e = wire[1] /\ e \in Events
      /\ \A k \in DOMAIN wire' : k \in Nat /\ k + 1 \in DOMAIN wire /\ wire'[k] = wire[k + 1]
      /\ \A k \in DOMAIN wire : k \in Nat /\ (k # 1 => k - 1 \in DOMAIN wire'
                                                      /\ wire'[k - 1] = wire[k])
  BY <1>1, ReadOff
<1>4. e.is = "response" /\ e.id \in Nat /\ e.outcome \in Outcomes /\ e.outcome.is # "waiting"
  BY <1>3, EventForms DEF AccountInv, RepliesAreAnswers
<1>5. /\ pending' = pending \ waiter /\ nextId' = nextId
      /\ outstanding' = outstanding \ {p.method : p \in waiter}
  BY <1>2 DEF Response
<1>6. /\ answers' \in [Methods -> Outcomes]
      /\ \A m \in Methods : \/ answers'[m] = answers[m]
                            \/ answers[m] = Waiting(e.id) /\ answers'[m] = e.outcome
      /\ \A m \in Methods : answers[m] = Waiting(e.id) => answers'[m] = e.outcome
  <2>1. CASE waiter = {}
    <3>1. answers' = answers
      BY <1>2, <2>1 DEF Response
    <3>2. ASSUME NEW m \in Methods, answers[m] = Waiting(e.id)
          PROVE  FALSE
      <4>1. answers[m].is = "waiting"
        BY <1>4, <3>2, OutcomeForms
      <4>2. PICK p \in pending : answers[m] = Waiting(p.id)
        BY <4>1 DEF AccountInv, OneOfEach
      <4>3. p.id = e.id
        BY <1>4, <3>2, <4>2, OutcomeForms DEF AccountInv, AccountShapes, Requests
      <4> QED
        BY <2>1, <4>3
    <3> QED
      BY <3>1, <3>2 DEF AccountInv, AccountShapes
  <2>2. CASE waiter # {}
    <3>1. PICK p \in waiter : answers' = Settled(p.method, e.id, e.outcome)
      <4>1. answers' = LET p == CHOOSE p \in waiter : TRUE IN Settled(p.method, e.id, e.outcome)
        BY <1>2, <2>2 DEF Response
      <4> QED
        BY <2>2, <4>1
    <3>2. p \in pending /\ p.id = e.id /\ p.method \in Methods /\ answers \in [Methods -> Outcomes]
      BY DEF AccountInv, AccountShapes, Requests
    <3>3. ASSUME NEW m \in Methods, answers[m] = Waiting(e.id)
          PROVE  m = p.method
      <4>1. answers[m].is = "waiting"
        BY <1>4, <3>3, OutcomeForms
      <4>2. PICK q \in pending : q.method = m /\ answers[m] = Waiting(q.id)
        BY <4>1 DEF AccountInv, OneOfEach
      <4>3. q.id = e.id
        BY <1>4, <3>3, <4>2, OutcomeForms DEF AccountInv, AccountShapes, Requests
      <4> QED
        BY <3>2, <4>2, <4>3 DEF AccountInv, OneOfEach
    <3>4. CASE answers[p.method] = Waiting(e.id)
      <4>1. answers' = [answers EXCEPT ![p.method] = e.outcome]
        BY <3>1, <3>4 DEF Settled
      <4> QED
        BY <1>4, <3>2, <3>3, <3>4, <4>1
    <3>5. CASE answers[p.method] # Waiting(e.id)
      <4>1. answers' = answers
        BY <3>1, <3>5 DEF Settled
      <4> QED
        BY <3>2, <3>3, <3>5, <4>1
    <3> QED
      BY <3>4, <3>5
  <2> QED
    BY <2>1, <2>2
<1> HIDE DEF e
<1>7. AccountShapes'
  BY <1>2, <1>3, <1>5, <1>6 DEF AccountInv, AccountShapes
<1>8. RepliesAreAnswers'
  BY <1>3, <1>5 DEF AccountInv, RepliesAreAnswers
<1>9. OneOfEach'
  <2>1. outstanding' = {p.method : p \in pending'}
    BY <1>5 DEF AccountInv, OneOfEach
  <2>2. \A p, q \in pending' : p.method = q.method \/ p.id = q.id => p = q
    BY <1>5 DEF AccountInv, OneOfEach
  <2>3. ASSUME NEW m \in Methods, answers'[m].is = "waiting"
        PROVE  running' = "out" /\ \E p \in pending' : p.method = m /\ answers'[m] = Waiting(p.id)
    <3>1. answers'[m] = answers[m] /\ answers[m] # Waiting(e.id)
      BY <1>4, <1>6, <2>3
    <3>2. running = "out" /\ \E p \in pending : p.method = m /\ answers[m] = Waiting(p.id)
      BY <2>3, <3>1 DEF AccountInv, OneOfEach
    <3> QED
      BY <1>2, <1>5, <3>1, <3>2
  <2>4. ASSUME NEW r \in taken', NEW m \in Methods, answers'[m] = Waiting(r.id)
        PROVE  r.method = m
    <3>1. answers'[m].is = "waiting"
      BY <1>2, <2>4, OutcomeForms DEF AccountInv, AccountShapes
    <3>2. answers'[m] = answers[m]
      BY <1>4, <1>6, <3>1
    <3> QED
      BY <1>2, <2>4, <3>2 DEF AccountInv, OneOfEach
  <2> QED
    BY <2>1, <2>2, <2>3, <2>4 DEF OneOfEach
<1>10. UsesInOrder'
  BY <1>1, <1>2, RestInOrder
<1>11. (SwitchOnWire' <=> SwitchOnWire) /\ (NoUseOnWire' <=> NoUseOnWire)
  BY <1>3, <1>4 DEF SwitchOnWire, NoUseOnWire
<1>12. ToldOfSwitch' <=> ToldOfSwitch
  BY <1>2, <1>11 DEF ToldOfSwitch
<1>13. \A m, o : TellsTruth(m, o) => TellsTruth(m, o)'
  BY <1>2, <1>11, <1>12 DEF TellsTruth
<1>14. AnswersAreTrue'
  <2> SUFFICES ASSUME running = "out", ~closed
               PROVE  AnswersAreTrue'
    BY <1>2 DEF AnswersAreTrue
  <2>1. ASSUME NEW m \in Methods, NEW o, o = answers'[m]
        PROVE  TellsTruth(m, o)'
    <3>1. CASE answers'[m] = answers[m]
      BY <1>13, <2>1, <3>1 DEF AccountInv, AnswersAreTrue
    <3>2. CASE answers[m] = Waiting(e.id) /\ answers'[m] = e.outcome
      BY <1>3, <1>4, <1>13, <2>1, <3>2 DEF AccountInv, AnswersAreTrue
    <3> QED
      BY <1>6, <3>1, <3>2
  <2>2. ASSUME NEW m \in Methods, NEW i \in Nat, answers'[m] = Waiting(i)
        PROVE  answers[m] = Waiting(i)
    <3>1. answers'[m].is = "waiting"
      BY <2>2, OutcomeForms
    <3> QED
      BY <1>4, <1>6, <2>2, <3>1
  <2>3. ASSUME NEW k \in DOMAIN wire', NEW m \in Methods, NEW o, o = wire'[k].outcome,
               wire'[k].is = "response" /\ answers'[m] = Waiting(wire'[k].id)
        PROVE  TellsTruth(m, o)'
    <3>1. k + 1 \in DOMAIN wire /\ wire'[k] = wire[k + 1]
      BY <1>3
    <3>2. wire'[k].id \in Nat
      BY <1>3, <2>3, EventForms
    <3>3. answers[m] = Waiting(wire'[k].id)
      BY <2>2, <2>3, <3>2
    <3> QED
      BY <1>13, <2>3, <3>1, <3>3 DEF AccountInv, AnswersAreTrue
  <2>4. ASSUME NEW r \in taken', answers'[r.method] = Waiting(r.id), NEW o, o = r.outcome
        PROVE  TellsTruth(r.method, o)'
    <3>1. r \in taken /\ r.id \in Nat /\ r.method \in Methods
      BY <1>2 DEF AccountInv, AccountShapes
    <3> QED
      BY <1>13, <2>2, <2>4, <3>1 DEF AccountInv, AnswersAreTrue
  <2> QED
    BY <2>1, <2>3, <2>4 DEF AnswersAreTrue, TellsTruth
<1>15. SinceReadIsTrue' /\ RecordFollows'
  BY <1>2, <1>11, <1>12 DEF AccountInv, SinceReadIsTrue, RecordFollows
<1> QED
  BY <1>7, <1>8, <1>9, <1>10, <1>14, <1>15 DEF AccountInv

\* The figures of a use are read, and merged into the record and into the read's.
LEMMA FiguresKeep ==
  ASSUME AccountInv, ~closed, Deliver, Head(wire).is = "account.rate_limits"
  PROVE  AccountInv'
<1> DEFINE e == Head(wire)
           update == [of |-> e.of, seen |-> e.seen]
<1>1. wire \in Seq(Events) /\ wire # <<>> /\ wire' = Tail(wire) /\ UsesInOrder
  BY DEF Deliver, AccountInv, AccountShapes
<1>2. /\ Accept(e) /\ UNCHANGED <<signedIn, figure, taken, pending, nextId, outstanding, answers, closed>>
  BY DEF Deliver, server, request
<1>3. /\ wire' \in Seq(Events) /\ 1 \in DOMAIN wire /\ e = wire[1] /\ e \in Events
      /\ \A k \in DOMAIN wire' : k \in Nat /\ k + 1 \in DOMAIN wire /\ wire'[k] = wire[k + 1]
      /\ \A k \in DOMAIN wire : k \in Nat /\ (k # 1 => k - 1 \in DOMAIN wire'
                                                      /\ wire'[k - 1] = wire[k])
  BY <1>1, ReadOff
<1>4. e.is = "account.rate_limits" /\ e.of \in SUBSET Holders /\ e.of # {} /\ e.seen \in Nat
  BY <1>3, EventForms
<1>5. /\ record' = [record EXCEPT !.limits = MergeSparse(record.limits, update)]
      /\ sinceRead' = IF running = "out" THEN MergeSparse(sinceRead, update) ELSE sinceRead
      /\ UNCHANGED <<running, again>>
  BY <1>2, <1>4 DEF Accept, SetRecord
<1>6. /\ (SwitchOnWire' <=> SwitchOnWire) /\ (ToldOfSwitch' <=> ToldOfSwitch)
      /\ ~NoUseOnWire
  BY <1>3, <1>4, <1>5 DEF ToldOfSwitch, SwitchOnWire, NoUseOnWire
<1>7. e.of = {signedIn} \/ SwitchOnWire
  BY <1>1, <1>3, <1>4 DEF UsesInOrder, SwitchOnWire
<1>8. NoUseOnWire' => e.seen = figure
  <2>1. e.seen = figure \/ \E j \in DOMAIN wire : j > 1 /\ wire[j].is = "account.rate_limits"
    BY <1>1, <1>3, <1>4 DEF UsesInOrder
  <2>2. \A j \in DOMAIN wire : j > 1 => j - 1 \in DOMAIN wire' /\ wire'[j - 1] = wire[j]
    BY <1>3
  <2> QED
    BY <2>1, <2>2 DEF NoUseOnWire
<1>9. update \in Limits /\ update.of = e.of /\ update.seen = e.seen /\ update # NoLimits
  <2>1. update \in Limits /\ update.of = e.of /\ update.seen = e.seen
    BY <1>4 DEF Limits
  <2>2. e.of # {}
    BY <1>4
  <2> QED
    BY <2>1, <2>2 DEF NoLimits
<1> HIDE DEF update, e
<1>10. \A l \in Limits : /\ MergeSparse(l, update) \in Limits /\ MergeSparse(l, update) # NoLimits
                         /\ MergeSparse(l, update).of = l.of \cup e.of
                         /\ MergeSparse(l, update).seen = e.seen
  <2>1. ASSUME NEW l \in Limits
        PROVE  /\ MergeSparse(l, update) \in Limits
               /\ MergeSparse(l, update).of = l.of \cup e.of
               /\ MergeSparse(l, update).seen = e.seen
    BY <1>9 DEF MergeSparse, Limits
  <2>2. ASSUME NEW l \in Limits
        PROVE  MergeSparse(l, update) # NoLimits
    BY <1>9, <2>1 DEF NoLimits, Limits
  <2> QED
    BY <2>1, <2>2
<1>11. /\ record.limits \in Limits /\ sinceRead \in Limits
       /\ record' \in [account : Holders, confirmed : BOOLEAN, limits : Limits, error : BOOLEAN,
                       turned : BOOLEAN]
       /\ record'.account = record.account /\ record'.error = record.error
       /\ record'.limits = MergeSparse(record.limits, update)
  BY <1>5, <1>10 DEF AccountInv, AccountShapes
<1>12. AccountShapes'
  BY <1>2, <1>3, <1>5, <1>10, <1>11 DEF AccountInv, AccountShapes
<1>13. RepliesAreAnswers' /\ OneOfEach'
  BY <1>2, <1>3, <1>5 DEF AccountInv, RepliesAreAnswers, OneOfEach
<1>14. UsesInOrder'
  BY <1>1, <1>2, RestInOrder
<1>15. running = "out" => sinceRead' # NoLimits
  BY <1>5, <1>10, <1>11
<1>16. running = "out" => \A m, o : TellsTruth(m, o) => TellsTruth(m, o)'
  BY <1>2, <1>6, <1>15 DEF TellsTruth
<1>17. AnswersAreTrue'
  <2> SUFFICES ASSUME running = "out"
               PROVE  AnswersAreTrue'
    BY <1>5 DEF AnswersAreTrue
  <2>1. ASSUME NEW k \in DOMAIN wire', NEW m \in Methods, NEW o, o = wire'[k].outcome,
               wire'[k].is = "response" /\ answers'[m] = Waiting(wire'[k].id)
        PROVE  TellsTruth(m, o)'
    <3>1. k + 1 \in DOMAIN wire /\ wire'[k] = wire[k + 1] /\ answers' = answers
      BY <1>2, <1>3
    <3>2. /\ wire[k + 1].is = "response" /\ answers[m] = Waiting(wire[k + 1].id)
          /\ o = wire[k + 1].outcome
      BY <2>1, <3>1
    <3>3. TellsTruth(m, wire[k + 1].outcome)
      BY <3>1, <3>2 DEF AccountInv, AnswersAreTrue
    <3> QED
      BY <1>16, <3>2, <3>3
  <2>2. ASSUME NEW m \in Methods, NEW o, o = answers'[m]
        PROVE  TellsTruth(m, o)'
    BY <1>2, <1>16, <2>2 DEF AccountInv, AnswersAreTrue
  <2>3. ASSUME NEW r \in taken', answers'[r.method] = Waiting(r.id), NEW o, o = r.outcome
        PROVE  TellsTruth(r.method, o)'
    BY <1>2, <1>16, <2>3 DEF AccountInv, AnswersAreTrue
  <2> QED
    BY <2>1, <2>2, <2>3 DEF AnswersAreTrue, TellsTruth
<1>18. SinceReadIsTrue'
  <2> SUFFICES ASSUME running = "out"
               PROVE  SinceReadIsTrue'
    BY <1>5 DEF SinceReadIsTrue
  <2>1. sinceRead'.of = sinceRead.of \cup e.of /\ sinceRead'.seen = e.seen
    BY <1>5, <1>10, <1>11
  <2>2. SwitchOnWire => ToldOfSwitch
    BY DEF ToldOfSwitch
  <2> QED
    BY <1>2, <1>6, <1>7, <1>8, <2>1, <2>2 DEF AccountInv, SinceReadIsTrue
<1>19. RecordFollows'
  BY <1>2, <1>5, <1>6, <1>7, <1>8, <1>10, <1>11 DEF AccountInv, RecordFollows
<1> QED
  BY <1>12, <1>13, <1>14, <1>17, <1>18, <1>19 DEF AccountInv

\* What the recorder no longer reads, once it is closed.
LEMMA UnheardKeeps ==
  ASSUME AccountInv, closed, Deliver, Head(wire).is # "response"
  PROVE  AccountInv'
<1>1. wire \in Seq(Events) /\ wire # <<>> /\ wire' = Tail(wire) /\ UsesInOrder
  BY DEF Deliver, AccountInv, AccountShapes
<1>2. UNCHANGED <<signedIn, figure, taken, pending, nextId, outstanding, answers, running, again,
                  sinceRead, closed, record>>
  BY DEF Deliver, Accept, server, request, reader
<1>3. /\ wire' \in Seq(Events)
      /\ \A k \in DOMAIN wire' : k \in Nat /\ k + 1 \in DOMAIN wire /\ wire'[k] = wire[k + 1]
  BY <1>1, ReadOff
<1>4. AccountShapes' /\ RepliesAreAnswers' /\ OneOfEach'
  BY <1>2, <1>3 DEF AccountInv, AccountShapes, RepliesAreAnswers, OneOfEach
<1>5. UsesInOrder'
  BY <1>1, <1>2, RestInOrder
<1>6. AnswersAreTrue' /\ SinceReadIsTrue' /\ RecordFollows'
  BY <1>2 DEF AnswersAreTrue, SinceReadIsTrue, RecordFollows
<1> QED
  BY <1>4, <1>5, <1>6 DEF AccountInv

\* A wait ends with an error: the stream closed on it, or its bound came.
LEMMA ErrorsKeep ==
  ASSUME AccountInv, Fail \/ \E m \in Methods : TimesOut(m)
  PROVE  AccountInv'
<1>1. UNCHANGED <<signedIn, figure, wire, taken, nextId, running, again, sinceRead, closed, record>>
  BY DEF Fail, TimesOut, server, reader
<1>2. \/ UNCHANGED <<pending, outstanding>>
      \/ pending' = {} /\ outstanding' = {} /\ \A m \in Methods : answers'[m].is # "waiting"
  <2>1. CASE Fail
    BY <2>1, OutcomeForms DEF Fail
  <2>2. CASE \E m \in Methods : TimesOut(m)
    BY <2>2 DEF TimesOut
  <2> QED
    BY <2>1, <2>2
<1>3. /\ answers' \in [Methods -> Outcomes]
      /\ \A m \in Methods : answers'[m] = answers[m] \/ answers'[m] = Error
  <2>1. answers \in [Methods -> Outcomes] /\ Error \in Outcomes
    BY OutcomeForms DEF AccountInv, AccountShapes
  <2>2. CASE Fail
    BY <2>1, <2>2 DEF Fail
  <2>3. CASE \E m \in Methods : TimesOut(m)
    BY <2>1, <2>3 DEF TimesOut
  <2> QED
    BY <2>2, <2>3
<1>4. \A i \in Nat : Error # Waiting(i) /\ Error.is # "waiting" /\ Error.is # "answer"
  BY OutcomeForms
<1>5. AccountShapes'
  BY <1>1, <1>2, <1>3 DEF AccountInv, AccountShapes
<1>6. RepliesAreAnswers' /\ UsesInOrder'
  BY <1>1 DEF AccountInv, RepliesAreAnswers, UsesInOrder
<1>7. OneOfEach'
  <2>1. /\ outstanding' = {p.method : p \in pending'}
        /\ \A p, q \in pending' : p.method = q.method \/ p.id = q.id => p = q
    BY <1>2 DEF AccountInv, OneOfEach
  <2>2. \A m \in Methods : answers'[m].is = "waiting" =>
          running' = "out" /\ \E p \in pending' : p.method = m /\ answers'[m] = Waiting(p.id)
    BY <1>1, <1>2, <1>3, <1>4 DEF AccountInv, OneOfEach
  <2>3. \A r \in taken', m \in Methods : answers'[m] = Waiting(r.id) => r.method = m
    BY <1>1, <1>3, <1>4 DEF AccountInv, AccountShapes, OneOfEach
  <2> QED
    BY <2>1, <2>2, <2>3 DEF OneOfEach
<1>8. (SwitchOnWire' <=> SwitchOnWire) /\ (NoUseOnWire' <=> NoUseOnWire) /\ (ToldOfSwitch' <=> ToldOfSwitch)
  BY <1>1 DEF ToldOfSwitch, SwitchOnWire, NoUseOnWire
<1>9. \A m, o : TellsTruth(m, o) => TellsTruth(m, o)'
  BY <1>1, <1>8 DEF TellsTruth
<1>10. AnswersAreTrue'
  <2> SUFFICES ASSUME running = "out", ~closed
               PROVE  AnswersAreTrue'
    BY <1>1 DEF AnswersAreTrue
  <2>1. ASSUME NEW k \in DOMAIN wire', NEW m \in Methods, NEW o, o = wire'[k].outcome,
               wire'[k].is = "response" /\ answers'[m] = Waiting(wire'[k].id)
        PROVE  TellsTruth(m, o)'
    <3>1. wire'[k].id \in Nat /\ k \in DOMAIN wire /\ wire'[k] = wire[k]
      BY <1>1, <2>1, EventForms DEF AccountInv, AccountShapes
    <3> QED
      BY <1>3, <1>4, <1>9, <2>1, <3>1 DEF AccountInv, AnswersAreTrue
  <2>2. ASSUME NEW m \in Methods, NEW o, o = answers'[m]
        PROVE  TellsTruth(m, o)'
    <3>1. CASE answers'[m] = answers[m]
      BY <1>9, <2>2, <3>1 DEF AccountInv, AnswersAreTrue
    <3>2. CASE answers'[m] = Error
      BY <1>4, <2>2, <3>2 DEF TellsTruth
    <3> QED
      BY <1>3, <3>1, <3>2
  <2>3. ASSUME NEW r \in taken', answers'[r.method] = Waiting(r.id), NEW o, o = r.outcome
        PROVE  TellsTruth(r.method, o)'
    <3>1. r \in taken /\ r.id \in Nat /\ r.method \in Methods
      BY <1>1 DEF AccountInv, AccountShapes
    <3> QED
      BY <1>3, <1>4, <1>9, <2>3, <3>1 DEF AccountInv, AnswersAreTrue
  <2> QED
    BY <2>1, <2>2, <2>3 DEF AnswersAreTrue, TellsTruth
<1>11. SinceReadIsTrue' /\ RecordFollows'
  BY <1>1, <1>8 DEF AccountInv, SinceReadIsTrue, RecordFollows
<1> QED
  BY <1>5, <1>6, <1>7, <1>10, <1>11 DEF AccountInv

\* The read begins: what is out is asked once more, and nothing came since.
LEMMA StartReadKeeps ==
  ASSUME AccountInv, StartRead
  PROVE  AccountInv'
<1> USE DEF AccountInv
<1>1. CASE closed
  <2>1. /\ UNCHANGED <<signedIn, figure, wire, taken, pending, nextId, outstanding, answers, sinceRead,
                       closed, record>>
        /\ running' = "idle" /\ again' = FALSE /\ running = "asked"
    BY <1>1 DEF StartRead, request
  <2>2. AccountShapes' /\ RepliesAreAnswers' /\ UsesInOrder'
    <3>1. AccountShapes'
      BY <2>1 DEF AccountShapes
    <3>2. RepliesAreAnswers'
      BY <2>1 DEF RepliesAreAnswers
    <3>3. UsesInOrder'
      BY <2>1 DEF UsesInOrder
    <3> QED
      BY <3>1, <3>2, <3>3
  <2>3. OneOfEach'
    BY <2>1 DEF OneOfEach
  <2> QED
    BY <1>1, <2>1, <2>2, <2>3 DEF AnswersAreTrue, SinceReadIsTrue, RecordFollows
<1>2. CASE ~closed
  <2> DEFINE asked == [m \in Methods |-> Asked(m, IdOf[m])]
             newIds == {m \in Methods : asked[m].is = "waiting"}
  <2>1. /\ UNCHANGED <<signedIn, figure, wire, again, closed, record>>
        /\ running' = "out" /\ running = "asked" /\ sinceRead' = NoLimits /\ nextId' = nextId + 2
        /\ answers' = asked /\ outstanding' = outstanding \cup newIds
        /\ pending' = pending \cup {[id |-> IdOf[m], method |-> m] : m \in newIds}
        /\ taken' = taken \cup {[id |-> IdOf[m], method |-> m, outcome |-> Waiting(IdOf[m])]
                                : m \in IF up THEN newIds ELSE {}}
    BY <1>2 DEF StartRead, ReadAccount
  <2>2. /\ nextId \in Nat /\ \A m \in Methods : IdOf[m] \in Nat /\ nextId <= IdOf[m] /\ IdOf[m] < nextId + 2
        /\ \A m, n \in Methods : IdOf[m] = IdOf[n] => m = n
    BY DEF AccountShapes, IdOf, Methods
  <2>3. \A m \in Methods : /\ asked[m] \in Outcomes
                           /\ m \in newIds => asked[m] = Waiting(IdOf[m]) /\ m \notin outstanding
                           /\ m \notin newIds => asked[m] = Error
                           /\ asked[m].is # "answer"
    <3> SUFFICES ASSUME NEW m \in Methods
                 PROVE  /\ Asked(m, IdOf[m]) \in Outcomes
                        /\ Asked(m, IdOf[m]).is = "waiting" =>
                             Asked(m, IdOf[m]) = Waiting(IdOf[m]) /\ m \notin outstanding
                        /\ Asked(m, IdOf[m]).is # "waiting" => Asked(m, IdOf[m]) = Error
                        /\ Asked(m, IdOf[m]).is # "answer"
      OBVIOUS
    <3> QED
      BY <2>2, OutcomeForms DEF Asked
  <2> HIDE DEF asked, newIds
  <2>4. newIds \subseteq Methods
    BY DEF newIds
  <2>5. \A m \in Methods, i \in Nat : answers'[m] = Waiting(i) => i = IdOf[m] /\ m \in newIds
    BY <2>1, <2>2, <2>3, OutcomeForms
  <2>6. AccountShapes'
    <3>1. pending' \subseteq Requests /\ \A p \in pending' : p.id < nextId'
      <4>1. \A p \in pending : p \in Requests /\ p.id < nextId /\ p.id \in Nat
        BY DEF AccountShapes, Requests
      <4>2. \A m \in newIds : [id |-> IdOf[m], method |-> m] \in Requests
        BY <2>2, <2>4 DEF Requests
      <4> QED
        BY <2>1, <2>2, <2>4, <4>1, <4>2
    <3>2. /\ taken' \subseteq [id : Nat, method : Methods, outcome : Outcomes]
          /\ \A r \in taken' : r.id < nextId'
      <4>1. /\ taken \subseteq [id : Nat, method : Methods, outcome : Outcomes]
            /\ \A r \in taken : r.id < nextId /\ r.id \in Nat
        BY DEF AccountShapes
      <4>2. \A m \in newIds : [id |-> IdOf[m], method |-> m, outcome |-> Waiting(IdOf[m])]
                                 \in [id : Nat, method : Methods, outcome : Outcomes]
        BY <2>2, <2>4, OutcomeForms
      <4> QED
        BY <2>1, <2>2, <2>4, <4>1, <4>2
    <3>3. answers' \in [Methods -> Outcomes] /\ NoLimits \in Limits
      <4>1. answers' = [m \in Methods |-> asked[m]]
        BY <2>1 DEF asked
      <4> QED
        BY <2>3, <4>1 DEF NoLimits, Limits
    <3> QED
      BY <2>1, <2>2, <3>1, <3>2, <3>3 DEF AccountShapes
  <2>7. RepliesAreAnswers'
    <3>1. \A k \in DOMAIN wire : wire[k].is = "response" => wire[k].id \in Nat /\ wire[k].id < nextId
      BY EventForms DEF AccountShapes, RepliesAreAnswers
    <3> QED
      BY <2>1, <2>2, <3>1 DEF RepliesAreAnswers
  <2>8. OneOfEach'
    <3>1. outstanding' = {p.method : p \in pending'}
      <4>1. outstanding = {p.method : p \in pending}
        BY DEF OneOfEach
      <4>2. ASSUME NEW m \in outstanding' PROVE \E p \in pending' : p.method = m
        <5>1. CASE m \in outstanding
          BY <2>1, <4>1, <5>1
        <5>2. CASE m \in newIds
          <6>1. [id |-> IdOf[m], method |-> m] \in pending'
            BY <2>1, <5>2
          <6> QED
            BY <6>1
        <5> QED
          BY <2>1, <4>2, <5>1, <5>2
      <4>3. ASSUME NEW p \in pending' PROVE p.method \in outstanding'
        <5>1. CASE p \in pending
          BY <2>1, <4>1, <5>1
        <5>2. ASSUME NEW m \in newIds, p = [id |-> IdOf[m], method |-> m]
              PROVE  p.method \in outstanding'
          BY <2>1, <5>2
        <5> QED
          BY <2>1, <4>3, <5>1, <5>2
      <4> QED
        BY <4>2, <4>3
    <3>2. ASSUME NEW p \in pending', NEW q \in pending', p.method = q.method \/ p.id = q.id
          PROVE  p = q
      <4>1. \A s \in pending : s.id \in Nat /\ s.id < nextId /\ s.method \in outstanding
        BY DEF AccountShapes, Requests, OneOfEach
      <4>2. \A s \in pending' : \/ s \in pending
                                \/ \E m \in newIds : s = [id |-> IdOf[m], method |-> m]
        BY <2>1
      <4>3. CASE p \in pending /\ q \in pending
        BY <3>2, <4>3 DEF OneOfEach
      <4>4. CASE p \notin pending /\ q \notin pending
        BY <2>2, <2>4, <3>2, <4>2, <4>4
      <4>5. CASE (p \in pending /\ q \notin pending) \/ (p \notin pending /\ q \in pending)
        BY <2>2, <2>3, <2>4, <3>2, <4>1, <4>2, <4>5
      <4> QED
        BY <4>3, <4>4, <4>5
    <3>3. ASSUME NEW m \in Methods, answers'[m].is = "waiting"
          PROVE  running' = "out" /\ \E p \in pending' : p.method = m /\ answers'[m] = Waiting(p.id)
      <4>1. m \in newIds
        BY <2>1, <2>3, <3>3, OutcomeForms
      <4>2. answers'[m] = Waiting(IdOf[m]) /\ [id |-> IdOf[m], method |-> m] \in pending'
        BY <2>1, <2>3, <4>1
      <4> QED
        BY <2>1, <4>2
    <3>4. ASSUME NEW r \in taken', NEW m \in Methods, answers'[m] = Waiting(r.id)
          PROVE  r.method = m
      <4>1. CASE r \in taken
        <5>1. r.id \in Nat /\ r.id < nextId
          BY <4>1 DEF AccountShapes
        <5> QED
          BY <2>2, <2>5, <3>4, <5>1
      <4>2. CASE r \notin taken
        <5>1. PICK n \in newIds : r = [id |-> IdOf[n], method |-> n, outcome |-> Waiting(IdOf[n])]
          BY <2>1, <4>2
        <5> QED
          BY <2>2, <2>4, <2>5, <3>4, <5>1
      <4> QED
        BY <4>1, <4>2
    <3> QED
      BY <3>1, <3>2, <3>3, <3>4 DEF OneOfEach
  <2>9. UsesInOrder'
    BY <2>1 DEF UsesInOrder
  <2>10. AnswersAreTrue'
    <3>1. \A m \in Methods : answers'[m].is # "answer"
      BY <2>1, <2>3
    <3>2. ASSUME NEW k \in DOMAIN wire', wire'[k].is = "response", NEW m \in Methods
          PROVE  answers'[m] # Waiting(wire'[k].id)
      <4>1. wire'[k].id \in Nat /\ wire'[k].id < nextId
        BY <2>1, <3>2, EventForms DEF AccountShapes, RepliesAreAnswers
      <4> QED
        BY <2>2, <2>5, <4>1
    <3>3. ASSUME NEW r \in taken', answers'[r.method] = Waiting(r.id)
          PROVE  r.outcome.is # "answer"
      <4>1. CASE r \in taken
        <5>1. r.id \in Nat /\ r.id < nextId /\ r.method \in Methods
          BY <4>1 DEF AccountShapes
        <5> QED
          BY <2>2, <2>5, <3>3, <5>1
      <4>2. CASE r \notin taken
        <5>1. PICK n \in newIds : r = [id |-> IdOf[n], method |-> n, outcome |-> Waiting(IdOf[n])]
          BY <2>1, <4>2
        <5> QED
          BY <2>2, <2>4, <5>1, OutcomeForms
      <4> QED
        BY <4>1, <4>2
    <3> QED
      BY <3>1, <3>2, <3>3 DEF AnswersAreTrue, TellsTruth
  <2>11. SinceReadIsTrue' /\ RecordFollows'
    BY <2>1 DEF SinceReadIsTrue, RecordFollows, NoLimits
  <2> QED
    BY <2>6, <2>7, <2>8, <2>9, <2>10, <2>11
<1> QED
  BY <1>1, <1>2

\* The read ends, and the record takes its answers.
LEMMA RecordReadKeeps ==
  ASSUME AccountInv, RecordRead
  PROVE  AccountInv'
<1> DEFINE account == answers["account/read"]
           limits == answers["account/rateLimits/read"]
<1>1. /\ UNCHANGED <<signedIn, figure, wire, taken, pending, nextId, outstanding, closed>>
      /\ running = "out" /\ again' = FALSE /\ sinceRead' = NoLimits /\ answers' = NoRead
      /\ running' = IF again /\ ~closed THEN "asked" ELSE "idle"
      /\ record' = IF closed THEN record ELSE Merged
  BY DEF RecordRead, SetRecord, server
<1>2. /\ account \in Outcomes /\ limits \in Outcomes
      /\ account.is \in {"answer", "error"} /\ limits.is \in {"answer", "error"}
      /\ account.is = "answer" => account.of \in Holders
      /\ limits.is = "answer" => limits.of \in Holders /\ limits.seen \in Nat
  <2>1. account \in Outcomes /\ limits \in Outcomes
    BY DEF AccountInv, AccountShapes, Methods
  <2>2. account.is # "waiting" /\ limits.is # "waiting"
    BY DEF RecordRead, Methods
  <2> QED
    BY <2>1, <2>2, OutcomeForms
<1>3. TellsTruth("account/read", account) \/ closed
  BY <1>1 DEF AccountInv, AnswersAreTrue, Methods
<1>4. TellsTruth("account/rateLimits/read", limits) \/ closed
  BY <1>1 DEF AccountInv, AnswersAreTrue, Methods
<1> DEFINE turned == account.is = "answer" /\ record.confirmed /\ account.of # record.account
           updates == IF turned THEN NoLimits ELSE sinceRead
           told == [of |-> {limits.of}, seen |-> limits.seen]
           merged == IF account.is = "answer" /\ limits.is = "answer" THEN MergeSparse(told, updates)
                     ELSE IF turned THEN NoLimits ELSE record.limits
<1>5. Merged = [account |-> IF account.is = "answer" THEN account.of ELSE record.account,
                confirmed |-> account.is = "answer" \/ record.confirmed,
                limits |-> merged, error |-> account.is # "answer" \/ limits.is = "error",
                turned |-> turned]
  BY DEF Merged
<1>6. PICK b \in BOOLEAN : b = turned
  OBVIOUS
<1>7. record.account \in Holders /\ record.limits \in Limits /\ sinceRead \in Limits
      /\ record.confirmed \in BOOLEAN /\ NoLimits \in Limits
  BY DEF AccountInv, AccountShapes, NoLimits, Limits
<1>8. merged \in Limits
  <2>1. limits.is = "answer" => told \in Limits
    BY <1>2 DEF Limits
  <2>2. updates \in Limits
    BY <1>7
  <2>3. ASSUME NEW l \in Limits, NEW u \in Limits
        PROVE  MergeSparse(l, u) \in Limits
    BY DEF MergeSparse, Limits
  <2> HIDE DEF told, updates
  <2> QED
    BY <1>7, <2>1, <2>2, <2>3
<1>9. account.is = "answer" /\ limits.is = "answer" =>
        /\ merged.of = {limits.of} \cup updates.of
        /\ updates = NoLimits => merged.seen = limits.seen
        /\ updates # NoLimits => merged.seen = updates.seen
  <2>1. told.of = {limits.of} /\ told.seen = limits.seen /\ NoLimits.of = {}
    BY DEF NoLimits
  <2> HIDE DEF told, updates
  <2> QED
    BY <2>1 DEF MergeSparse
<1> HIDE DEF merged, updates, turned, told
<1>10. Merged \in [account : Holders, confirmed : BOOLEAN, limits : Limits, error : BOOLEAN,
                   turned : BOOLEAN]
  <2>1. PICK c \in BOOLEAN : c = (account.is = "answer" \/ record.confirmed)
    BY <1>7
  <2>2. PICK x \in BOOLEAN : x = (account.is # "answer" \/ limits.is = "error")
    OBVIOUS
  <2>3. Merged = [account |-> IF account.is = "answer" THEN account.of ELSE record.account,
                  confirmed |-> c, limits |-> merged, error |-> x, turned |-> b]
    BY <1>5, <1>6, <2>1, <2>2
  <2> QED
    BY <1>2, <1>7, <1>8, <2>3
<1>11. /\ NoRead \in [Methods -> Outcomes] /\ \A m \in Methods : NoRead[m] = Error
       /\ Error.is # "waiting" /\ \A i \in Nat : Error # Waiting(i)
  BY OutcomeForms DEF NoRead
<1>12. AccountShapes'
  BY <1>1, <1>7, <1>10, <1>11 DEF AccountInv, AccountShapes
<1>13. RepliesAreAnswers' /\ UsesInOrder'
  BY <1>1 DEF AccountInv, RepliesAreAnswers, UsesInOrder
<1>14. OneOfEach'
  BY <1>1, <1>11 DEF AccountInv, AccountShapes, OneOfEach
<1>15. AnswersAreTrue' /\ SinceReadIsTrue'
  BY <1>1 DEF AnswersAreTrue, SinceReadIsTrue
<1>16. RecordFollows'
  <2> SUFFICES ASSUME ~closed, ~again, ~Merged.error
               PROVE  /\ \/ Merged.account = signedIn /\ Merged.limits.of \subseteq {signedIn}
                         \/ SwitchOnWire
                      /\ NoUseOnWire => Merged.turned \/ Merged.limits.seen = figure
    BY <1>1 DEF RecordFollows, SwitchOnWire, NoUseOnWire
  <2>1. account.is = "answer" /\ limits.is = "answer"
    BY <1>2, <1>5
  <2>2. Merged.account = account.of /\ Merged.limits = merged /\ Merged.turned = turned
    BY <1>5, <2>1
  <2>3. account.of = signedIn \/ SwitchOnWire
    BY <1>3, <2>1 DEF TellsTruth, ToldOfSwitch
  <2>4. limits.of = signedIn \/ SwitchOnWire
    BY <1>4, <2>1 DEF TellsTruth, ToldOfSwitch
  <2>5. updates.of \subseteq {signedIn} \/ SwitchOnWire
    BY <1>1 DEF updates, NoLimits, AccountInv, SinceReadIsTrue, ToldOfSwitch
  <2>6. ASSUME NoUseOnWire, ~turned
        PROVE  merged.seen = figure
    <3>1. updates = sinceRead
      BY <2>6 DEF updates
    <3>2. sinceRead = NoLimits => limits.seen = figure
      BY <1>4, <2>1, <2>6 DEF TellsTruth
    <3>3. sinceRead # NoLimits => sinceRead.seen = figure
      BY <1>1, <2>6 DEF AccountInv, SinceReadIsTrue
    <3> QED
      BY <1>9, <2>1, <3>1, <3>2, <3>3
  <2> QED
    BY <1>9, <2>1, <2>2, <2>3, <2>4, <2>5, <2>6
<1> QED
  BY <1>12, <1>13, <1>14, <1>15, <1>16 DEF AccountInv

-----------------------------------------------------------------------------
(* The invariant of the specification, and what follows from it.           *)

\* Each step keeps the invariant.
LEMMA AccountStep ==
  AccountInv /\ [Next]_vars => AccountInv'
<1> SUFFICES ASSUME AccountInv, [Next]_vars
             PROVE  AccountInv'
  OBVIOUS
<1>1. CASE UNCHANGED vars
  <2>1. /\ UNCHANGED <<signedIn, figure, wire, request, reader, record>>
        /\ taken' = taken /\ closed' = closed
    BY <1>1 DEF vars, server, request, reader
  <2>2. closed' \in BOOLEAN
    BY <2>1 DEF AccountInv, AccountShapes
  <2> QED
    BY <2>1, <2>2, StillKeeps
<1>2. CASE Dies \/ Close \/ Writer
  <2>1. /\ UNCHANGED <<signedIn, figure, wire, request, reader, record>>
        /\ taken' \subseteq taken /\ closed' \in {closed, TRUE}
    BY <1>2 DEF Dies, Close, Writer, WriteStarts, WriteEnds, server
  <2>2. closed \in BOOLEAN
    BY DEF AccountInv, AccountShapes
  <2>3. CASE closed' = closed
    BY <2>1, <2>2, <2>3, StillKeeps
  <2>4. CASE closed' = TRUE
    BY <2>1, <2>2, <2>4, StillKeeps
  <2> QED
    BY <2>1, <2>3, <2>4
<1>3. CASE TurnEnds
  <2>1. /\ ~closed /\ Request /\ UNCHANGED wire
        /\ UNCHANGED <<signedIn, figure, pending, nextId, outstanding, answers, taken, closed, record>>
    BY <1>3 DEF TurnEnds, server, request
  <2> QED
    BY <2>1, AskedAgain
<1>4. CASE Deliver
  <2>1. Head(wire).is \in {"account.updated", "account.rate_limits", "response"}
    <3>1. Head(wire) \in Events
      BY <1>4 DEF Deliver, AccountInv, AccountShapes
    <3> QED
      BY <3>1, EventForms
  <2>2. CASE Head(wire).is = "account.updated" /\ ~closed
    <3>1. /\ Request /\ wire # <<>> /\ wire' = Tail(wire)
          /\ UNCHANGED <<signedIn, figure, pending, nextId, outstanding, answers, taken, closed, record>>
      BY <1>4, <2>2 DEF Deliver, Accept, server, request
    <3> QED
      BY <2>2, <3>1, AskedAgain
  <2> QED
    BY <1>4, <2>1, <2>2, ReplyKeeps, FiguresKeep, UnheardKeeps
<1>5. ASSUME NEW r \in taken, Look(r) \/ Answers(r) \/ Refuses(r)
      PROVE  AccountInv'
  BY <1>5, LookKeeps, AnswersKeeps
<1> QED
  BY <1>1, <1>2, <1>3, <1>4, <1>5, NoticeKeeps, ErrorsKeep, StartReadKeeps, RecordReadKeeps, Zenon
     DEF Next, Server, Recorder

\* Nothing is asked, written or recorded.
LEMMA AccountStart ==
  Init => AccountInv
<1> SUFFICES ASSUME Init
             PROVE  AccountInv
  OBVIOUS
<1>1. signedIn \in Holders
  BY AccountsAssumption DEF Init, Holders
<1>2. <<>> \in Seq(Events) /\ DOMAIN <<>> = {}
  OBVIOUS
<1>3. NoRead \in [Methods -> Outcomes] /\ \A m \in Methods : NoRead[m] = Error
  BY OutcomeForms DEF NoRead
<1>4. NoLimits \in Limits /\ SignedOut \in Holders
  BY DEF NoLimits, Limits, Holders
<1>5. AccountShapes
  BY <1>1, <1>2, <1>3, <1>4 DEF Init, AccountShapes, Requests
<1>6. OneOfEach
  BY <1>3, OutcomeForms DEF Init, OneOfEach
<1> QED
  BY <1>2, <1>5, <1>6 DEF Init, AccountInv, RepliesAreAnswers, UsesInOrder, AnswersAreTrue,
     SinceReadIsTrue, RecordFollows

\* The requests pending and the methods outstanding are one to one.
LEMMA OneEach ==
  AccountInv => OneRequestOfEach
<1> SUFFICES ASSUME AccountInv
             PROVE  Cardinality(pending) = Cardinality(outstanding)
  BY DEF AccountInv, OneOfEach, OneRequestOfEach
<1> DEFINE methodOf == [p \in pending |-> p.method]
<1>1. outstanding = {p.method : p \in pending} /\ outstanding \subseteq Methods
  BY DEF AccountInv, OneOfEach, AccountShapes, Requests
<1>2. methodOf \in Injection(pending, outstanding) /\ methodOf \in Surjection(pending, outstanding)
  BY <1>1 DEF AccountInv, OneOfEach, Injection, IsInjective, Surjection
<1>3. IsFiniteSet(outstanding)
  <2>1. IsFiniteSet({"account/read"} \cup {"account/rateLimits/read"})
    BY FS_Singleton, FS_AddElement
  <2>2. Methods = {"account/read"} \cup {"account/rateLimits/read"}
    BY DEF Methods
  <2> QED
    BY <1>1, <2>1, <2>2, FS_Subset
<1> HIDE DEF methodOf
<1> QED
  BY <1>2, <1>3, FS_Injection

\* The inductive invariant of the recorder, the session and the connection.
THEOREM AccountInvariant == Spec => []AccountInv
BY AccountStart, AccountStep, PTL DEF Spec

\* For any accounts and any order of logins, uses, late or missing answers, folded reads and
\* faults: the record at rest is true, and each kind of request is out once.
THEOREM RecordStands == Spec => []RecordIsTrue
<1>1. AccountInv => QuietRecordIsTrue
  <2> SUFFICES ASSUME AccountInv, wire = <<>>
               PROVE  ~SwitchOnWire /\ NoUseOnWire
    BY DEF QuietRecordIsTrue, Quiet, AccountInv, RecordFollows
  <2>1. DOMAIN <<>> = {}
    OBVIOUS
  <2> QED
    BY <2>1 DEF SwitchOnWire, NoUseOnWire
<1>2. AccountInv => RecordIsTrue
  BY <1>1, OneEach DEF RecordIsTrue
<1> QED
  BY <1>2, AccountInvariant, PTL
=============================================================================

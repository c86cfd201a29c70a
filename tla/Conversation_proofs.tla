------------------------- MODULE Conversation_proofs -------------------------
(***************************************************************************)
(* A conversation, for any posts, mails, files, threads, calls and faults.   *)
(* What was taught in it is listed once and kept; the browser's page of it   *)
(* is true; its mail is kept, and left unread; a release leaves no process   *)
(* and no prepared file behind; the loop knows the threads of its harness;   *)
(* and the typing signal ends.                                               *)
(***************************************************************************)
EXTENDS MCConversation, TLAPS, SequenceTheorems, FiniteSetTheorems, WellFoundedInduction

(* What was taught: the invariant.                                         *)

Teaching == [kind : {"instruction", "change-request"}, status : {"active", "open", "forgotten"},
             text : Texts, release : Managed \cup {None}]

TeachShapes ==
  /\ DOMAIN files \subseteq Ids /\ IsFiniteSet(DOMAIN files)
  /\ files \in [DOMAIN files -> Teaching]
  /\ torn \subseteq DOMAIN files
  /\ second \in 0 .. MaxSecond /\ made \in 0 .. MaxCalls
  /\ current \in Managed \cup {None} /\ asking \in {"answer", "teach"}
  /\ reply \in [Managed -> {"absent", "held", "let go", "parked"}]
  /\ call # NoCall => /\ call.source \in Sources /\ call.text \in Texts \cup {None}
                      /\ call.op \in {"remember", "raise_change"} => call.text \in Texts

\* There is a name left for what the call on its way may write.
NamesLeft == Cardinality(DOMAIN files) <= made /\ (call # NoCall => Cardinality(DOMAIN files) < made)

\* A record names the release whose turn wrote it, or is known to have strayed.
NamesItsTurn ==
  /\ DOMAIN wrote = DOMAIN files
  /\ \A i \in DOMAIN files : files[i].release = wrote[i] \/ i \in strayed

TeachInv == TeachShapes /\ NamesLeft /\ StandsOnce /\ NamesItsTurn /\ SpokenIsTaught

TeachConstants == MaxSecond \in Nat /\ MaxCalls \in Nat /\ MaxActive \in Nat /\ None \notin Managed

\* A set of numbers that is not empty has a least one.
LEMMA LeastOf ==
  ASSUME NEW S \in SUBSET Nat, S # {}
  PROVE  \E x \in S : \A y \in S : x <= y
<1>1. PICK x \in S : \A y \in S : ~(<<y, x>> \in OpToRel(<, Nat))
  BY NatLessThanWellFounded, WFMin
<1>2. ASSUME NEW y \in S
      PROVE  x <= y
  <2>1. x \in Nat /\ y \in Nat
    OBVIOUS
  <2>2. ~(<<y, x>> \in {p \in Nat \X Nat : p[1] < p[2]})
    BY <1>1 DEF OpToRel
  <2> QED
    BY <2>1, <2>2
<1> QED
  BY <1>2

\* The numbers of the store.
LEMMA Counted ==
  ASSUME TeachConstants, TeachShapes
  PROVE  /\ second \in Nat /\ MaxSecond \in Nat /\ second <= MaxSecond
         /\ made \in Nat /\ MaxCalls \in Nat /\ made <= MaxCalls
         /\ IsFiniteSet(DOMAIN files) /\ Cardinality(DOMAIN files) \in Nat
<1>1. IsFiniteSet(DOMAIN files) /\ second \in 0 .. MaxSecond /\ made \in 0 .. MaxCalls
  BY DEF TeachShapes
<1>2. MaxSecond \in Nat /\ MaxCalls \in Nat
  BY DEF TeachConstants
<1> QED
  BY <1>1, <1>2, FS_CardinalityType

\* Forgetting a record changes its standing and nothing else.
LEMMA Forgetting ==
  ASSUME NEW t \in Teaching
  PROVE  LET f == [t EXCEPT !.status = "forgotten"] IN
           /\ f \in Teaching /\ f.text = t.text /\ f.release = t.release /\ f.kind = t.kind
           /\ f.status = "forgotten" /\ [f EXCEPT !.status = "any"] = [t EXCEPT !.status = "any"]
BY DEF Teaching

\* The next free second is found, and no file has that name.
LEMMA FreeIdIsFree ==
  ASSUME TeachConstants, TeachShapes, NamesLeft, call # NoCall, NEW s \in Managed
  PROVE  /\ FreeId(s) \in Ids \ DOMAIN files
         /\ FreeId(s)[1] = s
<1> DEFINE R == second .. MaxSecond + MaxCalls
           free == {n \in R : <<s, n>> \notin DOMAIN files}
<1>1. R \subseteq Nat /\ IsFiniteSet(R) /\ Cardinality(R) > MaxCalls /\ Cardinality(R) \in Nat
  <2>1. PICK b \in Int : b = MaxSecond + MaxCalls
    BY Counted
  <2>2. second \in Nat /\ second <= b /\ b - second + 1 > MaxCalls /\ MaxCalls \in Nat
    BY <2>1, Counted
  <2>3. IsFiniteSet(second .. b) /\ Cardinality(second .. b) = b - second + 1
    BY <2>2, FS_Interval
  <2> QED
    BY <2>1, <2>2, <2>3
<1>2. free # {}
  <2> SUFFICES ASSUME \A n \in R : <<s, n>> \in DOMAIN files
               PROVE  FALSE
    OBVIOUS
  <2> DEFINE name == [n \in R |-> <<s, n>>]
  <2>1. name \in Injection(R, DOMAIN files)
    BY DEF Injection, IsInjective
  <2>2. IsFiniteSet(DOMAIN files) /\ Cardinality(DOMAIN files) < made /\ made <= MaxCalls
        /\ Cardinality(DOMAIN files) \in Nat /\ made \in Nat
    BY Counted DEF NamesLeft
  <2> HIDE DEF R, name
  <2>3. Cardinality(R) <= Cardinality(DOMAIN files)
    BY <2>1, <2>2, FS_Injection
  <2> QED
    BY <1>1, <2>2, <2>3, Counted
<1>3. PICK x \in free : \A y \in free : x <= y
  BY <1>1, <1>2, LeastOf
<1>4. \A k \in second .. x - 1 : k \in R /\ ~(x <= k)
  BY <1>1, Counted
<1>5. \E n \in R : <<s, n>> \notin DOMAIN files
      /\ \A k \in second .. n - 1 : <<s, k>> \in DOMAIN files
  BY <1>3, <1>4
<1>6. PICK n \in R : FreeId(s) = <<s, n>> /\ <<s, n>> \notin DOMAIN files
  BY <1>5 DEF FreeId
<1> QED
  <2>1. n \in 0 .. MaxSecond + MaxCalls
    BY <1>1, Counted
  <2> QED
    BY <1>6, <2>1 DEF Ids

\* The readable records of one kind and standing.
LEMMA OfMeans ==
  ASSUME NEW i
  PROVE  i \in Active <=> i \in DOMAIN files /\ i \notin torn
                          /\ files[i].kind = "instruction" /\ files[i].status = "active"
BY DEF Active, Of, Readable

\* There are as many records in front of the model as a number can say.
LEMMA ActiveIsFinite ==
  ASSUME TeachShapes
  PROVE  IsFiniteSet(Active) /\ Cardinality(Active) \in Nat
<1>1. Active \subseteq DOMAIN files
  BY OfMeans
<1> QED
  BY <1>1, FS_Subset, FS_CardinalityType DEF TeachShapes

\* A list with fewer records says nothing twice that the longer one does not.
LEMMA FewerStand ==
  ASSUME TeachShapes, StandsOnce, MaxActive \in Nat, mended' = mended, Active' \subseteq Active,
         \A i \in Active' : files'[i].text = files[i].text
  PROVE  StandsOnce'
<1>1. Cardinality(Active') <= Cardinality(Active) /\ Cardinality(Active') \in Nat
      /\ Cardinality(Active) \in Nat
  BY ActiveIsFinite, FS_Subset, FS_CardinalityType
<1> QED
  BY <1>1 DEF StandsOnce

\* A turn begins with nothing recorded.
LEMMA BeginKeeps ==
  ASSUME TeachInv, TeachConstants, NEW r \in Managed, Begin(r)
  PROVE  TeachInv'
<1> USE DEF TeachInv
<1>1. UNCHANGED <<files, torn, wrote, strayed, mended>>
  BY DEF Begin
<1>2. Active' = Active
  BY <1>1 DEF Active, Of, Readable
<1>3. TeachShapes'
  BY <1>1, <1>2 DEF Begin, TeachShapes
<1>4. NamesLeft'
  BY <1>1, <1>2 DEF Begin, NamesLeft
<1>5. StandsOnce'
  BY <1>1, <1>2, FewerStand DEF TeachConstants
<1>6. NamesItsTurn'
  BY <1>1, <1>2 DEF Begin, NamesItsTurn
<1>7. SpokenIsTaught'
  BY <1>1, <1>2 DEF Begin, SpokenIsTaught
<1> QED
  BY <1>3, <1>4, <1>5, <1>6, <1>7 DEF TeachInv

\* A call made has a name left for what it may write.
LEMMA ModelCallsKeeps ==
  ASSUME TeachInv, TeachConstants, ModelCalls
  PROVE  TeachInv'
<1> USE DEF TeachInv
<1>1. UNCHANGED <<files, torn, wrote, strayed, mended>>
  BY DEF ModelCalls, turnVars
<1>2. Active' = Active
  BY <1>1 DEF Active, Of, Readable
<1>3. TeachShapes'
  <2>1. call' \in Calls(current) /\ made' = made + 1 /\ made < MaxCalls
    BY DEF ModelCalls
  <2>2. made' \in 0 .. MaxCalls
    BY <2>1, Counted
  <2>3. UNCHANGED <<second, current, asking, reply>>
    BY DEF ModelCalls, turnVars
  <2>4. call'.source \in Sources /\ call'.text \in Texts \cup {None}
        /\ (call'.op \in {"remember", "raise_change"} => call'.text \in Texts)
    BY <2>1 DEF Calls
  <2> QED
    BY <1>1, <2>2, <2>3, <2>4 DEF TeachShapes
<1>4. NamesLeft'
  <2>1. made' = made + 1 /\ call = NoCall
    BY DEF ModelCalls
  <2> QED
    BY <1>1, <2>1, Counted DEF NamesLeft
<1>5. StandsOnce'
  BY <1>1, <1>2, FewerStand DEF TeachConstants
<1>6. NamesItsTurn'
  BY <1>1, <1>2 DEF ModelCalls, Calls, NoCall, turnVars, NamesItsTurn
<1>7. SpokenIsTaught'
  BY <1>1, <1>2 DEF ModelCalls, Calls, NoCall, turnVars, SpokenIsTaught
<1> QED
  BY <1>3, <1>4, <1>5, <1>6, <1>7 DEF TeachInv

\* The call writes at most one record, in the name of the release the server knows.
LEMMA LandKeeps ==
  ASSUME TeachConstants, TeachInv, Land
  PROVE  TeachInv'
<1> USE DEF TeachInv
<1>1. /\ call # NoCall /\ call' = NoCall
      /\ UNCHANGED <<torn, second, current, asking, reply, closed, left, plain, made, mended>>
  BY DEF Land, turnVars
<1>2. Cardinality(DOMAIN files) \in Nat /\ made \in Nat /\ Cardinality(DOMAIN files) < made
  BY <1>1, Counted DEF NamesLeft
<1>3. CASE Nothing
  <2>1. UNCHANGED <<files, wrote, strayed>>
    BY <1>3 DEF Nothing
  <2>2. Active' = Active
    BY <1>1, <2>1 DEF Active, Of, Readable
  <2>3. TeachShapes' /\ NamesLeft'
    BY <1>1, <1>2, <2>1 DEF TeachShapes, NamesLeft
  <2>4. StandsOnce'
    BY <1>1, <2>1, <2>2 DEF StandsOnce
  <2> QED
    BY <1>1, <2>1, <2>3, <2>4 DEF NamesItsTurn, SpokenIsTaught
<1>4. ASSUME NEW kind \in {"instruction", "change-request"}, NEW standing \in {"active", "open"},
             call.source \in Managed, call.text \in Texts, Record(kind, standing),
             kind = "instruction" => /\ standing = "active" /\ Cardinality(Active) < MaxActive
                                     /\ Same(Active, call.source, call.text) = {}
      PROVE  TeachInv'
  <2> DEFINE n == FreeId(call.source)
             new == [kind |-> kind, status |-> standing, text |-> call.text, release |-> current]
  <2>1. n \in Ids \ DOMAIN files /\ n[1] = call.source
    BY <1>1, <1>4, FreeIdIsFree
  <2>2. /\ files' = [j \in DOMAIN files \cup {n} |-> IF j = n THEN new ELSE files[j]]
        /\ wrote' = [j \in DOMAIN wrote \cup {n} |-> IF j = n THEN call.from ELSE wrote[j]]
        /\ strayed' = IF current = call.from THEN strayed ELSE strayed \cup {n}
    BY <1>4 DEF Record, With
  <2> HIDE DEF n
  <2>3. /\ DOMAIN files' = DOMAIN files \cup {n} /\ files'[n] = new
        /\ \A j \in DOMAIN files : files'[j] = files[j]
    BY <2>1, <2>2
  <2>4. new \in Teaching
    BY <1>4 DEF Teaching, TeachShapes
  <2>5. IsFiniteSet(DOMAIN files') /\ Cardinality(DOMAIN files') = Cardinality(DOMAIN files) + 1
    BY <2>1, <2>3, FS_AddElement, Counted
  <2>6. TeachShapes'
    <3>1. files' \in [DOMAIN files' -> Teaching] /\ torn' \subseteq DOMAIN files'
          /\ DOMAIN files' \subseteq Ids
      BY <1>1, <2>1, <2>2, <2>3, <2>4 DEF TeachShapes
    <3> QED
      BY <1>1, <2>5, <3>1 DEF TeachShapes
  <2>7. NamesLeft'
    BY <1>1, <1>2, <2>5 DEF NamesLeft
  <2>8. StandsOnce'
    <3>1. n \notin torn /\ \A j \in DOMAIN files : j # n
      BY <2>1 DEF TeachShapes
    <3>2. Active' = IF kind = "instruction" THEN Active \cup {n} ELSE Active
      <4>1. \A j : j \in Active' <=> j \in DOMAIN files' /\ j \notin torn'
                                  /\ files'[j].kind = "instruction" /\ files'[j].status = "active"
        BY DEF Active, Of, Readable
      <4>2. new.kind = kind /\ new.status = standing
        OBVIOUS
      <4> HIDE DEF new
      <4>3. \A j : j \in Active' <=> j \in Active \/ (j = n /\ kind = "instruction")
        BY <1>1, <1>4, <2>1, <2>3, <3>1, <4>1, <4>2, OfMeans
      <4> QED
        BY <4>3
    <3>3. CASE kind # "instruction"
      <4>1. Active' = Active /\ \A j \in Active' : files'[j].text = files[j].text
        BY <2>3, <3>2, <3>3, OfMeans
      <4> QED
        BY <1>1, <4>1, FewerStand DEF TeachConstants
    <3>4. CASE kind = "instruction"
      <4>1. Active' = Active \cup {n} /\ n \notin Active
        BY <2>1, <3>2, <3>4, OfMeans
      <4>2. Cardinality(Active') = Cardinality(Active) + 1 /\ Cardinality(Active) \in Nat
        BY <4>1, ActiveIsFinite, FS_AddElement
      <4>3. \A j \in Active : ~(j[1] = n[1] /\ files[j].text = new.text)
        BY <1>4, <2>1, <3>4 DEF Same
      <4>4. \A j \in Active : files'[j] = files[j]
        BY <2>3, OfMeans
      <4> HIDE DEF new
      <4>5. (\A i, j \in Active : i[1] = j[1] /\ files[i].text = files[j].text => i = j) =>
              \A i, j \in Active' : i[1] = j[1] /\ files'[i].text = files'[j].text => i = j
        BY <2>3, <4>1, <4>3, <4>4
      <4>6. Cardinality(Active') <= MaxActive
        BY <1>4, <3>4, <4>2 DEF TeachConstants
      <4> QED
        BY <1>1, <4>5, <4>6 DEF StandsOnce
    <3> QED
      BY <3>3, <3>4
  <2>9. NamesItsTurn'
    BY <2>1, <2>2, <2>3 DEF NamesItsTurn
  <2>10. SpokenIsTaught'
    <3>1. \A j \in DOMAIN files : wrote'[j] = wrote[j] /\ (j \in strayed => j \in strayed')
      BY <2>1, <2>2 DEF NamesItsTurn
    <3> SUFFICES ASSUME NEW r \in Managed, reply'[r] = "let go"
                 PROVE  \/ r \in plain'
                        \/ \E i \in DOMAIN files' :
                             wrote'[i] = r \/ (i \in strayed' /\ files'[i].release = r)
      BY DEF SpokenIsTaught
    <3>2. reply[r] = "let go" /\ plain' = plain
      BY <1>1
    <3>3. CASE r \in plain
      BY <3>2, <3>3
    <3>4. CASE r \notin plain
      <4>1. PICK i \in DOMAIN files : wrote[i] = r \/ (i \in strayed /\ files[i].release = r)
        BY <3>2, <3>4 DEF SpokenIsTaught
      <4>2. i \in DOMAIN files' /\ files'[i] = files[i]
        BY <2>3
      <4> QED
        BY <3>1, <4>1, <4>2
    <3> QED
      BY <3>3, <3>4
  <2> QED
    BY <2>6, <2>7, <2>8, <2>9, <2>10
<1>5. CASE Remember
  <2>1. \/ Nothing
        \/ /\ Cited /\ Record("instruction", "active") /\ Same(Active, call.source, call.text) = {}
           /\ ~(Cardinality(Active) >= MaxActive)
    BY <1>5 DEF Remember
  <2>2. call.text \in Texts
    BY <1>1, <1>5 DEF Remember, TeachShapes
  <2> QED
    BY <1>3, <1>4, <2>1, <2>2, ActiveIsFinite DEF Cited, TeachConstants
<1>6. CASE RaiseChange
  <2>1. Nothing \/ (Cited /\ Record("change-request", "open"))
    BY <1>6 DEF RaiseChange
  <2>2. call.text \in Texts
    BY <1>1, <1>6 DEF RaiseChange, TeachShapes
  <2> QED
    BY <1>3, <1>4, <2>1, <2>2 DEF Cited
<1>7. CASE Forget /\ ~Nothing
  <2>1. /\ call.id \in DOMAIN files /\ UNCHANGED <<wrote, strayed>>
        /\ files' = [files EXCEPT ![call.id].status = "forgotten"]
    BY <1>7, OfMeans DEF Forget
  <2>2. /\ DOMAIN files' = DOMAIN files
        /\ \A j \in DOMAIN files : files'[j].text = files[j].text
           /\ files'[j].release = files[j].release
             /\ files'[j] \in Teaching
             /\ (j \in Active' => j \in Active)
    <3>1. \A j \in DOMAIN files : files[j] \in Teaching
      BY DEF TeachShapes
    <3>2. \A j \in DOMAIN files : files'[j] = IF j = call.id
          THEN [files[j] EXCEPT !.status = "forgotten"]
                                              ELSE files[j]
      BY <2>1
    <3>3. DOMAIN files' = DOMAIN files
      BY <2>1
    <3>4. \A j \in DOMAIN files : files'[j].text = files[j].text
          /\ files'[j].release = files[j].release
            /\ files'[j].kind = files[j].kind /\ files'[j].status \in {files[j].status, "forgotten"}
            /\ files'[j] \in Teaching
      <4> SUFFICES ASSUME NEW j \in DOMAIN files
                   PROVE  files'[j].text = files[j].text /\ files'[j].release = files[j].release
                          /\ files'[j].kind = files[j].kind /\ files'[j] \in Teaching
                          /\ files'[j].status \in {files[j].status, "forgotten"}
        OBVIOUS
      <4>1. CASE j = call.id
        <5>1. files'[j] = [files[j] EXCEPT !.status = "forgotten"]
          BY <3>2, <4>1
        <5>2. files[j] \in Teaching
          BY <3>1
        <5> QED
          BY <5>1, <5>2, Forgetting
      <4>2. CASE j # call.id
        BY <3>1, <3>2, <4>2
      <4> QED
        BY <4>1, <4>2
    <3> QED
      BY <1>1, <3>3, <3>4 DEF Active, Of, Readable
  <2>3. Active' \subseteq Active
    BY <2>2 DEF Active, Of, Readable
  <2>4. TeachShapes' /\ NamesLeft'
    <3>1. files' \in [DOMAIN files' -> Teaching]
      BY <2>1, <2>2
    <3> QED
      BY <1>1, <1>2, <2>2, <3>1 DEF TeachShapes, NamesLeft
  <2>5. StandsOnce'
    <3>1. \A j \in Active' : files'[j].text = files[j].text
      BY <2>2, <2>3, OfMeans
    <3> QED
      BY <1>1, <2>3, <3>1, FewerStand DEF TeachConstants
  <2> QED
    <3>1. NamesItsTurn'
      BY <2>1, <2>2 DEF NamesItsTurn
    <3>2. SpokenIsTaught'
      <4>1. UNCHANGED <<reply, plain, wrote, strayed, DOMAIN files>>
            /\ \A j \in DOMAIN files : files'[j].release = files[j].release
        BY <1>1, <2>1, <2>2
      <4> QED
        BY <4>1 DEF SpokenIsTaught
    <3> QED
      BY <2>4, <2>5, <3>1, <3>2
<1> QED
  BY <1>3, <1>5, <1>6, <1>7 DEF Land

\* A reply is written held.
LEMMA ModelRepliesKeeps ==
  ASSUME TeachInv, TeachConstants, ModelReplies
  PROVE  TeachInv'
<1> USE DEF TeachInv
<1>1. UNCHANGED <<files, torn, wrote, strayed, mended>>
  BY DEF ModelReplies
<1>2. Active' = Active
  BY <1>1 DEF Active, Of, Readable
<1>3. TeachShapes'
  BY <1>1, <1>2 DEF ModelReplies, TeachShapes
<1>4. NamesLeft'
  BY <1>1, <1>2 DEF ModelReplies, NamesLeft
<1>5. StandsOnce'
  BY <1>1, <1>2, FewerStand DEF TeachConstants
<1>6. NamesItsTurn'
  BY <1>1, <1>2 DEF ModelReplies, NamesItsTurn
<1>7. SpokenIsTaught'
  BY <1>1, <1>2 DEF ModelReplies, SpokenIsTaught, TeachShapes
<1> QED
  BY <1>3, <1>4, <1>5, <1>6, <1>7 DEF TeachInv

\* A held reply is let go on a record of its own turn.
LEMMA TeachCheckKeeps ==
  ASSUME TeachInv, TeachConstants, TeachCheck
  PROVE  TeachInv'
<1> USE DEF TeachInv
<1>1. UNCHANGED <<files, torn, wrote, strayed, mended>>
  BY DEF TeachCheck, Over, Untold, LetGo
<1>2. Active' = Active
  BY <1>1 DEF Active, Of, Readable
<1>3. TeachShapes'
  BY <1>1, <1>2 DEF TeachCheck, Over, Untold, LetGo, TeachShapes
<1>4. NamesLeft'
  BY <1>1, <1>2 DEF TeachCheck, Over, Untold, LetGo, NamesLeft
<1>5. StandsOnce'
  BY <1>1, <1>2, FewerStand DEF TeachConstants
<1>6. NamesItsTurn'
  BY <1>1, <1>2 DEF TeachCheck, Over, Untold, LetGo, NamesItsTurn
<1>7. SpokenIsTaught'
  <2>1. ASSUME UnderRelease(current) # {}, current # None
        PROVE  \E i \in DOMAIN files : wrote[i] = current
               \/ (i \in strayed /\ files[i].release = current)
    BY <2>1 DEF UnderRelease, Readable, NamesItsTurn
  <2>2. /\ current # None /\ UNCHANGED plain
        /\ reply' = reply \/ (UnderRelease(current) # {}
             /\ reply' = [reply EXCEPT ![current] = "let go"])
    BY DEF TeachCheck, LetGo
  <2> QED
    BY <1>1, <2>1, <2>2 DEF SpokenIsTaught, TeachShapes
<1> QED
  BY <1>3, <1>4, <1>5, <1>6, <1>7 DEF TeachInv

\* A reply is let go on a record, or on the model's own word.
LEMMA AskedKeeps ==
  ASSUME TeachInv, TeachConstants, Asked
  PROVE  TeachInv'
<1> USE DEF TeachInv
<1>1. UNCHANGED <<files, torn, wrote, strayed, mended>>
  BY DEF Asked, Over, Untold, LetGo, Mishap
<1>2. Active' = Active
  BY <1>1 DEF Active, Of, Readable
<1>3. TeachShapes'
  BY <1>1, <1>2 DEF Asked, Over, Untold, LetGo, Mishap, TeachShapes
<1>4. NamesLeft'
  BY <1>1, <1>2 DEF Asked, Over, Untold, LetGo, Mishap, NamesLeft
<1>5. StandsOnce'
  BY <1>1, <1>2, FewerStand DEF TeachConstants
<1>6. NamesItsTurn'
  BY <1>1, <1>2 DEF Asked, Over, Untold, LetGo, Mishap, NamesItsTurn
<1>7. SpokenIsTaught'
  <2>1. ASSUME UnderRelease(current) # {}, current # None
        PROVE  \E i \in DOMAIN files : wrote[i] = current
               \/ (i \in strayed /\ files[i].release = current)
    BY <2>1 DEF UnderRelease, Readable, NamesItsTurn
  <2>2. \/ UnderRelease(current) # {} /\ UNCHANGED plain
           /\ reply' = [reply EXCEPT ![current] = "let go"]
        \/ plain' = plain \cup {current} /\ reply' = [reply EXCEPT ![current] = "let go"]
        \/ UNCHANGED plain /\ reply' = [reply EXCEPT ![current] = "parked"]
    BY DEF Asked, LetGo
  <2>3. current # None
    BY DEF Asked
  <2> QED
    BY <1>1, <2>1, <2>2, <2>3 DEF SpokenIsTaught, TeachShapes
<1> QED
  BY <1>3, <1>4, <1>5, <1>6, <1>7 DEF TeachInv

\* The release waits for the next start.
LEMMA InterruptKeeps ==
  ASSUME TeachInv, TeachConstants, Interrupt
  PROVE  TeachInv'
<1> USE DEF TeachInv
<1>1. UNCHANGED <<files, torn, wrote, strayed, mended>>
  BY DEF Interrupt, Untold, Mishap
<1>2. Active' = Active
  BY <1>1 DEF Active, Of, Readable
<1>3. TeachShapes'
  BY <1>1, <1>2 DEF Interrupt, Untold, Mishap, TeachShapes
<1>4. NamesLeft'
  BY <1>1, <1>2 DEF Interrupt, Untold, Mishap, NamesLeft
<1>5. StandsOnce'
  BY <1>1, <1>2, FewerStand DEF TeachConstants
<1>6. NamesItsTurn'
  BY <1>1, <1>2 DEF Interrupt, Untold, Mishap, NamesItsTurn
<1>7. SpokenIsTaught'
  BY <1>1, <1>2 DEF Interrupt, Untold, Mishap, SpokenIsTaught
<1> QED
  BY <1>3, <1>4, <1>5, <1>6, <1>7 DEF TeachInv

\* The call dies with the process.
LEMMA KillKeeps ==
  ASSUME TeachInv, TeachConstants, Kill
  PROVE  TeachInv'
<1> USE DEF TeachInv
<1>1. UNCHANGED <<files, torn, wrote, strayed, mended>>
  BY DEF Kill, Mishap
<1>2. Active' = Active
  BY <1>1 DEF Active, Of, Readable
<1>3. TeachShapes'
  BY <1>1, <1>2 DEF Kill, NoCall, Mishap, TeachShapes
<1>4. NamesLeft'
  BY <1>1, <1>2 DEF Kill, NoCall, Mishap, NamesLeft
<1>5. StandsOnce'
  BY <1>1, <1>2, FewerStand DEF TeachConstants
<1>6. NamesItsTurn'
  BY <1>1, <1>2 DEF Kill, NoCall, Mishap, NamesItsTurn
<1>7. SpokenIsTaught'
  BY <1>1, <1>2 DEF Kill, NoCall, Mishap, SpokenIsTaught
<1> QED
  BY <1>3, <1>4, <1>5, <1>6, <1>7 DEF TeachInv

\* A second passes.
LEMMA TickKeeps ==
  ASSUME TeachInv, TeachConstants, Tick
  PROVE  TeachInv'
<1> USE DEF TeachInv
<1>1. UNCHANGED <<files, torn, wrote, strayed, mended>>
  BY DEF Tick, turnVars
<1>2. Active' = Active
  BY <1>1 DEF Active, Of, Readable
<1>3. TeachShapes'
  <2>1. second' \in 0 .. MaxSecond
    BY Counted DEF Tick
  <2>2. UNCHANGED <<current, asking, call, made, reply>>
    BY DEF Tick, turnVars
  <2> QED
    BY <1>1, <2>1, <2>2 DEF TeachShapes
<1>4. NamesLeft'
  BY <1>1, <1>2 DEF Tick, turnVars, NamesLeft
<1>5. StandsOnce'
  BY <1>1, <1>2, FewerStand DEF TeachConstants
<1>6. NamesItsTurn'
  BY <1>1, <1>2 DEF Tick, turnVars, NamesItsTurn
<1>7. SpokenIsTaught'
  BY <1>1, <1>2 DEF Tick, turnVars, SpokenIsTaught
<1> QED
  BY <1>3, <1>4, <1>5, <1>6, <1>7 DEF TeachInv

\* A damaged record is not in front of the model.
LEMMA DamageKeeps ==
  ASSUME TeachInv, TeachConstants, NEW i \in DOMAIN files, Damage(i)
  PROVE  TeachInv'
<1> USE DEF TeachInv
<1>1. UNCHANGED <<files, wrote, strayed, mended>> /\ torn' = torn \cup {i} /\ i \in DOMAIN files
  BY DEF Damage, Readable
<1>2. Active' \subseteq Active
  BY <1>1 DEF Active, Of, Readable
<1>3. TeachShapes'
  BY <1>1, <1>2 DEF Damage, turnVars, TeachShapes
<1>4. NamesLeft'
  BY <1>1, <1>2 DEF Damage, turnVars, NamesLeft
<1>5. StandsOnce'
  BY <1>1, <1>2, FewerStand DEF TeachConstants
<1>6. NamesItsTurn'
  BY <1>1, <1>2 DEF Damage, turnVars, NamesItsTurn
<1>7. SpokenIsTaught'
  BY <1>1, <1>2 DEF Damage, turnVars, SpokenIsTaught
<1> QED
  BY <1>3, <1>4, <1>5, <1>6, <1>7 DEF TeachInv

\* A record mended by hand may say again what was taught meanwhile.
LEMMA MendKeeps ==
  ASSUME TeachInv, NEW i \in DOMAIN files, Mend(i)
  PROVE  TeachInv'
<1> USE DEF TeachInv
<1>1. TeachShapes'
  BY DEF Mend, turnVars, TeachShapes
<1>2. NamesLeft'
  BY DEF Mend, turnVars, NamesLeft
<1>3. StandsOnce'
  BY DEF Mend, turnVars, StandsOnce
<1>4. NamesItsTurn'
  BY DEF Mend, turnVars, NamesItsTurn
<1>5. SpokenIsTaught'
  BY DEF Mend, turnVars, SpokenIsTaught
<1> QED
  BY <1>1, <1>2, <1>3, <1>4, <1>5 DEF TeachInv

\* One step of the model, the tools, the turn or the world.
LEMMA TeachStep ==
  TeachConstants /\ TeachInv /\ [Next]_vars => TeachInv'
<1> SUFFICES ASSUME TeachConstants, TeachInv, [Next]_vars
             PROVE  TeachInv'
  OBVIOUS
<1>1. CASE UNCHANGED vars
  <2>1. UNCHANGED <<files, torn, second, current, asking, call, made, reply, wrote, plain, mended,
          strayed>>
    BY <1>1 DEF vars
  <2>2. Active' = Active
    BY <2>1 DEF Active, Of, Readable
  <2>3. TeachShapes'
    BY <2>1 DEF TeachInv, TeachShapes
  <2> QED
    BY <2>1, <2>2, <2>3 DEF TeachInv, NamesLeft, StandsOnce, NamesItsTurn, SpokenIsTaught
<1>2. CASE Next
  BY <1>2, BeginKeeps, ModelCallsKeeps, LandKeeps, ModelRepliesKeeps, TeachCheckKeeps, AskedKeeps,
     InterruptKeeps, KillKeeps, TickKeeps, DamageKeeps, MendKeeps DEF Next
<1> QED
  BY <1>1, <1>2

\* Nothing is recorded.
LEMMA TeachStart ==
  TeachConstants /\ Init => TeachInv
<1> SUFFICES ASSUME TeachConstants, Init
             PROVE  TeachInv
  OBVIOUS
<1>1. DOMAIN files = {} /\ DOMAIN wrote = {} /\ Cardinality({}) = 0 /\ IsFiniteSet({})
  BY FS_EmptySet DEF Init
<1>2. TeachShapes
  <2>1. files \in [DOMAIN files -> Teaching]
    BY <1>1 DEF Init
  <2> QED
    BY <1>1, <2>1 DEF Init, TeachShapes, TeachConstants, None
<1>3. Active = {}
  BY <1>1 DEF Active, Of, Readable
<1> QED
  BY <1>1, <1>2, <1>3 DEF Init, TeachInv, NamesLeft, StandsOnce, NamesItsTurn, SpokenIsTaught,
     TeachConstants

\* No step writes a record over, and what is forgotten stays so.
LEMMA TeachWrites ==
  ASSUME TeachConstants, TeachInv, [Next]_vars
  PROVE  \A i \in DOMAIN files :
           /\ i \in DOMAIN files'
           /\ [files'[i] EXCEPT !.status = "any"] = [files[i] EXCEPT !.status = "any"]
           /\ files[i].status # files'[i].status =>
                files[i].status = "active" /\ files'[i].status = "forgotten"
<1> SUFFICES ASSUME files' # files
             PROVE  \A i \in DOMAIN files :
                      /\ i \in DOMAIN files'
                      /\ [files'[i] EXCEPT !.status = "any"] = [files[i] EXCEPT !.status = "any"]
                      /\ files[i].status # files'[i].status =>
                           files[i].status = "active" /\ files'[i].status = "forgotten"
  OBVIOUS
<1>1. Land
  BY DEF vars, Next, Begin, ModelCalls, ModelReplies, TeachCheck, Asked, Interrupt, Kill, Tick,
     Damage, Mend
<1>2. ASSUME NEW kind, NEW standing, call.source \in Managed, Record(kind, standing)
      PROVE  \A i \in DOMAIN files : i \in DOMAIN files' /\ files'[i] = files[i]
  <2>1. FreeId(call.source) \notin DOMAIN files
    BY <1>1, <1>2, FreeIdIsFree DEF Land, TeachInv
  <2> QED
    BY <1>2, <2>1 DEF Record, With
<1>3. CASE Forget
  <2>1. call.id \in Active /\ files' = [files EXCEPT ![call.id].status = "forgotten"]
    BY <1>3 DEF Forget, Nothing
  <2>2. files[call.id].status = "active" /\ call.id \in DOMAIN files
    BY <2>1, OfMeans
  <2>3. \A i \in DOMAIN files : files[i] \in Teaching
    BY DEF TeachInv, TeachShapes
  <2>4. \A i \in DOMAIN files : files'[i] = IF i = call.id
        THEN [files[i] EXCEPT !.status = "forgotten"]
                                            ELSE files[i]
    BY <2>1
  <2>5. DOMAIN files' = DOMAIN files
    BY <2>1
  <2> QED
    BY <2>2, <2>3, <2>4, <2>5 DEF Teaching
<1>4. CASE Remember \/ RaiseChange
  <2>1. Cited /\ (Record("instruction", "active") \/ Record("change-request", "open"))
    BY <1>4 DEF Remember, RaiseChange, Nothing
  <2> QED
    BY <1>2, <2>1 DEF Cited
<1> QED
  BY <1>1, <1>3, <1>4 DEF Land

-----------------------------------------------------------------------------
(* The page: the invariant.                                                *)

Rows == [seq : Nat, cursor : Nat]
Messages == [by : Actors \cup {Bridge!Nobody}, files : SUBSET Uploads, cap : Nat, state : Nat]
StagedFiles == [by : Actors \cup {Bridge!Nobody}, bound : Posts \cup {Bridge!Nobody}]
Cursor(p) == Bridge!Projected(p).cursor
Listed(p) == Bridge!Captured(p) /\ p \notin unlisted

BridgeShapes ==
  /\ seqNo \in Nat /\ seqNo <= MaxSeq /\ after \in Nat /\ after <= seqNo
  /\ post \in [Posts -> Messages] /\ index \in [Posts -> Nat]
  /\ staged \in [Uploads -> StagedFiles] /\ seenBy \in [Uploads -> SUBSET Actors]
  /\ updates \in [Posts -> Rows] /\ rows \in [Posts -> Rows] /\ page \in [Posts -> Nat]
  /\ room \in BOOLEAN /\ built \in BOOLEAN /\ caughtUp \in BOOLEAN /\ blind \in BOOLEAN
  /\ unlisted \subseteq Posts /\ watch \in {"none", "waiting", "roused"}

\* No ordinal is ahead of the store's, and a message that is not captured has none.
Ordinals ==
  \A p \in Posts :
    /\ post[p].cap <= seqNo /\ post[p].state <= seqNo
    /\ index[p] <= Bridge!Latest(p) /\ rows[p].cursor <= Bridge!Latest(p)
    /\ updates[p].seq <= Bridge!Latest(p) /\ updates[p].cursor <= Bridge!Latest(p)
    /\ Bridge!Captured(p) => post[p].cap > 0
    /\ ~Bridge!Captured(p) => Bridge!Latest(p) = 0 /\ p \notin unlisted /\ post[p].files = {}
    /\ Listed(p) => index[p] = post[p].cap

\* A projection that was built and what was published since make the latest state.
BuiltIsLatest ==
  built => \A p \in Posts :
    Listed(p) => Bridge!Max2(rows[p].cursor, updates[p].cursor) = Bridge!Latest(p)

\* A message in a state the reader was not shown is ahead of its cursor.
ShownOrAhead ==
  \A p \in Posts : Listed(p) => page[p] = Bridge!Latest(p) \/ Bridge!Latest(p) > after

\* A file goes with its sender: who staged it, and whose message carries it.
FilesAreOf ==
  \A f \in Uploads :
    /\ staged[f].bound # Bridge!Nobody => staged[f].bound \in Bridge!Carrier(f)
    /\ staged[f].by = Bridge!Nobody => seenBy[f] = {}
    /\ \A p \in Posts : f \in post[p].files => staged[f].by = post[p].by

BridgeInv ==
  /\ BridgeShapes /\ Ordinals /\ BuiltIsLatest /\ ShownOrAhead /\ Bridge!NothingSkipped
  /\ Bridge!NewsRouses /\ FilesAreOf /\ Bridge!FilesFollowTheirMessage

BridgeConstants ==
  IsFiniteSet(Posts) /\ MaxSeq \in Nat /\ Limit \in Nat /\ Bridge!Nobody \notin Actors
  /\ Bridge!Nobody \notin Posts

\* A set of bounded numbers that is not empty has a greatest one.
LEMMA GreatestOf ==
  ASSUME NEW n \in Nat, NEW S \in SUBSET 0 .. n, S # {}
  PROVE  \E x \in S : \A y \in S : y <= x
<1> DEFINE down == {n - x : x \in S}
<1>1. down \in SUBSET Nat /\ down # {}
  <2>1. \A x \in S : x \in Nat /\ x <= n
    OBVIOUS
  <2>2. \A x \in S : n - x \in Nat
    BY <2>1
  <2> QED
    BY <2>2
<1>2. PICK d \in down : \A e \in down : d <= e
  BY <1>1, LeastOf
<1>3. PICK x \in S : d = n - x
  BY <1>2
<1>4. \A y \in S : n - x <= n - y
  BY <1>2, <1>3
<1>5. x \in Nat /\ \A y \in S : y \in Nat
  OBVIOUS
<1> QED
  BY <1>4, <1>5

\* Where a message stands in the page, of what the store knows of it.
LEMMA CursorOf ==
  ASSUME BridgeShapes, NEW p \in Posts
  PROVE  /\ Bridge!Projected(p) \in Rows
         /\ built => Cursor(p) = Bridge!Max2(rows[p].cursor, updates[p].cursor)
         /\ ~built => Cursor(p) = IF Bridge!Max2(index[p], updates[p].cursor) = 0 THEN 0
                                  ELSE Bridge!Max2(Bridge!Max2(index[p], updates[p].cursor),
                                    post[p].state)
<1> DEFINE row == Bridge!Put(Bridge!FromIndex(p), updates[p])
<1>1. rows[p] \in Rows /\ updates[p] \in Rows /\ index[p] \in Nat /\ post[p].state \in Nat
  BY DEF BridgeShapes, Messages
<1>2. Bridge!FromIndex(p) \in Rows /\ Bridge!FromIndex(p).cursor = IF built THEN rows[p].cursor
      ELSE index[p]
  BY <1>1 DEF Bridge!FromIndex, Rows
<1>3. row \in Rows /\ row.cursor = Bridge!Max2(Bridge!FromIndex(p).cursor, updates[p].cursor)
  BY <1>1, <1>2 DEF Bridge!Put, Rows, Bridge!Max2
<1>4. Bridge!Projected(p) = IF built \/ row.cursor = 0 THEN row
                     ELSE [row EXCEPT !.cursor = Bridge!Max2(row.cursor, post[p].state)]
  BY DEF Bridge!Projected
<1> HIDE DEF row
<1>5. row.cursor \in Nat /\ Bridge!Max2(row.cursor, post[p].state) \in Nat
  BY <1>1, <1>3 DEF Rows, Bridge!Max2
<1>6. Bridge!Projected(p) \in Rows
      /\ Cursor(p) = IF built \/ row.cursor = 0 THEN row.cursor
         ELSE Bridge!Max2(row.cursor, post[p].state)
  BY <1>3, <1>4, <1>5 DEF Rows, Cursor
<1> QED
  BY <1>2, <1>3, <1>6

\* A message that is captured and listed stands at its latest state, and none
\* stands beyond.
LEMMA CursorIsLatest ==
  ASSUME BridgeShapes, Ordinals, BuiltIsLatest, NEW p \in Posts
  PROVE  /\ Cursor(p) \in Nat /\ Bridge!Latest(p) \in Nat
         /\ Cursor(p) <= Bridge!Latest(p) /\ Bridge!Latest(p) <= seqNo
         /\ Listed(p) => Cursor(p) = Bridge!Latest(p)
<1>1. /\ rows[p].cursor \in Nat /\ updates[p].cursor \in Nat /\ index[p] \in Nat /\ seqNo \in Nat
      /\ post[p].cap \in Nat /\ post[p].state \in Nat
  BY DEF BridgeShapes, Messages, Rows
<1>2. CASE built
  BY <1>1, <1>2, CursorOf DEF Ordinals, BuiltIsLatest, Bridge!Latest, Bridge!Max2
<1>3. CASE ~built
  BY <1>1, <1>3, CursorOf DEF Ordinals, Bridge!Latest, Bridge!Max2, Listed
<1> QED
  BY <1>2, <1>3

\* A read leaves every message where it stands.
LEMMA ReadStands ==
  ASSUME BridgeShapes, rows' = [p \in Posts |-> Bridge!Projected(p)], built' = TRUE,
         UNCHANGED <<updates, index, post>>
  PROVE  /\ rows' \in [Posts -> Rows]
         /\ \A p \in Posts : /\ rows'[p].cursor = Cursor(p) /\ Cursor(p)' = Cursor(p)
                             /\ Bridge!Max2(rows'[p].cursor, updates'[p].cursor) = Cursor(p)
<1>1. \A p \in Posts : Bridge!Projected(p) \in Rows
  BY CursorOf
<1>2. rows' \in [Posts -> Rows] /\ \A p \in Posts : rows'[p] = Bridge!Projected(p)
  BY <1>1
<1>3. ASSUME NEW p \in Posts
      PROVE  rows'[p].cursor = Cursor(p) /\ Cursor(p)' = Cursor(p)
             /\ Bridge!Max2(rows'[p].cursor, updates'[p].cursor) = Cursor(p)
  <2>1. updates[p] \in Rows /\ rows[p] \in Rows /\ index[p] \in Nat /\ post[p].state \in Nat
        /\ Bridge!Projected(p) \in Rows
    BY <1>1 DEF BridgeShapes, Messages
  <2>2. Cursor(p) \in Nat /\ updates[p].cursor \in Nat /\ Cursor(p) >= updates[p].cursor
        /\ rows'[p].cursor = Cursor(p)
    <3>1. rows[p].cursor \in Nat /\ updates[p].cursor \in Nat /\ Cursor(p) \in Nat
          /\ rows'[p].cursor = Cursor(p)
      BY <1>2, <2>1 DEF Rows, Cursor
    <3> QED
      BY <2>1, <3>1, CursorOf DEF Bridge!Max2
  <2>3. Bridge!Max2(rows'[p].cursor, updates'[p].cursor) = Cursor(p)
    BY <2>2 DEF Bridge!Max2
  <2>4. Cursor(p)' = Bridge!Max2(rows'[p].cursor, updates'[p].cursor)
    <3>1. rows'[p] \in Rows /\ updates'[p] \in Rows
      BY <1>2, <2>1
    <3> QED
      BY <3>1 DEF Cursor, Bridge!Projected, Bridge!Put, Bridge!FromIndex, Rows
  <2> QED
    BY <2>2, <2>3, <2>4
<1> QED
  BY <1>2, <1>3

\* A page ends at its last row, and what is left of the news stands behind it.
LEMMA PageEnds ==
  ASSUME BridgeConstants, BridgeShapes, Ordinals, BuiltIsLatest
  PROVE  /\ Bridge!LastOf(Bridge!Page) \in Nat /\ after <= Bridge!LastOf(Bridge!Page)
            /\ Bridge!LastOf(Bridge!Page) <= seqNo
         /\ \A p \in Bridge!News \ Bridge!Page : Cursor(p) > Bridge!LastOf(Bridge!Page)
         /\ Bridge!Page \subseteq Bridge!News
            /\ \A p \in Posts : p \in Bridge!News <=> Cursor(p) > after
<1> DEFINE Under(p) == {q \in Bridge!News : Cursor(q) < Cursor(p)}
<1>1. /\ \A p \in Posts : Cursor(p) \in Nat /\ Cursor(p) <= seqNo /\ Cursor(p) <= MaxSeq
      /\ after \in Nat /\ seqNo \in Nat /\ after <= seqNo /\ seqNo <= MaxSeq /\ MaxSeq \in Nat
      /\ Limit \in Nat
  <2>1. after \in Nat /\ seqNo \in Nat /\ after <= seqNo /\ seqNo <= MaxSeq /\ MaxSeq \in Nat
        /\ Limit \in Nat
    BY DEF BridgeShapes, BridgeConstants
  <2>2. ASSUME NEW p \in Posts
        PROVE  Cursor(p) \in Nat /\ Cursor(p) <= seqNo /\ Cursor(p) <= MaxSeq
    BY <2>1, CursorIsLatest
  <2> QED
    BY <2>1, <2>2
<1>2. Bridge!News = {p \in Posts : Cursor(p) > after}
  BY DEF Bridge!News, Cursor
<1>3. Bridge!Page = {p \in Bridge!News : Cardinality(Under(p)) < Limit}
  BY Zenon DEF Bridge!Page, Cursor, Bridge!Cardinality, Cardinality
<1>4. ASSUME NEW p \in Bridge!News
      PROVE  IsFiniteSet(Under(p)) /\ Cardinality(Under(p)) \in Nat
  BY <1>2, FS_Subset, FS_CardinalityType DEF BridgeConstants
<1>5. ASSUME NEW p \in Bridge!News \ Bridge!Page, NEW q \in Bridge!Page
      PROVE  Cursor(q) < Cursor(p)
  <2> SUFFICES ASSUME ~(Cursor(q) < Cursor(p))
               PROVE  FALSE
    OBVIOUS
  <2>1. q \in Bridge!News /\ Cursor(p) \in Nat /\ Cursor(q) \in Nat
        /\ \A r \in Bridge!News : Cursor(r) \in Nat
    BY <1>1, <1>2, <1>3
  <2>2. Under(p) \subseteq Under(q)
    BY <2>1
  <2>3. Cardinality(Under(p)) <= Cardinality(Under(q))
    BY <1>4, <2>1, <2>2, FS_Subset
  <2>4. Cardinality(Under(q)) < Limit /\ ~(Cardinality(Under(p)) < Limit)
    BY <1>3
  <2>5. Cardinality(Under(p)) \in Nat /\ Cardinality(Under(q)) \in Nat
    BY <1>4, <2>1
  <2> QED
    BY <1>1, <2>3, <2>4, <2>5
<1>6. CASE Bridge!Page = {}
  <2>1. Bridge!LastOf(Bridge!Page) = after
    BY <1>6 DEF Bridge!LastOf
  <2> QED
    BY <1>1, <1>2, <1>6, <2>1
<1>7. CASE Bridge!Page # {}
  <2> DEFINE S == {Cursor(p) : p \in Bridge!Page}
             Ends(c) == (\E p \in Bridge!Page : Cursor(p) = c)
             /\ \A p \in Bridge!Page : Cursor(p) <= c
  <2>0. ASSUME NEW p \in Bridge!Page
        PROVE  /\ p \in Bridge!News /\ Cursor(p) \in 0 .. MaxSeq /\ Cursor(p) \in 1 .. MaxSeq
               /\ Cursor(p) <= seqNo /\ Cursor(p) > after
    <3>1. p \in Bridge!News /\ p \in Posts /\ Cursor(p) > after
      BY <1>2, <1>3
    <3> QED
      BY <1>1, <3>1
  <2>1. S \in SUBSET (0 .. MaxSeq) /\ S # {}
    BY <1>7, <2>0
  <2>2. PICK c \in S : \A d \in S : d <= c
    BY <1>1, <2>1, GreatestOf
  <2>3. c \in 1 .. MaxSeq /\ Ends(c)
    BY <2>0, <2>2
  <2>4. Bridge!LastOf(Bridge!Page) = CHOOSE d \in 1 .. MaxSeq : Ends(d)
    BY <1>7 DEF Bridge!LastOf, Cursor
  <2> HIDE DEF Ends
  <2>5. Bridge!LastOf(Bridge!Page) \in 1 .. MaxSeq /\ Ends(Bridge!LastOf(Bridge!Page))
    BY <2>3, <2>4
  <2>6. PICK p \in Bridge!Page : Cursor(p) = Bridge!LastOf(Bridge!Page)
    BY <2>5 DEF Ends
  <2>7. Bridge!LastOf(Bridge!Page) \in Nat /\ after <= Bridge!LastOf(Bridge!Page)
        /\ Bridge!LastOf(Bridge!Page) <= seqNo
    BY <1>1, <2>0, <2>6
  <2>8. \A q \in Bridge!News \ Bridge!Page : Cursor(q) > Bridge!LastOf(Bridge!Page)
    <3> SUFFICES ASSUME NEW q \in Bridge!News \ Bridge!Page
                 PROVE  Cursor(q) > Bridge!LastOf(Bridge!Page)
      OBVIOUS
    <3>1. Cursor(p) < Cursor(q)
      BY <1>5
    <3>2. Cursor(q) \in Nat
      BY <1>1, <1>2
    <3> QED
      BY <2>6, <2>7, <3>1, <3>2
  <2>9. Bridge!Page \subseteq Bridge!News /\ \A q \in Posts : q \in Bridge!News <=> Cursor(q) > after
    BY <1>2, <1>3
  <2> QED
    BY <2>7, <2>8, <2>9
<1> QED
  BY <1>6, <1>7

\* A message stands where it stood while nothing of it changes.
LEMMA Stays ==
  ASSUME UNCHANGED <<post, index, updates, rows, built, unlisted>>
  PROVE  \A p \in Posts : /\ Cursor(p)' = Cursor(p) /\ Bridge!Latest(p)' = Bridge!Latest(p)
                          /\ Bridge!Captured(p)' = Bridge!Captured(p) /\ Listed(p)' = Listed(p)
BY DEF Cursor, Bridge!Projected, Bridge!FromIndex, Bridge!Put, Bridge!Latest, Bridge!Captured, Listed

\* A step that leaves the messages, the page and its reader alone keeps all that is
\* said of them.
LEMMA PagesStay ==
  ASSUME BridgeInv, UNCHANGED <<seqNo, post, index, updates, rows, built, after, page, caughtUp,
           unlisted>>
  PROVE  Ordinals' /\ BuiltIsLatest' /\ ShownOrAhead' /\ Bridge!NothingSkipped'
         /\ Bridge!News' = Bridge!News
<1> USE DEF BridgeInv
<1>1. \A p \in Posts : /\ Cursor(p)' = Cursor(p) /\ Bridge!Latest(p)' = Bridge!Latest(p)
                       /\ Bridge!Captured(p)' = Bridge!Captured(p) /\ Listed(p)' = Listed(p)
  BY Stays
<1>2. Ordinals' /\ BuiltIsLatest' /\ ShownOrAhead'
  BY DEF Ordinals, BuiltIsLatest, ShownOrAhead, Listed, Bridge!Captured, Bridge!Latest, Bridge!Max2
<1>3. Bridge!NothingSkipped'
  BY DEF Bridge!NothingSkipped, Bridge!Captured, Bridge!Latest
<1>4. Bridge!News' = Bridge!News
  BY <1>1 DEF Bridge!News, Cursor
<1> QED
  BY <1>2, <1>3, <1>4

\* An event under the conversation, or beside it, rouses a wait that can hear it.
LEMMA Rousing ==
  ASSUME watch \in {"none", "waiting", "roused"}, NEW inRoom \in BOOLEAN, Bridge!Rouses(inRoom)
  PROVE  watch' \in {"none", "waiting", "roused"}
         /\ (watch' = "waiting" => watch = "waiting" /\ inRoom = TRUE /\ blind)
BY DEF Bridge!Rouses, Bridge!Heard

\* What a binding does to the files.
LEMMA Binding ==
  ASSUME BridgeShapes, NEW p \in Posts, NEW fs, staged' = Bridge!BindTo(p, fs)
  PROVE  /\ staged' \in [Uploads -> StagedFiles]
         /\ \A f \in Uploads :
              /\ staged'[f].by = staged[f].by
              /\ staged'[f].bound = IF f \in fs /\ staged[f].bound = Bridge!Nobody THEN p
                 ELSE staged[f].bound
<1>1. \A f \in Uploads : staged[f] \in StagedFiles
  BY DEF BridgeShapes
<1>2. \A f \in Uploads : staged'[f] = IF f \in fs /\ staged[f].bound = Bridge!Nobody
                                    THEN [staged[f] EXCEPT !.bound = p] ELSE staged[f]
  BY DEF Bridge!BindTo
<1>3. ASSUME NEW f \in Uploads
      PROVE  /\ staged'[f] \in StagedFiles /\ staged'[f].by = staged[f].by
             /\ staged'[f].bound = IF f \in fs /\ staged[f].bound = Bridge!Nobody THEN p
                ELSE staged[f].bound
  BY <1>1, <1>2 DEF StagedFiles
<1>4. staged' = [f \in Uploads |-> staged'[f]]
  BY DEF Bridge!BindTo
<1> QED
  BY <1>3, <1>4

\* A file is staged by one consultant, and nobody has read it.
LEMMA StageKeeps ==
  ASSUME BridgeConstants, BridgeInv, NEW a \in Actors, NEW f \in Uploads, Bridge!Stage(a, f)
  PROVE  BridgeInv'
<1> USE DEF BridgeInv
<1>1. /\ UNCHANGED <<seqNo, post, index, updates, rows, built, after, page, caughtUp, blind, seenBy,
           unlisted>>
      /\ staged' = [staged EXCEPT ![f].by = a] /\ staged[f].by = Bridge!Nobody /\ room' = TRUE
         /\ Bridge!Rouses(FALSE)
  BY DEF Bridge!Stage
<1>2. watch' \in {"none", "roused"}
  BY <1>1, Rousing DEF BridgeShapes
<1>3. /\ staged' \in [Uploads -> StagedFiles] /\ staged'[f].by = a
         /\ staged'[f].bound = staged[f].bound
      /\ \A g \in Uploads : g # f => staged'[g] = staged[g]
  <2>1. staged[f] \in StagedFiles
    BY DEF BridgeShapes
  <2>2. [staged[f] EXCEPT !.by = a] \in StagedFiles /\ [staged[f] EXCEPT !.by = a].by = a
        /\ [staged[f] EXCEPT !.by = a].bound = staged[f].bound
    BY <2>1 DEF StagedFiles
  <2>3. staged' = [staged EXCEPT ![f] = [staged[f] EXCEPT !.by = a]]
    BY <1>1
  <2> QED
    BY <2>2, <2>3 DEF BridgeShapes
<1>4. BridgeShapes'
  BY <1>1, <1>2, <1>3 DEF BridgeShapes
<1>5. Ordinals' /\ BuiltIsLatest' /\ ShownOrAhead' /\ Bridge!NothingSkipped'
  BY <1>1, PagesStay
<1>6. Bridge!NewsRouses'
  BY <1>2 DEF Bridge!NewsRouses
<1>7. /\ staged[f].bound = Bridge!Nobody /\ seenBy[f] = {} /\ a # Bridge!Nobody
      /\ \A p \in Posts : f \notin post[p].files
  <2>1. \A p \in Posts : f \in post[p].files => Bridge!Captured(p)
    BY DEF Ordinals
  <2>2. \A p \in Posts : f \notin post[p].files
    BY <1>1, <2>1 DEF FilesAreOf, Bridge!Captured
  <2>3. staged[f].bound = Bridge!Nobody
    BY <2>2 DEF FilesAreOf, Bridge!Carrier
  <2> QED
    BY <1>1, <2>2, <2>3 DEF FilesAreOf, BridgeConstants
<1>8. \A g \in Uploads : g # f => Bridge!Carrier(g)' = Bridge!Carrier(g)
  BY <1>1, <1>3 DEF Bridge!Carrier
<1>9. FilesAreOf' /\ Bridge!FilesFollowTheirMessage'
  BY <1>1, <1>3, <1>7, <1>8 DEF FilesAreOf, Bridge!FilesFollowTheirMessage, Bridge!Carrier
<1> QED
  BY <1>4, <1>5, <1>6, <1>9

\* Binding a message's files to it leaves the rest as it is.
LEMMA BindsKeeps ==
  ASSUME BridgeConstants, BridgeInv, NEW p \in Posts, NEW fs, staged' = Bridge!BindTo(p, fs),
         Bridge!Rouses(FALSE),
         \A f \in Uploads : f \in fs => p \in Bridge!Carrier(f),
         UNCHANGED <<seqNo, post, index, room, updates, rows, built, after, page, caughtUp, blind,
           unlisted>>,
         seenBy' \in [Uploads -> SUBSET Actors],
         \A f \in Uploads : seenBy'[f] # seenBy[f] => f \in fs
  PROVE  BridgeInv'
<1> USE DEF BridgeInv
<1>1. watch' \in {"none", "roused"}
  BY Rousing DEF BridgeShapes
<1>2. /\ staged' \in [Uploads -> StagedFiles]
      /\ \A f \in Uploads :
           /\ staged'[f].by = staged[f].by
           /\ staged'[f].bound = IF f \in fs /\ staged[f].bound = Bridge!Nobody THEN p
              ELSE staged[f].bound
  BY Binding
<1>3. BridgeShapes'
  BY <1>1, <1>2 DEF BridgeShapes
<1>4. Ordinals' /\ BuiltIsLatest' /\ ShownOrAhead' /\ Bridge!NothingSkipped'
  BY PagesStay
<1>5. Bridge!NewsRouses'
  BY <1>1 DEF Bridge!NewsRouses
<1>6. \A f \in Uploads : Bridge!Carrier(f)' = Bridge!Carrier(f)
  BY <1>2 DEF Bridge!Carrier
<1>7. ASSUME NEW f \in Uploads
      PROVE  /\ staged'[f].bound # Bridge!Nobody => staged'[f].bound \in Bridge!Carrier(f)
             /\ staged'[f].by = Bridge!Nobody => seenBy'[f] = {}
             /\ Bridge!Carrier(f) = {} => seenBy'[f] \subseteq {staged'[f].by}
  <2>1. f \in fs => p \in Bridge!Carrier(f) /\ staged[f].by # Bridge!Nobody
    <3>1. f \in fs => p \in Bridge!Carrier(f) /\ f \in post[p].files /\ staged[f].by = post[p].by
      BY DEF Bridge!Carrier
    <3>2. f \in post[p].files => Bridge!Captured(p)
      BY DEF Ordinals
    <3> QED
      BY <3>1, <3>2 DEF Bridge!Captured
  <2> QED
    BY <1>2, <2>1 DEF FilesAreOf, Bridge!FilesFollowTheirMessage
<1>8. FilesAreOf'
  BY <1>2, <1>6, <1>7 DEF FilesAreOf
<1>9. Bridge!FilesFollowTheirMessage'
  BY <1>6, <1>7, <1>2 DEF Bridge!FilesFollowTheirMessage, Bridge!Carrier
<1> QED
  BY <1>3, <1>4, <1>5, <1>8, <1>9

\* A file is read by its sender, or once a message carries it.
LEMMA ReadFileKeeps ==
  ASSUME BridgeConstants, BridgeInv, NEW a \in Actors, NEW f \in Uploads, Bridge!ReadFile(a, f)
  PROVE  BridgeInv'
<1> USE DEF BridgeInv
<1>1. /\ UNCHANGED <<seqNo, post, index, room, updates, rows, built, after, page, caughtUp, blind,
           unlisted>>
      /\ staged[f].by # Bridge!Nobody /\ Bridge!MayRead(a, f)
         /\ seenBy' = [seenBy EXCEPT ![f] = @ \cup {a}]
  BY DEF Bridge!ReadFile
<1>2. seenBy' \in [Uploads -> SUBSET Actors] /\ seenBy'[f] = seenBy[f] \cup {a}
      /\ \A g \in Uploads : g # f => seenBy'[g] = seenBy[g]
  BY <1>1 DEF BridgeShapes
<1>3. ASSUME NEW p \in Bridge!Carrier(f), staged' = Bridge!BindTo(p, {f}), Bridge!Rouses(FALSE)
      PROVE  BridgeInv'
  <2>1. p \in Posts
    BY DEF Bridge!Carrier
  <2>2. \A g \in Uploads : (g \in {f} => p \in Bridge!Carrier(g))
        /\ (seenBy'[g] # seenBy[g] => g \in {f})
    BY <1>2
  <2> HIDE DEF BridgeInv
  <2> QED
    BY <1>1, <1>2, <1>3, <2>1, <2>2, BindsKeeps
<1>4. CASE UNCHANGED <<staged, watch>>
  <2>1. BridgeShapes'
    BY <1>1, <1>2, <1>4 DEF BridgeShapes
  <2>2. Ordinals' /\ BuiltIsLatest' /\ ShownOrAhead' /\ Bridge!NothingSkipped' /\ Bridge!NewsRouses'
    BY <1>1, <1>4, PagesStay DEF Bridge!NewsRouses
  <2>3. \A g \in Uploads : Bridge!Carrier(g)' = Bridge!Carrier(g)
    BY <1>1, <1>4 DEF Bridge!Carrier
  <2>4. FilesAreOf'
    BY <1>1, <1>2, <1>4, <2>3 DEF FilesAreOf
  <2>5. staged[f].bound # Bridge!Nobody => Bridge!Carrier(f) # {}
    BY DEF FilesAreOf
  <2>6. Bridge!FilesFollowTheirMessage'
    BY <1>1, <1>2, <1>4, <2>3, <2>5 DEF Bridge!FilesFollowTheirMessage, Bridge!MayRead
  <2> QED
    BY <2>1, <2>2, <2>4, <2>6
<1> QED
  BY <1>3, <1>4 DEF Bridge!ReadFile

\* The retry binds the files of its message.
LEMMA ResubmitKeeps ==
  ASSUME BridgeConstants, BridgeInv, NEW a \in Actors, NEW p \in Posts, Bridge!Resubmit(a, p)
  PROVE  BridgeInv'
<1>1. /\ UNCHANGED <<seqNo, post, index, room, updates, rows, built, after, page, caughtUp, blind,
           unlisted, seenBy>>
      /\ staged' = Bridge!BindTo(p, post[p].files) /\ Bridge!Rouses(FALSE)
  BY DEF Bridge!Resubmit
<1>2. \A f \in Uploads : f \in post[p].files => p \in Bridge!Carrier(f)
  BY DEF BridgeInv, FilesAreOf, Bridge!Carrier
<1>3. seenBy' \in [Uploads -> SUBSET Actors]
  BY <1>1 DEF BridgeInv, BridgeShapes
<1> QED
  BY <1>1, <1>2, <1>3, BindsKeeps

\* A new message is ahead of every reader, and carries its files.
LEMMA SubmitKeeps ==
  ASSUME BridgeConstants, BridgeInv, NEW a \in Actors, NEW p \in Posts, NEW fs \in SUBSET Uploads,
         Bridge!Submit(a, p, fs)
  PROVE  BridgeInv'
<1> USE DEF BridgeInv
<1>1. /\ UNCHANGED <<rows, built, after, page, blind, seenBy, unlisted>>
      /\ seqNo < MaxSeq /\ ~Bridge!Captured(p) /\ Bridge!Attachable(a, fs) /\ seqNo' = seqNo + 1
      /\ post' = [post EXCEPT ![p] = Bridge!Record(a, fs)]
      /\ index' = [index EXCEPT ![p] = seqNo + 1]
      /\ updates' = [updates EXCEPT ![p] = [seq |-> seqNo + 1, cursor |-> seqNo + 1]]
      /\ staged' = Bridge!BindTo(p, fs) /\ room' = TRUE /\ caughtUp' = FALSE
  BY DEF Bridge!Submit, Bridge!Roomy
<1>2. seqNo \in Nat /\ after \in Nat /\ after <= seqNo /\ a # Bridge!Nobody /\ p \notin unlisted
      /\ seqNo' \in Nat /\ seqNo' <= MaxSeq
  BY <1>1 DEF BridgeShapes, BridgeConstants, Ordinals
<1>3. /\ post' \in [Posts -> Messages]
      /\ post'[p].by = a /\ post'[p].files = fs /\ post'[p].cap = seqNo + 1 /\ post'[p].state = 0
      /\ \A q \in Posts : q # p => post'[q] = post[q]
  <2>1. Bridge!Record(a, fs) \in Messages
    BY <1>2 DEF Bridge!Record, Messages
  <2> QED
    BY <1>1, <2>1 DEF BridgeShapes, Bridge!Record
<1>4. /\ index' \in [Posts -> Nat] /\ updates' \in [Posts -> Rows]
      /\ index'[p] = seqNo + 1 /\ updates'[p].seq = seqNo + 1 /\ updates'[p].cursor = seqNo + 1
      /\ \A q \in Posts : q # p => index'[q] = index[q] /\ updates'[q] = updates[q]
  <2>1. [seq |-> seqNo + 1, cursor |-> seqNo + 1] \in Rows
    BY <1>2 DEF Rows
  <2> QED
    BY <1>1, <1>2, <2>1 DEF BridgeShapes
<1>5. /\ Bridge!Latest(p)' = seqNo + 1 /\ Bridge!Captured(p)' /\ Listed(p)'
      /\ \A q \in Posts : q # p => Bridge!Latest(q)' = Bridge!Latest(q)
         /\ Bridge!Captured(q)' = Bridge!Captured(q) /\ Listed(q)' = Listed(q)
  BY <1>1, <1>2, <1>3 DEF Bridge!Latest, Bridge!Captured, Listed, Bridge!Max2
<1>6. \A q \in Posts : Bridge!Latest(q) \in Nat /\ rows[q].cursor \in Nat /\ updates[q].cursor \in Nat
  BY DEF BridgeShapes, Messages, Rows, Bridge!Latest, Bridge!Max2
<1>7. rows[p].cursor <= seqNo
  BY <1>1, <1>2, <1>6 DEF Ordinals
<1>8. /\ staged' \in [Uploads -> StagedFiles]
      /\ \A f \in Uploads :
           /\ staged'[f].by = staged[f].by
           /\ staged'[f].bound = IF f \in fs /\ staged[f].bound = Bridge!Nobody THEN p
              ELSE staged[f].bound
  BY <1>1, Binding
<1>9. watch' \in {"none", "waiting", "roused"} /\ (watch' = "waiting" => blind)
  <2>1. PICK inRoom \in BOOLEAN : inRoom = (room /\ fs = {})
    BY DEF BridgeShapes
  <2>2. Bridge!Rouses(inRoom)
    BY <2>1, Zenon DEF Bridge!Submit
  <2> QED
    BY <2>2, Rousing DEF BridgeShapes
<1>10. BridgeShapes'
  <2>1. after' \in Nat /\ after' <= seqNo' /\ unlisted' \subseteq Posts
    BY <1>1, <1>2 DEF BridgeShapes
  <2>2. rows' \in [Posts -> Rows] /\ page' \in [Posts -> Nat]
        /\ seenBy' \in [Uploads -> SUBSET Actors]
    BY <1>1 DEF BridgeShapes
  <2>3. built' \in BOOLEAN /\ blind' \in BOOLEAN /\ room' \in BOOLEAN /\ caughtUp' \in BOOLEAN
    BY <1>1 DEF BridgeShapes
  <2> QED
    BY <1>2, <1>3, <1>4, <1>8, <1>9, <2>1, <2>2, <2>3 DEF BridgeShapes
<1>11. Ordinals'
  <2> SUFFICES ASSUME NEW q \in Posts
               PROVE  /\ post'[q].cap <= seqNo' /\ post'[q].state <= seqNo'
                      /\ index'[q] <= Bridge!Latest(q)' /\ rows'[q].cursor <= Bridge!Latest(q)'
                      /\ updates'[q].seq <= Bridge!Latest(q)'
                         /\ updates'[q].cursor <= Bridge!Latest(q)'
                      /\ Bridge!Captured(q)' => post'[q].cap > 0
                      /\ ~Bridge!Captured(q)' => Bridge!Latest(q)' = 0 /\ q \notin unlisted'
                         /\ post'[q].files = {}
                      /\ Listed(q)' => index'[q] = post'[q].cap
    BY DEF Ordinals
  <2>1. CASE q = p
    BY <1>1, <1>2, <1>3, <1>4, <1>5, <1>7, <1>6, <2>1
  <2>2. CASE q # p
    <3>1. post[q].cap \in Nat /\ post[q].state \in Nat
      BY DEF BridgeShapes, Messages
    <3>2. /\ post[q].cap <= seqNo /\ post[q].state <= seqNo
          /\ index[q] <= Bridge!Latest(q) /\ rows[q].cursor <= Bridge!Latest(q)
          /\ updates[q].seq <= Bridge!Latest(q) /\ updates[q].cursor <= Bridge!Latest(q)
          /\ Bridge!Captured(q) => post[q].cap > 0
          /\ ~Bridge!Captured(q) => Bridge!Latest(q) = 0 /\ q \notin unlisted /\ post[q].files = {}
          /\ Listed(q) => index[q] = post[q].cap
      BY DEF Ordinals
    <3> QED
      BY <1>1, <1>2, <1>3, <1>4, <1>5, <2>2, <3>1, <3>2
  <2> QED
    BY <2>1, <2>2
<1>12. BuiltIsLatest'
  <2>1. Bridge!Max2(rows[p].cursor, seqNo + 1) = seqNo + 1
    BY <1>2, <1>6, <1>7 DEF Bridge!Max2
  <2> QED
    BY <1>1, <1>4, <1>5, <2>1 DEF BuiltIsLatest
<1>13. ShownOrAhead' /\ Bridge!NothingSkipped' /\ Bridge!NewsRouses'
  BY <1>1, <1>2, <1>5, <1>9 DEF ShownOrAhead, Bridge!NothingSkipped, Bridge!NewsRouses
<1>14. \A f \in Uploads : Bridge!Carrier(f)' = IF f \in fs THEN Bridge!Carrier(f) \cup {p}
       ELSE Bridge!Carrier(f)
  <2>1. post[p].files = {}
    BY <1>1 DEF Ordinals
  <2>2. \A f \in fs : staged[f].by = a
    BY <1>1 DEF Bridge!Attachable
  <2> QED
    BY <1>3, <1>8, <2>1, <2>2 DEF Bridge!Carrier
<1>15. FilesAreOf'
  <2>1. \A f \in fs : staged[f].by = a
    BY <1>1 DEF Bridge!Attachable
  <2>2. ASSUME NEW f \in Uploads, NEW q \in Posts, f \in post'[q].files
        PROVE  staged'[f].by = post'[q].by
    <3>1. CASE q = p
      BY <1>3, <1>8, <2>1, <2>2, <3>1
    <3>2. CASE q # p
      BY <1>3, <1>8, <2>2, <3>2 DEF FilesAreOf
    <3> QED
      BY <3>1, <3>2
  <2>3. \A f \in Uploads : staged'[f].bound # Bridge!Nobody => staged'[f].bound \in Bridge!Carrier(f)'
    BY <1>8, <1>14 DEF FilesAreOf
  <2>4. \A f \in Uploads : staged'[f].by = Bridge!Nobody => seenBy'[f] = {}
    BY <1>1, <1>8 DEF FilesAreOf
  <2> QED
    BY <2>2, <2>3, <2>4 DEF FilesAreOf
<1>16. Bridge!FilesFollowTheirMessage'
  <2>1. \A f \in Uploads : staged'[f].bound # Bridge!Nobody => f \in post'[staged'[f].bound].files
    BY <1>15 DEF FilesAreOf, Bridge!Carrier
  <2>2. \A f \in Uploads : Bridge!Carrier(f)' = {} => seenBy'[f] \subseteq {staged'[f].by}
    BY <1>1, <1>8, <1>14 DEF Bridge!FilesFollowTheirMessage
  <2> QED
    BY <2>1, <2>2 DEF Bridge!FilesFollowTheirMessage
<1> QED
  BY <1>10, <1>11, <1>12, <1>13, <1>15, <1>16

\* A message cut short by a death is there with its index line, without, or not at all.
LEMMA SubmitCutKeeps ==
  ASSUME BridgeConstants, BridgeInv, NEW a \in Actors, NEW p \in Posts, NEW fs \in SUBSET Uploads,
         NEW cut \in {"record", "index", "bind"}, Bridge!SubmitCut(a, p, fs, cut)
  PROVE  BridgeInv'
<1> USE DEF BridgeInv
<1>1. /\ UNCHANGED <<staged, after, page, seenBy>>
      /\ seqNo < MaxSeq /\ ~Bridge!Captured(p) /\ Bridge!Attachable(a, fs) /\ seqNo' = seqNo + 1
      /\ post' = IF cut = "record" THEN post ELSE [post EXCEPT ![p] = Bridge!Record(a, fs)]
      /\ index' = IF cut = "bind" THEN [index EXCEPT ![p] = seqNo + 1] ELSE index
      /\ unlisted' = IF cut = "index" THEN unlisted \cup {p} ELSE unlisted
      /\ room' = TRUE /\ caughtUp' = FALSE
      /\ updates' = [q \in Posts |-> Bridge!NoRow] /\ rows' = [q \in Posts |-> Bridge!NoRow]
      /\ built' = FALSE /\ watch' = "none" /\ blind' = FALSE
  BY DEF Bridge!SubmitCut, Bridge!Roomy, Bridge!Forgotten
<1>2. seqNo \in Nat /\ after \in Nat /\ after <= seqNo /\ a # Bridge!Nobody /\ p \notin unlisted
      /\ seqNo' \in Nat /\ seqNo' <= MaxSeq /\ index[p] = 0
  BY <1>1 DEF BridgeShapes, BridgeConstants, Ordinals
<1>3. /\ post' \in [Posts -> Messages]
      /\ cut # "record" => /\ post'[p].by = a /\ post'[p].files = fs /\ post'[p].cap = seqNo + 1
                          /\ post'[p].state = 0
      /\ \A q \in Posts : (q # p \/ cut = "record") => post'[q] = post[q]
  <2>1. Bridge!Record(a, fs) \in Messages
    BY <1>2 DEF Bridge!Record, Messages
  <2> QED
    BY <1>1, <2>1 DEF BridgeShapes, Bridge!Record
<1>4. /\ index' \in [Posts -> Nat] /\ index'[p] = IF cut = "bind" THEN seqNo + 1 ELSE 0
      /\ \A q \in Posts : q # p => index'[q] = index[q]
  BY <1>1, <1>2 DEF BridgeShapes
<1>5. /\ Bridge!NoRow \in Rows /\ Bridge!NoRow.cursor = 0 /\ Bridge!NoRow.seq = 0
      /\ rows' \in [Posts -> Rows] /\ updates' \in [Posts -> Rows]
      /\ \A q \in Posts : rows'[q].cursor = 0 /\ updates'[q].cursor = 0 /\ updates'[q].seq = 0
  BY <1>1 DEF Bridge!NoRow, Rows
<1>6. /\ cut # "record" => Bridge!Latest(p)' = seqNo + 1 /\ Bridge!Captured(p)'
         /\ (Listed(p)' <=> cut = "bind")
      /\ \A q \in Posts : (q # p \/ cut = "record") =>
           Bridge!Latest(q)' = Bridge!Latest(q) /\ Bridge!Captured(q)' = Bridge!Captured(q)
           /\ Listed(q)' = Listed(q)
  BY <1>1, <1>2, <1>3 DEF Bridge!Latest, Bridge!Captured, Listed, Bridge!Max2
<1>7. BridgeShapes'
  <2>1. after' \in Nat /\ after' <= seqNo' /\ unlisted' \subseteq Posts
    BY <1>1, <1>2 DEF BridgeShapes
  <2>2. page' \in [Posts -> Nat] /\ seenBy' \in [Uploads -> SUBSET Actors]
        /\ staged' \in [Uploads -> StagedFiles]
    BY <1>1 DEF BridgeShapes
  <2>3. built' \in BOOLEAN /\ blind' \in BOOLEAN /\ room' \in BOOLEAN /\ caughtUp' \in BOOLEAN
        /\ watch' \in {"none", "waiting", "roused"}
    BY <1>1
  <2> QED
    BY <1>2, <1>3, <1>4, <1>5, <2>1, <2>2, <2>3 DEF BridgeShapes
<1>8. Ordinals'
  <2> SUFFICES ASSUME NEW q \in Posts
               PROVE  /\ post'[q].cap <= seqNo' /\ post'[q].state <= seqNo'
                      /\ index'[q] <= Bridge!Latest(q)' /\ rows'[q].cursor <= Bridge!Latest(q)'
                      /\ updates'[q].seq <= Bridge!Latest(q)'
                         /\ updates'[q].cursor <= Bridge!Latest(q)'
                      /\ Bridge!Captured(q)' => post'[q].cap > 0
                      /\ ~Bridge!Captured(q)' => Bridge!Latest(q)' = 0 /\ q \notin unlisted'
                         /\ post'[q].files = {}
                      /\ Listed(q)' => index'[q] = post'[q].cap
    BY DEF Ordinals
  <2>1. CASE q = p /\ cut # "record"
    BY <1>1, <1>2, <1>3, <1>4, <1>5, <1>6, <2>1
  <2>2. CASE q # p \/ cut = "record"
    <3>1. post[q].cap \in Nat /\ post[q].state \in Nat /\ Bridge!Latest(q) \in Nat
      BY DEF BridgeShapes, Messages, Bridge!Latest, Bridge!Max2
    <3>2. /\ post[q].cap <= seqNo /\ post[q].state <= seqNo /\ index[q] <= Bridge!Latest(q)
          /\ Bridge!Captured(q) => post[q].cap > 0
          /\ ~Bridge!Captured(q) => Bridge!Latest(q) = 0 /\ q \notin unlisted /\ post[q].files = {}
          /\ Listed(q) => index[q] = post[q].cap
      BY DEF Ordinals
    <3>3. index'[q] = index[q] /\ (q \in unlisted' => q \in unlisted)
      BY <1>1, <1>2, <1>4, <2>2
    <3> QED
      BY <1>1, <1>2, <1>3, <1>5, <1>6, <2>2, <3>1, <3>2, <3>3
  <2> QED
    BY <2>1, <2>2
<1>9. BuiltIsLatest' /\ ShownOrAhead' /\ Bridge!NothingSkipped' /\ Bridge!NewsRouses'
  BY <1>1, <1>2, <1>6 DEF BuiltIsLatest, ShownOrAhead, Bridge!NothingSkipped, Bridge!NewsRouses
<1>10. post[p].files = {} /\ \A f \in fs : staged[f].by = a
  BY <1>1 DEF Ordinals, Bridge!Attachable
<1>11. \A f \in Uploads : Bridge!Carrier(f) \subseteq Bridge!Carrier(f)'
  BY <1>1, <1>3, <1>10 DEF Bridge!Carrier
<1>12. FilesAreOf'
  <2>1. ASSUME NEW f \in Uploads, NEW q \in Posts, f \in post'[q].files
        PROVE  staged'[f].by = post'[q].by
    <3>1. CASE q = p /\ cut # "record"
      BY <1>1, <1>3, <1>10, <2>1, <3>1
    <3>2. CASE q # p \/ cut = "record"
      BY <1>1, <1>3, <2>1, <3>2 DEF FilesAreOf
    <3> QED
      BY <3>1, <3>2
  <2> QED
    BY <1>1, <1>11, <2>1 DEF FilesAreOf
<1>13. Bridge!FilesFollowTheirMessage'
  <2>1. \A f \in Uploads : staged'[f].bound # Bridge!Nobody => f \in post'[staged'[f].bound].files
    BY <1>12 DEF FilesAreOf, Bridge!Carrier
  <2> QED
    BY <1>1, <1>11, <2>1 DEF Bridge!FilesFollowTheirMessage
<1> QED
  BY <1>7, <1>8, <1>9, <1>12, <1>13

\* A death leaves the records, their index and the reader.
LEMMA DieKeeps ==
  ASSUME BridgeInv, Bridge!Die
  PROVE  BridgeInv'
<1> USE DEF BridgeInv
<1>1. /\ UNCHANGED <<seqNo, post, index, staged, room, after, page, caughtUp, seenBy, unlisted>>
      /\ updates' = [q \in Posts |-> Bridge!NoRow] /\ rows' = [q \in Posts |-> Bridge!NoRow]
      /\ built' = FALSE /\ watch' = "none" /\ blind' = FALSE
  BY DEF Bridge!Die, Bridge!Forgotten
<1>2. /\ rows' \in [Posts -> Rows] /\ updates' \in [Posts -> Rows]
      /\ \A q \in Posts : rows'[q].cursor = 0 /\ updates'[q].cursor = 0 /\ updates'[q].seq = 0
  BY <1>1 DEF Bridge!NoRow, Rows
<1>3. \A q \in Posts : Bridge!Latest(q) \in Nat /\ Bridge!Latest(q)' = Bridge!Latest(q)
      /\ Bridge!Captured(q)' = Bridge!Captured(q)
                       /\ Listed(q)' = Listed(q)
  BY <1>1 DEF Bridge!Latest, Bridge!Captured, Listed, BridgeShapes, Messages, Bridge!Max2
<1>4. BridgeShapes'
  <2>1. built' \in BOOLEAN /\ blind' \in BOOLEAN /\ watch' \in {"none", "waiting", "roused"}
    BY <1>1
  <2> QED
    BY <1>1, <1>2, <2>1 DEF BridgeShapes
<1>5. Ordinals'
  BY <1>1, <1>2, <1>3 DEF Ordinals
<1>6. BuiltIsLatest' /\ Bridge!NewsRouses'
  BY <1>1 DEF BuiltIsLatest, Bridge!NewsRouses
<1>7. ShownOrAhead' /\ Bridge!NothingSkipped'
  BY <1>1, <1>3 DEF ShownOrAhead, Bridge!NothingSkipped
<1>8. FilesAreOf' /\ Bridge!FilesFollowTheirMessage'
  BY <1>1 DEF FilesAreOf, Bridge!FilesFollowTheirMessage, Bridge!Carrier
<1> QED
  BY <1>4, <1>5, <1>6, <1>7, <1>8

\* A changed message is ahead of every reader again.
LEMMA ChangeKeeps ==
  ASSUME BridgeInv, BridgeConstants, NEW p \in Posts, Bridge!Change(p)
  PROVE  BridgeInv'
<1> USE DEF BridgeInv
<1>1. /\ UNCHANGED <<index, staged, room, rows, built, after, page, blind, seenBy, unlisted>>
      /\ seqNo < MaxSeq /\ Bridge!Captured(p) /\ seqNo' = seqNo + 1 /\ caughtUp' = FALSE
      /\ post' = [post EXCEPT ![p].state = seqNo + 1]
      /\ updates' = [updates EXCEPT ![p].cursor = Bridge!StateCursor(p, seqNo + 1)]
         /\ Bridge!Rouses(TRUE)
  BY DEF Bridge!Change, Bridge!Roomy
<1>2. \A q \in Posts : /\ post[q] \in Messages /\ updates[q] \in Rows /\ rows[q] \in Rows
                       /\ index[q] \in Nat /\ Bridge!Latest(q) \in Nat /\ Bridge!Latest(q) <= seqNo
                       /\ post[q].cap \in Nat /\ post[q].state \in Nat
  BY DEF BridgeShapes, Messages, Bridge!Latest, Bridge!Max2, Ordinals
<1>3. seqNo \in Nat /\ after \in Nat /\ after <= seqNo /\ seqNo' \in Nat /\ seqNo' <= MaxSeq
  BY <1>1 DEF BridgeShapes, BridgeConstants
<1>4. Bridge!StateCursor(p, seqNo + 1) = seqNo + 1
  BY <1>2, <1>3 DEF Bridge!StateCursor, Bridge!Max2, Ordinals, Rows
<1>5. /\ post' \in [Posts -> Messages]
      /\ post'[p].by = post[p].by /\ post'[p].files = post[p].files /\ post'[p].cap = post[p].cap
      /\ post'[p].state = seqNo + 1
      /\ \A q \in Posts : q # p => post'[q] = post[q]
  <2> DEFINE changed == [post[p] EXCEPT !.state = seqNo + 1]
  <2>1. changed \in Messages /\ changed.by = post[p].by /\ changed.files = post[p].files
        /\ changed.cap = post[p].cap /\ changed.state = seqNo + 1
    BY <1>2, <1>3 DEF Messages
  <2>2. post' = [post EXCEPT ![p] = changed]
    BY <1>1
  <2> HIDE DEF changed
  <2> QED
    BY <2>1, <2>2 DEF BridgeShapes
<1>6. /\ updates' \in [Posts -> Rows]
      /\ updates'[p].cursor = seqNo + 1 /\ updates'[p].seq = updates[p].seq
      /\ \A q \in Posts : q # p => updates'[q] = updates[q]
  <2> DEFINE row == [updates[p] EXCEPT !.cursor = seqNo + 1]
  <2>1. row \in Rows /\ row.cursor = seqNo + 1 /\ row.seq = updates[p].seq
    BY <1>2, <1>3 DEF Rows
  <2>2. updates' = [updates EXCEPT ![p] = row]
    BY <1>1, <1>4
  <2> HIDE DEF row
  <2> QED
    BY <2>1, <2>2 DEF BridgeShapes
<1>7. /\ Bridge!Latest(p)' = seqNo + 1
      /\ \A q \in Posts : Bridge!Captured(q)' = Bridge!Captured(q) /\ Listed(q)' = Listed(q)
                          /\ (q # p => Bridge!Latest(q)' = Bridge!Latest(q))
  <2>1. Bridge!Latest(p)' = seqNo + 1
    BY <1>2, <1>3, <1>5 DEF Bridge!Latest, Bridge!Max2, Ordinals
  <2> QED
    BY <1>1, <1>5, <2>1 DEF Bridge!Latest, Bridge!Captured, Listed
<1>8. watch' \in {"none", "waiting", "roused"} /\ (watch' = "waiting" => blind)
  BY <1>1, Rousing DEF BridgeShapes
<1>9. BridgeShapes'
  <2>1. after' \in Nat /\ after' <= seqNo'
    BY <1>1, <1>3
  <2>2. rows' \in [Posts -> Rows] /\ page' \in [Posts -> Nat]
        /\ seenBy' \in [Uploads -> SUBSET Actors]
        /\ unlisted' \subseteq Posts /\ staged' \in [Uploads -> StagedFiles]
           /\ index' \in [Posts -> Nat]
    BY <1>1 DEF BridgeShapes
  <2>3. built' \in BOOLEAN /\ blind' \in BOOLEAN /\ room' \in BOOLEAN /\ caughtUp' \in BOOLEAN
    BY <1>1 DEF BridgeShapes
  <2> QED
    BY <1>3, <1>5, <1>6, <1>8, <2>1, <2>2, <2>3 DEF BridgeShapes
<1>10. Ordinals'
  <2> SUFFICES ASSUME NEW q \in Posts
               PROVE  /\ post'[q].cap <= seqNo' /\ post'[q].state <= seqNo'
                      /\ index'[q] <= Bridge!Latest(q)' /\ rows'[q].cursor <= Bridge!Latest(q)'
                      /\ updates'[q].seq <= Bridge!Latest(q)'
                         /\ updates'[q].cursor <= Bridge!Latest(q)'
                      /\ Bridge!Captured(q)' => post'[q].cap > 0
                      /\ ~Bridge!Captured(q)' => Bridge!Latest(q)' = 0 /\ q \notin unlisted'
                         /\ post'[q].files = {}
                      /\ Listed(q)' => index'[q] = post'[q].cap
    BY DEF Ordinals
  <2>1. /\ post[q].cap <= seqNo /\ post[q].state <= seqNo
        /\ index[q] <= Bridge!Latest(q) /\ rows[q].cursor <= Bridge!Latest(q)
        /\ updates[q].seq <= Bridge!Latest(q) /\ updates[q].cursor <= Bridge!Latest(q)
        /\ Bridge!Captured(q) => post[q].cap > 0
        /\ ~Bridge!Captured(q) => Bridge!Latest(q) = 0 /\ q \notin unlisted /\ post[q].files = {}
        /\ Listed(q) => index[q] = post[q].cap
    BY DEF Ordinals
  <2>2. rows[q].cursor \in Nat /\ updates[q].seq \in Nat /\ updates[q].cursor \in Nat
    BY <1>2 DEF Rows
  <2>3. CASE q = p
    BY <1>1, <1>2, <1>3, <1>5, <1>6, <1>7, <2>1, <2>2, <2>3
  <2>4. CASE q # p
    BY <1>1, <1>2, <1>3, <1>5, <1>6, <1>7, <2>1, <2>2, <2>4
  <2> QED
    BY <2>3, <2>4
<1>11. BuiltIsLatest'
  <2>1. Bridge!Max2(rows[p].cursor, seqNo + 1) = seqNo + 1
    BY <1>2, <1>3 DEF Bridge!Max2, Ordinals, Rows
  <2> QED
    BY <1>1, <1>6, <1>7, <2>1 DEF BuiltIsLatest
<1>12. ShownOrAhead' /\ Bridge!NothingSkipped' /\ Bridge!NewsRouses'
  BY <1>1, <1>3, <1>7, <1>8 DEF ShownOrAhead, Bridge!NothingSkipped, Bridge!NewsRouses
<1>13. \A f \in Uploads : Bridge!Carrier(f)' = Bridge!Carrier(f)
  BY <1>1, <1>5 DEF Bridge!Carrier
<1>14. FilesAreOf' /\ Bridge!FilesFollowTheirMessage'
  <2>1. \A q \in Posts : post'[q].files = post[q].files /\ post'[q].by = post[q].by
    BY <1>5
  <2>2. FilesAreOf'
    BY <1>1, <1>13, <2>1 DEF FilesAreOf
  <2>3. \A f \in Uploads : staged'[f].bound # Bridge!Nobody => f \in post'[staged'[f].bound].files
    BY <2>2 DEF FilesAreOf, Bridge!Carrier
  <2>4. Bridge!FilesFollowTheirMessage'
    BY <1>1, <1>13, <2>3 DEF Bridge!FilesFollowTheirMessage
  <2> QED
    BY <2>2, <2>4
<1> QED
  BY <1>9, <1>10, <1>11, <1>12, <1>14

\* A page shows the states it lists, and leaves the others ahead of its end.
LEMMA ReadKeeps ==
  ASSUME BridgeConstants, BridgeInv, Bridge!Read, watch' = "none", blind' \in BOOLEAN,
         UNCHANGED <<seqNo, post, index, staged, room, updates, seenBy, unlisted>>
  PROVE  BridgeInv'
<1> USE DEF BridgeInv
<1>1. /\ rows' = [p \in Posts |-> Bridge!Projected(p)] /\ built' = TRUE
      /\ page' = [p \in Posts |-> IF p \in Bridge!Page THEN Bridge!Latest(p) ELSE page[p]]
      /\ after' = Bridge!LastOf(Bridge!Page) /\ (caughtUp' <=> Bridge!Page = Bridge!News)
         /\ caughtUp' \in BOOLEAN
  BY DEF Bridge!Read
<1>2. /\ rows' \in [Posts -> Rows]
      /\ \A p \in Posts : rows'[p].cursor = Cursor(p)
         /\ Bridge!Max2(rows'[p].cursor, updates'[p].cursor) = Cursor(p)
  BY <1>1, ReadStands
<1>3. \A p \in Posts : /\ Cursor(p) \in Nat /\ Bridge!Latest(p) \in Nat
                       /\ Cursor(p) <= Bridge!Latest(p)
                       /\ Bridge!Latest(p) <= seqNo /\ (Listed(p) => Cursor(p) = Bridge!Latest(p))
  BY CursorIsLatest
<1>4. /\ after' \in Nat /\ after <= after' /\ after' <= seqNo
      /\ \A p \in Bridge!News \ Bridge!Page : Cursor(p) > after'
      /\ Bridge!Page \subseteq Bridge!News /\ \A p \in Posts : p \in Bridge!News <=> Cursor(p) > after
  BY <1>1, PageEnds
<1>5. \A p \in Posts : Bridge!Latest(p)' = Bridge!Latest(p)
      /\ Bridge!Captured(p)' = Bridge!Captured(p) /\ Listed(p)' = Listed(p)
  BY DEF Bridge!Latest, Bridge!Captured, Listed
<1>6. page' \in [Posts -> Nat] /\ \A p \in Posts : page'[p] = IF p \in Bridge!Page
      THEN Bridge!Latest(p) ELSE page[p]
  BY <1>1, <1>3 DEF BridgeShapes
<1>7. BridgeShapes'
  <2>1. built' \in BOOLEAN /\ watch' \in {"none", "waiting", "roused"} /\ room' \in BOOLEAN
    BY <1>1 DEF BridgeShapes
  <2> QED
    BY <1>1, <1>2, <1>4, <1>6, <2>1 DEF BridgeShapes
<1>8. Ordinals'
  BY <1>2, <1>3, <1>5 DEF Ordinals
<1>9. BuiltIsLatest'
  BY <1>2, <1>3, <1>5 DEF BuiltIsLatest
<1>10. ASSUME NEW p \in Posts, Listed(p)
       PROVE  page'[p] = Bridge!Latest(p) \/ (Bridge!Latest(p) > after'
                /\ p \in Bridge!News \ Bridge!Page)
  <2>1. Cursor(p) = Bridge!Latest(p) /\ Bridge!Latest(p) \in Nat /\ after \in Nat
    BY <1>3, <1>10 DEF BridgeShapes
  <2>2. CASE p \in Bridge!Page
    BY <1>6, <2>2
  <2>3. CASE p \in Bridge!News \ Bridge!Page
    BY <1>4, <2>1, <2>3
  <2>4. CASE p \notin Bridge!News
    <3>1. ~(Bridge!Latest(p) > after)
      BY <1>4, <2>1, <2>4
    <3>2. page[p] = Bridge!Latest(p)
      BY <1>10, <3>1 DEF ShownOrAhead
    <3> QED
      BY <1>4, <1>6, <2>4, <3>2
  <2> QED
    BY <2>2, <2>3, <2>4
<1>11. ShownOrAhead'
  BY <1>5, <1>10 DEF ShownOrAhead
<1>12. Bridge!NothingSkipped'
  BY <1>1, <1>5, <1>10 DEF Bridge!NothingSkipped, Listed
<1>13. Bridge!NewsRouses'
  BY DEF Bridge!NewsRouses
<1>14. FilesAreOf' /\ Bridge!FilesFollowTheirMessage'
  BY DEF FilesAreOf, Bridge!FilesFollowTheirMessage, Bridge!Carrier
<1> QED
  BY <1>7, <1>8, <1>9, <1>11, <1>12, <1>13, <1>14

\* A wait begins with no news.
LEMMA WaitKeeps ==
  ASSUME BridgeInv, Bridge!Wait
  PROVE  BridgeInv'
<1> USE DEF BridgeInv
<1>1. /\ rows' = [p \in Posts |-> Bridge!Projected(p)] /\ built' = TRUE
      /\ UNCHANGED <<seqNo, post, index, staged, room, updates, after, page, caughtUp, seenBy,
           unlisted>>
      /\ watch' = "waiting" /\ blind' = ~room /\ Bridge!News = {}
  BY DEF Bridge!Wait
<1>2. /\ rows' \in [Posts -> Rows]
      /\ \A p \in Posts : /\ rows'[p].cursor = Cursor(p) /\ Cursor(p)' = Cursor(p)
                          /\ Bridge!Max2(rows'[p].cursor, updates'[p].cursor) = Cursor(p)
  BY <1>1, ReadStands
<1>3. \A p \in Posts : /\ Cursor(p) \in Nat /\ Bridge!Latest(p) \in Nat
                       /\ Cursor(p) <= Bridge!Latest(p)
                       /\ Bridge!Latest(p) <= seqNo /\ (Listed(p) => Cursor(p) = Bridge!Latest(p))
  BY CursorIsLatest
<1>4. \A p \in Posts : Bridge!Latest(p)' = Bridge!Latest(p)
      /\ Bridge!Captured(p)' = Bridge!Captured(p) /\ Listed(p)' = Listed(p)
  BY <1>1 DEF Bridge!Latest, Bridge!Captured, Listed
<1>5. BridgeShapes'
  <2>1. built' \in BOOLEAN /\ blind' \in BOOLEAN /\ watch' \in {"none", "waiting", "roused"}
    BY <1>1 DEF BridgeShapes
  <2> QED
    BY <1>1, <1>2, <2>1 DEF BridgeShapes
<1>6. Ordinals'
  BY <1>1, <1>2, <1>3, <1>4 DEF Ordinals
<1>7. BuiltIsLatest'
  BY <1>2, <1>3, <1>4 DEF BuiltIsLatest
<1>8. ShownOrAhead' /\ Bridge!NothingSkipped'
  BY <1>1, <1>4 DEF ShownOrAhead, Bridge!NothingSkipped
<1>9. Bridge!NewsRouses'
  <2>1. Bridge!News = {p \in Posts : Cursor(p) > after}
        /\ Bridge!News' = {p \in Posts : Cursor(p)' > after'}
    BY DEF Bridge!News, Cursor
  <2>2. Bridge!News' = {}
    BY <1>1, <1>2, <2>1
  <2> QED
    BY <2>2 DEF Bridge!NewsRouses
<1>10. FilesAreOf' /\ Bridge!FilesFollowTheirMessage'
  BY <1>1 DEF FilesAreOf, Bridge!FilesFollowTheirMessage, Bridge!Carrier
<1> QED
  BY <1>5, <1>6, <1>7, <1>8, <1>9, <1>10

\* A wait that is woken without news waits on, and one that is given up is over.
LEMMA WokenKeeps ==
  ASSUME BridgeInv, Bridge!WakeEmpty \/ Bridge!Aborts
  PROVE  BridgeInv'
<1> USE DEF BridgeInv
<1>1. /\ UNCHANGED <<seqNo, post, index, staged, room, updates, rows, built, after, page, caughtUp,
           seenBy, unlisted>>
      /\ (watch' = "waiting" /\ Bridge!News = {} /\ blind' = blind)
         \/ (watch' = "none" /\ blind' = FALSE)
  BY DEF Bridge!WakeEmpty, Bridge!Aborts
<1>2. BridgeShapes'
  <2>1. blind' \in BOOLEAN /\ watch' \in {"none", "waiting", "roused"}
    BY <1>1 DEF BridgeShapes
  <2> QED
    BY <1>1, <2>1 DEF BridgeShapes
<1>3. Ordinals' /\ BuiltIsLatest' /\ ShownOrAhead' /\ Bridge!NothingSkipped'
      /\ Bridge!News' = Bridge!News
  BY <1>1, PagesStay
<1>4. Bridge!NewsRouses'
  BY <1>1, <1>3 DEF Bridge!NewsRouses
<1>5. FilesAreOf' /\ Bridge!FilesFollowTheirMessage'
  BY <1>1 DEF FilesAreOf, Bridge!FilesFollowTheirMessage, Bridge!Carrier
<1> QED
  BY <1>2, <1>3, <1>4, <1>5

\* One step of a consultant, a change, a reader or a death.
LEMMA BridgeStep ==
  BridgeConstants /\ BridgeInv /\ [Bridge!Next]_(Bridge!bridgeVars) => BridgeInv'
<1> SUFFICES ASSUME BridgeConstants, BridgeInv, [Bridge!Next]_(Bridge!bridgeVars)
             PROVE  BridgeInv'
  OBVIOUS
<1>1. CASE UNCHANGED Bridge!bridgeVars
  <2>1. UNCHANGED <<seqNo, post, index, staged, room, updates, rows, built, after, page, caughtUp,
          watch,
                    blind, seenBy, unlisted>>
    BY <1>1 DEF Bridge!bridgeVars
  <2>2. Ordinals' /\ BuiltIsLatest' /\ ShownOrAhead' /\ Bridge!NothingSkipped'
        /\ Bridge!News' = Bridge!News
    BY <2>1, PagesStay
  <2>3. BridgeShapes'
    BY <2>1 DEF BridgeInv, BridgeShapes
  <2>4. Bridge!NewsRouses' /\ FilesAreOf' /\ Bridge!FilesFollowTheirMessage'
    BY <2>1, <2>2 DEF BridgeInv, Bridge!NewsRouses, FilesAreOf, Bridge!FilesFollowTheirMessage,
       Bridge!Carrier
  <2> QED
    BY <2>2, <2>3, <2>4 DEF BridgeInv
<1>2. CASE Bridge!ReadPage \/ Bridge!WakeWithNews \/ Bridge!TimesOut
  <2>1. /\ Bridge!Read /\ watch' = "none" /\ blind' \in BOOLEAN
        /\ UNCHANGED <<seqNo, post, index, staged, room, updates, seenBy, unlisted>>
    BY <1>2 DEF Bridge!ReadPage, Bridge!WakeWithNews, Bridge!TimesOut, BridgeInv, BridgeShapes
  <2> QED
    BY <2>1, ReadKeeps
<1>3. CASE Bridge!Wait \/ Bridge!WakeEmpty \/ Bridge!Aborts \/ Bridge!Die
  BY <1>3, WaitKeeps, WokenKeeps, DieKeeps
<1>4. ASSUME NEW a \in Actors, NEW f \in Uploads, Bridge!Stage(a, f) \/ Bridge!ReadFile(a, f)
      PROVE  BridgeInv'
  BY <1>4, StageKeeps, ReadFileKeeps
<1>5. ASSUME NEW a \in Actors, NEW p \in Posts, Bridge!Resubmit(a, p)
      PROVE  BridgeInv'
  BY <1>5, ResubmitKeeps
<1>6. ASSUME NEW a \in Actors, NEW p \in Posts, NEW fs \in SUBSET Uploads,
             Bridge!Submit(a, p, fs) \/ \E cut \in {"record", "index", "bind"} : Bridge!SubmitCut(a,
               p, fs, cut)
      PROVE  BridgeInv'
  BY <1>6, SubmitKeeps, SubmitCutKeeps
<1>7. ASSUME NEW p \in Posts, Bridge!Change(p)
      PROVE  BridgeInv'
  BY <1>7, ChangeKeeps
<1> QED
  BY <1>1, <1>2, <1>3, <1>4, <1>5, <1>6, <1>7, Zenon DEF Bridge!Next

\* Nothing is captured, staged or read.
LEMMA BridgeStart ==
  BridgeConstants /\ Bridge!Init => BridgeInv
<1> SUFFICES ASSUME BridgeConstants, Bridge!Init
             PROVE  BridgeInv
  OBVIOUS
<1>1. Bridge!Absent \in Messages /\ Bridge!Absent.by = Bridge!Nobody /\ Bridge!Absent.cap = 0
      /\ Bridge!Absent.state = 0 /\ Bridge!Absent.files = {}
  BY DEF Bridge!Absent, Messages
<1>2. Bridge!NoRow \in Rows /\ Bridge!NoRow.cursor = 0 /\ Bridge!NoRow.seq = 0
  BY DEF Bridge!NoRow, Rows
<1>3. [by |-> Bridge!Nobody, bound |-> Bridge!Nobody] \in StagedFiles
  BY DEF StagedFiles
<1>4. BridgeShapes
  <2>1. seqNo = 0 /\ after = 0 /\ MaxSeq \in Nat
    BY DEF Bridge!Init, BridgeConstants
  <2>2. post \in [Posts -> Messages] /\ index \in [Posts -> Nat] /\ page \in [Posts -> Nat]
    BY <1>1 DEF Bridge!Init
  <2>3. staged \in [Uploads -> StagedFiles] /\ seenBy \in [Uploads -> SUBSET Actors]
    BY <1>3 DEF Bridge!Init
  <2>4. updates \in [Posts -> Rows] /\ rows \in [Posts -> Rows]
    BY <1>2 DEF Bridge!Init
  <2>5. /\ room \in BOOLEAN /\ built \in BOOLEAN /\ caughtUp \in BOOLEAN /\ blind \in BOOLEAN
        /\ unlisted \subseteq Posts /\ watch \in {"none", "waiting", "roused"}
    BY DEF Bridge!Init
  <2> QED
    BY <2>1, <2>2, <2>3, <2>4, <2>5 DEF BridgeShapes
<1>5. \A p \in Posts : ~Bridge!Captured(p) /\ Bridge!Latest(p) = 0 /\ ~Listed(p)
  BY <1>1 DEF Bridge!Init, Bridge!Captured, Bridge!Latest, Listed, Bridge!Max2
<1>6. Ordinals
  BY <1>1, <1>2, <1>5 DEF Bridge!Init, Ordinals
<1>7. BuiltIsLatest /\ ShownOrAhead /\ Bridge!NothingSkipped /\ Bridge!NewsRouses
  BY <1>5 DEF Bridge!Init, BuiltIsLatest, ShownOrAhead, Bridge!NothingSkipped, Bridge!NewsRouses
<1>8. FilesAreOf /\ Bridge!FilesFollowTheirMessage
  BY <1>1 DEF Bridge!Init, FilesAreOf, Bridge!FilesFollowTheirMessage
<1> QED
  BY <1>4, <1>6, <1>7, <1>8 DEF BridgeInv

\* The invariant gives what is promised to a reader.
LEMMA BridgePromise ==
  BridgeInv => Bridge!PagesAreTrue
BY DEF BridgeInv, Bridge!PagesAreTrue

-----------------------------------------------------------------------------
(* The files: the invariant.                                               *)

Keys == {MessageOf[i] : i \in Items}
Jobs == [of : SUBSET Items, files : SUBSET Items]
Phases == {"none", "asked", "runs", "lingers", "reply", "replied", "declared"}

ProgramShapes ==
  /\ item \in [Items -> {"outside", "captured", "asked", "closed"}]
  /\ release \in [Items -> SUBSET Items]
  /\ preparing \in SUBSET Items /\ ready \in SUBSET Jobs
  /\ jobs \in Seq(Keys \X SUBSET Items) /\ prepared \in SUBSET Items
  /\ turn \in [of : SUBSET Items, kept : SUBSET Items, phase : Phases]

\* The turn was handed what it has to remove, and has not removed it yet.
HasFiles == turn.phase \in {"asked", "runs", "lingers"}

\* Each artifact that a release has to remove is of a message still to be asked,
\* by a job the list leads to, or is in the hands of the turn.
MadeIsFollowed ==
  \A i \in prepared \ stray :
    \/ /\ item[i] = "captured"
       /\ \E r \in ready : i \in r.files /\ <<i, r.of>> \in Program!Followed(jobs)
    \/ i \in turn.kept /\ HasFiles

\* What the child is making is for messages still to be asked, and the list leads
\* to it.
UnderWay ==
  \A i \in preparing \ stray : item[i] = "captured" /\ <<i, preparing>> \in Program!Followed(jobs)

\* The release being taken is asked, and there is none without a process.
TurnIsAsked ==
  /\ \A i \in turn.of : item[i] = "asked"
  /\ up \/ turn = Program!NoTurn

ProgramInv == ProgramShapes /\ MadeIsFollowed /\ UnderWay /\ TurnIsAsked /\ Program!NoChildIsLeft

ProgramConstants == IsFiniteSet(Items) /\ Tracked \in Nat

\* What the list leads to.
LEMMA FollowedMeans ==
  ASSUME NEW list, NEW i, NEW job
  PROVE  <<i, job>> \in Program!Followed(list) <=>
           \E k \in DOMAIN list : list[k][2] = job /\ i \in job /\ list[k][1] = MessageOf[i]
BY DEF Program!Followed

\* A list of a finite set is a sequence of its members.
LEMMA ListOfSet ==
  ASSUME NEW S, IsFiniteSet(S)
  PROVE  Program!SetToSeq(S) \in Seq(S)
<1>1. Cardinality(S) \in Nat /\ ExistsBijection(1 .. Cardinality(S), S)
  BY FS_CardinalityType
<1>2. PICK f \in [1 .. Cardinality(S) -> S] : IsInjective(f)
  BY <1>1 DEF ExistsBijection, Bijection, Injection, IsInjective
<1>3. Program!SetToSeq(S) \in [1 .. Cardinality(S) -> S]
  BY <1>2 DEF Program!SetToSeq, Program!Cardinality, Cardinality, Program!IsInjective, IsInjective
<1> QED
  BY <1>1, <1>3

\* The table is a list of messages, each with the records of its job.
LEMMA TrackIsList ==
  ASSUME ProgramConstants, jobs \in Seq(Keys \X SUBSET Items), NEW batch \in SUBSET Items
  PROVE  Program!Track(batch) \in Seq(Keys \X SUBSET Items)
<1> DEFINE known == {jobs[k][1] : k \in DOMAIN jobs}
           kept == [k \in DOMAIN jobs |-> IF jobs[k][1] \in {MessageOf[i] : i \in batch}
                                          THEN <<jobs[k][1], batch>> ELSE jobs[k]]
           more == {j \in batch : MessageOf[j] \notin known}
           new == {<<MessageOf[i], batch>> : i \in more}
           all == kept \o Program!SetToSeq(new)
<1>1. kept \in Seq(Keys \X SUBSET Items)
  <2>1. Len(jobs) \in Nat /\ DOMAIN jobs = 1 .. Len(jobs)
        /\ \A k \in DOMAIN jobs : jobs[k] \in Keys \X SUBSET Items
    OBVIOUS
  <2>2. \A k \in DOMAIN jobs : kept[k] \in Keys \X SUBSET Items
    BY <2>1
  <2>3. DOMAIN kept = 1 .. Len(jobs)
    BY <2>1
  <2>4. kept = [k \in 1 .. Len(jobs) |-> kept[k]]
    BY <2>1
  <2> HIDE DEF kept
  <2>5. kept \in [1 .. Len(jobs) -> Keys \X SUBSET Items]
    BY <2>1, <2>2, <2>4
  <2> QED
    BY <2>1, <2>5
<1>2. Program!SetToSeq(new) \in Seq(Keys \X SUBSET Items)
  <2>1. IsFiniteSet(more)
    BY FS_Subset DEF ProgramConstants
  <2>2. IsFiniteSet(new)
    <3> DEFINE f == [i \in more |-> <<MessageOf[i], batch>>]
    <3>1. f \in Surjection(more, new)
      BY DEF Surjection
    <3> QED
      BY <2>1, <3>1, FS_Surjection
  <2>3. new \subseteq Keys \X SUBSET Items
    BY DEF Keys
  <2> HIDE DEF new
  <2>4. Program!SetToSeq(new) \in Seq(new)
    BY <2>2, ListOfSet
  <2> QED
    BY <2>3, <2>4
<1>3. all \in Seq(Keys \X SUBSET Items)
  <2> HIDE DEF kept, new
  <2> QED
    BY <1>1, <1>2
<1> HIDE DEF all
<1>4. Len(all) > Tracked => SubSeq(all, Len(all) - Tracked + 1,
        Len(all)) \in Seq(Keys \X SUBSET Items)
  BY <1>3, SubSeqProperties DEF ProgramConstants
<1>5. Program!Track(batch) = IF Len(all) > Tracked THEN SubSeq(all, Len(all) - Tracked + 1, Len(all))
      ELSE all
  BY Zenon DEF Program!Track, all, kept, new, known, more
<1> QED
  BY <1>3, <1>4, <1>5

\* The entries of other messages stay on the list.
LEMMA OthersStay ==
  ASSUME NEW E, NEW list \in Seq(E), NEW told
  PROVE  /\ Program!Without(list, told) \in Seq(E)
         /\ \A k \in DOMAIN list : list[k][1] \notin told =>
              \E n \in DOMAIN Program!Without(list, told) : Program!Without(list, told)[n] = list[k]
<1> DEFINE kept == {k \in DOMAIN list : list[k][1] \notin told}
           Upto(k) == {j \in kept : j <= k}
           Rank(k) == Cardinality(Upto(k))
           At(n) == CHOOSE k \in kept : Rank(k) = n
<1>1. Len(list) \in Nat /\ DOMAIN list = 1 .. Len(list) /\ IsFiniteSet(kept) /\ kept \subseteq Nat
  BY FS_Interval, FS_Subset
<1>2. Cardinality(kept) \in Nat
  BY <1>1, FS_CardinalityType
<1>3. ASSUME NEW k \in kept
      PROVE  Rank(k) \in 1 .. Cardinality(kept) /\ IsFiniteSet(Upto(k))
  <2>1. IsFiniteSet(Upto(k)) /\ Cardinality(Upto(k)) <= Cardinality(kept)
    BY <1>1, FS_Subset
  <2>2. Upto(k) # {}
    BY <1>1
  <2>3. Cardinality(Upto(k)) \in Nat /\ Cardinality(Upto(k)) # 0
    BY <2>1, <2>2, FS_CardinalityType, FS_EmptySet
  <2> QED
    BY <1>2, <2>1, <2>3
<1>4. ASSUME NEW j \in kept, NEW k \in kept, Rank(j) = Rank(k), j < k
      PROVE  FALSE
  <2>1. Upto(j) \subseteq Upto(k) /\ k \in Upto(k) /\ k \notin Upto(j)
    BY <1>1, <1>4
  <2>2. Upto(k) = Upto(j)
    BY <1>3, <1>4, <2>1, FS_Subset
  <2> QED
    BY <2>1, <2>2
<1>5. \A j, k \in kept : Rank(j) = Rank(k) => j = k
  <2> SUFFICES ASSUME NEW j \in kept, NEW k \in kept, Rank(j) = Rank(k)
               PROVE  j = k
    OBVIOUS
  <2>1. j \in Nat /\ k \in Nat /\ ~(j < k) /\ ~(k < j)
    BY <1>1, <1>4
  <2> QED
    BY <2>1
<1>6. Program!Without(list, told) = [n \in 1 .. Cardinality(kept) |-> list[At(n)]]
  BY DEF Program!Without, Program!Cardinality, Cardinality
<1> HIDE DEF Rank, kept
<1>7. ASSUME NEW k \in kept
      PROVE  Rank(k) \in DOMAIN Program!Without(list, told)
             /\ Program!Without(list, told)[Rank(k)] = list[k]
  <2>1. At(Rank(k)) = k
    BY <1>5
  <2> HIDE DEF At
  <2> QED
    BY <1>3, <1>6, <2>1
<1>8. \A n \in 1 .. Cardinality(kept) : At(n) \in kept
  <2>1. ASSUME NEW n \in 1 .. Cardinality(kept)
        PROVE  \E k \in kept : Rank(k) = n
    <3> DEFINE rank == [k \in kept |-> Rank(k)]
    <3>1. rank \in Injection(kept, 1 .. Cardinality(kept))
      BY <1>3, <1>5 DEF Injection, IsInjective
    <3>2. IsFiniteSet(1 .. Cardinality(kept))
          /\ Cardinality(1 .. Cardinality(kept)) = Cardinality(kept)
      BY <1>2, FS_Interval
    <3> HIDE DEF rank
    <3>3. rank \in Surjection(kept, 1 .. Cardinality(kept))
      BY <3>1, <3>2, FS_Injection
    <3> QED
      BY <3>3 DEF Surjection, rank
  <2> QED
    BY <2>1
<1> HIDE DEF At
<1>9. Program!Without(list, told) \in Seq(E)
  <2>1. \A n \in 1 .. Cardinality(kept) : list[At(n)] \in E
    BY <1>1, <1>8 DEF kept
  <2> QED
    BY <1>2, <1>6, <2>1
<1> QED
  BY <1>7, <1>9 DEF kept

\* A job that a later one pushes off the list is no release's to remove.
LEMMA CaptureKeeps ==
  ASSUME ProgramConstants, ProgramInv, NEW batch \in SUBSET Items, Program!Capture(batch)
  PROVE  ProgramInv'
<1> USE DEF ProgramInv
<1>1. /\ up /\ turn = Program!NoTurn /\ \A i \in batch : item[i] = "outside"
      /\ item' = [i \in Items |-> IF i \in batch THEN "captured" ELSE item[i]]
      /\ UNCHANGED <<up, release, turn, handlers>>
  BY DEF Program!Capture, Program!Idle, Program!process, Program!taking
<1>2. /\ item' \in [Items -> {"outside", "captured", "asked", "closed"}]
      /\ \A i \in Items : item[i] = "captured" => item'[i] = "captured"
      /\ \A i \in batch : item'[i] = "captured"
  BY <1>1 DEF ProgramShapes
<1>3. TurnIsAsked'
  BY <1>1 DEF TurnIsAsked, Program!NoTurn
<1>4. CASE UNCHANGED <<Program!preparation, stray, prepared>>
  <2>1. UNCHANGED <<preparing, preparers, ready, jobs, stray, prepared>>
    BY <1>4 DEF Program!preparation
  <2> QED
    BY <1>1, <1>2, <1>3, <2>1 DEF ProgramShapes, MadeIsFollowed, HasFiles, UnderWay,
       Program!NoChildIsLeft
<1>5. CASE /\ preparing' = batch /\ preparers' = TRUE /\ jobs' = Program!Track(batch) /\ batch # {}
           /\ stray' = stray \cup Program!LostBy(jobs')
                       \cup {i \in batch : <<i, batch>> \notin Program!Followed(jobs')}
           /\ ready' = Program!Kept(ready, jobs') /\ UNCHANGED prepared
  <2>1. jobs' \in Seq(Keys \X SUBSET Items)
    BY <1>5, TrackIsList DEF ProgramShapes
  <2>2. ProgramShapes'
    BY <1>1, <1>2, <1>5, <2>1 DEF ProgramShapes, Program!Kept
  <2>3. ASSUME NEW i, i \notin stray', NEW job, <<i, job>> \in Program!Followed(jobs)
        PROVE  <<i, job>> \in Program!Followed(jobs')
    <3>1. <<i, job>>[1] = i
      OBVIOUS
    <3> QED
      BY <1>5, <2>3, <3>1 DEF Program!LostBy
  <2>4. MadeIsFollowed'
    <3> SUFFICES ASSUME NEW i \in prepared' \ stray'
                 PROVE  item'[i] = "captured" /\ \E r \in ready' : i \in r.files
                        /\ <<i, r.of>> \in Program!Followed(jobs')
      BY DEF MadeIsFollowed
    <3>1. i \in prepared \ stray /\ i \in Items /\ ~HasFiles
      BY <1>1, <1>5 DEF ProgramShapes, HasFiles, Program!NoTurn
    <3>2. PICK r \in ready : item[i] = "captured" /\ i \in r.files
          /\ <<i, r.of>> \in Program!Followed(jobs)
      BY <3>1 DEF MadeIsFollowed
    <3>3. <<i, r.of>> \in Program!Followed(jobs')
      BY <2>3, <3>2
    <3>4. r \in ready'
      BY <1>5, <3>3, FollowedMeans DEF Program!Kept
    <3> QED
      BY <1>2, <3>1, <3>2, <3>3, <3>4
  <2>5. UnderWay'
    BY <1>2, <1>5 DEF UnderWay
  <2>6. Program!NoChildIsLeft'
    BY <1>1, <1>5 DEF Program!NoChildIsLeft
  <2> QED
    BY <1>3, <2>2, <2>4, <2>5, <2>6
<1> QED
  BY <1>4, <1>5 DEF Program!Capture

\* What the child has made joins the job its list leads to.
LEMMA PrepareEndsKeeps ==
  ASSUME ProgramInv, NEW given, Program!PrepareEnds(given)
  PROVE  ProgramInv'
<1> USE DEF ProgramInv
<1>1. given \subseteq preparing /\ preparing' = {} /\ preparers' = FALSE
      /\ prepared' = prepared \cup given
      /\ UNCHANGED <<up, item, release, jobs, turn, handlers, stray>>
  BY DEF Program!PrepareEnds, Program!process, Program!store, Program!taking
<1>2. ready' = Program!Kept(ready \cup {[of |-> preparing, files |-> given]}, jobs)
  BY DEF Program!PrepareEnds
<1>3. ProgramShapes'
  BY <1>1, <1>2 DEF ProgramShapes, Program!Kept, Jobs
<1>4. MadeIsFollowed'
  <2> SUFFICES ASSUME NEW i \in prepared' \ stray'
               PROVE  \/ /\ item'[i] = "captured"
                         /\ \E r \in ready' : i \in r.files /\ <<i, r.of>> \in Program!Followed(jobs')
                      \/ i \in turn'.kept /\ HasFiles'
    BY DEF MadeIsFollowed
  <2>1. \A r \in ready \cup {[of |-> preparing, files |-> given]} :
          <<i, r.of>> \in Program!Followed(jobs) => r \in ready'
    BY <1>2, FollowedMeans DEF Program!Kept
  <2>2. CASE i \in prepared
    BY <1>1, <2>1, <2>2 DEF MadeIsFollowed, HasFiles
  <2>3. CASE i \in given
    <3>1. item[i] = "captured" /\ <<i, preparing>> \in Program!Followed(jobs)
      BY <1>1, <2>3 DEF UnderWay
    <3>2. [of |-> preparing, files |-> given] \in ready'
      BY <2>1, <3>1
    <3> QED
      BY <1>1, <2>3, <3>1, <3>2
  <2> QED
    BY <1>1, <2>2, <2>3
<1>5. UnderWay'
  BY <1>1, <1>2 DEF UnderWay
<1>6. TurnIsAsked'
  BY <1>1, <1>2 DEF TurnIsAsked, Program!NoTurn
<1>7. Program!NoChildIsLeft'
  BY <1>1, <1>2 DEF Program!NoChildIsLeft
<1> QED
  BY <1>3, <1>4, <1>5, <1>6, <1>7 DEF ProgramInv

\* The turn is handed what is ready of its messages, and what runs is cancelled.
LEMMA AskKeeps ==
  ASSUME ProgramInv, NEW group \in SUBSET Items, Program!Ask(group)
  PROVE  ProgramInv'
<1> USE DEF ProgramInv
<1> DEFINE joined == Program!JobsOf(group)
           cancelled == {job \in joined : Program!IsRunning(job)}
           told == {MessageOf[i] : i \in group}
<1>1. /\ up /\ turn = Program!NoTurn /\ UNCHANGED <<up, prepared, handlers, stray>>
      /\ item' = [i \in Items |-> IF i \in group THEN "asked" ELSE item[i]]
      /\ release' = [i \in Items |-> IF i \in group THEN group ELSE release[i]]
      /\ jobs' = Program!Without(jobs, told)
      /\ ready' = Program!Kept(ready \cup {[of |-> job, files |-> {}] : job \in cancelled}, jobs')
      /\ turn' = [of |-> group, kept |-> UNION {job.files : job \in {r \in ready : r.of \in joined}},
                  phase |-> "asked"]
  BY DEF Program!Ask, Program!Idle, Program!process
<1>2. IF cancelled = {} THEN UNCHANGED <<preparing, preparers>>
      ELSE preparing' = {} /\ preparers' = FALSE
  BY DEF Program!Ask
<1>3. /\ item' \in [Items -> {"outside", "captured", "asked", "closed"}]
      /\ \A i \in group : item'[i] = "asked"
      /\ \A i \in Items \ group : item'[i] = item[i]
  BY <1>1 DEF ProgramShapes
<1>4. /\ jobs' \in Seq(Keys \X SUBSET Items)
      /\ \A k \in DOMAIN jobs : jobs[k][1] \notin told => \E n \in DOMAIN jobs' : jobs'[n] = jobs[k]
  <2> HIDE DEF told
  <2> QED
    BY <1>1, OthersStay DEF ProgramShapes
<1>5. joined \subseteq SUBSET Items
  BY DEF Program!JobsOf, ProgramShapes
<1>6. ASSUME NEW i \in Items, NEW job, <<i, job>> \in Program!Followed(jobs)
      PROVE  /\ MessageOf[i] \in told => job \in joined
             /\ MessageOf[i] \notin told => i \notin group /\ <<i, job>> \in Program!Followed(jobs')
  <2>1. PICK k \in DOMAIN jobs : jobs[k][2] = job /\ i \in job /\ jobs[k][1] = MessageOf[i]
    BY <1>6, FollowedMeans
  <2>2. MessageOf[i] \in told => job \in joined
    BY <2>1 DEF Program!JobsOf
  <2>3. ASSUME MessageOf[i] \notin told
        PROVE  <<i, job>> \in Program!Followed(jobs')
    <3>1. PICK n \in DOMAIN jobs' : jobs'[n] = jobs[k]
      BY <1>4, <2>1, <2>3
    <3> QED
      BY <2>1, <3>1, FollowedMeans
  <2> QED
    BY <2>2, <2>3
<1>7. ProgramShapes'
  <2>1. turn' \in [of : SUBSET Items, kept : SUBSET Items, phase : Phases]
    <3>1. UNION {job.files : job \in {r \in ready : r.of \in joined}} \in SUBSET Items
      BY DEF ProgramShapes, Jobs
    <3> QED
      BY <1>1, <3>1 DEF Phases
  <2>2. ready' \in SUBSET Jobs
    BY <1>1, <1>5 DEF ProgramShapes, Program!Kept, Jobs
  <2>3. release' \in [Items -> SUBSET Items] /\ preparing' \in SUBSET Items
    BY <1>1, <1>2 DEF ProgramShapes
  <2> QED
    BY <1>1, <1>3, <1>4, <2>1, <2>2, <2>3 DEF ProgramShapes
<1>8. MadeIsFollowed'
  <2> SUFFICES ASSUME NEW i \in prepared' \ stray'
               PROVE  \/ /\ item'[i] = "captured"
                         /\ \E r \in ready' : i \in r.files /\ <<i, r.of>> \in Program!Followed(jobs')
                      \/ i \in turn'.kept /\ HasFiles'
    BY DEF MadeIsFollowed
  <2>1. i \in prepared \ stray /\ i \in Items /\ ~HasFiles
    BY <1>1 DEF ProgramShapes, HasFiles, Program!NoTurn
  <2>2. PICK r \in ready : item[i] = "captured" /\ i \in r.files
        /\ <<i, r.of>> \in Program!Followed(jobs)
    BY <2>1 DEF MadeIsFollowed
  <2>3. CASE MessageOf[i] \in told
    BY <1>1, <1>6, <2>1, <2>2, <2>3 DEF HasFiles
  <2>4. CASE MessageOf[i] \notin told
    <3>1. <<i, r.of>> \in Program!Followed(jobs') /\ i \notin group
      BY <1>6, <2>1, <2>2, <2>4
    <3>2. r \in ready'
      <4>1. PICK k \in DOMAIN jobs' : jobs'[k][2] = r.of
        BY <3>1, FollowedMeans
      <4>2. r \in ready \cup {[of |-> job, files |-> {}] : job \in cancelled}
        OBVIOUS
      <4> QED
        BY <1>1, <4>1, <4>2, Zenon DEF Program!Kept
    <3> QED
      BY <1>3, <2>1, <2>2, <3>1, <3>2
  <2> QED
    BY <2>3, <2>4
<1>9. UnderWay'
  <2>1. CASE cancelled = {}
    <3> SUFFICES ASSUME NEW i \in preparing \ stray
                 PROVE  item'[i] = "captured" /\ <<i, preparing>> \in Program!Followed(jobs')
      BY <1>1, <1>2, <2>1 DEF UnderWay
    <3>1. i \in Items /\ item[i] = "captured" /\ <<i, preparing>> \in Program!Followed(jobs)
      BY DEF UnderWay, ProgramShapes
    <3>2. MessageOf[i] \notin told
      BY <1>6, <2>1, <3>1 DEF Program!IsRunning
    <3> QED
      BY <1>3, <1>6, <3>1, <3>2
  <2>2. CASE cancelled # {}
    BY <1>2, <2>2 DEF UnderWay
  <2> QED
    BY <2>1, <2>2
<1>10. TurnIsAsked'
  BY <1>1, <1>3 DEF TurnIsAsked
<1>11. Program!NoChildIsLeft'
  BY <1>1, <1>2 DEF Program!NoChildIsLeft, Program!NoTurn
<1> QED
  BY <1>7, <1>8, <1>9, <1>10, <1>11

\* The child of the turn is started.
LEMMA SpawnKeeps ==
  ASSUME ProgramInv, Program!Spawn
  PROVE  ProgramInv'
<1> USE DEF ProgramInv
<1>1. ProgramShapes'
  BY DEF Program!Spawn, Program!process, Program!store, Program!preparation, ProgramShapes, Phases
<1>2. MadeIsFollowed'
  BY DEF Program!Spawn, Program!process, Program!store, Program!preparation, MadeIsFollowed, HasFiles
<1>3. UnderWay'
  BY DEF Program!Spawn, Program!process, Program!store, Program!preparation, UnderWay
<1>4. TurnIsAsked'
  BY DEF Program!Spawn, Program!process, Program!store, Program!preparation, TurnIsAsked,
     Program!NoTurn
<1>5. Program!NoChildIsLeft'
  BY DEF Program!Spawn, Program!process, Program!store, Program!preparation, Program!NoChildIsLeft
<1> QED
  BY <1>1, <1>2, <1>3, <1>4, <1>5 DEF ProgramInv

\* The handler is gone, and its turn is not.
LEMMA HandlerExitsKeeps ==
  ASSUME ProgramInv, Program!HandlerExits
  PROVE  ProgramInv'
<1> USE DEF ProgramInv
<1>1. ProgramShapes'
  BY DEF Program!HandlerExits, Program!process, Program!store, Program!preparation, ProgramShapes,
     Phases
<1>2. MadeIsFollowed'
  BY DEF Program!HandlerExits, Program!process, Program!store, Program!preparation, MadeIsFollowed,
     HasFiles
<1>3. UnderWay'
  BY DEF Program!HandlerExits, Program!process, Program!store, Program!preparation, UnderWay
<1>4. TurnIsAsked'
  BY DEF Program!HandlerExits, Program!process, Program!store, Program!preparation, TurnIsAsked,
     Program!NoTurn
<1>5. Program!NoChildIsLeft'
  BY DEF Program!HandlerExits, Program!process, Program!store, Program!preparation,
     Program!NoChildIsLeft
<1> QED
  BY <1>1, <1>2, <1>3, <1>4, <1>5 DEF ProgramInv

\* The artifacts of the turn are removed with its end.
LEMMA ResultKeeps ==
  ASSUME ProgramInv, NEW d \in {"reply", "declared"}, Program!Result(d)
  PROVE  ProgramInv'
<1> USE DEF ProgramInv
<1>1. ProgramShapes'
  BY DEF Program!Result, Program!Finish, Program!Discard, Program!process, Program!store,
     Program!preparation, ProgramShapes, Phases
<1>2. MadeIsFollowed'
  BY DEF Program!Result, Program!Finish, Program!Discard, Program!process, Program!store,
     Program!preparation, MadeIsFollowed, HasFiles
<1>3. UnderWay'
  BY DEF Program!Result, Program!Finish, Program!Discard, Program!process, Program!store,
     Program!preparation, UnderWay
<1>4. TurnIsAsked'
  BY DEF Program!Result, Program!Finish, Program!Discard, Program!process, Program!store,
     Program!preparation, TurnIsAsked, Program!NoTurn
<1>5. Program!NoChildIsLeft'
  BY DEF Program!Result, Program!Finish, Program!Discard, Program!process, Program!store,
     Program!preparation, Program!NoChildIsLeft
<1> QED
  BY <1>1, <1>2, <1>3, <1>4, <1>5 DEF ProgramInv

\* A turn that fails has its artifacts removed and its messages closed.
LEMMA FaultsKeeps ==
  ASSUME ProgramInv, turn.phase \in Phases, Program!Faults
  PROVE  ProgramInv'
<1> USE DEF ProgramInv
<1>1. ProgramShapes'
  BY DEF Program!Faults, Program!Finish, Program!Discard, Program!Closes, Program!NoTurn,
     Program!process, Program!preparation, ProgramShapes, Phases
<1>2. MadeIsFollowed'
  BY DEF Program!Faults, Program!Finish, Program!Discard, Program!Closes, Program!NoTurn,
     Program!process, Program!preparation, MadeIsFollowed, HasFiles,
     ProgramShapes, Phases, Jobs, TurnIsAsked
<1>3. UnderWay'
  BY DEF Program!Faults, Program!Finish, Program!Discard, Program!Closes, Program!NoTurn,
     Program!process, Program!preparation, UnderWay, ProgramShapes,
     Phases, Jobs, TurnIsAsked
<1>4. TurnIsAsked'
  BY DEF Program!Faults, Program!Finish, Program!Discard, Program!Closes, Program!NoTurn,
     Program!process, Program!preparation, TurnIsAsked
<1>5. Program!NoChildIsLeft'
  BY DEF Program!Faults, Program!Finish, Program!Discard, Program!Closes, Program!NoTurn,
     Program!process, Program!preparation, Program!NoChildIsLeft
<1> QED
  BY <1>1, <1>2, <1>3, <1>4, <1>5 DEF ProgramInv

\* The reply is written.
LEMMA WriteReplyKeeps ==
  ASSUME ProgramInv, Program!WriteReply
  PROVE  ProgramInv'
<1> USE DEF ProgramInv
<1>1. ProgramShapes'
  BY DEF Program!WriteReply, Program!process, Program!preparation, ProgramShapes, Phases
<1>2. MadeIsFollowed'
  BY DEF Program!WriteReply, Program!process, Program!preparation, MadeIsFollowed, HasFiles
<1>3. UnderWay'
  BY DEF Program!WriteReply, Program!process, Program!preparation, UnderWay
<1>4. TurnIsAsked'
  BY DEF Program!WriteReply, Program!process, Program!preparation, TurnIsAsked, Program!NoTurn
<1>5. Program!NoChildIsLeft'
  BY DEF Program!WriteReply, Program!process, Program!preparation, Program!NoChildIsLeft
<1> QED
  BY <1>1, <1>2, <1>3, <1>4, <1>5 DEF ProgramInv

\* The messages of the turn are closed.
LEMMA CloseKeeps ==
  ASSUME ProgramInv, Program!Close
  PROVE  ProgramInv'
<1> USE DEF ProgramInv
<1>1. ProgramShapes'
  BY DEF Program!Close, Program!Closes, Program!NoTurn, Program!process, Program!preparation,
     ProgramShapes, Phases
<1>2. MadeIsFollowed'
  BY DEF Program!Close, Program!Closes, Program!NoTurn, Program!process, Program!preparation,
     MadeIsFollowed, HasFiles, ProgramShapes,
     Phases, Jobs, TurnIsAsked
<1>3. UnderWay'
  BY DEF Program!Close, Program!Closes, Program!NoTurn, Program!process, Program!preparation,
     UnderWay, ProgramShapes, Phases, Jobs,
     TurnIsAsked
<1>4. TurnIsAsked'
  BY DEF Program!Close, Program!Closes, Program!NoTurn, Program!process, Program!preparation,
     TurnIsAsked
<1>5. Program!NoChildIsLeft'
  BY DEF Program!Close, Program!Closes, Program!NoTurn, Program!process, Program!preparation,
     Program!NoChildIsLeft
<1> QED
  BY <1>1, <1>2, <1>3, <1>4, <1>5 DEF ProgramInv

\* A reply is sent.
LEMMA DeliverKeeps ==
  ASSUME ProgramInv, Program!Deliver
  PROVE  ProgramInv'
<1> USE DEF ProgramInv
<1>1. ProgramShapes'
  BY DEF Program!Deliver, Program!process, Program!preparation, Program!taking, ProgramShapes, Phases
<1>2. MadeIsFollowed'
  BY DEF Program!Deliver, Program!process, Program!preparation, Program!taking, MadeIsFollowed,
     HasFiles, ProgramShapes, Phases, Jobs
<1>3. UnderWay'
  BY DEF Program!Deliver, Program!process, Program!preparation, Program!taking, UnderWay,
     ProgramShapes, Phases, Jobs
<1>4. TurnIsAsked'
  BY DEF Program!Deliver, Program!Idle, Program!process, Program!preparation, Program!taking,
     TurnIsAsked, Program!NoTurn
<1>5. Program!NoChildIsLeft'
  BY DEF Program!Deliver, Program!process, Program!preparation, Program!taking, Program!NoChildIsLeft
<1> QED
  BY <1>1, <1>2, <1>3, <1>4, <1>5 DEF ProgramInv

\* A stop is asked for.
LEMMA StopSignalKeeps ==
  ASSUME ProgramInv, Program!StopSignal
  PROVE  ProgramInv'
<1> USE DEF ProgramInv
<1>1. ProgramShapes'
  BY DEF Program!StopSignal, Program!store, Program!preparation, Program!taking, ProgramShapes, Phases
<1>2. MadeIsFollowed'
  BY DEF Program!StopSignal, Program!store, Program!preparation, Program!taking, MadeIsFollowed,
     HasFiles
<1>3. UnderWay'
  BY DEF Program!StopSignal, Program!store, Program!preparation, Program!taking, UnderWay
<1>4. TurnIsAsked'
  BY DEF Program!StopSignal, Program!store, Program!preparation, Program!taking, TurnIsAsked,
     Program!NoTurn
<1>5. Program!NoChildIsLeft'
  BY DEF Program!StopSignal, Program!store, Program!preparation, Program!taking, Program!NoChildIsLeft
<1> QED
  BY <1>1, <1>2, <1>3, <1>4, <1>5 DEF ProgramInv

\* What is there when the process goes is no release's to remove.
LEMMA GoneKeeps ==
  ASSUME ProgramInv, NEW given \in SUBSET Items, Program!Gone(given)
  PROVE  ProgramInv'
<1> USE DEF ProgramInv
<1>1. ProgramShapes'
  BY DEF Program!Gone, Program!store, Program!NoTurn, ProgramShapes, Phases
<1>2. MadeIsFollowed'
  BY DEF Program!Gone, Program!store, Program!NoTurn, MadeIsFollowed, HasFiles
<1>3. UnderWay'
  BY DEF Program!Gone, Program!store, Program!NoTurn, UnderWay
<1>4. TurnIsAsked'
  BY DEF Program!Gone, Program!store, Program!NoTurn, TurnIsAsked
<1>5. Program!NoChildIsLeft'
  BY DEF Program!Gone, Program!store, Program!NoTurn, Program!NoChildIsLeft
<1> QED
  BY <1>1, <1>2, <1>3, <1>4, <1>5 DEF ProgramInv

\* A start sweeps, and closes what was sent.
LEMMA StartKeeps ==
  ASSUME ProgramInv, Program!Start
  PROVE  ProgramInv'
<1> USE DEF ProgramInv
<1>1. ProgramShapes'
  BY DEF Program!Start, Program!preparation, Program!taking, Program!NoTurn, ProgramShapes, Phases
<1>2. MadeIsFollowed'
  BY DEF Program!Start, Program!preparation, Program!taking, Program!NoTurn, MadeIsFollowed,
     HasFiles, ProgramShapes, Phases, Jobs
<1>3. UnderWay'
  BY DEF Program!Start, Program!preparation, Program!taking, Program!NoTurn, UnderWay,
     ProgramShapes, Phases, Jobs
<1>4. TurnIsAsked'
  BY DEF Program!Start, Program!preparation, Program!taking, Program!NoTurn, TurnIsAsked
<1>5. Program!NoChildIsLeft'
  BY DEF Program!Start, Program!preparation, Program!taking, Program!NoTurn, Program!NoChildIsLeft
<1> QED
  BY <1>1, <1>2, <1>3, <1>4, <1>5 DEF ProgramInv

\* One step of the loop, a child, a delivery or the process.
LEMMA ProgramStep ==
  ProgramConstants /\ ProgramInv /\ [Program!Next]_(Program!progVars) => ProgramInv'
<1> SUFFICES ASSUME ProgramConstants, ProgramInv, [Program!Next]_(Program!progVars)
             PROVE  ProgramInv'
  OBVIOUS
<1>1. CASE UNCHANGED Program!progVars
  <2>1. UNCHANGED <<up, item, release, preparing, preparers, ready, jobs, prepared, turn, handlers,
          stray>>
    BY <1>1 DEF Program!progVars, Program!process, Program!store, Program!preparation, Program!taking
  <2> QED
    BY <2>1 DEF ProgramInv, ProgramShapes, MadeIsFollowed, HasFiles, UnderWay, TurnIsAsked,
       Program!NoChildIsLeft
<1>2. ASSUME NEW batch \in SUBSET Items, Program!Capture(batch)
      PROVE  ProgramInv'
  BY <1>2, CaptureKeeps
<1>3. CASE Program!Prepare
  BY <1>3, PrepareEndsKeeps DEF Program!Prepare
<1>4. CASE Program!Release
  <2>1. PICK group \in {Program!Quiet(c) : c \in {ConversationOf[i] : i \in Items}} \cup Program!Owed : Program!Ask(group)
    BY <1>4 DEF Program!Release
  <2>2. group \in SUBSET Items
    BY DEF Program!Quiet, Program!Owed, ProgramInv, ProgramShapes
  <2> QED
    BY <2>1, <2>2, AskKeeps
<1>5. CASE Program!Unspawned \/ Program!Fails \/ Program!Invalid \/ Program!Expires
  <2>1. Program!Faults
    BY <1>5, Zenon DEF Program!Unspawned, Program!Fails, Program!Invalid, Program!Expires
  <2> QED
    BY <2>1, FaultsKeeps DEF ProgramInv, ProgramShapes
<1>6. CASE Program!Settle
  BY <1>6, WriteReplyKeeps, CloseKeeps DEF Program!Settle
<1>7. CASE Program!Leave
  BY <1>7, GoneKeeps DEF Program!Leave
<1>8. ASSUME NEW given \in SUBSET preparing, Program!Kill(given)
      PROVE  ProgramInv'
  <2>1. given \in SUBSET Items /\ Program!Gone(given)
    BY <1>8 DEF Program!Kill, ProgramInv, ProgramShapes
  <2> QED
    BY <2>1, GoneKeeps
<1>9. CASE Program!Spawn \/ Program!HandlerExits
           \/ (\E d \in {"reply", "declared"} : Program!Result(d)) \/ Program!Deliver
              \/ Program!StopSignal \/ Program!Start
  BY <1>9, SpawnKeeps, HandlerExitsKeeps, ResultKeeps, DeliverKeeps, StopSignalKeeps, StartKeeps
<1> QED
  BY <1>1, <1>2, <1>3, <1>4, <1>5, <1>6, <1>7, <1>8, <1>9, Zenon DEF Program!Next

\* Nothing is captured, prepared or asked.
LEMMA ProgramStart ==
  ProgramConstants /\ Program!Init => ProgramInv
<1> SUFFICES ASSUME Program!Init
             PROVE  ProgramInv
  OBVIOUS
<1>1. <<>> \in Seq(Keys \X SUBSET Items)
  OBVIOUS
<1>2. ProgramShapes
  BY <1>1 DEF Program!Init, ProgramShapes, Program!NoTurn, Phases
<1> QED
  BY <1>2 DEF Program!Init, ProgramInv, MadeIsFollowed, UnderWay, TurnIsAsked,
     Program!NoChildIsLeft, Program!NoTurn

\* The invariant gives what is promised of a release.
LEMMA ProgramPromise ==
  ProgramInv => Program!NothingIsLeft
<1> SUFFICES ASSUME ProgramInv
             PROVE  Program!NothingIsLeft
  OBVIOUS
<1>1. turn = Program!NoTurn => ~HasFiles
  BY DEF HasFiles, Program!NoTurn
<1> QED
  BY <1>1 DEF ProgramInv, MadeIsFollowed, Program!NothingIsLeft, Program!ArtifactsGo

-----------------------------------------------------------------------------
(* The threads: the invariant.                                             *)

\* A line of the app-server, and a thread record.
Notes == [kind : {"note", "page"}, page : SUBSET Threads!Servers]
Records == [thread : Nat, completed : Nat]
LoopSteps == {"idle", "opening", "resuming", "reading", "turning"}

\* No announced change waits to be read.
NoNote == \A k \in DOMAIN wire : wire[k].kind = "page"

ThreadShapes ==
  /\ connected \in SUBSET Threads!Servers /\ holdFor \in SUBSET Threads!Servers
  /\ wire \in Seq(Notes) /\ pages \in Seq(SUBSET Threads!Servers)
  /\ opened \in Nat /\ fileOf \in [Units -> Records]
  /\ cached \in [Units -> Nat] /\ settled \in [Units -> Nat]
  /\ stale \in BOOLEAN /\ missed \in BOOLEAN
  /\ step \in LoopSteps /\ unit \in Units \cup {Threads!None}

\* What the loop awaits goes with the unit it has in hand.
InStep ==
  /\ step \in {"opening", "resuming", "turning"} => unit \in Units
  /\ step = "opening" => cached[unit] = 0 /\ fileOf[unit].completed = 0
  /\ step = "resuming" => fileOf[unit].completed > 0
  /\ step \in {"reading", "turning"} /\ unit # Threads!None => cached[unit] # 0

\* The map knows a unit's thread of the store or none, and a record with a
\* completed turn names a thread that has a rollout.
OfUnit ==
  \A u \in Units :
    /\ cached[u] \in {0, fileOf[u].thread}
    /\ fileOf[u].completed > 0 => fileOf[u].thread # 0 /\ fileOf[u].thread \in rollouts
    /\ settled[u] # 0 => settled[u] = fileOf[u].thread /\ fileOf[u].completed > 0

\* A page is on the wire only while the list is read, and one at a time.
PagesOnWire ==
  /\ step # "reading" => pages = <<>>
  /\ step = "reading" => Len(pages) < Len(Required)
  /\ Len(pages) <= Len(Required)
  /\ \A k \in DOMAIN wire : wire[k].kind = "page" => step = "reading"
  /\ \A j, k \in DOMAIN wire : wire[j].kind = "page" /\ wire[k].kind = "page" => j = k

\* With no change announced, the pages read and the one on the wire are true.
PagesAreCurrent ==
  step = "reading" /\ ~missed /\ NoNote =>
    /\ \A k \in DOMAIN pages : pages[k] = {Required[k]} \cap connected
    /\ \A k \in DOMAIN wire : wire[k].page = {Required[Len(pages) + 1]} \cap connected

\* With no change announced and none to look for, the hold is true.
HoldKnown == step # "reading" /\ ~missed /\ ~stale /\ NoNote => Threads!Current

ThreadsInv ==
  /\ ThreadShapes /\ InStep /\ OfUnit /\ Threads!ResumesWhatExists
  /\ PagesOnWire /\ PagesAreCurrent /\ HoldKnown

\* The list of required servers is a list, with a page for each.
ThreadsConstants == Required \in Seq(Threads!Servers) /\ Required # <<>> /\ Threads!None \notin Units

\* The types of the model say no more than what is kept.
LEMMA PagesFit ==
  ThreadsInv => Threads!TypeOK
BY DEF ThreadsInv, ThreadShapes, PagesOnWire, Threads!TypeOK, LoopSteps

\* What Append adds, and what it leaves as it is.
LEMMA Appends ==
  ASSUME NEW S, NEW s \in Seq(S), NEW e \in S
  PROVE  /\ Append(s, e) \in Seq(S) /\ Len(Append(s, e)) = Len(s) + 1
         /\ DOMAIN s = 1 .. Len(s) /\ DOMAIN Append(s, e) = 1 .. Len(s) + 1
         /\ \A k \in DOMAIN s : Append(s, e)[k] = s[k]
         /\ Append(s, e)[Len(s) + 1] = e
OBVIOUS

\* What is left of a line that has been read, and of two.
LEMMA Tails ==
  ASSUME NEW S, NEW s \in Seq(S), s # <<>>
  PROVE  /\ Tail(s) \in Seq(S) /\ Head(s) = s[1] /\ 1 \in DOMAIN s /\ Head(s) \in S
         /\ \A k \in DOMAIN Tail(s) : k + 1 \in DOMAIN s /\ Tail(s)[k] = s[k + 1] /\ k \in Nat
OBVIOUS

\* A line is the first or is left when the first is gone.
LEMMA Singly ==
  ASSUME NEW S, NEW s \in Seq(S), NEW k \in DOMAIN s, k # 1
  PROVE  k - 1 \in DOMAIN Tail(s) /\ Tail(s)[k - 1] = s[k]
OBVIOUS

\* The lines behind the second.
LEMMA Behind ==
  ASSUME NEW S, NEW s \in Seq(S), Len(s) > 1
  PROVE  /\ SubSeq(s, 3, Len(s)) \in Seq(S)
         /\ \A k \in DOMAIN SubSeq(s, 3, Len(s)) :
              k + 2 \in DOMAIN s /\ SubSeq(s, 3, Len(s))[k] = s[k + 2] /\ k \in Nat
<1>1. \A k \in 3 .. Len(s) : s[k] \in S
  OBVIOUS
<1>2. SubSeq(s, 3, Len(s)) \in Seq(S)
  BY <1>1, SubSeqProperties
<1>3. DOMAIN SubSeq(s, 3, Len(s)) = 1 .. (Len(s) + 1 - 3)
  BY SubSeqProperties
<1>4. \A k \in 1 .. (Len(s) + 1 - 3) : SubSeq(s, 3, Len(s))[k] = s[3 + k - 1]
  BY SubSeqProperties
<1>5. \A k \in 1 .. (Len(s) + 1 - 3) : k + 2 \in DOMAIN s /\ 3 + k - 1 = k + 2 /\ k \in Nat
  OBVIOUS
<1> QED
  BY <1>2, <1>3, <1>4, <1>5

\* A change is announced behind whatever is on the wire.
LEMMA ChangesKeeps ==
  ASSUME ThreadsInv, NEW s \in Threads!Servers, Threads!Changes(s)
  PROVE  ThreadsInv'
<1> USE DEF ThreadsInv, Threads!None
<1>1. UNCHANGED <<rollouts, opened, fileOf, cached, stale, holdFor, step, unit, pages, resumes,
        settled, missed>>
      /\ connected' \in SUBSET Threads!Servers
  BY DEF Threads!Changes, ThreadShapes
<1>2. wire' = Append(wire, [kind |-> "note", page |-> {}])
  BY DEF Threads!Changes
<1>3. wire' \in Seq(Notes) /\ Len(wire') = Len(wire) + 1 /\ DOMAIN wire = 1 .. Len(wire)
      /\ DOMAIN wire' = 1 .. Len(wire) + 1 /\ Len(wire) \in Nat
      /\ \A k \in DOMAIN wire : wire'[k] = wire[k]
      /\ wire'[Len(wire) + 1].kind = "note"
  <2>1. wire \in Seq(Notes) /\ [kind |-> "note", page |-> {}] \in Notes
    BY DEF ThreadShapes, Notes
  <2> QED
    BY <1>2, <2>1, Appends
<1>4. ThreadShapes'
  BY <1>1, <1>2, <1>3 DEF ThreadShapes, LoopSteps
<1>5. InStep'
  BY <1>1, <1>2, <1>3 DEF InStep
<1>6. OfUnit'
  BY <1>1, <1>2, <1>3 DEF OfUnit
<1>7. Threads!ResumesWhatExists'
  BY <1>1, <1>2, <1>3 DEF Threads!ResumesWhatExists
<1>8. PagesOnWire'
  BY <1>1, <1>2, <1>3 DEF PagesOnWire
<1>9. PagesAreCurrent'
  BY <1>1, <1>2, <1>3 DEF PagesAreCurrent, NoNote
<1>10. HoldKnown'
  BY <1>1, <1>2, <1>3 DEF HoldKnown, NoNote, Threads!Current
<1> QED
  BY <1>4, <1>5, <1>6, <1>7, <1>8, <1>9, <1>10 DEF ThreadsInv

\* The page is of the server that comes next, as it is now.
LEMMA PagesKeeps ==
  ASSUME ThreadsInv, Threads!Pages
  PROVE  ThreadsInv'
<1> USE DEF ThreadsInv, Threads!None
<1>1. UNCHANGED <<connected, rollouts, opened, fileOf, cached, stale, holdFor, step, unit, pages,
        resumes, settled, missed>> /\ step = "reading"
      /\ \A k \in DOMAIN wire : wire[k].kind = "note"
  BY DEF Threads!Pages, Threads!appServer
<1>2. wire' = Append(wire, [kind |-> "page", page |-> {Required[Len(pages) + 1]} \cap connected])
  BY DEF Threads!Pages
<1>3. wire' \in Seq(Notes) /\ Len(wire') = Len(wire) + 1 /\ DOMAIN wire = 1 .. Len(wire)
      /\ DOMAIN wire' = 1 .. Len(wire) + 1 /\ Len(wire) \in Nat
      /\ \A k \in DOMAIN wire : wire'[k] = wire[k]
      /\ wire'[Len(wire) + 1] = [kind |-> "page", page |-> {Required[Len(pages) + 1]} \cap connected]
  <2>1. wire \in Seq(Notes)
        /\ [kind |-> "page", page |-> {Required[Len(pages) + 1]} \cap connected] \in Notes
    BY DEF ThreadShapes, Notes
  <2> QED
    BY <1>2, <2>1, Appends
<1>4. ThreadShapes'
  BY <1>1, <1>2, <1>3 DEF ThreadShapes, LoopSteps
<1>5. InStep'
  BY <1>1, <1>2, <1>3 DEF InStep
<1>6. OfUnit'
  BY <1>1, <1>2, <1>3 DEF OfUnit
<1>7. Threads!ResumesWhatExists'
  BY <1>1, <1>2, <1>3 DEF Threads!ResumesWhatExists
<1>8. PagesOnWire'
  BY <1>1, <1>2, <1>3 DEF PagesOnWire
<1>9. PagesAreCurrent'
  BY <1>1, <1>2, <1>3 DEF PagesAreCurrent, NoNote
<1>10. HoldKnown'
  BY <1>1, <1>2, <1>3 DEF HoldKnown, NoNote, Threads!Current
<1> QED
  BY <1>4, <1>5, <1>6, <1>7, <1>8, <1>9, <1>10 DEF ThreadsInv

\* The handler raises the flag, and notes that a read was on.
LEMMA NotifiedKeeps ==
  ASSUME ThreadsInv, Threads!Notified
  PROVE  ThreadsInv'
<1> USE DEF ThreadsInv, Threads!None
<1>1. UNCHANGED <<connected, rollouts, opened, fileOf, cached, holdFor, step, unit, pages, resumes,
        settled>> /\ wire # <<>> /\ wire[1].kind = "note"
      /\ stale' = TRUE /\ missed' = (missed \/ step = "reading") /\ wire' = Tail(wire)
  BY Tails DEF Threads!Notified, Threads!Heard, Threads!appServer, ThreadShapes
<1>2. wire' \in Seq(Notes) /\ \A k \in DOMAIN wire' : k + 1 \in DOMAIN wire /\ wire'[k] = wire[k + 1]
      /\ k \in Nat
  BY <1>1, Tails DEF ThreadShapes
<1>3. ThreadShapes'
  BY <1>1, <1>2 DEF ThreadShapes, LoopSteps
<1>4. InStep'
  BY <1>1, <1>2 DEF InStep
<1>5. OfUnit'
  BY <1>1, <1>2 DEF OfUnit
<1>6. Threads!ResumesWhatExists'
  BY <1>1, <1>2 DEF Threads!ResumesWhatExists
<1>7. PagesOnWire'
  BY <1>1, <1>2 DEF PagesOnWire
<1>8. PagesAreCurrent'
  BY <1>1, <1>2 DEF PagesAreCurrent, NoNote
<1>9. HoldKnown'
  BY <1>1, <1>2 DEF HoldKnown, NoNote, Threads!Current
<1> QED
  BY <1>3, <1>4, <1>5, <1>6, <1>7, <1>8, <1>9 DEF ThreadsInv

\* A page is the truth while nothing was announced; the last one settles the hold.
LEMMA PageReadKeeps ==
  ASSUME ThreadsInv, ThreadsConstants, Threads!PageRead
  PROVE  ThreadsInv'
<1> USE DEF ThreadsInv, Threads!None
<1> DEFINE pagesRead == Append(pages, wire[1].page)
<1>1. UNCHANGED <<connected, rollouts, opened, fileOf, cached, resumes, settled>>
      /\ wire # <<>> /\ wire[1].kind = "page" /\ Head(wire) = wire[1]
         /\ wire[1].page \in SUBSET Threads!Servers
  <2>1. wire # <<>> /\ wire \in Seq(Notes)
    BY DEF Threads!PageRead, ThreadShapes
  <2>2. Head(wire) = wire[1] /\ Head(wire) \in Notes
    BY <2>1, Tails
  <2> QED
    BY <2>1, <2>2 DEF Threads!PageRead, Threads!appServer, Notes
<1>2. step = "reading" /\ Len(pages) \in Nat /\ Len(Required) \in Nat
      /\ 1 \in DOMAIN wire /\ \A k \in DOMAIN wire : wire[k].kind = "page" => k = 1
  BY <1>1, Tails DEF ThreadShapes, PagesOnWire, ThreadsConstants
<1>3. /\ pagesRead \in Seq(SUBSET Threads!Servers) /\ Len(pagesRead) = Len(pages) + 1
      /\ DOMAIN pages = 1 .. Len(pages) /\ DOMAIN pagesRead = 1 .. Len(pages) + 1
      /\ \A k \in DOMAIN pages : pagesRead[k] = pages[k]
      /\ pagesRead[Len(pages) + 1] = wire[1].page
  BY <1>1, Appends DEF ThreadShapes
<1>4. Tail(wire) \in Seq(Notes) /\ \A k \in DOMAIN Tail(wire) : k + 1 \in DOMAIN wire /\ k \in Nat
      /\ Tail(wire)[k] = wire[k + 1]
  BY <1>1, Tails DEF ThreadShapes
<1>5. \A k \in DOMAIN Tail(wire) : Tail(wire)[k].kind = "note"
  <2>1. \A k \in DOMAIN wire : wire[k] \in Notes
    BY DEF ThreadShapes
  <2> QED
    BY <1>2, <1>4, <2>1 DEF Notes
<1>6. ~missed /\ NoNote => \A k \in DOMAIN pagesRead : pagesRead[k] = {Required[k]} \cap connected
  BY <1>1, <1>2, <1>3 DEF PagesAreCurrent
<1>7. CASE Len(pages) + 1 < Len(Required)
  <2>1. UNCHANGED <<stale, holdFor, step, unit, missed>> /\ pages' = pagesRead /\ wire' = Tail(wire)
    BY <1>1, <1>7 DEF Threads!PageRead, Threads!LastPage, ThreadShapes
  <2>2. ThreadShapes'
    BY <1>1, <1>3, <1>4, <2>1 DEF ThreadShapes
  <2>3. InStep' /\ OfUnit' /\ Threads!ResumesWhatExists'
    BY <1>1, <2>1 DEF InStep, OfUnit, Threads!ResumesWhatExists
  <2>4. PagesOnWire'
    BY <1>2, <1>3, <1>5, <1>7, <2>1 DEF PagesOnWire
  <2>5. PagesAreCurrent'
    <3> SUFFICES ASSUME ~missed', NoNote'
                 PROVE  /\ \A k \in DOMAIN pages' : pages'[k] = {Required[k]} \cap connected'
                        /\ \A k \in DOMAIN wire' :
                             wire'[k].page = {Required[Len(pages') + 1]} \cap connected'
      BY DEF PagesAreCurrent
    <3>1. \A k \in DOMAIN wire' : FALSE
      BY <1>5, <2>1 DEF NoNote
    <3>2. \A k \in DOMAIN wire : k = 1 \/ k - 1 \in DOMAIN Tail(wire)
      BY <1>1, Tails DEF ThreadShapes
    <3>3. NoNote
      BY <1>1, <2>1, <3>1, <3>2 DEF NoNote
    <3> QED
      BY <1>1, <1>6, <2>1, <3>1, <3>3
  <2>6. HoldKnown'
    BY <1>2, <2>1 DEF HoldKnown
  <2> QED
    BY <2>2, <2>3, <2>4, <2>5, <2>6
<1>8. CASE Len(pages) + 1 = Len(Required)
  <2>1. PICK behind \in BOOLEAN : Threads!LastPage(behind) /\ (behind => Len(wire) > 1)
    <3>1. Threads!LastPage(FALSE) \/ (Len(wire) > 1 /\ Threads!LastPage(TRUE))
      <4>1. ~(Len(pages) + 1 < Len(Required))
        BY <1>8, <1>2
      <4> QED
        BY <4>1, Zenon DEF Threads!PageRead
    <3>2. CASE Threads!LastPage(FALSE)
      BY <3>2
    <3>3. CASE Len(wire) > 1 /\ Threads!LastPage(TRUE)
      BY <3>3
    <3> QED
      BY <3>1, <3>2, <3>3
  <2>2. /\ holdFor' = Threads!Down(pagesRead) /\ pages' = <<>> /\ stale' = FALSE
        /\ step' \in {"turning", "idle"} /\ unit' \in {unit, Threads!None}
        /\ step' = "turning" => unit # Threads!None /\ unit' = unit
        /\ missed' = (missed \/ behind)
        /\ wire' = IF behind THEN SubSeq(wire, 3, Len(wire)) ELSE Tail(wire)
    BY <1>1, <2>1 DEF Threads!LastPage
  <2>3. wire' \in Seq(Notes) /\ \A k \in DOMAIN wire' : wire'[k].kind = "note"
    <3>1. CASE ~behind
      BY <1>4, <1>5, <2>2, <3>1
    <3>2. CASE behind
      <4>1. wire \in Seq(Notes) /\ Len(wire) > 1
        BY <2>1, <3>2 DEF ThreadShapes
      <4>2. \A k \in DOMAIN wire : wire[k].kind = "note" \/ k = 1
        <5>1. \A k \in DOMAIN wire : wire[k] \in Notes
          BY <4>1
        <5> QED
          BY <1>2, <5>1 DEF Notes
      <4>3. /\ SubSeq(wire, 3, Len(wire)) \in Seq(Notes)
            /\ \A k \in DOMAIN SubSeq(wire, 3, Len(wire)) :
                 k + 2 \in DOMAIN wire /\ SubSeq(wire, 3, Len(wire))[k] = wire[k + 2] /\ k \in Nat
        BY <4>1, Behind
      <4>4. \A k \in DOMAIN SubSeq(wire, 3, Len(wire)) : k + 2 # 1
            /\ k \in DOMAIN SubSeq(wire, 3, Len(wire)) /\ k >= 1
        BY <4>1
      <4> QED
        BY <4>2, <4>3, <4>4, <2>2, <3>2
    <3> QED
      BY <3>1, <3>2
  <2>4. ThreadShapes'
    <3>1. <<>> \in Seq(SUBSET Threads!Servers)
      OBVIOUS
    <3>2. Threads!Down(pagesRead) \in SUBSET Threads!Servers
      BY DEF Threads!Down
    <3>3. unit' \in Units \cup {Threads!None} /\ missed' \in BOOLEAN /\ step' \in LoopSteps
      BY <2>2, <2>1 DEF ThreadShapes, LoopSteps
    <3> QED
      BY <1>1, <2>2, <2>3, <3>1, <3>2, <3>3 DEF ThreadShapes
  <2>5. InStep' /\ OfUnit' /\ Threads!ResumesWhatExists'
    BY <1>1, <1>2, <2>2 DEF InStep, OfUnit, Threads!ResumesWhatExists, ThreadShapes
  <2>6. PagesOnWire'
    BY <1>2, <2>2, <2>3 DEF PagesOnWire
  <2>7. PagesAreCurrent'
    BY <2>2 DEF PagesAreCurrent
  <2>8. HoldKnown'
    <3> SUFFICES ASSUME ~missed', NoNote'
                 PROVE  Threads!Current'
      BY DEF HoldKnown
    <3>1. ~missed /\ ~behind
      BY <2>2
    <3>2. NoNote
      BY <1>1, <1>2, <1>4, <1>5, <2>2, <3>1, Singly DEF NoNote, ThreadShapes
    <3>3. \A k \in DOMAIN pagesRead : pagesRead[k] = {Required[k]} \cap connected
      BY <1>6, <3>1, <3>2
    <3>4. DOMAIN pagesRead = DOMAIN Required
      BY <1>3, <1>8 DEF ThreadsConstants
    <3>5. UNION {pagesRead[k] : k \in DOMAIN pagesRead} = connected
      <4>1. connected \subseteq Threads!Servers
        BY DEF ThreadShapes
      <4>2. \A k \in DOMAIN pagesRead : pagesRead[k] \subseteq connected
        BY <3>3
      <4>3. \A s \in connected : \E k \in DOMAIN pagesRead : s \in pagesRead[k]
        BY <3>3, <3>4, <4>1 DEF Threads!Servers
      <4> QED
        BY <4>2, <4>3
    <3> QED
      BY <1>1, <2>2, <3>5 DEF Threads!Current, Threads!Down
  <2> QED
    BY <2>4, <2>5, <2>6, <2>7, <2>8
<1> QED
  BY <1>7, <1>8, <1>2 DEF Threads!PageRead

\* The list is read from its first page.
LEMMA ReadStatusKeeps ==
  ASSUME ThreadsInv, ThreadsConstants, Threads!ReadStatus
  PROVE  ThreadsInv'
<1> USE DEF ThreadsInv, Threads!None
<1>1. Len(<<>>) = 0 /\ DOMAIN <<>> = {} /\ Len(Required) > 0 /\ Len(Required) \in Nat
  BY DEF ThreadsConstants
<1>2. ThreadShapes'
  BY <1>1 DEF Threads!ReadStatus, Threads!appServer, ThreadShapes, LoopSteps
<1>3. InStep'
  BY <1>1 DEF Threads!ReadStatus, Threads!appServer, InStep
<1>4. OfUnit'
  BY <1>1 DEF Threads!ReadStatus, Threads!appServer, OfUnit
<1>5. Threads!ResumesWhatExists'
  BY <1>1 DEF Threads!ReadStatus, Threads!appServer, Threads!ResumesWhatExists
<1>6. PagesOnWire'
  BY <1>1 DEF Threads!ReadStatus, Threads!appServer, PagesOnWire
<1>7. PagesAreCurrent'
  BY <1>1 DEF Threads!ReadStatus, Threads!appServer, PagesAreCurrent, NoNote, ThreadShapes, Notes,
     Records,
     LoopSteps, PagesOnWire
<1>8. HoldKnown'
  BY <1>1 DEF Threads!ReadStatus, Threads!appServer, HoldKnown, NoNote, Threads!Current
<1> QED
  BY <1>2, <1>3, <1>4, <1>5, <1>6, <1>7, <1>8 DEF ThreadsInv

\* A unit goes on in its thread, in the one on record or in a new one.
LEMMA ReleaseKeeps ==
  ASSUME ThreadsInv, NEW u \in Units, Threads!Release(u)
  PROVE  ThreadsInv'
<1> USE DEF ThreadsInv, Threads!None
<1>1. ThreadShapes'
  BY DEF Threads!Release, Threads!appServer, Threads!MayRelease, Threads!Continues, Threads!Known,
     ThreadShapes, LoopSteps
<1>2. InStep'
  BY DEF Threads!Release, Threads!appServer, Threads!MayRelease, Threads!Continues, Threads!Known,
     InStep, ThreadShapes, Notes, Records,
     LoopSteps, OfUnit
<1>3. OfUnit'
  BY DEF Threads!Release, Threads!appServer, Threads!MayRelease, Threads!Continues, Threads!Known,
     OfUnit
<1>4. Threads!ResumesWhatExists'
  BY DEF Threads!Release, Threads!appServer, Threads!MayRelease, Threads!Continues, Threads!Known,
     Threads!ResumesWhatExists, ThreadShapes, Notes,
     Records, LoopSteps, OfUnit, InStep
<1>5. PagesOnWire'
  BY DEF Threads!Release, Threads!appServer, Threads!MayRelease, Threads!Continues, Threads!Known,
     PagesOnWire
<1>6. PagesAreCurrent'
  BY DEF Threads!Release, Threads!appServer, Threads!MayRelease, Threads!Continues, Threads!Known,
     PagesAreCurrent, NoNote
<1>7. HoldKnown'
  BY DEF Threads!Release, Threads!appServer, Threads!MayRelease, Threads!Continues, Threads!Known,
     HoldKnown, NoNote, Threads!Current
<1> QED
  BY <1>1, <1>2, <1>3, <1>4, <1>5, <1>6, <1>7 DEF ThreadsInv

\* A new thread is on record before anything is asked of it.
LEMMA OpenedKeeps ==
  ASSUME ThreadsInv, ThreadsConstants, Threads!Opened
  PROVE  ThreadsInv'
<1> USE DEF ThreadsInv, Threads!None
<1>1. Len(<<>>) = 0 /\ DOMAIN <<>> = {} /\ Len(Required) > 0 /\ Len(Required) \in Nat
  BY DEF ThreadsConstants
<1>2. ThreadShapes'
  <2>1. opened' \in Nat /\ fileOf' \in [Units -> Records] /\ cached' \in [Units -> Nat]
    <3>1. [thread |-> opened', completed |-> 0] \in Records /\ opened' \in Nat
      BY DEF Threads!Opened, ThreadShapes, Records
    <3> QED
      BY <3>1 DEF Threads!Opened, ThreadShapes
  <2> QED
    BY <2>1 DEF Threads!Opened, ThreadShapes, LoopSteps
<1>3. InStep'
  BY <1>1 DEF Threads!Opened, InStep, ThreadShapes, Notes, Records, LoopSteps
<1>4. OfUnit'
  BY <1>1 DEF Threads!Opened, OfUnit, ThreadShapes, Notes, Records, LoopSteps, InStep
<1>5. Threads!ResumesWhatExists'
  BY <1>1 DEF Threads!Opened, Threads!ResumesWhatExists
<1>6. PagesOnWire'
  BY <1>1 DEF Threads!Opened, PagesOnWire
<1>7. PagesAreCurrent'
  BY <1>1 DEF Threads!Opened, PagesAreCurrent, NoNote, ThreadShapes, Notes, Records, LoopSteps,
     PagesOnWire
<1>8. HoldKnown'
  BY <1>1 DEF Threads!Opened, HoldKnown, NoNote, Threads!Current
<1> QED
  BY <1>2, <1>3, <1>4, <1>5, <1>6, <1>7, <1>8 DEF ThreadsInv

\* The thread of the record is in the map.
LEMMA ResumedKeeps ==
  ASSUME ThreadsInv, ThreadsConstants, Threads!Resumed
  PROVE  ThreadsInv'
<1> USE DEF ThreadsInv, Threads!None
<1>1. Len(<<>>) = 0 /\ DOMAIN <<>> = {} /\ Len(Required) > 0 /\ Len(Required) \in Nat
  BY DEF ThreadsConstants
<1>2. ThreadShapes'
  BY <1>1 DEF Threads!Resumed, Threads!appServer, ThreadShapes, LoopSteps, Notes, Records
<1>3. InStep'
  BY <1>1 DEF Threads!Resumed, Threads!appServer, InStep, ThreadShapes, Notes, Records, LoopSteps,
     OfUnit
<1>4. OfUnit'
  BY <1>1 DEF Threads!Resumed, Threads!appServer, OfUnit
<1>5. Threads!ResumesWhatExists'
  BY <1>1 DEF Threads!Resumed, Threads!appServer, Threads!ResumesWhatExists
<1>6. PagesOnWire'
  BY <1>1 DEF Threads!Resumed, Threads!appServer, PagesOnWire
<1>7. PagesAreCurrent'
  BY <1>1 DEF Threads!Resumed, Threads!appServer, PagesAreCurrent, NoNote, ThreadShapes, Notes,
     Records,
     LoopSteps, PagesOnWire
<1>8. HoldKnown'
  BY <1>1 DEF Threads!Resumed, Threads!appServer, HoldKnown, NoNote, Threads!Current
<1> QED
  BY <1>2, <1>3, <1>4, <1>5, <1>6, <1>7, <1>8 DEF ThreadsInv

\* A thread has a rollout from its first turn.
LEMMA NativeTurnKeeps ==
  ASSUME ThreadsInv, Threads!NativeTurn
  PROVE  ThreadsInv'
<1> USE DEF ThreadsInv, Threads!None
<1>1. ThreadShapes'
  BY DEF Threads!NativeTurn, ThreadShapes, LoopSteps
<1>2. InStep'
  BY DEF Threads!NativeTurn, InStep
<1>3. OfUnit'
  BY DEF Threads!NativeTurn, OfUnit
<1>4. Threads!ResumesWhatExists'
  BY DEF Threads!NativeTurn, Threads!ResumesWhatExists
<1>5. PagesOnWire'
  BY DEF Threads!NativeTurn, PagesOnWire
<1>6. PagesAreCurrent'
  BY DEF Threads!NativeTurn, PagesAreCurrent, NoNote
<1>7. HoldKnown'
  BY DEF Threads!NativeTurn, HoldKnown, NoNote, Threads!Current
<1> QED
  BY <1>1, <1>2, <1>3, <1>4, <1>5, <1>6, <1>7 DEF ThreadsInv

\* The turn is counted in the record of the thread that took it.
LEMMA TurnEndsKeeps ==
  ASSUME ThreadsInv, ThreadsConstants, Threads!TurnEnds
  PROVE  ThreadsInv'
<1> USE DEF ThreadsInv, Threads!None
<1>1. ThreadShapes'
  <2>1. unit \in Units /\ cached[unit] \in Nat
    BY DEF Threads!TurnEnds, InStep, ThreadShapes
  <2>2. fileOf' \in [Units -> Records] /\ settled' \in [Units -> Nat]
    <3>1. CASE UNCHANGED <<fileOf, settled>>
      BY <3>1 DEF ThreadShapes
    <3>2. CASE /\ fileOf' = [fileOf EXCEPT ![unit].completed = @ + 1]
               /\ settled' = [settled EXCEPT ![unit] = IF @ = 0 THEN cached[unit] ELSE @]
      <4>1. fileOf[unit] \in Records
        BY <2>1 DEF ThreadShapes
      <4>2. [fileOf[unit] EXCEPT !.completed = @ + 1] \in Records
        BY <4>1 DEF Records
      <4>3. fileOf' = [fileOf EXCEPT ![unit] = [fileOf[unit] EXCEPT !.completed = @ + 1]]
        BY <3>2
      <4> QED
        BY <2>1, <3>2, <4>2, <4>3 DEF ThreadShapes
    <3> QED
      BY <3>1, <3>2 DEF Threads!TurnEnds
  <2> QED
    BY <2>2 DEF Threads!TurnEnds, Threads!appServer, ThreadShapes, LoopSteps
<1>2. InStep'
  BY DEF Threads!TurnEnds, Threads!appServer, InStep
<1>3. OfUnit'
  <2>1. unit \in Units /\ cached[unit] = fileOf[unit].thread /\ cached[unit] # 0
        /\ cached[unit] \in rollouts
    BY DEF Threads!TurnEnds, InStep, OfUnit, ThreadsConstants
  <2>2. CASE UNCHANGED <<fileOf, settled>>
    BY <2>2 DEF Threads!TurnEnds, Threads!appServer, OfUnit
  <2>3. CASE /\ fileOf' = [fileOf EXCEPT ![unit].completed = @ + 1]
             /\ settled' = [settled EXCEPT ![unit] = IF @ = 0 THEN cached[unit] ELSE @]
    <3>1. \A u \in Units : fileOf'[u].thread = fileOf[u].thread
                          /\ (u # unit => fileOf'[u] = fileOf[u] /\ settled'[u] = settled[u])
      BY <2>3 DEF ThreadShapes, Records
    <3>2. fileOf'[unit].completed > 0 /\ settled'[unit] \in {settled[unit], cached[unit]}
      BY <2>1, <2>3 DEF ThreadShapes, Records
    <3>3. UNCHANGED <<cached, rollouts>>
      BY DEF Threads!TurnEnds, Threads!appServer
    <3> QED
      BY <2>1, <3>1, <3>2, <3>3 DEF OfUnit
  <2> QED
    BY <2>2, <2>3 DEF Threads!TurnEnds
<1>4. Threads!ResumesWhatExists'
  BY DEF Threads!TurnEnds, Threads!appServer, Threads!ResumesWhatExists
<1>5. PagesOnWire'
  BY DEF Threads!TurnEnds, Threads!appServer, PagesOnWire
<1>6. PagesAreCurrent'
  BY DEF Threads!TurnEnds, Threads!appServer, PagesAreCurrent, NoNote
<1>7. HoldKnown'
  BY DEF Threads!TurnEnds, Threads!appServer, HoldKnown, NoNote, Threads!Current
<1> QED
  BY <1>1, <1>2, <1>3, <1>4, <1>5, <1>6, <1>7 DEF ThreadsInv

\* What the store and the app-server keep outlives them.
LEMMA DiesKeeps ==
  ASSUME ThreadsInv, ThreadsConstants, Threads!Dies
  PROVE  ThreadsInv'
<1> USE DEF ThreadsInv, Threads!None
<1>1. <<>> \in Seq(Notes) /\ <<>> \in Seq(SUBSET Threads!Servers)
  OBVIOUS
<1>2. Len(<<>>) = 0 /\ DOMAIN <<>> = {} /\ Len(Required) > 0 /\ Len(Required) \in Nat
  BY DEF ThreadsConstants
<1>3. ThreadShapes'
  <2>1. opened' \in Nat /\ cached' \in [Units -> Nat] /\ {} \in SUBSET Threads!Servers
    BY DEF Threads!Dies, ThreadShapes
  <2> QED
    BY <1>1, <2>1 DEF Threads!Dies, ThreadShapes, LoopSteps
<1>4. InStep'
  BY <1>1, <1>2 DEF Threads!Dies, InStep
<1>5. OfUnit'
  BY <1>1, <1>2 DEF Threads!Dies, OfUnit
<1>6. Threads!ResumesWhatExists'
  BY <1>1, <1>2 DEF Threads!Dies, Threads!ResumesWhatExists
<1>7. PagesOnWire'
  BY <1>1, <1>2 DEF Threads!Dies, PagesOnWire
<1>8. PagesAreCurrent'
  BY <1>1, <1>2 DEF Threads!Dies, PagesAreCurrent, NoNote
<1>9. HoldKnown'
  BY <1>1, <1>2 DEF Threads!Dies, HoldKnown, NoNote, Threads!Current
<1> QED
  BY <1>3, <1>4, <1>5, <1>6, <1>7, <1>8, <1>9 DEF ThreadsInv

\* Whatever the loop, the harness and the deaths of both do keeps the invariant.
LEMMA ThreadsStep ==
  ThreadsConstants /\ ThreadsInv /\ [Threads!Next]_(Threads!vars) => ThreadsInv'
<1> SUFFICES ASSUME ThreadsConstants, ThreadsInv, [Threads!Next]_(Threads!vars)
             PROVE  ThreadsInv'
  OBVIOUS
<1>1. CASE UNCHANGED Threads!vars
  BY <1>1 DEF Threads!vars, ThreadsInv, ThreadShapes, InStep, OfUnit, Threads!ResumesWhatExists,
     PagesOnWire,
     PagesAreCurrent, HoldKnown, NoNote, Threads!Current
<1>2. CASE Threads!Next
  BY <1>2, ChangesKeeps, PagesKeeps, NotifiedKeeps, PageReadKeeps, ReadStatusKeeps,
     ReleaseKeeps, OpenedKeeps, ResumedKeeps, NativeTurnKeeps, TurnEndsKeeps, DiesKeeps
     DEF Threads!Next
<1> QED
  BY <1>1, <1>2

\* The loop begins with no thread and nothing on the wire.
LEMMA ThreadsStart ==
  ThreadsConstants /\ Threads!Init => ThreadsInv
<1> SUFFICES ASSUME ThreadsConstants, Threads!Init
             PROVE  ThreadsInv
  OBVIOUS
<1>1. Len(<<>>) = 0 /\ DOMAIN <<>> = {} /\ Len(Required) \in Nat
  BY DEF ThreadsConstants
<1>2. ThreadShapes
  <2>1. <<>> \in Seq(Notes) /\ <<>> \in Seq(SUBSET Threads!Servers)
    OBVIOUS
  <2>2. Threads!NoFile \in Records
    BY DEF Threads!NoFile, Records
  <2>3. Threads!Servers \in SUBSET Threads!Servers /\ {} \in SUBSET Threads!Servers
        /\ Threads!None \in Units \cup {Threads!None}
    OBVIOUS
  <2> QED
    BY <2>1, <2>2, <2>3 DEF Threads!Init, ThreadShapes, LoopSteps
<1>3. InStep /\ OfUnit /\ Threads!ResumesWhatExists
  BY <1>1 DEF Threads!Init, Threads!NoFile, InStep, OfUnit, Threads!ResumesWhatExists, Threads!None
<1>4. PagesOnWire /\ PagesAreCurrent /\ HoldKnown
  BY <1>1 DEF Threads!Init, PagesOnWire, PagesAreCurrent, HoldKnown, Threads!Current
<1> QED
  BY <1>2, <1>3, <1>4 DEF ThreadsInv

\* The invariant gives what is promised of the loop and its harness.
LEMMA ThreadsPromise ==
  ThreadsConstants /\ ThreadsInv => Threads!LoopKnowsItsHarness
<1> SUFFICES ASSUME ThreadsInv
             PROVE  Threads!LoopKnowsItsHarness
  OBVIOUS
<1>1. Threads!TypeOK /\ Threads!ResumesWhatExists
  BY PagesFit DEF ThreadsInv
<1>2. Threads!StaysInItsThread
  BY DEF ThreadsInv, OfUnit, Threads!StaysInItsThread
<1>3. Threads!HoldIsCurrent
  <2>1. wire = <<>> => NoNote
    BY DEF NoNote
  <2> QED
    BY <2>1 DEF ThreadsInv, HoldKnown, Threads!HoldIsCurrent, Threads!Still
<1> QED
  BY <1>1, <1>2, <1>3 DEF Threads!LoopKnowsItsHarness

-----------------------------------------------------------------------------
(* The signal: the invariant.                                              *)

Signals == [n : Nat, asked : {"composing", "paused"}, landed : BOOLEAN, bounded : BOOLEAN]

\* A call on its way that will tell the provider, or see it told, to pause.
WillPause(c) == c.asked = "composing" \/ (c.asked = "paused" /\ ~c.landed)

TypingInv ==
  /\ calls \subseteq Signals /\ signals \in Nat /\ refused \in BOOLEAN
  /\ shown \in {"composing", "paused"}
  /\ ended \in BOOLEAN /\ (ended => started)
  /\ ended => shown = "paused" \/ refused \/ \E c \in calls : WillPause(c)

\* A call made is on its way, and the provider has not seen it.
LEMMA Issues ==
  ASSUME NEW asked \in {"composing", "paused"}, NEW others \in SUBSET Signals,
         signals \in Nat, Typing!Issue(asked, others)
  PROVE  /\ signals' \in Nat /\ others \subseteq calls' /\ calls' \subseteq Signals
         /\ \E c \in calls' : WillPause(c)
<1>1. PICK b \in BOOLEAN : b = (asked = "composing")
  OBVIOUS
<1> DEFINE c == [n |-> signals, asked |-> asked, landed |-> FALSE, bounded |-> b]
<1>2. c \in Signals
  BY <1>1 DEF Signals
<1>3. calls' = others \cup {c} /\ signals' = signals + 1
  BY <1>1, Zenon DEF Typing!Issue
<1>4. WillPause(c)
  BY DEF WillPause
<1> HIDE DEF c
<1> QED
  BY <1>2, <1>3, <1>4

\* One step of the handle, its timer or the provider.
LEMMA TypingStep ==
  TypingInv /\ [Typing!Next]_(Typing!typingVars) => TypingInv'
<1> SUFFICES ASSUME TypingInv, [Typing!Next]_(Typing!typingVars)
             PROVE  TypingInv'
  OBVIOUS
<1>1. CASE UNCHANGED Typing!typingVars
  BY <1>1 DEF Typing!typingVars, TypingInv
<1>2. CASE Typing!Begin
  <2>1. Typing!Issue("composing", calls) /\ started' = TRUE /\ UNCHANGED <<ended, shown, refused>>
        /\ ~ended
    BY <1>2, Zenon DEF Typing!Begin, TypingInv
  <2>2. calls' \subseteq Signals /\ signals' \in Nat
    BY <2>1, Issues DEF TypingInv
  <2> QED
    BY <2>1, <2>2, Zenon DEF TypingInv
<1>3. CASE Typing!Tick
  <2>1. Typing!Issue("composing", calls) /\ UNCHANGED <<started, ended, shown, refused>> /\ ~ended
    BY <1>3, Zenon DEF Typing!Tick
  <2>2. calls' \subseteq Signals /\ signals' \in Nat
    BY <2>1, Issues DEF TypingInv
  <2> QED
    BY <2>1, <2>2, Zenon DEF TypingInv
<1>4. CASE Typing!Stop
  <2>1. Typing!Issue("paused", calls) /\ UNCHANGED <<started, shown, refused>> /\ started
        /\ ended' = TRUE
    BY <1>4, Zenon DEF Typing!Stop
  <2>2. calls' \subseteq Signals /\ signals' \in Nat /\ \E c \in calls' : WillPause(c)
    BY <2>1, Issues DEF TypingInv
  <2> QED
    BY <2>1, <2>2, Zenon DEF TypingInv
<1>5. ASSUME NEW c \in calls, Typing!Bound(c)
      PROVE  TypingInv'
  <2>1. [c EXCEPT !.bounded = FALSE] \in Signals
        /\ (WillPause(c) => WillPause([c EXCEPT !.bounded = FALSE]))
    BY DEF TypingInv, Signals, WillPause
  <2>2. \A d \in calls : WillPause(d) => \E e \in calls' : WillPause(e)
    BY <1>5, <2>1 DEF Typing!Bound
  <2> QED
    BY <1>5, <2>1, <2>2 DEF Typing!Bound, TypingInv
<1>6. ASSUME NEW c \in calls, Typing!Land(c)
      PROVE  TypingInv'
  <2>1. [c EXCEPT !.landed = TRUE] \in Signals
        /\ (c.asked = "composing" => WillPause([c EXCEPT !.landed = TRUE]))
    BY DEF TypingInv, Signals, WillPause
  <2>2. c.asked \in {"composing", "paused"}
    BY DEF TypingInv, Signals
  <2> QED
    BY <1>6, <2>1, <2>2 DEF Typing!Land, TypingInv
<1>7. ASSUME NEW c \in calls, Typing!Settle(c)
      PROVE  TypingInv'
  <2>1. c \in Signals /\ UNCHANGED <<started, ended, shown>>
    BY <1>7 DEF Typing!Settle, TypingInv
  <2>2. CASE c.asked = "composing" /\ ended
    <3>1. Typing!Issue("paused", calls \ {c})
      BY <1>7, <2>2 DEF Typing!Settle, Typing!Repeats
    <3>2. calls' \subseteq Signals /\ signals' \in Nat /\ \E d \in calls' : WillPause(d)
      BY <3>1, Issues DEF TypingInv
    <3>3. refused' = (refused \/ (c.asked = "paused" /\ ~c.landed))
      BY <1>7, Zenon DEF Typing!Settle
    <3>4. refused' \in BOOLEAN
      BY <2>2, <3>3 DEF TypingInv
    <3> QED
      BY <2>1, <3>2, <3>4, Zenon DEF TypingInv
  <2>3. CASE ~(c.asked = "composing" /\ ended)
    <3>1. calls' = calls \ {c} /\ UNCHANGED signals
          /\ refused' = (refused \/ (c.asked = "paused" /\ ~c.landed))
      BY <1>7, <2>3 DEF Typing!Settle, Typing!Repeats
    <3> QED
      BY <2>1, <2>3, <3>1 DEF TypingInv, WillPause
  <2> QED
    BY <2>2, <2>3
<1> QED
  BY <1>1, <1>2, <1>3, <1>4, <1>5, <1>6, <1>7 DEF Typing!Next

\* The handle is not there yet.
LEMMA TypingStart ==
  Typing!Init => TypingInv
<1> SUFFICES ASSUME Typing!Init
             PROVE  TypingInv
  OBVIOUS
<1>1. calls \subseteq Signals /\ signals \in Nat /\ shown \in {"composing", "paused"}
  BY DEF Typing!Init
<1>2. refused = FALSE /\ ended = FALSE
  BY DEF Typing!Init
<1> QED
  BY <1>1, <1>2, Zenon DEF TypingInv

\* The invariant gives what is promised of the signal.
LEMMA TypingPromise ==
  TypingInv => Typing!EndsPaused
BY DEF TypingInv, Typing!EndsPaused

-----------------------------------------------------------------------------
(* The mail: the invariant.                                                *)

Fetched == [mail : Mails, uid : Nat, pos : Nat]
CursorKinds == {"message", "revision"}
Capturing == {"write", "cursor", "consume"}

\* The place of a mail now, and the highest there is.
PosOf(uid) == IF Api THEN uid ELSE Mailbox!Position(validity, uid)
Top == PosOf(Len(box))
StillPlaced(i) == i.pos = PosOf(i.uid)

BoxShapes ==
  /\ Api \in BOOLEAN /\ box \in Seq(Mails) /\ validity \in Nat /\ live \in Nat /\ live <= validity
  /\ IsFiniteSet(Mailbox!Arrived) /\ Cardinality(Mailbox!Arrived) = Len(box)
  /\ Api => flagged = {} /\ live = 0
  /\ todo \subseteq DOMAIN box /\ items \subseteq Fetched

StepShapes ==
  /\ at \in {"idle", "search", "unseen", "list", "fetch", "taken"} \cup Capturing
  /\ at \notin {"fetch", "taken"} => items = {}
  /\ at \in {"search", "unseen"} => ~Api
  /\ at = "list" => Api /\ \E n \in Nat : todo = (watermark + 1) .. (watermark + n)
  /\ at = "taken" => todo = {}
  /\ at \notin Capturing => due = {}
  /\ at \in {"write", "cursor"} => waiting # {}
  /\ at = "consume" => waiting = {} /\ due # {}

StoreShapes ==
  /\ waiting \subseteq due /\ due \subseteq Fetched
  /\ watermark \in Nat /\ watermark <= Top
  /\ mailCursor \in [Mailbox!Convs -> [CursorKinds -> Nat]]
  /\ \A c \in Mailbox!Convs, k \in CursorKinds : mailCursor[c][k] <= Top
  /\ \A r \in mails : r.rev \in Nat /\ (r.rev = 0 => r.key = <<ConvOf[r.of], r.of>>)
  /\ \E n \in Nat : \A r \in mails : r.rev <= n

\* What was fetched is of the numbers the poll began with, or the mailbox has new ones.
ItemsArePlaced ==
  \A i \in items : /\ i.uid \in DOMAIN box /\ i.mail \in Mailbox!Arrived
                   /\ i.pos = IF Api THEN i.uid ELSE Mailbox!Position(live, i.uid)
                   /\ Api \/ live = validity => box[i.uid] = i.mail
OwedIsPlaced ==
  \A i \in due : \/ StillPlaced(i) /\ i.uid \in DOMAIN box /\ box[i.uid] = i.mail
                 \/ ~Api /\ i.pos < Mailbox!Position(validity, 0)

\* A plan is of its mail, and two of one revision are known as twins.
PlanIsTrue ==
  /\ \A i \in due : /\ i \in DOMAIN revision
                    /\ revision[i].of = i.mail /\ revision[i].kind \in CursorKinds
                       /\ revision[i].rev \in Nat
                    /\ IF revision[i].kind = "revision" THEN revision[i].rev > 0
                       ELSE revision[i].rev = 0 /\ revision[i].key = <<ConvOf[i.mail], i.mail>>
  /\ \A i, k \in due : revision[i].kind = "revision" /\ revision[k].kind = "revision"
                        /\ revision[i].key = revision[k].key /\ i.mail # k.mail => i.mail \in twins
  /\ \A i \in waiting, r \in mails :
       r.key = revision[i].key /\ r.rev = revision[i].rev => r.of = i.mail \/ i.mail \in twins
  /\ at = "cursor" => LET m == Mailbox!NextOf(waiting).mail IN Mailbox!Recorded(m) \/ m \in twins

KeptOrExcepted(m) == Mailbox!Recorded(m) \/ m \in twins \cup overtaken
ToBeParked(uid) == box[uid] \in Unreadable /\ \E k \in waiting : k.uid = uid /\ StillPlaced(k)

\* A mark has passed nothing, nor has a cursor but what a later step parks.
MarkIsTrue ==
  \A uid \in DOMAIN box : PosOf(uid) <= watermark => KeptOrExcepted(box[uid])
CursorsAreTrue ==
  \A uid \in DOMAIN box, k \in CursorKinds :
    PosOf(uid) <= mailCursor[ConvOf[box[uid]]][k] /\ (box[uid] \in Unreadable => k = "message") =>
      KeptOrExcepted(box[uid]) \/ ToBeParked(uid)

\* A poll takes mails in order and leaves none out; so does what it hands to the store.
PollIsWhole ==
  at \in {"unseen", "list", "fetch", "taken"} /\ (Api \/ live = validity) =>
    \A uid \in DOMAIN box, n \in todo \cup {i.uid : i \in items} :
      uid <= n => KeptOrExcepted(box[uid]) \/ uid \in todo \/ \E i \in items : i.uid = uid
BatchIsWhole ==
  \A uid \in DOMAIN box, i \in due : StillPlaced(i) /\ uid <= i.uid =>
    KeptOrExcepted(box[uid]) \/ \E k \in waiting : k.uid = uid /\ StillPlaced(k)

\* A mail is flagged by the person, by a poll that did not end, or by the one under way,
\* which knows to take the flag off.
Excused == readBy \cup spoiled
FlagsAreOwed ==
  /\ flagged \subseteq Excused \cup IF at = "fetch" THEN {i.mail : i \in items} ELSE {}
  /\ at = "fetch" /\ ~Api =>
       /\ \A uid \in todo : uid \in unread \/ box[uid] \in Excused
       /\ \A i \in items : (i.uid \in unread /\ box[i.uid] = i.mail) \/ i.mail \in Excused

MailInv ==
  /\ BoxShapes /\ StepShapes /\ StoreShapes /\ ItemsArePlaced /\ OwedIsPlaced /\ PlanIsTrue
  /\ MarkIsTrue /\ CursorsAreTrue /\ PollIsWhole /\ BatchIsWhole /\ FlagsAreOwed

\* The mails are fewer than a position has room for.
MailConstants == IsFiniteSet(Mails) /\ Cardinality(Mails) < 100 /\ PageSize \in Nat

\* Of what was fetched there is a first, and Least is the least.
LEMMA FirstIs ==
  ASSUME NEW S \in SUBSET Fetched, S # {}
  PROVE  Mailbox!First(S) \in S /\ \A k \in S : Mailbox!First(S).pos <= k.pos
<1> DEFINE positions == {i.pos : i \in S}
<1>1. \A i \in S : i.pos \in Nat
  BY DEF Fetched
<1>2. positions \in SUBSET Nat /\ positions # {}
  BY <1>1
<1>3. PICK x \in positions : \A y \in positions : x <= y
  BY <1>2, LeastOf
<1>4. PICK i \in S : i.pos = x
  BY <1>3
<1>5. \A k \in S : i.pos <= k.pos
  BY <1>3, <1>4
<1> QED
  BY <1>5 DEF Mailbox!First

LEMMA LeastIs ==
  ASSUME NEW S \in SUBSET Nat, S # {}
  PROVE  Mailbox!Least(S) \in S /\ \A y \in S : Mailbox!Least(S) <= y
BY LeastOf DEF Mailbox!Least

\* The next to be written is the first of those the reader can read.
LEMMA NextIs ==
  ASSUME NEW S \in SUBSET Fetched, S # {}
  PROVE  /\ Mailbox!NextOf(S) \in S
         /\ \A k \in S : k.mail \notin Unreadable => Mailbox!NextOf(S).pos <= k.pos
<1>1. CASE Mailbox!Readable(S) = {}
  BY <1>1, FirstIs DEF Mailbox!NextOf, Mailbox!Readable
<1>2. CASE Mailbox!Readable(S) # {}
  <2>1. Mailbox!Readable(S) \in SUBSET Fetched
    BY DEF Mailbox!Readable
  <2>2. /\ Mailbox!First(Mailbox!Readable(S)) \in Mailbox!Readable(S)
        /\ \A k \in Mailbox!Readable(S) : Mailbox!First(Mailbox!Readable(S)).pos <= k.pos
    BY <1>2, <2>1, FirstIs
  <2> QED
    BY <1>2, <2>2 DEF Mailbox!NextOf, Mailbox!Readable
<1> QED
  BY <1>1, <1>2

\* The mails in the box are fewer than a position has room for.
LEMMA BoxFits ==
  ASSUME BoxShapes, MailConstants
  PROVE  /\ Len(box) \in Nat /\ Len(box) < 100 /\ DOMAIN box = 1 .. Len(box)
         /\ \A uid \in DOMAIN box : /\ uid \in Nat /\ 1 <= uid /\ uid <= Len(box)
                                    /\ box[uid] \in Mails /\ box[uid] \in Mailbox!Arrived
         /\ Mailbox!Arrived \subseteq Mails /\ validity \in Nat /\ live \in Nat /\ Api \in BOOLEAN
<1>1. box \in Seq(Mails) /\ Len(box) \in Nat /\ DOMAIN box = 1 .. Len(box)
  BY DEF BoxShapes
<1>2. \A uid \in DOMAIN box : box[uid] \in Mails /\ box[uid] \in Mailbox!Arrived
  BY <1>1, ElementOfSeq DEF Mailbox!Arrived, Mailbox!ToSet
<1>3. Mailbox!Arrived \subseteq Mails
  BY <1>1, <1>2 DEF Mailbox!Arrived, Mailbox!ToSet
<1>4. Cardinality(Mailbox!Arrived) <= Cardinality(Mails) /\ Cardinality(Mails) \in Nat
  BY <1>3, FS_Subset, FS_CardinalityType DEF MailConstants
<1>5. Len(box) < 100
  BY <1>1, <1>4 DEF BoxShapes, MailConstants
<1> QED
  BY <1>1, <1>2, <1>3, <1>5 DEF BoxShapes

\* Places are in the order of the uids, and an older numbering is below a newer one.
LEMMA PlacesFit ==
  ASSUME BoxShapes, MailConstants
  PROVE  /\ Top \in Nat /\ Mailbox!Position(validity, 0) \in Nat
         /\ \A uid \in Nat : PosOf(uid) \in Nat
         /\ \A u, v \in Nat : (u <= v <=> PosOf(u) <= PosOf(v)) /\ (PosOf(u) = PosOf(v) => u = v)
         /\ \A uid \in DOMAIN box : PosOf(uid) <= Top
         /\ ~Api => Mailbox!Position(validity, 0) <= Top
            /\ \A uid \in Nat : Mailbox!Position(validity, 0) <= PosOf(uid)
         /\ ~Api => Top < Mailbox!Position(validity + 1, 0)
<1>1. /\ Len(box) \in Nat /\ Len(box) < 100 /\ validity \in Nat /\ Api \in BOOLEAN
      /\ \A uid \in DOMAIN box : uid \in Nat /\ uid <= Len(box)
  BY BoxFits
<1>2. \A v, uid : Mailbox!Position(v, uid) = 100 * v + uid
  BY DEF Mailbox!Position
<1>3. CASE Api
  <2>1. Top = Len(box) /\ \A uid \in Nat : PosOf(uid) = uid
    BY <1>3 DEF Top, PosOf
  <2>2. Mailbox!Position(validity, 0) \in Nat
    BY <1>1, <1>2
  <2> QED
    BY <1>1, <1>3, <2>1, <2>2
<1>4. CASE ~Api
  <2>1. PICK base \in Nat : base = 100 * validity
    BY <1>1
  <2>2. Top = base + Len(box) /\ \A uid \in Nat : PosOf(uid) = base + uid
    BY <1>2, <1>4, <2>1 DEF Top, PosOf
  <2>3. Mailbox!Position(validity, 0) = base /\ Mailbox!Position(validity + 1, 0) = base + 100
    BY <1>1, <1>2, <2>1
  <2>4. \A u, v \in Nat : (u <= v <=> base + u <= base + v) /\ (base + u = base + v => u = v)
    OBVIOUS
  <2>5. \A u, v \in Nat : (u <= v <=> PosOf(u) <= PosOf(v)) /\ (PosOf(u) = PosOf(v) => u = v)
    BY <2>2, <2>4
  <2>6. \A uid \in Nat : PosOf(uid) \in Nat /\ base <= PosOf(uid)
    BY <2>2
  <2>7. \A uid \in DOMAIN box : PosOf(uid) <= Top
    BY <1>1, <2>2
  <2>8. /\ Top \in Nat /\ Mailbox!Position(validity, 0) \in Nat
        /\ Mailbox!Position(validity, 0) <= Top /\ Top < Mailbox!Position(validity + 1, 0)
    <3>1. PICK n \in Nat : n = Len(box) /\ n < 100
      BY <1>1
    <3>2. Top = base + n
      BY <2>2, <3>1
    <3>3. base + n \in Nat /\ base <= base + n /\ base + n < base + 100
      BY <3>1
    <3> QED
      BY <2>3, <3>2, <3>3
  <2>9. \A uid \in Nat : Mailbox!Position(validity, 0) <= PosOf(uid)
    BY <2>3, <2>6
  <2> QED
    BY <2>5, <2>6, <2>7, <2>8, <2>9
<1> QED
  BY <1>1, <1>3, <1>4

\* A correction is a revision above those there are, or a mail of its own.
LEMMA RevisionIs ==
  ASSUME StoreShapes, NEW m
  PROVE  /\ Mailbox!RevisionOf(m) \in Nat /\ Mailbox!KindOf(m) \in CursorKinds
         /\ Mailbox!KindOf(m) = "revision" =>
              Mailbox!RevisionOf(m) > 0 /\ \A r \in mails : r.key = Mailbox!KeyOf(m)
              => r.rev < Mailbox!RevisionOf(m)
         /\ Mailbox!KindOf(m) = "message" => Mailbox!RevisionOf(m) = 0
            /\ Mailbox!KeyOf(m) = <<ConvOf[m], m>>
         /\ m \in Unreadable => Mailbox!KindOf(m) = "message"
         /\ Mailbox!KindOf(m) = "revision" <=> Mailbox!IsRevision(m)
<1>1. CASE ~Mailbox!IsRevision(m)
  BY <1>1 DEF Mailbox!RevisionOf, Mailbox!KindOf, Mailbox!KeyOf, Mailbox!IsRevision, CursorKinds
<1>2. CASE Mailbox!IsRevision(m)
  <2> DEFINE standing == Mailbox!FilesOf(ConvOf[m], Corrects[m])
  <2>1. standing # {} /\ Mailbox!KeyOf(m) = <<ConvOf[m], Corrects[m]>> /\ m \notin Unreadable
        /\ Mailbox!RevisionOf(m) = Mailbox!Highest(standing).rev + 1 /\ Mailbox!KindOf(m) = "revision"
    BY <1>2 DEF Mailbox!IsRevision, Mailbox!KeyOf, Mailbox!RevisionOf, Mailbox!KindOf
  <2>2. PICK n \in Nat : \A r \in mails : r.rev <= n
    BY DEF StoreShapes
  <2>3. \A r \in standing : r \in mails /\ r.rev \in Nat /\ r.rev <= n /\ n - r.rev \in Nat
    BY <2>2 DEF StoreShapes, Mailbox!FilesOf
  <2> DEFINE slack == {n - r.rev : r \in standing}
  <2>4. slack \in SUBSET Nat /\ slack # {}
    BY <2>1, <2>3
  <2>5. PICK x \in slack : \A y \in slack : x <= y
    BY <2>4, LeastOf
  <2>6. PICK r \in standing : x = n - r.rev
    BY <2>5
  <2>7. \A q \in standing : n - r.rev <= n - q.rev
    BY <2>5, <2>6
  <2>8. \A q \in standing : q.rev <= r.rev
    BY <2>3, <2>7
  <2>9. Mailbox!Highest(standing) \in standing
        /\ \A q \in standing : q.rev <= Mailbox!Highest(standing).rev
    BY <2>8 DEF Mailbox!Highest
  <2>10. \A q \in mails : q.key = Mailbox!KeyOf(m) => q \in standing
    BY <2>1 DEF Mailbox!FilesOf
  <2> HIDE DEF standing
  <2> QED
    BY <1>2, <2>1, <2>3, <2>9, <2>10 DEF CursorKinds
<1> QED
  BY <1>1, <1>2

\* A poll that is under way touches nothing of the store.
LEMMA PollStays ==
  ASSUME MailInv, UNCHANGED <<Api, box, validity, Mailbox!capture, Mailbox!disk, twins, overtaken>>,
         at \notin Capturing, at' \notin Capturing
  PROVE  /\ StoreShapes' /\ OwedIsPlaced' /\ PlanIsTrue' /\ MarkIsTrue' /\ CursorsAreTrue'
         /\ BatchIsWhole'
<1>1. /\ UNCHANGED <<Api, box, validity, waiting, due, revision, mails, mailCursor, watermark,
                     twins, overtaken>>
      /\ due = {} /\ waiting = {}
  BY DEF Mailbox!capture, Mailbox!disk, MailInv, StepShapes, StoreShapes
<1>2. Top' = Top
  BY <1>1 DEF Top, PosOf
<1>3. StoreShapes'
  BY <1>1, <1>2 DEF MailInv, StoreShapes
<1>4. OwedIsPlaced' /\ PlanIsTrue' /\ BatchIsWhole'
  BY <1>1 DEF OwedIsPlaced, PlanIsTrue, BatchIsWhole, Capturing
<1>5. MarkIsTrue'
  BY <1>1 DEF MailInv, MarkIsTrue, PosOf, KeptOrExcepted, Mailbox!Recorded
<1>6. CursorsAreTrue'
  BY <1>1 DEF MailInv, CursorsAreTrue, PosOf, KeptOrExcepted, Mailbox!Recorded, ToBeParked,
     StillPlaced
<1> QED
  BY <1>3, <1>4, <1>5, <1>6

\* STATUS opens a poll.
LEMMA StatusKeeps ==
  ASSUME MailInv, MailConstants, Mailbox!Status
  PROVE  MailInv'
<1>1. /\ UNCHANGED <<Api, box, validity, flagged, readBy, todo, unread, items, Mailbox!capture,
           Mailbox!disk, spoiled,
                     overtaken, twins>>
      /\ at = "idle" /\ at' = "search" /\ ~Api /\ live' = validity
  BY DEF Mailbox!Status, Mailbox!Go, Mailbox!mailbox, Mailbox!history
<1>2. /\ StoreShapes' /\ OwedIsPlaced' /\ PlanIsTrue' /\ MarkIsTrue' /\ CursorsAreTrue'
      /\ BatchIsWhole'
  BY <1>1, PollStays DEF Capturing
<1>3. items = {} /\ due = {} /\ waiting = {}
  BY <1>1 DEF MailInv, StepShapes, StoreShapes, Capturing
<1>4. BoxShapes'
  <2>1. validity \in Nat
    BY DEF MailInv, BoxShapes
  <2> QED
    BY <1>1, <2>1 DEF MailInv, BoxShapes, Mailbox!Arrived
<1>5. StepShapes'
  BY <1>1, <1>3 DEF MailInv, StepShapes, Capturing, Mailbox!capture
<1>6. ItemsArePlaced' /\ PollIsWhole'
  BY <1>1, <1>3 DEF ItemsArePlaced, PollIsWhole
<1>7. FlagsAreOwed'
  BY <1>1 DEF MailInv, FlagsAreOwed, Excused
<1> QED
  BY <1>2, <1>4, <1>5, <1>6, <1>7 DEF MailInv

LEMMA StatusTimesOutKeeps ==
  ASSUME MailInv, MailConstants, Mailbox!StatusTimesOut
  PROVE  MailInv'
<1>1. /\ UNCHANGED <<Api, box, validity, flagged, readBy, at, live, todo, unread, items,
           Mailbox!capture, Mailbox!disk,
                     spoiled, overtaken, twins>>
      /\ at = "idle"
  BY DEF Mailbox!StatusTimesOut, Mailbox!mailbox, Mailbox!history
<1>2. /\ StoreShapes' /\ OwedIsPlaced' /\ PlanIsTrue' /\ MarkIsTrue' /\ CursorsAreTrue'
      /\ BatchIsWhole'
  BY <1>1, PollStays DEF Capturing
<1>3. BoxShapes'
  BY <1>1 DEF MailInv, BoxShapes, Mailbox!Arrived
<1>4. StepShapes'
  BY <1>1 DEF MailInv, StepShapes, Capturing, Mailbox!capture
<1>5. ItemsArePlaced' /\ PollIsWhole'
  BY <1>1 DEF MailInv, StepShapes, ItemsArePlaced, PollIsWhole
<1>6. FlagsAreOwed'
  BY <1>1 DEF MailInv, FlagsAreOwed, Excused
<1> QED
  BY <1>2, <1>3, <1>4, <1>5, <1>6 DEF MailInv

\* What a search leaves out the mark has passed.
LEMMA SearchKeeps ==
  ASSUME MailInv, MailConstants, Mailbox!Search
  PROVE  MailInv'
<1>1. /\ UNCHANGED <<Api, box, validity, flagged, readBy, unread, items, Mailbox!capture,
           Mailbox!disk, spoiled,
                     overtaken, twins, watermark>>
      /\ at = "search" /\ at' \in {"idle", "unseen"} /\ live' \in {0, live}
      /\ at' = "unseen" => live' = live
      /\ todo' = {uid \in DOMAIN box : uid >= Mailbox!FromUid}
  BY DEF Mailbox!Search, Mailbox!Go, Mailbox!mailbox, Mailbox!history, Mailbox!disk
<1>2. /\ StoreShapes' /\ OwedIsPlaced' /\ PlanIsTrue' /\ MarkIsTrue' /\ CursorsAreTrue'
      /\ BatchIsWhole'
  BY <1>1, PollStays DEF Capturing
<1>3. items = {} /\ due = {} /\ waiting = {} /\ ~Api
  BY <1>1 DEF MailInv, StepShapes, StoreShapes, Capturing
<1>4. BoxShapes'
  <2>1. validity \in Nat /\ live \in Nat /\ live <= validity
    BY DEF MailInv, BoxShapes
  <2> QED
    BY <1>1, <2>1 DEF MailInv, BoxShapes, Mailbox!Arrived
<1>5. StepShapes'
  BY <1>1, <1>3 DEF MailInv, StepShapes, Capturing, Mailbox!capture
<1>6. ItemsArePlaced'
  BY <1>1, <1>3 DEF ItemsArePlaced
<1>7. PollIsWhole'
  <2> SUFFICES ASSUME at' = "unseen", live = validity, NEW uid \in DOMAIN box, NEW n \in todo',
                      uid <= n
               PROVE  KeptOrExcepted(box[uid])' \/ uid \in todo'
    BY <1>1, <1>3 DEF PollIsWhole
  <2>1. CASE uid >= Mailbox!FromUid
    BY <1>1, <2>1
  <2>2. CASE ~(uid >= Mailbox!FromUid)
    <3>1. uid \in Nat /\ 1 <= uid /\ uid <= 99 /\ validity \in Nat /\ watermark \in Nat
      BY BoxFits DEF MailInv, StoreShapes
    <3>2. Mailbox!ValidityOf(watermark) = live /\ uid < (watermark % 100) + 1
      BY <2>2, <3>1 DEF Mailbox!FromUid
    <3>3. Mailbox!Position(validity, uid) <= watermark
      BY <3>1, <3>2 DEF Mailbox!ValidityOf, Mailbox!Position
    <3>4. KeptOrExcepted(box[uid])
      BY <1>3, <3>3 DEF MailInv, MarkIsTrue, PosOf
    <3> QED
      BY <1>1, <3>4 DEF KeptOrExcepted, Mailbox!Recorded, Mailbox!disk
  <2> QED
    BY <2>1, <2>2
<1>8. FlagsAreOwed'
  BY <1>1 DEF MailInv, FlagsAreOwed, Excused
<1> QED
  BY <1>2, <1>4, <1>5, <1>6, <1>7, <1>8 DEF MailInv

\* What is unread is asked before anything is fetched.
LEMMA UnseenKeeps ==
  ASSUME MailInv, MailConstants, Mailbox!Unseen
  PROVE  MailInv'
<1>1. /\ UNCHANGED <<Api, box, validity, flagged, readBy, live, todo, items, Mailbox!capture,
           Mailbox!disk, spoiled,
                     overtaken, twins>>
      /\ at = "unseen" /\ at' = "fetch" /\ unread' = {uid \in DOMAIN box : box[uid] \notin flagged}
  BY DEF Mailbox!Unseen, Mailbox!Go, Mailbox!mailbox, Mailbox!history
<1>2. /\ StoreShapes' /\ OwedIsPlaced' /\ PlanIsTrue' /\ MarkIsTrue' /\ CursorsAreTrue'
      /\ BatchIsWhole'
  BY <1>1, PollStays DEF Capturing
<1>3. items = {} /\ todo \subseteq DOMAIN box
  BY <1>1 DEF MailInv, StepShapes, BoxShapes
<1>4. BoxShapes'
  BY <1>1 DEF MailInv, BoxShapes, Mailbox!Arrived
<1>5. StepShapes'
  BY <1>1 DEF MailInv, StepShapes, Capturing, Mailbox!capture
<1>6. ItemsArePlaced'
  BY <1>1, <1>3 DEF ItemsArePlaced
<1>7. PollIsWhole'
  BY <1>1 DEF MailInv, PollIsWhole, KeptOrExcepted, Mailbox!Recorded, Mailbox!disk
<1>8. FlagsAreOwed'
  <2>1. flagged \subseteq Excused
    BY <1>1 DEF MailInv, FlagsAreOwed
  <2> QED
    BY <1>1, <1>3, <2>1 DEF FlagsAreOwed, Excused
<1> QED
  BY <1>2, <1>4, <1>5, <1>6, <1>7, <1>8 DEF MailInv

\* A fetch flags the mail, which is known as unread or as excused.
LEMMA FetchKeeps ==
  ASSUME MailInv, MailConstants, Mailbox!Fetch
  PROVE  MailInv'
<1> DEFINE next == Mailbox!Least(todo)
           fetched == [mail |-> box[next], uid |-> next,
                    pos |-> IF Api THEN next ELSE Mailbox!Position(live, next)]
<1>1. /\ UNCHANGED <<Api, box, validity, readBy, at, live, unread, Mailbox!capture, Mailbox!disk,
           spoiled,
                     overtaken, twins, watermark>>
      /\ at = "fetch" /\ todo # {} /\ items' = items \cup {fetched} /\ todo' = todo \ {next}
      /\ flagged' = IF Api THEN flagged ELSE flagged \cup {box[next]}
  BY DEF Mailbox!Fetch, Mailbox!history, Mailbox!disk
<1>2. /\ StoreShapes' /\ OwedIsPlaced' /\ PlanIsTrue' /\ MarkIsTrue' /\ CursorsAreTrue'
      /\ BatchIsWhole'
  BY <1>1, PollStays DEF Capturing
<1>3. /\ \A uid \in DOMAIN box : uid \in Nat /\ box[uid] \in Mails /\ box[uid] \in Mailbox!Arrived
      /\ live \in Nat /\ todo \subseteq DOMAIN box
  BY BoxFits DEF MailInv, BoxShapes
<1>4. next \in todo /\ next \in DOMAIN box /\ next \in Nat
  <2>1. todo \in SUBSET Nat
    BY <1>3
  <2> QED
    BY <1>1, <1>3, <2>1, LeastIs
<1>5. fetched \in Fetched /\ fetched.mail = box[next] /\ fetched.uid = next
      /\ fetched.pos = IF Api THEN next ELSE Mailbox!Position(live, next)
  <2>1. Mailbox!Position(live, next) \in Nat
    BY <1>3, <1>4 DEF Mailbox!Position
  <2> QED
    BY <1>3, <1>4, <2>1 DEF Fetched
<1> HIDE DEF fetched, next
<1>6. BoxShapes'
  BY <1>1, <1>5 DEF MailInv, BoxShapes, Mailbox!Arrived
<1>7. StepShapes'
  BY <1>1 DEF MailInv, StepShapes, Capturing, Mailbox!capture
<1>8. ItemsArePlaced'
  BY <1>1, <1>3, <1>4, <1>5 DEF MailInv, ItemsArePlaced, Mailbox!Arrived
<1>9. PollIsWhole'
  <2> SUFFICES ASSUME Api \/ live = validity, NEW uid \in DOMAIN box,
                      NEW n \in todo' \cup {i.uid : i \in items'}, uid <= n
               PROVE  KeptOrExcepted(box[uid])' \/ uid \in todo' \/ \E i \in items' : i.uid = uid
    BY <1>1 DEF PollIsWhole
  <2>1. n \in todo \cup {i.uid : i \in items}
    BY <1>1, <1>4, <1>5
  <2>2. KeptOrExcepted(box[uid]) \/ uid \in todo \/ \E i \in items : i.uid = uid
    BY <1>1, <2>1 DEF MailInv, PollIsWhole
  <2>3. KeptOrExcepted(box[uid]) => KeptOrExcepted(box[uid])'
    BY <1>1 DEF KeptOrExcepted, Mailbox!Recorded, Mailbox!disk
  <2> QED
    BY <1>1, <1>5, <2>2, <2>3
<1>10. FlagsAreOwed'
  <2>1. CASE Api
    BY <1>1, <2>1 DEF MailInv, FlagsAreOwed, Excused, BoxShapes
  <2>2. CASE ~Api
    <3>1. /\ flagged' = flagged \cup {fetched.mail} /\ fetched \in items' /\ items \subseteq items'
          /\ Excused' = Excused
      BY <1>1, <1>5, <2>2 DEF Excused
    <3>2. flagged \subseteq Excused \cup {i.mail : i \in items}
      BY <1>1 DEF MailInv, FlagsAreOwed
    <3>3. flagged' \subseteq Excused' \cup {i.mail : i \in items'}
      BY <3>1, <3>2
    <3>4. next \in unread \/ box[next] \in Excused
      BY <1>1, <1>4, <2>2 DEF MailInv, FlagsAreOwed
    <3>5. \A i \in items' : (i.uid \in unread /\ box[i.uid] = i.mail) \/ i.mail \in Excused
      BY <1>1, <1>5, <2>2, <3>4 DEF MailInv, FlagsAreOwed
    <3>6. \A uid \in todo' : uid \in unread \/ box[uid] \in Excused
      BY <1>1, <2>2 DEF MailInv, FlagsAreOwed
    <3> QED
      BY <1>1, <3>1, <3>3, <3>5, <3>6 DEF FlagsAreOwed
  <2> QED
    BY <2>1, <2>2
<1> QED
  BY <1>2, <1>6, <1>7, <1>8, <1>9, <1>10 DEF MailInv

\* The flags of a poll are taken off, or its mails are known as spoiled.
LEMMA RestoreKeeps ==
  ASSUME MailInv, MailConstants, Mailbox!Restore
  PROVE  MailInv'
<1>1. /\ UNCHANGED <<Api, box, validity, readBy, live, todo, unread, items, Mailbox!capture,
           Mailbox!disk,
                     overtaken, twins, watermark>>
      /\ at = "fetch" /\ todo = {} /\ at' = "taken"
      /\ \/ /\ flagged' = flagged \ {box[i.uid] : i \in {i \in items : i.uid \in unread}}
            /\ spoiled' = spoiled
         \/ ~Api /\ spoiled' = spoiled \cup {i.mail : i \in items} /\ flagged' = flagged
  BY DEF Mailbox!Restore, Mailbox!Go, Mailbox!pollState, Mailbox!disk
<1>2. /\ StoreShapes' /\ OwedIsPlaced' /\ PlanIsTrue' /\ MarkIsTrue' /\ CursorsAreTrue'
      /\ BatchIsWhole'
  BY <1>1, PollStays DEF Capturing
<1>3. BoxShapes'
  BY <1>1 DEF MailInv, BoxShapes, Mailbox!Arrived
<1>4. StepShapes'
  BY <1>1 DEF MailInv, StepShapes, Capturing, Mailbox!capture
<1>5. ItemsArePlaced'
  BY <1>1 DEF MailInv, ItemsArePlaced, Mailbox!Arrived
<1>6. PollIsWhole'
  BY <1>1 DEF MailInv, PollIsWhole, KeptOrExcepted, Mailbox!Recorded, Mailbox!disk
<1>7. FlagsAreOwed'
  <2>1. flagged \subseteq Excused \cup {i.mail : i \in items}
    BY <1>1 DEF MailInv, FlagsAreOwed
  <2>2. CASE Api
    BY <1>1, <2>2 DEF MailInv, BoxShapes, FlagsAreOwed
  <2>3. CASE ~Api /\ spoiled' = spoiled
    <3>1. \A i \in items : (i.uid \in unread /\ box[i.uid] = i.mail) \/ i.mail \in Excused
      BY <1>1, <2>3 DEF MailInv, FlagsAreOwed
    <3>2. CASE flagged' = flagged \ {box[i.uid] : i \in {i \in items : i.uid \in unread}}
      <4>1. \A m \in flagged' : m \in Excused
        BY <2>1, <3>1, <3>2
      <4> QED
        BY <1>1, <2>3, <4>1 DEF FlagsAreOwed, Excused
    <3>3. CASE spoiled' = spoiled \cup {i.mail : i \in items} /\ flagged' = flagged
      BY <1>1, <2>1, <3>3 DEF FlagsAreOwed, Excused
    <3> QED
      BY <1>1, <3>2, <3>3
  <2>4. CASE ~Api /\ spoiled' # spoiled
    BY <1>1, <2>1, <2>4 DEF FlagsAreOwed, Excused
  <2> QED
    BY <2>2, <2>3, <2>4
<1> QED
  BY <1>2, <1>3, <1>4, <1>5, <1>6, <1>7 DEF MailInv

\* A page of the list goes on where the last one ended.
LEMMA ListKeeps ==
  ASSUME MailInv, MailConstants, Mailbox!List
  PROVE  MailInv'
<1> DEFINE lastListed == IF at = "idle" THEN watermark ELSE Cardinality(todo) + watermark
           listedBefore == IF at = "idle" THEN {} ELSE todo
           listed == {s \in DOMAIN box : s > lastListed /\ s <= lastListed + PageSize}
<1>1. /\ UNCHANGED <<Api, box, validity, flagged, readBy, live, unread, items, Mailbox!capture,
           Mailbox!disk, spoiled,
                     overtaken, twins, watermark>>
      /\ Api /\ at \in {"idle", "list"} /\ at' \in {"idle", "list", "fetch"}
      /\ todo' = listedBefore \cup listed
  BY DEF Mailbox!List, Mailbox!Cardinality, Cardinality, Mailbox!Go, Mailbox!mailbox,
     Mailbox!history, Mailbox!disk
<1>2. /\ StoreShapes' /\ OwedIsPlaced' /\ PlanIsTrue' /\ MarkIsTrue' /\ CursorsAreTrue'
      /\ BatchIsWhole'
  BY <1>1, PollStays DEF Capturing
<1>3. /\ items = {} /\ due = {} /\ waiting = {} /\ todo \subseteq DOMAIN box /\ watermark \in Nat
      /\ Len(box) \in Nat /\ DOMAIN box = 1 .. Len(box) /\ PageSize \in Nat
  BY <1>1, BoxFits DEF MailInv, BoxShapes, StepShapes, StoreShapes, Capturing, MailConstants
<1>4. PICK n \in Nat : lastListed = watermark + n /\ listedBefore = (watermark + 1) .. (watermark + n)
  <2>1. CASE at = "idle"
    <3>1. (watermark + 1) .. (watermark + 0) = {}
      BY <1>3
    <3> QED
      BY <1>3, <2>1, <3>1
  <2>2. CASE at = "list"
    <3>1. PICK n \in Nat : todo = (watermark + 1) .. (watermark + n)
      BY <2>2 DEF MailInv, StepShapes
    <3>2. Cardinality(todo) = n
      BY <1>3, <3>1, FS_Interval
    <3> QED
      BY <1>3, <2>2, <3>1, <3>2
  <2> QED
    BY <1>1, <2>1, <2>2
<1>5. PICK k \in Nat : todo' = (watermark + 1) .. (watermark + k)
  <2>1. listed = {s \in 1 .. Len(box) : s > watermark + n /\ s <= watermark + n + PageSize}
    BY <1>3, <1>4
  <2> HIDE DEF lastListed, listedBefore, listed
  <2>2. CASE Len(box) <= watermark + n
    <3>1. listed = {}
      BY <1>3, <2>1, <2>2
    <3> QED
      BY <1>1, <1>4, <3>1
  <2>3. CASE watermark + n < Len(box) /\ Len(box) <= watermark + n + PageSize
    <3>1. todo' = (watermark + 1) .. Len(box) /\ Len(box) - watermark \in Nat
      BY <1>1, <1>3, <1>4, <2>1, <2>3
    <3>2. Len(box) = watermark + (Len(box) - watermark)
      BY <1>3
    <3> QED
      BY <3>1, <3>2
  <2>4. CASE watermark + n + PageSize < Len(box)
    <3>1. todo' = (watermark + 1) .. (watermark + (n + PageSize)) /\ n + PageSize \in Nat
      BY <1>1, <1>3, <1>4, <2>1, <2>4
    <3> QED
      BY <3>1
  <2> QED
    BY <1>3, <2>2, <2>3, <2>4
<1>6. todo' \subseteq DOMAIN box
  BY <1>1, <1>3
<1> HIDE DEF lastListed, listedBefore, listed
<1>7. BoxShapes'
  BY <1>1, <1>6 DEF MailInv, BoxShapes, Mailbox!Arrived
<1>8. StepShapes'
  BY <1>1, <1>3, <1>5 DEF MailInv, StepShapes, Capturing, Mailbox!capture
<1>9. ItemsArePlaced'
  BY <1>1, <1>3 DEF ItemsArePlaced
<1>10. PollIsWhole'
  <2> SUFFICES ASSUME NEW uid \in DOMAIN box, NEW m \in todo', uid <= m
               PROVE  KeptOrExcepted(box[uid])' \/ uid \in todo'
    BY <1>1, <1>3 DEF PollIsWhole
  <2>1. uid \in Nat /\ m \in Nat /\ m <= watermark + k
    BY <1>3, <1>5
  <2>2. CASE uid > watermark
    BY <1>3, <1>5, <2>1, <2>2
  <2>3. CASE uid <= watermark
    <3>1. KeptOrExcepted(box[uid])
      BY <1>1, <2>3 DEF MailInv, MarkIsTrue, PosOf
    <3> QED
      BY <1>1, <3>1 DEF KeptOrExcepted, Mailbox!Recorded, Mailbox!disk
  <2> QED
    BY <1>3, <2>1, <2>2, <2>3
<1>11. FlagsAreOwed'
  BY <1>1 DEF MailInv, FlagsAreOwed, BoxShapes
<1> QED
  BY <1>2, <1>7, <1>8, <1>9, <1>10, <1>11 DEF MailInv

\* A poll that is given up leaves its mails spoiled and the marks where they are.
LEMMA PollFailsKeeps ==
  ASSUME MailInv, MailConstants, Mailbox!PollFails
  PROVE  MailInv'
<1>1. /\ UNCHANGED <<Api, box, validity, flagged, readBy, Mailbox!capture, Mailbox!disk, overtaken,
           twins, watermark>>
      /\ at \in {"search", "unseen", "list", "fetch"} /\ at' = "idle" /\ live' = 0
      /\ items' = {} /\ todo' = {} /\ spoiled' = spoiled \cup {i.mail : i \in items}
  BY DEF Mailbox!PollFails, Mailbox!GiveUp, Mailbox!Go, Mailbox!mailbox, Mailbox!disk
<1>2. /\ StoreShapes' /\ OwedIsPlaced' /\ PlanIsTrue' /\ MarkIsTrue' /\ CursorsAreTrue'
      /\ BatchIsWhole'
  BY <1>1, PollStays DEF Capturing
<1>3. BoxShapes'
  <2>1. validity \in Nat
    BY DEF MailInv, BoxShapes
  <2> QED
    BY <1>1, <2>1 DEF MailInv, BoxShapes, Mailbox!Arrived
<1>4. StepShapes'
  BY <1>1 DEF MailInv, StepShapes, Capturing, Mailbox!capture
<1>5. ItemsArePlaced' /\ PollIsWhole'
  BY <1>1 DEF ItemsArePlaced, PollIsWhole
<1>6. FlagsAreOwed'
  BY <1>1 DEF MailInv, FlagsAreOwed, Excused
<1> QED
  BY <1>2, <1>3, <1>4, <1>5, <1>6 DEF MailInv

\* What is taken is planned by one look at the store; what is not taken a mark has passed.
LEMMA TakeKeeps ==
  ASSUME MailInv, MailConstants, Mailbox!Take
  PROVE  MailInv'
<1> DEFINE batch == {i \in items : Mailbox!IsPending(i)}
           planned == [i \in batch |-> [key |-> Mailbox!KeyOf(i.mail),
             rev |-> Mailbox!RevisionOf(i.mail),
                                        kind |-> Mailbox!KindOf(i.mail), of |-> i.mail]]
           paired == {i.mail : i \in {i \in batch : Mailbox!IsRevision(i.mail) /\ \E k \in batch :
                        k.mail # i.mail /\ Mailbox!IsRevision(k.mail)
                        /\ Mailbox!KeyOf(i.mail) = Mailbox!KeyOf(k.mail)}}
<1>1. /\ UNCHANGED <<Api, box, validity, flagged, readBy, todo, mails, mailCursor, watermark, spoiled,
                     overtaken>>
      /\ at = "taken" /\ at' = IF batch = {} THEN "idle" ELSE "write"
      /\ waiting' = batch /\ due' = batch /\ revision' = planned /\ twins' = twins \cup paired
      /\ items' = {} /\ live' = 0
  BY DEF Mailbox!Take, Mailbox!Go, Mailbox!mailbox, Mailbox!disk
<1>2. /\ batch \subseteq items /\ items \subseteq Fetched /\ todo = {}
      /\ due = {} /\ waiting = {}
  BY <1>1 DEF MailInv, BoxShapes, StepShapes, StoreShapes, Capturing
<1>3. \A i \in batch : /\ planned[i].key = Mailbox!KeyOf(i.mail)
                       /\ planned[i].rev = Mailbox!RevisionOf(i.mail)
                       /\ planned[i].kind = Mailbox!KindOf(i.mail) /\ planned[i].of = i.mail
                       /\ i \in DOMAIN planned
  OBVIOUS
<1>4. \A i, k \in batch : Mailbox!IsRevision(i.mail) /\ Mailbox!IsRevision(k.mail)
      /\ Mailbox!KeyOf(i.mail) = Mailbox!KeyOf(k.mail)
                          /\ i.mail # k.mail => i.mail \in paired
  OBVIOUS
<1>5. \A i \in items : i \notin batch => ~Mailbox!IsPending(i)
  OBVIOUS
<1> HIDE DEF batch, planned, paired
<1>6. BoxShapes'
  <2>1. validity \in Nat
    BY DEF MailInv, BoxShapes
  <2> QED
    BY <1>1, <2>1 DEF MailInv, BoxShapes, Mailbox!Arrived
<1>7. StepShapes'
  BY <1>1 DEF MailInv, StepShapes, Capturing
<1>8. StoreShapes'
  <2>1. Top' = Top
    BY <1>1 DEF Top, PosOf
  <2> QED
    BY <1>1, <1>2, <2>1 DEF MailInv, StoreShapes
<1>9. ItemsArePlaced' /\ PollIsWhole'
  BY <1>1, <1>2 DEF ItemsArePlaced, PollIsWhole
<1>10. \A i \in items : IF Api \/ live = validity
                        THEN StillPlaced(i) /\ i.uid \in DOMAIN box /\ box[i.uid] = i.mail
                        ELSE ~Api /\ i.pos < Mailbox!Position(validity, 0)
  <2> SUFFICES ASSUME NEW i \in items
               PROVE  IF Api \/ live = validity
                      THEN StillPlaced(i) /\ i.uid \in DOMAIN box /\ box[i.uid] = i.mail
                      ELSE ~Api /\ i.pos < Mailbox!Position(validity, 0)
    OBVIOUS
  <2>1. i.uid \in DOMAIN box /\ i.pos = IF Api THEN i.uid ELSE Mailbox!Position(live, i.uid)
    BY DEF MailInv, ItemsArePlaced
  <2>2. CASE Api \/ live = validity
    BY <2>1, <2>2 DEF MailInv, ItemsArePlaced, StillPlaced, PosOf
  <2>3. CASE ~(Api \/ live = validity)
    <3>1. live \in Nat /\ validity \in Nat /\ live < validity /\ i.uid \in Nat /\ i.uid < 100
      BY <2>1, <2>3, BoxFits DEF MailInv, BoxShapes
    <3> QED
      BY <2>1, <2>3, <3>1 DEF Mailbox!Position
  <2> QED
    BY <2>2, <2>3
<1>11. OwedIsPlaced'
  BY <1>1, <1>2, <1>10 DEF OwedIsPlaced, StillPlaced, PosOf
<1>12. PlanIsTrue'
  <2>1. \A i \in batch : /\ Mailbox!RevisionOf(i.mail) \in Nat
                         /\ Mailbox!KindOf(i.mail) \in CursorKinds
                         /\ Mailbox!KindOf(i.mail) = "revision" => Mailbox!RevisionOf(i.mail) > 0
                            /\ Mailbox!IsRevision(i.mail)
                              /\ \A r \in mails : r.key = Mailbox!KeyOf(i.mail)
                                 => r.rev < Mailbox!RevisionOf(i.mail)
                         /\ Mailbox!KindOf(i.mail) = "message" =>
                              Mailbox!RevisionOf(i.mail) = 0
                              /\ Mailbox!KeyOf(i.mail) = <<ConvOf[i.mail], i.mail>>
    BY RevisionIs DEF MailInv
  <2>2. \A r \in mails : r.rev \in Nat /\ (r.rev = 0 => r.key = <<ConvOf[r.of], r.of>>)
    BY DEF MailInv, StoreShapes
  <2>3. \A i \in batch : Mailbox!KindOf(i.mail) = "revision" \/ Mailbox!KindOf(i.mail) = "message"
    BY <2>1 DEF CursorKinds
  <2>4. \A i \in batch, r \in mails :
          r.key = Mailbox!KeyOf(i.mail) /\ r.rev = Mailbox!RevisionOf(i.mail) => r.of = i.mail
    BY <2>1, <2>2, <2>3
  <2>5. at' # "cursor"
    BY <1>1
  <2> QED
    BY <1>1, <1>3, <1>4, <2>1, <2>3, <2>4, <2>5 DEF PlanIsTrue
<1>13. \A m : KeptOrExcepted(m) => Mailbox!Recorded(m) \/ m \in twins' \cup overtaken
  BY <1>1 DEF KeptOrExcepted
<1>14. MarkIsTrue'
  BY <1>1, <1>13 DEF MailInv, MarkIsTrue, PosOf, KeptOrExcepted, Mailbox!Recorded
<1>15. CursorsAreTrue'
  <2>1. \A uid : ~ToBeParked(uid)
    BY <1>2 DEF ToBeParked
  <2> QED
    BY <1>1, <1>13, <2>1 DEF MailInv, CursorsAreTrue, PosOf, KeptOrExcepted, Mailbox!Recorded
<1>16. BatchIsWhole'
  <2> SUFFICES ASSUME NEW uid \in DOMAIN box, NEW i \in batch, i.pos = PosOf(i.uid), uid <= i.uid
               PROVE  KeptOrExcepted(box[uid]) \/ \E k \in batch : k.uid = uid /\ k.pos = PosOf(k.uid)
    BY <1>1, <1>13 DEF BatchIsWhole, StillPlaced, PosOf, KeptOrExcepted, Mailbox!Recorded
  <2>1. Api \/ live = validity
    <3>1. i.uid \in Nat
      BY <1>2 DEF Fetched
    <3>2. ~Api => Mailbox!Position(validity, 0) <= PosOf(i.uid) /\ PosOf(i.uid) \in Nat
                  /\ Mailbox!Position(validity, 0) \in Nat
      BY <3>1, PlacesFit DEF MailInv
    <3> QED
      BY <1>2, <1>10, <3>2
  <2>2. KeptOrExcepted(box[uid]) \/ \E k \in items : k.uid = uid
    BY <1>1, <1>2, <2>1 DEF MailInv, PollIsWhole
  <2>3. ASSUME NEW k \in items, k.uid = uid, k \notin batch
        PROVE  KeptOrExcepted(box[uid])
    <3>1. StillPlaced(k) /\ box[uid] = k.mail
      BY <1>10, <2>1, <2>3
    <3>2. ~(k.pos > mailCursor[ConvOf[k.mail]][Mailbox!KindOf(k.mail)])
      BY <1>5, <2>3 DEF Mailbox!IsPending
    <3>3. Mailbox!KindOf(k.mail) \in CursorKinds
          /\ (k.mail \in Unreadable => Mailbox!KindOf(k.mail) = "message")
      BY RevisionIs DEF MailInv
    <3>4. k.pos <= mailCursor[ConvOf[k.mail]][Mailbox!KindOf(k.mail)]
      <4>1. k.mail \in Mails /\ k.pos \in Nat
        BY <1>2 DEF Fetched
      <4>2. mailCursor[ConvOf[k.mail]][Mailbox!KindOf(k.mail)] \in Nat
        BY <3>3, <4>1 DEF MailInv, StoreShapes, Mailbox!Convs
      <4> QED
        BY <3>2, <4>1, <4>2
    <3>5. ~ToBeParked(uid)
      BY <1>2 DEF ToBeParked
    <3> QED
      BY <2>3, <3>1, <3>3, <3>4, <3>5 DEF MailInv, CursorsAreTrue, StillPlaced
  <2>4. \A k \in batch : k.pos = PosOf(k.uid)
    BY <1>2, <1>10, <2>1 DEF StillPlaced
  <2> QED
    BY <2>2, <2>3, <2>4
<1>17. FlagsAreOwed'
  BY <1>1 DEF MailInv, FlagsAreOwed, Excused
<1> QED
  BY <1>6, <1>7, <1>8, <1>9, <1>11, <1>12, <1>14, <1>15, <1>16, <1>17 DEF MailInv

\* Write puts the next one in the store, or a twin is there.
LEMMA WriteKeeps ==
  ASSUME MailInv, MailConstants, Mailbox!Write
  PROVE  MailInv'
<1> DEFINE next == Mailbox!NextOf(waiting)
           entry == [key |-> revision[next].key, rev |-> revision[next].rev, of |-> revision[next].of]
<1>1. /\ UNCHANGED <<Api, box, validity, flagged, readBy, live, todo, unread, items, waiting, due,
           revision,
                     mailCursor, watermark, spoiled, overtaken, twins>>
      /\ at = "write" /\ at' = "cursor"
      /\ mails' = IF \E r \in mails : r.key = revision[next].key /\ r.rev = revision[next].rev
                    THEN mails ELSE mails \cup {entry}
  BY DEF Mailbox!Write, Mailbox!Go, Mailbox!mailbox, Mailbox!pollState, Mailbox!capture,
     Mailbox!history
<1>2. waiting # {} /\ waiting \subseteq due /\ due \subseteq Fetched
  BY <1>1 DEF MailInv, StepShapes, StoreShapes
<1>3. next \in waiting
  BY <1>2, NextIs
<1>4. /\ revision[next].of = next.mail /\ revision[next].kind \in CursorKinds
         /\ revision[next].rev \in Nat
      /\ IF revision[next].kind = "revision" THEN revision[next].rev > 0
         ELSE revision[next].rev = 0 /\ revision[next].key = <<ConvOf[next.mail], next.mail>>
  BY <1>2, <1>3 DEF MailInv, PlanIsTrue
<1>5. entry.key = revision[next].key /\ entry.rev = revision[next].rev /\ entry.of = next.mail
  BY <1>4
<1>6. next = Mailbox!NextOf(waiting)
  OBVIOUS
<1> HIDE DEF entry, next
<1>7. mails \subseteq mails' /\ \A r \in mails' : r \in mails \/ r = entry
  BY <1>1
<1>8. BoxShapes'
  BY <1>1 DEF MailInv, BoxShapes, Mailbox!Arrived
<1>9. StepShapes'
  BY <1>1, <1>2 DEF MailInv, StepShapes, Capturing
<1>10. StoreShapes'
  <2>1. Top' = Top
    BY <1>1 DEF Top, PosOf
  <2>2. \A r \in mails' : r.rev \in Nat /\ (r.rev = 0 => r.key = <<ConvOf[r.of], r.of>>)
    BY <1>4, <1>5, <1>7 DEF MailInv, StoreShapes
  <2>3. PICK n \in Nat : \A r \in mails : r.rev <= n
    BY DEF MailInv, StoreShapes
  <2>4. \A r \in mails' : r.rev <= n + revision[next].rev
    BY <1>4, <1>5, <1>7, <2>2, <2>3
  <2>5. n + revision[next].rev \in Nat
    BY <1>4
  <2> QED
    BY <1>1, <2>1, <2>2, <2>4, <2>5 DEF MailInv, StoreShapes
<1>11. ItemsArePlaced' /\ OwedIsPlaced'
  BY <1>1 DEF MailInv, ItemsArePlaced, OwedIsPlaced, Mailbox!Arrived, StillPlaced, PosOf
<1>12. PlanIsTrue'
  <2>1. ASSUME NEW i \in waiting, entry.key = revision[i].key, entry.rev = revision[i].rev
        PROVE  entry.of = i.mail \/ i.mail \in twins
    <3>1. i \in due /\ next \in due
      BY <1>2, <1>3
    <3>2. /\ revision[i].kind \in CursorKinds
          /\ IF revision[i].kind = "revision" THEN revision[i].rev > 0
             ELSE revision[i].rev = 0 /\ revision[i].key = <<ConvOf[i.mail], i.mail>>
      BY <3>1 DEF MailInv, PlanIsTrue
    <3>3. CASE revision[i].kind = "revision"
      <4>1. revision[next].kind = "revision"
        BY <1>4, <1>5, <2>1, <3>2, <3>3
      <4> QED
        BY <1>5, <2>1, <3>1, <3>3, <4>1 DEF MailInv, PlanIsTrue
    <3>4. CASE revision[i].kind # "revision"
      <4>1. revision[next].kind # "revision"
        BY <1>4, <1>5, <2>1, <3>2, <3>4
      <4> QED
        BY <1>4, <1>5, <2>1, <3>2, <3>4, <4>1
    <3> QED
      BY <3>3, <3>4
  <2>2. \A i \in waiting, r \in mails' :
          r.key = revision[i].key /\ r.rev = revision[i].rev => r.of = i.mail \/ i.mail \in twins
    BY <1>7, <2>1 DEF MailInv, PlanIsTrue
  <2>3. (\E r \in mails' : r.of = next.mail) \/ next.mail \in twins
    <3>1. CASE \E r \in mails : r.key = revision[next].key /\ r.rev = revision[next].rev
      BY <1>3, <1>7, <3>1 DEF MailInv, PlanIsTrue
    <3>2. CASE ~\E r \in mails : r.key = revision[next].key /\ r.rev = revision[next].rev
      BY <1>1, <1>5, <3>2
    <3> QED
      BY <3>1, <3>2
  <2>4. Mailbox!NextOf(waiting)' = next
    BY <1>1, <1>6 DEF Mailbox!NextOf, Mailbox!Readable, Mailbox!First
  <2> QED
    BY <1>1, <2>2, <2>3, <2>4 DEF MailInv, PlanIsTrue, Mailbox!Recorded
<1>13. \A m : KeptOrExcepted(m) => (\E r \in mails' : r.of = m) \/ m \in twins \cup overtaken
  BY <1>7 DEF KeptOrExcepted, Mailbox!Recorded
<1>14. MarkIsTrue'
  BY <1>1, <1>13 DEF MailInv, MarkIsTrue, PosOf, KeptOrExcepted, Mailbox!Recorded
<1>15. CursorsAreTrue'
  BY <1>1, <1>13 DEF MailInv, CursorsAreTrue, PosOf, KeptOrExcepted, Mailbox!Recorded, ToBeParked,
     StillPlaced
<1>16. PollIsWhole' /\ FlagsAreOwed'
  BY <1>1 DEF MailInv, PollIsWhole, FlagsAreOwed, Excused
<1>17. BatchIsWhole'
  BY <1>1, <1>13 DEF MailInv, BatchIsWhole, PosOf, KeptOrExcepted, Mailbox!Recorded, StillPlaced
<1> QED
  BY <1>8, <1>9, <1>10, <1>11, <1>12, <1>14, <1>15, <1>16, <1>17 DEF MailInv

\* A cursor moves forward, and no other cursor moves.
LEMMA ForwardIs ==
  ASSUME StoreShapes, NEW conv \in Mailbox!Convs, NEW kind \in CursorKinds, NEW pos \in Nat
  PROVE  /\ Mailbox!Forward(conv, kind, pos) \in [Mailbox!Convs -> [CursorKinds -> Nat]]
         /\ \A c \in Mailbox!Convs, k \in CursorKinds :
              Mailbox!Forward(conv, kind, pos)[c][k] = IF c = conv /\ k = kind
              /\ pos > mailCursor[c][k]
                                               THEN pos ELSE mailCursor[c][k]
<1>1. mailCursor \in [Mailbox!Convs -> [CursorKinds -> Nat]]
      /\ mailCursor[conv] \in [CursorKinds -> Nat]
  BY DEF StoreShapes
<1> DEFINE row == [mailCursor[conv] EXCEPT ![kind] = IF pos > @ THEN pos ELSE @]
<1>2. Mailbox!Forward(conv, kind, pos) = [mailCursor EXCEPT ![conv] = row]
  BY <1>1 DEF Mailbox!Forward
<1>3. row \in [CursorKinds -> Nat]
  BY <1>1
<1>4. \A k \in CursorKinds : row[k] = IF k = kind /\ pos > mailCursor[conv][k] THEN pos
      ELSE mailCursor[conv][k]
  BY <1>1
<1> HIDE DEF row
<1> QED
  BY <1>1, <1>2, <1>3, <1>4

\* What a mark at an item passes is of the item's numbers, and before it.
LEMMA PassedBy ==
  ASSUME MailInv, MailConstants, NEW i \in due
  PROVE  /\ i.pos \in Nat /\ i.pos <= Top /\ i.mail \in Mails /\ ConvOf[i.mail] \in Mailbox!Convs
         /\ \A uid \in DOMAIN box : PosOf(uid) <= i.pos =>
              StillPlaced(i) /\ uid <= i.uid /\ box[i.uid] = i.mail
<1>1. i.pos \in Nat /\ i.uid \in Nat /\ i.mail \in Mails /\ ConvOf[i.mail] \in Mailbox!Convs
  BY DEF MailInv, StoreShapes, Fetched, Mailbox!Convs
<1>2. /\ Top \in Nat /\ Mailbox!Position(validity, 0) \in Nat /\ \A uid \in Nat : PosOf(uid) \in Nat
      /\ \A u, v \in Nat : u <= v <=> PosOf(u) <= PosOf(v)
      /\ \A uid \in DOMAIN box : uid \in Nat /\ PosOf(uid) <= Top
      /\ ~Api => Mailbox!Position(validity, 0) <= Top
         /\ \A uid \in Nat : Mailbox!Position(validity, 0) <= PosOf(uid)
  BY PlacesFit, BoxFits DEF MailInv
<1>3. CASE StillPlaced(i) /\ i.uid \in DOMAIN box /\ box[i.uid] = i.mail
  BY <1>1, <1>2, <1>3 DEF StillPlaced
<1>4. CASE ~Api /\ i.pos < Mailbox!Position(validity, 0)
  <2>1. \A uid \in DOMAIN box : ~(PosOf(uid) <= i.pos)
    BY <1>1, <1>2, <1>4
  <2> QED
    BY <1>1, <1>2, <1>4, <2>1
<1> QED
  BY <1>3, <1>4 DEF MailInv, OwedIsPlaced

\* The capture's cursor follows what was written, readable mails first.
LEMMA CursorKeeps ==
  ASSUME MailInv, MailConstants, Mailbox!Cursor
  PROVE  MailInv'
<1> DEFINE next == Mailbox!NextOf(waiting)
<1>1. /\ UNCHANGED <<Api, box, validity, flagged, readBy, live, todo, unread, items, due, revision,
           mails,
                     watermark, spoiled, overtaken, twins>>
      /\ at = "cursor" /\ at' = IF waiting' = {} THEN "consume" ELSE "write"
      /\ waiting' = waiting \ {next}
      /\ mailCursor' = Mailbox!Forward(ConvOf[next.mail], revision[next].kind, next.pos)
  BY DEF Mailbox!Cursor, Mailbox!Go, Mailbox!mailbox, Mailbox!pollState, Mailbox!history
<1>2. waiting # {} /\ waiting \subseteq due /\ due \subseteq Fetched
  BY <1>1 DEF MailInv, StepShapes, StoreShapes
<1>3. /\ next \in waiting /\ next \in due
      /\ \A k \in waiting : k.mail \notin Unreadable => next.pos <= k.pos
  BY <1>2, NextIs
<1>4. revision[next].kind \in CursorKinds
  BY <1>3 DEF MailInv, PlanIsTrue
<1>5. Mailbox!Recorded(next.mail) \/ next.mail \in twins
  BY <1>1 DEF MailInv, PlanIsTrue
<1> HIDE DEF next
<1>6. /\ next.pos \in Nat /\ next.pos <= Top /\ next.mail \in Mails
         /\ ConvOf[next.mail] \in Mailbox!Convs
      /\ \A uid \in DOMAIN box : PosOf(uid) <= next.pos =>
           StillPlaced(next) /\ uid <= next.uid /\ box[next.uid] = next.mail
  BY <1>3, PassedBy
<1>7. /\ mailCursor' \in [Mailbox!Convs -> [CursorKinds -> Nat]]
      /\ \A c \in Mailbox!Convs, k \in CursorKinds :
           mailCursor'[c][k] = IF c = ConvOf[next.mail] /\ k = revision[next].kind
           /\ next.pos > mailCursor[c][k]
                           THEN next.pos ELSE mailCursor[c][k]
  <2> DEFINE moved == Mailbox!Forward(ConvOf[next.mail], revision[next].kind, next.pos)
  <2>1. StoreShapes
    BY DEF MailInv
  <2>2. /\ moved \in [Mailbox!Convs -> [CursorKinds -> Nat]]
        /\ \A c \in Mailbox!Convs, k \in CursorKinds :
             moved[c][k] = IF c = ConvOf[next.mail] /\ k = revision[next].kind
             /\ next.pos > mailCursor[c][k]
                           THEN next.pos ELSE mailCursor[c][k]
    BY <1>4, <1>6, <2>1, ForwardIs
  <2>3. mailCursor' = moved
    BY <1>1
  <2> HIDE DEF moved
  <2> QED
    BY <2>2, <2>3
<1>8. /\ \A uid \in DOMAIN box : uid \in Nat /\ box[uid] \in Mails
      /\ \A u, v \in Nat : PosOf(u) = PosOf(v) => u = v
      /\ \A uid \in Nat : PosOf(uid) \in Nat
  BY BoxFits, PlacesFit DEF MailInv
<1>9. BoxShapes'
  BY <1>1 DEF MailInv, BoxShapes, Mailbox!Arrived
<1>10. StepShapes'
  <2>1. due # {} /\ at' \in {"consume", "write"}
    BY <1>1, <1>3
  <2> QED
    BY <1>1, <2>1 DEF MailInv, StepShapes, Capturing
<1>11. StoreShapes'
  <2>1. Top' = Top
    BY <1>1 DEF Top, PosOf
  <2>2. \A c \in Mailbox!Convs, k \in CursorKinds : mailCursor'[c][k] <= Top
    BY <1>6, <1>7 DEF MailInv, StoreShapes
  <2> QED
    BY <1>1, <1>2, <1>7, <2>1, <2>2 DEF MailInv, StoreShapes
<1>12. ItemsArePlaced' /\ OwedIsPlaced'
  BY <1>1 DEF MailInv, ItemsArePlaced, OwedIsPlaced, Mailbox!Arrived, StillPlaced, PosOf
<1>13. PlanIsTrue'
  <2>1. at' # "cursor"
    BY <1>1
  <2> QED
    BY <1>1, <2>1 DEF MailInv, PlanIsTrue
<1>14. MarkIsTrue'
  BY <1>1 DEF MailInv, MarkIsTrue, PosOf, KeptOrExcepted, Mailbox!Recorded
<1>15. KeptOrExcepted(next.mail)
  BY <1>5 DEF KeptOrExcepted
<1>16. ASSUME NEW uid \in DOMAIN box, NEW k \in waiting, k.uid = uid, StillPlaced(k),
              k \notin waiting'
       PROVE  KeptOrExcepted(box[uid])
  <2>1. k = next
    BY <1>1, <1>16
  <2>2. PosOf(uid) <= next.pos /\ PosOf(uid) \in Nat
    BY <1>8, <1>16, <2>1 DEF StillPlaced
  <2> QED
    BY <1>6, <1>15, <1>16, <2>1, <2>2
<1>17. ASSUME NEW uid \in DOMAIN box, PosOf(uid) <= next.pos
       PROVE  KeptOrExcepted(box[uid]) \/ \E k \in waiting' : /\ k.uid = uid /\ StillPlaced(k)
                                                               /\ box[uid] \in Unreadable
  <2>1. StillPlaced(next) /\ uid <= next.uid /\ box[next.uid] = next.mail
    BY <1>6, <1>17
  <2>2. KeptOrExcepted(box[uid]) \/ \E k \in waiting : k.uid = uid /\ StillPlaced(k)
    BY <1>3, <2>1 DEF MailInv, BatchIsWhole
  <2>3. ASSUME NEW k \in waiting, k.uid = uid, StillPlaced(k), box[uid] \notin Unreadable
        PROVE  KeptOrExcepted(box[uid])
    <3>1. k \in due /\ PosOf(uid) <= k.pos /\ k.pos = PosOf(uid)
      BY <1>2, <1>8, <2>3 DEF StillPlaced
    <3>2. box[uid] = k.mail
      BY <2>3, <3>1, PassedBy
    <3>3. next.pos <= k.pos
      BY <1>3, <2>3, <3>2
    <3>4. next.pos = PosOf(uid) /\ next.pos = PosOf(next.uid)
      BY <1>6, <1>8, <1>17, <2>1, <3>1, <3>3 DEF StillPlaced
    <3>5. next.uid \in Nat
      BY <1>2, <1>3 DEF Fetched
    <3>6. next.uid = uid
      BY <1>8, <3>4, <3>5
    <3> QED
      BY <1>15, <2>1, <3>6
  <2> QED
    BY <1>16, <2>2, <2>3
<1>18. CursorsAreTrue'
  <2> SUFFICES ASSUME NEW uid \in DOMAIN box, NEW k \in CursorKinds,
                      PosOf(uid) <= mailCursor'[ConvOf[box[uid]]][k],
                      box[uid] \in Unreadable => k = "message"
               PROVE  KeptOrExcepted(box[uid]) \/ \E i \in waiting' : /\ i.uid = uid /\ StillPlaced(i)
                                                                       /\ box[uid] \in Unreadable
    BY <1>1 DEF CursorsAreTrue, PosOf, KeptOrExcepted, Mailbox!Recorded, ToBeParked, StillPlaced
  <2>1. ConvOf[box[uid]] \in Mailbox!Convs
    BY <1>8 DEF Mailbox!Convs
  <2>2. CASE PosOf(uid) <= mailCursor[ConvOf[box[uid]]][k]
    <3>1. KeptOrExcepted(box[uid]) \/ ToBeParked(uid)
      BY <2>2 DEF MailInv, CursorsAreTrue
    <3> QED
      BY <1>16, <3>1 DEF ToBeParked
  <2>3. CASE PosOf(uid) <= next.pos
    BY <1>17, <2>3
  <2> QED
    BY <1>7, <2>1, <2>2, <2>3
<1>19. PollIsWhole' /\ FlagsAreOwed'
  BY <1>1 DEF MailInv, PollIsWhole, FlagsAreOwed, Excused
<1>20. BatchIsWhole'
  <2> SUFFICES ASSUME NEW uid \in DOMAIN box, NEW i \in due, StillPlaced(i), uid <= i.uid
               PROVE  KeptOrExcepted(box[uid]) \/ \E k \in waiting' : k.uid = uid /\ StillPlaced(k)
    BY <1>1 DEF BatchIsWhole, PosOf, KeptOrExcepted, Mailbox!Recorded, StillPlaced
  <2>1. KeptOrExcepted(box[uid]) \/ \E k \in waiting : k.uid = uid /\ StillPlaced(k)
    BY DEF MailInv, BatchIsWhole
  <2> QED
    BY <1>16, <2>1
<1> QED
  BY <1>9, <1>10, <1>11, <1>12, <1>13, <1>14, <1>18, <1>19, <1>20 DEF MailInv

\* The adapter's marks move when the whole batch is written.
LEMMA ConsumeKeeps ==
  ASSUME MailInv, MailConstants, Mailbox!Consume
  PROVE  MailInv'
<1> DEFINE next == Mailbox!First(due)
<1>1. /\ UNCHANGED <<Api, box, validity, flagged, readBy, live, todo, unread, items, waiting, mails,
                     spoiled, overtaken, twins>>
      /\ at = "consume" /\ at' = IF due' = {} THEN "idle" ELSE "consume"
      /\ due' = due \ {next} /\ revision' = IF due' = {} THEN <<>> ELSE revision
      /\ mailCursor' = Mailbox!Forward(ConvOf[next.mail], Mailbox!KindOf(next.mail), next.pos)
      /\ watermark' = IF next.pos > watermark THEN next.pos ELSE watermark
  BY DEF Mailbox!Consume, Mailbox!Go, Mailbox!mailbox, Mailbox!pollState, Mailbox!history
<1>2. waiting = {} /\ due # {} /\ due \subseteq Fetched
  BY <1>1 DEF MailInv, StepShapes, StoreShapes
<1>3. next \in due
  BY <1>2, FirstIs
<1>4. Mailbox!KindOf(next.mail) \in CursorKinds
  BY RevisionIs DEF MailInv
<1> HIDE DEF next
<1>5. /\ next.pos \in Nat /\ next.pos <= Top /\ next.mail \in Mails
         /\ ConvOf[next.mail] \in Mailbox!Convs
      /\ \A uid \in DOMAIN box : PosOf(uid) <= next.pos => StillPlaced(next) /\ uid <= next.uid
  BY <1>3, PassedBy
<1>6. /\ mailCursor' \in [Mailbox!Convs -> [CursorKinds -> Nat]]
      /\ \A c \in Mailbox!Convs, k \in CursorKinds :
           mailCursor'[c][k] = IF c = ConvOf[next.mail] /\ k = Mailbox!KindOf(next.mail)
           /\ next.pos > mailCursor[c][k]
                           THEN next.pos ELSE mailCursor[c][k]
  <2> DEFINE moved == Mailbox!Forward(ConvOf[next.mail], Mailbox!KindOf(next.mail), next.pos)
  <2>1. StoreShapes
    BY DEF MailInv
  <2>2. /\ moved \in [Mailbox!Convs -> [CursorKinds -> Nat]]
        /\ \A c \in Mailbox!Convs, k \in CursorKinds :
             moved[c][k] = IF c = ConvOf[next.mail] /\ k = Mailbox!KindOf(next.mail)
             /\ next.pos > mailCursor[c][k]
                           THEN next.pos ELSE mailCursor[c][k]
    BY <1>4, <1>5, <2>1, ForwardIs
  <2>3. mailCursor' = moved
    BY <1>1
  <2> HIDE DEF moved
  <2> QED
    BY <2>2, <2>3
<1>7. \A uid \in DOMAIN box : PosOf(uid) <= next.pos => KeptOrExcepted(box[uid])
  BY <1>2, <1>3, <1>5 DEF MailInv, BatchIsWhole
<1>8. BoxShapes'
  BY <1>1 DEF MailInv, BoxShapes, Mailbox!Arrived
<1>9. StepShapes'
  <2>1. at' \in {"idle", "consume"} /\ (at' = "idle" <=> due' = {}) /\ items = {}
    <3>1. at' = "idle" => due' = {}
      BY <1>1
    <3> QED
      BY <1>1, <3>1 DEF MailInv, StepShapes, Capturing
  <2> QED
    BY <1>1, <1>2, <2>1 DEF MailInv, StepShapes, Capturing
<1>10. StoreShapes'
  <2>1. Top' = Top
    BY <1>1 DEF Top, PosOf
  <2>2. \A c \in Mailbox!Convs, k \in CursorKinds : mailCursor'[c][k] <= Top
    BY <1>5, <1>6 DEF MailInv, StoreShapes
  <2>3. watermark' \in Nat /\ watermark' <= Top
    BY <1>1, <1>5 DEF MailInv, StoreShapes
  <2> QED
    BY <1>1, <1>2, <1>6, <2>1, <2>2, <2>3 DEF MailInv, StoreShapes
<1>11. ItemsArePlaced' /\ OwedIsPlaced'
  BY <1>1 DEF MailInv, ItemsArePlaced, OwedIsPlaced, Mailbox!Arrived, StillPlaced, PosOf
<1>12. PlanIsTrue'
  <2>1. at' # "cursor"
    BY <1>1
  <2>2. CASE due' = {}
    BY <1>1, <1>2, <2>1, <2>2 DEF PlanIsTrue
  <2>3. CASE due' # {}
    <3>1. revision' = revision
      BY <1>1, <2>3
    <3> QED
      BY <1>1, <1>2, <2>1, <3>1 DEF MailInv, PlanIsTrue
  <2> QED
    BY <2>2, <2>3
<1>13. MarkIsTrue'
  <2>1. \A uid \in DOMAIN box : PosOf(uid) <= watermark' => KeptOrExcepted(box[uid])
    BY <1>1, <1>7 DEF MailInv, MarkIsTrue
  <2> QED
    BY <1>1, <2>1 DEF MarkIsTrue, PosOf, KeptOrExcepted, Mailbox!Recorded
<1>14. CursorsAreTrue'
  <2>1. ASSUME NEW uid \in DOMAIN box, NEW k \in CursorKinds,
               PosOf(uid) <= mailCursor'[ConvOf[box[uid]]][k],
               box[uid] \in Unreadable => k = "message"
        PROVE  KeptOrExcepted(box[uid])
    <3>1. ConvOf[box[uid]] \in Mailbox!Convs
      BY BoxFits DEF MailInv, Mailbox!Convs
    <3>2. CASE PosOf(uid) <= mailCursor[ConvOf[box[uid]]][k]
      BY <1>2, <2>1, <3>2 DEF MailInv, CursorsAreTrue, ToBeParked
    <3> QED
      BY <1>6, <1>7, <2>1, <3>1, <3>2
  <2> QED
    BY <1>1, <2>1 DEF CursorsAreTrue, PosOf, KeptOrExcepted, Mailbox!Recorded
<1>15. PollIsWhole' /\ FlagsAreOwed'
  BY <1>1 DEF MailInv, PollIsWhole, FlagsAreOwed, Excused
<1>16. BatchIsWhole'
  BY <1>1 DEF MailInv, BatchIsWhole, PosOf, KeptOrExcepted, Mailbox!Recorded, StillPlaced
<1> QED
  BY <1>8, <1>9, <1>10, <1>11, <1>12, <1>13, <1>14, <1>15, <1>16 DEF MailInv

\* A step that touches no plan, no record and no twin keeps what is planned.
LEMMA PlanStays ==
  ASSUME PlanIsTrue, UNCHANGED <<at, waiting, due, revision, mails, twins>>
  PROVE  PlanIsTrue'
<1>1. Mailbox!NextOf(waiting)' = Mailbox!NextOf(waiting)
  BY DEF Mailbox!NextOf, Mailbox!Readable, Mailbox!First
<1> QED
  BY <1>1 DEF PlanIsTrue, Mailbox!Recorded

\* A mail that arrives is past every mark, cursor and item.
LEMMA ArriveKeeps ==
  ASSUME MailInv, MailConstants, NEW m \in Mails, Mailbox!Arrive(m)
  PROVE  MailInv'
<1>1. /\ UNCHANGED <<Api, validity, flagged, readBy, at, live, todo, unread, items, waiting, due,
           revision,
                     mails, mailCursor, watermark, spoiled, overtaken, twins>>
      /\ m \notin Mailbox!Arrived /\ box' = Append(box, m)
  BY DEF Mailbox!Arrive, Mailbox!pollState, Mailbox!capture, Mailbox!disk, Mailbox!history
<1>2. /\ Len(box) \in Nat /\ DOMAIN box = 1 .. Len(box) /\ Mailbox!Arrived \subseteq Mails
      /\ \A uid \in DOMAIN box : uid \in Nat /\ uid <= Len(box)
      /\ box \in Seq(Mails)
  BY BoxFits DEF MailInv, BoxShapes
<1>3. /\ box' \in Seq(Mails) /\ Len(box') = Len(box) + 1 /\ DOMAIN box' = 1 .. (Len(box) + 1)
      /\ \A uid \in DOMAIN box : box'[uid] = box[uid]
      /\ box'[Len(box) + 1] = m
  BY <1>1, <1>2
<1>4. Mailbox!Arrived' = Mailbox!Arrived \cup {m}
  BY <1>2, <1>3 DEF Mailbox!Arrived, Mailbox!ToSet
<1>5. /\ Top \in Nat /\ Top' \in Nat /\ Top <= Top'
      /\ PosOf(Len(box) + 1) \in Nat /\ Top < PosOf(Len(box) + 1)
      /\ \A uid : PosOf(uid)' = PosOf(uid)
      /\ \A u, v \in Nat : u <= v <=> PosOf(u) <= PosOf(v)
  <2>1. validity \in Nat
    BY DEF MailInv, BoxShapes
  <2>2. \A u, v \in Nat : u <= v <=> PosOf(u) <= PosOf(v)
    BY PlacesFit DEF MailInv
  <2> QED
    BY <1>1, <1>2, <1>3, <2>1, <2>2 DEF Top, PosOf, Mailbox!Position
<1>6. \A uid \in DOMAIN box' : uid \in DOMAIN box \/ uid = Len(box) + 1
  BY <1>2, <1>3
<1>7. DOMAIN box \subseteq DOMAIN box' /\ Len(box) + 1 \notin DOMAIN box
  BY <1>2, <1>3
<1>8. BoxShapes'
  <2>1. IsFiniteSet(Mailbox!Arrived') /\ Cardinality(Mailbox!Arrived') = Len(box')
    <3>1. IsFiniteSet(Mailbox!Arrived) /\ Cardinality(Mailbox!Arrived) = Len(box)
      BY DEF MailInv, BoxShapes
    <3>2. IsFiniteSet(Mailbox!Arrived \cup {m})
          /\ Cardinality(Mailbox!Arrived \cup {m}) = Cardinality(Mailbox!Arrived) + 1
      BY <1>1, <3>1, FS_AddElement
    <3> QED
      BY <1>3, <1>4, <3>1, <3>2
  <2> QED
    BY <1>1, <1>3, <1>7, <2>1 DEF MailInv, BoxShapes
<1>9. StepShapes'
  <2>1. Mailbox!NextOf(waiting)' = Mailbox!NextOf(waiting)
    BY <1>1 DEF Mailbox!NextOf, Mailbox!Readable, Mailbox!First
  <2> QED
    BY <1>1 DEF MailInv, StepShapes
<1>10. StoreShapes'
  <2>1. watermark <= Top' /\ \A c \in Mailbox!Convs, k \in CursorKinds : mailCursor[c][k] <= Top'
    BY <1>5 DEF MailInv, StoreShapes
  <2> QED
    BY <1>1, <2>1 DEF MailInv, StoreShapes
<1>11. ItemsArePlaced' /\ OwedIsPlaced'
  BY <1>1, <1>3, <1>4, <1>5, <1>7 DEF MailInv, ItemsArePlaced, OwedIsPlaced, StillPlaced
<1>12. PlanIsTrue'
  BY <1>1, PlanStays DEF MailInv
<1>13. MarkIsTrue'
  <2>1. ~(PosOf(Len(box) + 1) <= watermark)
    <3>1. watermark \in Nat /\ watermark <= Top
      BY DEF MailInv, StoreShapes
    <3> QED
      BY <1>5, <3>1
  <2> QED
    BY <1>1, <1>3, <1>5, <1>6, <2>1 DEF MailInv, MarkIsTrue, KeptOrExcepted, Mailbox!Recorded
<1>14. CursorsAreTrue'
  <2>1. ConvOf[m] \in Mailbox!Convs
    BY DEF Mailbox!Convs
  <2>2. \A k \in CursorKinds : ~(PosOf(Len(box) + 1) <= mailCursor[ConvOf[m]][k])
    <3>1. \A k \in CursorKinds : mailCursor[ConvOf[m]][k] \in Nat /\ mailCursor[ConvOf[m]][k] <= Top
      BY <2>1 DEF MailInv, StoreShapes
    <3> QED
      BY <1>5, <3>1
  <2> QED
    BY <1>1, <1>3, <1>5, <1>6, <2>2
    DEF MailInv, CursorsAreTrue, KeptOrExcepted, Mailbox!Recorded, ToBeParked, StillPlaced
<1>15. PollIsWhole'
  <2>1. \A n \in todo \cup {i.uid : i \in items} : n \in DOMAIN box
    BY DEF MailInv, BoxShapes, ItemsArePlaced
  <2>2. \A n \in todo \cup {i.uid : i \in items} : ~(Len(box) + 1 <= n)
    BY <1>2, <2>1
  <2> QED
    BY <1>1, <1>3, <1>6, <2>2 DEF MailInv, PollIsWhole, KeptOrExcepted, Mailbox!Recorded
<1>16. BatchIsWhole'
  <2>1. \A i \in due : StillPlaced(i) => i.uid \in DOMAIN box
    <3> SUFFICES ASSUME NEW i \in due, StillPlaced(i), i.uid \notin DOMAIN box
                 PROVE  FALSE
      OBVIOUS
    <3>1. ~Api /\ i.pos < Mailbox!Position(validity, 0)
      BY DEF MailInv, OwedIsPlaced
    <3>2. i.uid \in Nat /\ validity \in Nat
      BY DEF MailInv, StoreShapes, BoxShapes, Fetched
    <3> QED
      BY <3>1, <3>2 DEF StillPlaced, PosOf, Mailbox!Position
  <2>2. \A i \in due : StillPlaced(i) => ~(Len(box) + 1 <= i.uid)
    BY <1>2, <2>1
  <2>3. \A i : StillPlaced(i)' <=> StillPlaced(i)
    BY <1>5 DEF StillPlaced
  <2>4. ASSUME NEW uid \in DOMAIN box', NEW i \in due, StillPlaced(i), uid <= i.uid
        PROVE  KeptOrExcepted(box'[uid]) \/ \E k \in waiting : k.uid = uid /\ StillPlaced(k)
    <3>1. uid \in DOMAIN box
      BY <1>6, <2>2, <2>4
    <3> QED
      BY <1>3, <2>4, <3>1 DEF MailInv, BatchIsWhole
  <2> QED
    BY <1>1, <1>5, <2>4 DEF BatchIsWhole, KeptOrExcepted, Mailbox!Recorded, StillPlaced
<1>17. FlagsAreOwed'
  <2>1. todo \subseteq DOMAIN box /\ \A i \in items : i.uid \in DOMAIN box
    BY DEF MailInv, BoxShapes, ItemsArePlaced
  <2> QED
    BY <1>1, <1>3, <2>1 DEF MailInv, FlagsAreOwed, Excused
<1> QED
  BY <1>8, <1>9, <1>10, <1>11, <1>12, <1>13, <1>14, <1>15, <1>16, <1>17 DEF MailInv

\* The person reads a mail.
LEMMA PersonReadsKeeps ==
  ASSUME MailInv, MailConstants, NEW m \in Mails, Mailbox!PersonReads(m)
  PROVE  MailInv'
<1>1. /\ UNCHANGED <<Api, box, validity, at, live, todo, unread, items, waiting, due, revision,
                     mails, mailCursor, watermark, spoiled, overtaken, twins>>
      /\ ~Api /\ readBy' = readBy \cup {m} /\ flagged' = flagged \cup {m}
  BY DEF Mailbox!PersonReads, Mailbox!pollState, Mailbox!capture, Mailbox!disk, Mailbox!history
<1>2. BoxShapes' /\ StepShapes'
  BY <1>1 DEF MailInv, BoxShapes, StepShapes, Mailbox!Arrived
<1>3. StoreShapes' /\ ItemsArePlaced' /\ OwedIsPlaced'
  BY <1>1 DEF MailInv, StoreShapes, ItemsArePlaced, OwedIsPlaced, Mailbox!Arrived, StillPlaced,
     PosOf, Top
<1>4. PlanIsTrue'
  BY <1>1, PlanStays DEF MailInv
<1>5. MarkIsTrue' /\ CursorsAreTrue'
  BY <1>1 DEF MailInv, MarkIsTrue, CursorsAreTrue, PosOf, KeptOrExcepted, Mailbox!Recorded,
     ToBeParked, StillPlaced
<1>6. PollIsWhole' /\ BatchIsWhole'
  BY <1>1 DEF MailInv, PollIsWhole, BatchIsWhole, PosOf, KeptOrExcepted, Mailbox!Recorded, StillPlaced
<1>7. FlagsAreOwed'
  BY <1>1 DEF MailInv, FlagsAreOwed, Excused
<1> QED
  BY <1>2, <1>3, <1>4, <1>5, <1>6, <1>7 DEF MailInv

\* New numbers leave every mark, cursor and item below the mailbox.
LEMMA RenumberKeeps ==
  ASSUME MailInv, MailConstants, Mailbox!Renumber
  PROVE  MailInv'
<1>1. /\ UNCHANGED <<Api, flagged, readBy, at, live, todo, unread, items, waiting, due, revision,
                     mails, mailCursor, watermark, overtaken, twins>>
      /\ ~Api /\ validity' = validity + 1 /\ box' = Mailbox!Reverse(box)
      /\ spoiled' = spoiled \cup IF at = "idle" THEN {} ELSE Mailbox!Arrived
  BY DEF Mailbox!Renumber, Mailbox!pollState, Mailbox!capture, Mailbox!disk
<1>2. /\ Len(box) \in Nat /\ Len(box) < 100 /\ DOMAIN box = 1 .. Len(box)
      /\ box \in Seq(Mails) /\ Mailbox!Arrived \subseteq Mails /\ validity \in Nat /\ live \in Nat
      /\ live <= validity
      /\ \A uid \in DOMAIN box : uid \in Nat /\ uid <= Len(box) /\ box[uid] \in Mails
  BY BoxFits DEF MailInv, BoxShapes
<1>3. /\ box' \in Seq(Mails) /\ Len(box') = Len(box) /\ DOMAIN box' = DOMAIN box
      /\ \A uid \in DOMAIN box : box'[uid] = box[Len(box) - uid + 1]
         /\ Len(box) - uid + 1 \in DOMAIN box
  <2>1. \A uid \in 1 .. Len(box) : Len(box) - uid + 1 \in 1 .. Len(box)
    BY <1>2
  <2>2. box' = [uid \in 1 .. Len(box) |-> box[Len(box) - uid + 1]]
    BY <1>1 DEF Mailbox!Reverse
  <2> QED
    BY <1>2, <2>1, <2>2
<1>4. Mailbox!Arrived' = Mailbox!Arrived
  <2>1. Mailbox!Arrived = {box[uid] : uid \in DOMAIN box}
    BY DEF Mailbox!Arrived, Mailbox!ToSet
  <2>2. Mailbox!Arrived' = {box'[uid] : uid \in DOMAIN box'}
    BY DEF Mailbox!Arrived, Mailbox!ToSet
  <2>3. ASSUME NEW uid \in DOMAIN box
        PROVE  \E u \in DOMAIN box' : box'[u] = box[uid]
    <3> DEFINE u == Len(box) - uid + 1
    <3>1. u \in DOMAIN box' /\ Len(box) - u + 1 = uid
      BY <1>2, <1>3
    <3> QED
      BY <1>3, <3>1
  <2> QED
    BY <1>3, <2>1, <2>2, <2>3
<1>5. /\ Top < Mailbox!Position(validity', 0) /\ Mailbox!Position(validity', 0) <= Top'
      /\ Top \in Nat /\ Top' \in Nat /\ Mailbox!Position(validity', 0) \in Nat
      /\ \A uid \in Nat : PosOf(uid)' \in Nat /\ Mailbox!Position(validity', 0) <= PosOf(uid)'
  BY <1>1, <1>2, <1>3 DEF Top, PosOf, Mailbox!Position
<1>6. \A i \in due : i.pos \in Nat /\ i.pos < Mailbox!Position(validity', 0)
  <2>1. \A i \in due : i.pos \in Nat /\ i.pos <= Top
    BY PassedBy
  <2> QED
    BY <1>5, <2>1
<1>7. \A uid \in DOMAIN box' : ~(PosOf(uid)' <= watermark)
  <2>1. watermark \in Nat /\ watermark <= Top
    BY DEF MailInv, StoreShapes
  <2>2. ASSUME NEW uid \in Nat
        PROVE  ~(PosOf(uid)' <= watermark)
    BY <1>5, <2>1
  <2> QED
    BY <1>2, <1>3, <2>2
<1>8. BoxShapes'
  BY <1>1, <1>2, <1>3, <1>4 DEF MailInv, BoxShapes
<1>9. StepShapes'
  BY <1>1 DEF MailInv, StepShapes
<1>10. StoreShapes'
  <2>1. watermark <= Top' /\ \A c \in Mailbox!Convs, k \in CursorKinds : mailCursor[c][k] <= Top'
    BY <1>5 DEF MailInv, StoreShapes
  <2> QED
    BY <1>1, <2>1 DEF MailInv, StoreShapes
<1>11. live # validity' /\ ~(Api \/ live = validity)'
  BY <1>1, <1>2
<1>12. ItemsArePlaced'
  BY <1>1, <1>3, <1>4, <1>11 DEF MailInv, ItemsArePlaced
<1>13. OwedIsPlaced'
  BY <1>1, <1>6 DEF OwedIsPlaced
<1>14. PlanIsTrue'
  BY <1>1, PlanStays DEF MailInv
<1>15. MarkIsTrue'
  BY <1>1, <1>7 DEF MarkIsTrue
<1>16. CursorsAreTrue'
  <2> SUFFICES ASSUME NEW uid \in DOMAIN box', NEW k \in CursorKinds,
                      PosOf(uid)' <= mailCursor[ConvOf[box'[uid]]][k]
               PROVE  FALSE
    BY <1>1 DEF CursorsAreTrue
  <2>1. ConvOf[box'[uid]] \in Mailbox!Convs /\ uid \in Nat
    BY <1>2, <1>3 DEF Mailbox!Convs
  <2>2. mailCursor[ConvOf[box'[uid]]][k] \in Nat /\ mailCursor[ConvOf[box'[uid]]][k] <= Top
    BY <2>1 DEF MailInv, StoreShapes
  <2> QED
    BY <1>5, <2>1, <2>2
<1>17. PollIsWhole'
  BY <1>11 DEF PollIsWhole
<1>18. BatchIsWhole'
  <2>1. \A i \in due : i.uid \in Nat /\ i.pos # PosOf(i.uid)'
    <3>1. \A i \in due : i.uid \in Nat
      BY DEF MailInv, StoreShapes, Fetched
    <3> QED
      BY <1>5, <1>6, <3>1
  <2>2. \A i \in due : ~StillPlaced(i)'
    BY <2>1 DEF StillPlaced
  <2> QED
    BY <1>1, <2>2 DEF BatchIsWhole
<1>19. FlagsAreOwed'
  <2>1. \A i \in items : i.mail \in Mailbox!Arrived
    BY DEF MailInv, ItemsArePlaced
  <2>2. \A uid \in todo : box'[uid] \in Mailbox!Arrived
    <3>1. todo \subseteq DOMAIN box /\ \A uid \in DOMAIN box : box[uid] \in Mailbox!Arrived
      BY BoxFits DEF MailInv, BoxShapes
    <3> QED
      BY <1>3, <3>1
  <2>3. CASE at = "idle"
    BY <1>1, <2>3 DEF MailInv, FlagsAreOwed, Excused
  <2>4. CASE at # "idle"
    <3>1. Mailbox!Arrived \subseteq Excused' /\ Excused \subseteq Excused'
      BY <1>1, <2>4 DEF Excused
    <3> QED
      BY <1>1, <2>1, <2>2, <3>1 DEF MailInv, FlagsAreOwed
  <2> QED
    BY <2>3, <2>4
<1> QED
  BY <1>8, <1>9, <1>10, <1>12, <1>13, <1>14, <1>15, <1>16, <1>17, <1>18, <1>19 DEF MailInv

\* A kill takes what was to be parked; the mails the cursor has passed are known.
LEMMA MailKillKeeps ==
  ASSUME MailInv, MailConstants, Mailbox!Kill
  PROVE  MailInv'
<1>1. /\ UNCHANGED <<Api, box, validity, flagged, readBy, mails, mailCursor, watermark, twins>>
      /\ at' = "idle" /\ items' = {} /\ todo' = {} /\ live' = 0 /\ waiting' = {} /\ due' = {}
      /\ spoiled' = spoiled \cup IF at \in {"fetch", "taken"} THEN {i.mail : i \in items} ELSE {}
      /\ overtaken' = overtaken \cup {i.mail : i \in {i \in waiting : ~Mailbox!IsPending(i)}}
  BY DEF Mailbox!Kill, Mailbox!Go, Mailbox!mailbox, Mailbox!disk
<1>2. BoxShapes'
  <2>1. validity \in Nat
    BY DEF MailInv, BoxShapes
  <2> QED
    BY <1>1, <2>1 DEF MailInv, BoxShapes, Mailbox!Arrived
<1>3. StepShapes'
  BY <1>1 DEF StepShapes, Capturing
<1>4. StoreShapes'
  BY <1>1 DEF MailInv, StoreShapes, Top, PosOf
<1>5. ItemsArePlaced' /\ OwedIsPlaced' /\ PlanIsTrue' /\ PollIsWhole' /\ BatchIsWhole'
  BY <1>1 DEF ItemsArePlaced, OwedIsPlaced, PlanIsTrue, PollIsWhole, BatchIsWhole
<1>6. MarkIsTrue'
  BY <1>1 DEF MailInv, MarkIsTrue, PosOf, KeptOrExcepted, Mailbox!Recorded
<1>7. CursorsAreTrue'
  <2> SUFFICES ASSUME NEW uid \in DOMAIN box, NEW k \in CursorKinds,
                      PosOf(uid) <= mailCursor[ConvOf[box[uid]]][k],
                      box[uid] \in Unreadable => k = "message"
               PROVE  Mailbox!Recorded(box[uid]) \/ box[uid] \in twins \cup overtaken'
    BY <1>1 DEF CursorsAreTrue, PosOf, KeptOrExcepted, Mailbox!Recorded
  <2>1. KeptOrExcepted(box[uid]) \/ ToBeParked(uid)
    BY DEF MailInv, CursorsAreTrue
  <2>2. ASSUME NEW i \in waiting, i.uid = uid, StillPlaced(i), box[uid] \in Unreadable
        PROVE  box[uid] \in overtaken'
    <3>1. i \in due /\ i.pos = PosOf(uid) /\ i.pos \in Nat
      BY <2>2 DEF MailInv, StoreShapes, StillPlaced, Fetched
    <3>2. box[uid] = i.mail
      BY <2>2, <3>1, PassedBy
    <3>3. Mailbox!KindOf(i.mail) = "message" /\ k = "message"
      BY <2>2, <3>2, RevisionIs DEF MailInv
    <3>4. mailCursor[ConvOf[i.mail]][k] \in Nat
      BY <3>1, PassedBy DEF MailInv, StoreShapes
    <3>5. ~Mailbox!IsPending(i)
      BY <3>1, <3>2, <3>3, <3>4 DEF Mailbox!IsPending
    <3> QED
      BY <1>1, <3>2, <3>5
  <2> QED
    BY <1>1, <2>1, <2>2 DEF KeptOrExcepted, ToBeParked
<1>8. FlagsAreOwed'
  BY <1>1 DEF MailInv, FlagsAreOwed, Excused
<1> QED
  BY <1>2, <1>3, <1>4, <1>5, <1>6, <1>7, <1>8 DEF MailInv

\* Each step keeps the invariant.
LEMMA MailStep ==
  ASSUME MailConstants
  PROVE  MailInv /\ [Mailbox!Next]_(Mailbox!vars) => MailInv'
<1> SUFFICES ASSUME MailInv, [Mailbox!Next]_(Mailbox!vars)
             PROVE  MailInv'
  OBVIOUS
<1>1. CASE UNCHANGED Mailbox!vars
  <2>1. UNCHANGED <<Api, box, validity, flagged, readBy, at, live, todo, unread, items, waiting, due,
                    revision, mails, mailCursor, watermark, spoiled, overtaken, twins>>
    BY <1>1 DEF Mailbox!vars, Mailbox!mailbox, Mailbox!pollState, Mailbox!capture, Mailbox!disk,
       Mailbox!history
  <2>2. BoxShapes' /\ StepShapes'
    BY <2>1 DEF MailInv, BoxShapes, StepShapes, Mailbox!Arrived
  <2>3. StoreShapes' /\ ItemsArePlaced' /\ OwedIsPlaced'
    BY <2>1 DEF MailInv, StoreShapes, ItemsArePlaced, OwedIsPlaced, Mailbox!Arrived, StillPlaced,
       PosOf, Top
  <2>4. PlanIsTrue'
    BY <2>1, PlanStays DEF MailInv
  <2>5. MarkIsTrue' /\ CursorsAreTrue'
    BY <2>1
    DEF MailInv, MarkIsTrue, CursorsAreTrue, PosOf, KeptOrExcepted, Mailbox!Recorded, ToBeParked,
      StillPlaced
  <2>6. PollIsWhole' /\ BatchIsWhole'
    BY <2>1 DEF MailInv, PollIsWhole, BatchIsWhole, PosOf, KeptOrExcepted, Mailbox!Recorded,
       StillPlaced
  <2>7. FlagsAreOwed'
    BY <2>1 DEF MailInv, FlagsAreOwed, Excused
  <2> QED
    BY <2>2, <2>3, <2>4, <2>5, <2>6, <2>7 DEF MailInv
<1>2. CASE \E m \in Mails : Mailbox!Arrive(m) \/ Mailbox!PersonReads(m)
  BY <1>2, ArriveKeeps, PersonReadsKeeps
<1>3. CASE Mailbox!Renumber \/ Mailbox!Kill
  BY <1>3, RenumberKeeps, MailKillKeeps
<1>4. CASE Mailbox!Poll \/ Mailbox!StatusTimesOut \/ Mailbox!PollFails
  BY <1>4, StatusKeeps, SearchKeeps, UnseenKeeps, FetchKeeps, RestoreKeeps, ListKeeps,
     StatusTimesOutKeeps, PollFailsKeeps DEF Mailbox!Poll
<1>5. CASE Mailbox!Capture
  BY <1>5, TakeKeeps, WriteKeeps, CursorKeeps, ConsumeKeeps DEF Mailbox!Capture
<1> QED
  BY <1>1, <1>2, <1>3, <1>4, <1>5 DEF Mailbox!Next

\* The mailbox is empty, and the adapter has no marks.
LEMMA MailStart ==
  Mailbox!Init => MailInv
<1> SUFFICES ASSUME Mailbox!Init
             PROVE  MailInv
  OBVIOUS
<1>1. /\ box = <<>> /\ DOMAIN box = {} /\ Len(box) = 0 /\ box \in Seq(Mails)
      /\ validity = 1 /\ live = 0 /\ Api \in BOOLEAN
  BY DEF Mailbox!Init
<1>2. Mailbox!Arrived = {}
  BY <1>1 DEF Mailbox!Arrived, Mailbox!ToSet
<1>3. BoxShapes
  <2>1. IsFiniteSet(Mailbox!Arrived) /\ Cardinality(Mailbox!Arrived) = 0
    BY <1>2, FS_EmptySet
  <2> QED
    BY <1>1, <2>1 DEF Mailbox!Init, BoxShapes
<1>4. StepShapes
  BY DEF Mailbox!Init, StepShapes, Capturing
<1>5. StoreShapes
  <2>1. Top \in Nat
    BY <1>1 DEF Top, PosOf, Mailbox!Position
  <2>2. /\ mailCursor \in [Mailbox!Convs -> [CursorKinds -> Nat]]
        /\ \A c \in Mailbox!Convs, k \in CursorKinds : mailCursor[c][k] = 0
    BY DEF Mailbox!Init, CursorKinds
  <2>3. mails = {} /\ watermark = 0 /\ waiting = {} /\ due = {}
    BY DEF Mailbox!Init
  <2> QED
    BY <2>1, <2>2, <2>3 DEF StoreShapes
<1>6. ItemsArePlaced /\ OwedIsPlaced /\ PlanIsTrue
  BY DEF Mailbox!Init, ItemsArePlaced, OwedIsPlaced, PlanIsTrue
<1>7. MarkIsTrue /\ CursorsAreTrue /\ PollIsWhole /\ BatchIsWhole
  BY <1>1 DEF Mailbox!Init, MarkIsTrue, CursorsAreTrue, PollIsWhole, BatchIsWhole
<1>8. FlagsAreOwed
  BY DEF Mailbox!Init, FlagsAreOwed, Excused
<1> QED
  BY <1>3, <1>4, <1>5, <1>6, <1>7, <1>8 DEF MailInv

\* The invariant gives what the adapter promises.
LEMMA MailPromise ==
  MailInv => Mailbox!MailIsKept
<1> SUFFICES ASSUME MailInv
             PROVE  Mailbox!MailIsKept
  OBVIOUS
<1>1. Mailbox!BehindTheMarkIsKept
  BY DEF MailInv, MarkIsTrue, KeptOrExcepted, Mailbox!BehindTheMarkIsKept, PosOf
<1>2. Mailbox!UnreadStaysUnread
  BY DEF MailInv, FlagsAreOwed, Excused, Mailbox!UnreadStaysUnread
<1> QED
  BY <1>1, <1>2 DEF Mailbox!MailIsKept

-----------------------------------------------------------------------------
(* The specification of the run, in which one of the parts moves.           *)

\* Through any turns, calls, deaths and damaged files, the list says each thing once and
\* loses nothing, and a reply that claims a teaching has it.
THEOREM TaughtIsTrue == ASSUME TeachConstants PROVE AllSpec => ListIsTrue
<1>1. AllInit => TeachInv
  BY TeachStart DEF AllInit
<1>2. [AllNext]_<<vars, bridgeVars, deviceVars, mailVars, programVars, threadVars, typingVars, which>>
        => [Next]_vars
  BY DEF AllNext
<1>3. TeachInv /\ [Next]_vars => TeachInv'
  BY TeachStep
<1>4. TeachInv => TypeOK /\ StandsOnce /\ SpokenIsTaught
  BY DEF TeachInv, TeachShapes, TypeOK
<1>5. TeachInv /\ [Next]_vars =>
        [\A i \in DOMAIN files :
           /\ i \in DOMAIN files'
           /\ [files'[i] EXCEPT !.status = "any"] = [files[i] EXCEPT !.status = "any"]
           /\ files[i].status # files'[i].status =>
                files[i].status = "active" /\ files'[i].status = "forgotten"]_vars
  BY TeachWrites
<1> QED
  BY <1>1, <1>2, <1>3, <1>4, <1>5, PTL DEF AllSpec, ListIsTrue, NothingWrittenOver

\* Through any messages, files, deaths, cut writes and lost projections, a reader of the page
\* is shown every message in its latest state, and a file goes with its sender.
THEOREM PagesStand == ASSUME BridgeConstants PROVE AllSpec => []PagesAreTrue
<1>1. AllInit => Bridge!Init
  BY DEF AllInit
<1>2. [AllNext]_<<vars, bridgeVars, deviceVars, mailVars, programVars, threadVars, typingVars, which>>
        => [Bridge!Next]_(Bridge!bridgeVars)
  BY DEF AllNext, bridgeVars, Bridge!bridgeVars
<1>3. BridgeInv => PagesAreTrue
  BY BridgePromise DEF PagesAreTrue
<1>4. Bridge!Init => BridgeInv
  BY BridgeStart
<1>5. BridgeInv /\ [Bridge!Next]_(Bridge!bridgeVars) => BridgeInv'
  BY BridgeStep
<1> QED
  BY <1>1, <1>2, <1>3, <1>4, <1>5, PTL DEF AllSpec

\* Through any messages, edits, faults, stops and kills, what was prepared for a turn is
\* gone when its release is, and no program runs on for a release that ended.
THEOREM NothingStaysLeft == ASSUME ProgramConstants PROVE AllSpec => []NothingIsLeft
<1>1. AllInit => Program!Init
  BY DEF AllInit
<1>2. [AllNext]_<<vars, bridgeVars, deviceVars, mailVars, programVars, threadVars, typingVars, which>>
        => [Program!Next]_(Program!progVars)
  BY DEF AllNext, programVars, Program!progVars, Program!process, Program!store, Program!preparation,
         Program!taking
<1>3. ProgramInv => NothingIsLeft
  BY ProgramPromise DEF NothingIsLeft
<1>4. Program!Init => ProgramInv
  BY ProgramStart
<1>5. ProgramInv /\ [Program!Next]_(Program!progVars) => ProgramInv'
  BY ProgramStep
<1> QED
  BY <1>1, <1>2, <1>3, <1>4, <1>5, PTL DEF AllSpec

\* Through any changes of the tool servers, deaths of the app-server and resumes, a unit
\* stays in its thread, and what the loop holds the servers for is what they answered last.
THEOREM HarnessStands == ASSUME ThreadsConstants PROVE AllSpec => []LoopKnowsItsHarness
<1>1. AllInit => Threads!Init
  BY DEF AllInit
<1>2. [AllNext]_<<vars, bridgeVars, deviceVars, mailVars, programVars, threadVars, typingVars, which>>
        => [Threads!Next]_(Threads!vars)
  BY DEF AllNext, threadVars, Threads!vars
<1>3. ThreadsInv => LoopKnowsItsHarness
  BY ThreadsPromise DEF LoopKnowsItsHarness
<1>4. Threads!Init => ThreadsInv
  BY ThreadsStart
<1>5. ThreadsInv /\ [Threads!Next]_(Threads!vars) => ThreadsInv'
  BY ThreadsStep
<1> QED
  BY <1>1, <1>2, <1>3, <1>4, <1>5, PTL DEF AllSpec

\* Whatever calls are made, refused or late, a conversation whose signal has ended and is
\* quiet shows no one typing, unless the provider refused the pause.
THEOREM EndsPausedStands == AllSpec => []EndsPaused
<1>1. AllInit => Typing!Init
  BY DEF AllInit
<1>2. [AllNext]_<<vars, bridgeVars, deviceVars, mailVars, programVars, threadVars, typingVars, which>>
        => [Typing!Next]_(Typing!typingVars)
  BY DEF AllNext, typingVars, Typing!typingVars
<1>3. TypingInv => EndsPaused
  BY TypingPromise DEF EndsPaused
<1>4. Typing!Init => TypingInv
  BY TypingStart
<1>5. TypingInv /\ [Typing!Next]_(Typing!typingVars) => TypingInv'
  BY TypingStep
<1> QED
  BY <1>1, <1>2, <1>3, <1>4, <1>5, PTL DEF AllSpec

\* Through any mails, readers, failed or cut polls, new numbers and kills, mail behind the
\* mailbox's mark is in the store and what the person has not read stays unread.
THEOREM MailStands == ASSUME MailConstants PROVE AllSpec => []MailIsKept
<1>1. AllInit => Mailbox!Init
  BY DEF AllInit
<1>2. [AllNext]_<<vars, bridgeVars, deviceVars, mailVars, programVars, threadVars, typingVars, which>>
        => [Mailbox!Next]_(Mailbox!vars)
  BY DEF AllNext, mailVars, Mailbox!vars, Mailbox!mailbox, Mailbox!pollState, Mailbox!capture,
         Mailbox!disk, Mailbox!history
<1>3. MailInv => MailIsKept
  BY MailPromise DEF MailIsKept
<1>4. Mailbox!Init => MailInv
  BY MailStart
<1>5. MailInv /\ [Mailbox!Next]_(Mailbox!vars) => MailInv'
  BY MailStep
<1> QED
  BY <1>1, <1>2, <1>3, <1>4, <1>5, PTL DEF AllSpec
=============================================================================

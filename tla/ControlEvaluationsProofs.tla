------------------------- MODULE ControlEvaluationsProofs -------------------------
(***************************************************************************)
(* Theorems about ControlEvaluations.  An evaluation only names one that    *)
(* was sealed before it was prepared, so what it supersedes has a lower id: *)
(* from that follows which evaluations of a bundle are current.  The facts  *)
(* of a prefix depend on nothing that comes after it.  And an evaluation is *)
(* what its accepted request says of a prefix of the run, so a verifier that *)
(* has the prefix finds what prepare_policy found.                          *)
(***************************************************************************)
EXTENDS ControlEvaluations, Orders

-----------------------------------------------------------------------------
(* The inductive invariant: TypeOK, and that both logs are sequences.        *)

Shape ==
    /\ run \in TheRuns
    /\ prepared \in Seq(ToSet(prepared))
    /\ sealed \in Seq(ToSet(sealed))

EvalInv == TypeOK /\ Shape

\* A sequence with something appended.
LEMMA Appended ==
    ASSUME NEW log, log \in Seq(ToSet(log)), NEW item
    PROVE  LET longer == Append(log, item)
           IN  /\ longer \in Seq(ToSet(longer))
               /\ Len(longer) = Len(log) + 1 /\ Len(log) \in Nat
               /\ DOMAIN log = 1..Len(log) /\ DOMAIN longer = 1..(Len(log) + 1)
               /\ \A i \in DOMAIN log : longer[i] = log[i]
               /\ longer[Len(log) + 1] = item
               /\ ToSet(longer) = ToSet(log) \cup {item}
  <1> DEFINE S == ToSet(log) \cup {item}
             longer == Append(log, item)
             n == Len(log)
  <1>1. log \in Seq(S) /\ item \in S
    OBVIOUS
  <1>2. /\ longer \in Seq(S) /\ Len(longer) = n + 1 /\ n \in Nat
        /\ DOMAIN log = 1..n /\ DOMAIN longer = 1..(n + 1)
        /\ \A i \in 1..n : longer[i] = log[i]
        /\ longer[n + 1] = item
    BY <1>1
  <1> HIDE DEF longer, n
  <1>3. ToSet(longer) = S
    <2>1. ASSUME NEW x \in ToSet(longer)
          PROVE  x \in S
      <3>1. PICK i \in 1..(n + 1) : x = longer[i]
        BY <1>2 DEF ToSet
      <3>2. i = n + 1 \/ i \in 1..n
        BY <1>2
      <3> QED
        BY <1>2, <3>1, <3>2 DEF ToSet
    <2>2. ASSUME NEW x \in S
          PROVE  x \in ToSet(longer)
      <3>1. x = item \/ \E i \in 1..n : x = log[i]
        BY <1>2 DEF ToSet
      <3>2. n + 1 \in DOMAIN longer /\ \A i \in 1..n : i \in DOMAIN longer
        BY <1>2
      <3> QED
        BY <1>2, <3>1, <3>2 DEF ToSet
    <2> QED
      BY <2>1, <2>2
  <1>4. longer \in Seq(ToSet(longer))
    BY <1>2, <1>3
  <1> QED
    BY <1>2, <1>3, <1>4 DEF longer, n

LEMMA InitInv == Init => EvalInv
  <1> SUFFICES ASSUME Init
               PROVE  EvalInv
    OBVIOUS
  <1>1. /\ received = {} /\ DOMAIN prepared = {} /\ DOMAIN sealed = {}
        /\ prepared \in Seq(ToSet(prepared)) /\ sealed \in Seq(ToSet(sealed))
    BY DEF Init
  <1> QED
    BY <1>1 DEF Init, EvalInv, TypeOK, Shape

\* What may be named is the id of an evaluation prepared earlier.
LEMMA PredecessorsAreEarlier == EvalInv => Predecessors \subseteq 0..Len(prepared)
  <1> SUFFICES ASSUME EvalInv, NEW p \in Predecessors
               PROVE  p \in 0..Len(prepared)
    OBVIOUS
  <1>1. Len(prepared) \in Nat /\ DOMAIN prepared = 1..Len(prepared)
    BY Appended DEF EvalInv, Shape
  <1>2. CASE p = 0
    BY <1>1, <1>2
  <1>3. CASE p # 0
    <2>1. PICK i \in DOMAIN sealed : sealed[i].envelope.kind # "v1" /\ p = sealed[i].envelope.id
      BY <1>3 DEF Predecessors
    <2>2. sealed[i].envelope \in ToSet(prepared)
      BY <2>1 DEF EvalInv, TypeOK
    <2>3. PICK k \in DOMAIN prepared : sealed[i].envelope = prepared[k]
      BY <2>2 DEF ToSet
    <2>4. p = k
      BY <2>1, <2>3 DEF EvalInv, TypeOK
    <2> QED
      BY <1>1, <2>4
  <1> QED
    BY <1>2, <1>3

\* Each request names the predecessor it is made for.
Corrects(request, p) == "supersedes" \in DOMAIN request /\ request.supersedes = p

LEMMA RequestsName ==
    ASSUME NEW p, NEW request \in {Honest(p)} \cup Varied(p)
    PROVE  request.supersedes = p
  <1>1. Corrects(Honest(p), p)
    BY DEF Honest, Corrects
  <1>3. PICK r : r = Approved(Honest(p), NotRequired)
    OBVIOUS
  <1>4. Corrects(r, p)
    BY <1>1, <1>3 DEF Approved, Corrects
  <1>5. \/ request = Honest(p)
        \/ \E x : request = Failed(r, x)
        \/ \E x : request = Failed(Honest(p), x)
        \/ \E x : request = Approved(Honest(p), x)
        \/ \E x : request = [Honest(p) EXCEPT !.missing = x]
        \/ \E x : request = [Honest(p) EXCEPT !.prefix = x]
        \/ \E x : request = [r EXCEPT !.approval = x]
    BY <1>3, Zenon DEF Varied
  <1>6. Corrects(request, p)
    <2>1. ASSUME NEW x, \/ request = Failed(r, x)
                        \/ request = Failed(Honest(p), x)
                        \/ request = Approved(Honest(p), x)
          PROVE  Corrects(request, p)
      BY <1>1, <1>4, <2>1 DEF Failed, Approved, Corrects
    <2>2. ASSUME NEW x, \/ request = [Honest(p) EXCEPT !.missing = x]
                        \/ request = [Honest(p) EXCEPT !.prefix = x]
                        \/ request = [r EXCEPT !.approval = x]
          PROVE  Corrects(request, p)
      BY <1>1, <1>4, <2>2 DEF Corrects
    <2> QED
      BY <1>1, <1>5, <2>1, <2>2
  <1> QED
    BY <1>6 DEF Corrects

\* An evaluation prepared under the next id, and naming an earlier one.
LEMMA AddKeepsInv ==
    ASSUME EvalInv, NEW envelope, Add(envelope), envelope.id = Len(prepared) + 1,
           envelope.kind \in Kinds, envelope.supersedes \in 0..Len(prepared)
    PROVE  EvalInv'
  <1> DEFINE n == Len(prepared)
  <1>1. /\ prepared' = Append(prepared, envelope)
        /\ UNCHANGED <<run, received, sealed>>
    BY DEF Add
  <1>2. /\ prepared' \in Seq(ToSet(prepared')) /\ n \in Nat
        /\ DOMAIN prepared = 1..n /\ DOMAIN prepared' = 1..(n + 1)
        /\ \A i \in DOMAIN prepared : prepared'[i] = prepared[i]
        /\ prepared'[n + 1] = envelope
        /\ ToSet(prepared') = ToSet(prepared) \cup {envelope}
    BY <1>1, Appended DEF EvalInv, Shape
  <1>3. Shape'
    BY <1>1, <1>2 DEF EvalInv, Shape
  <1>4. ASSUME NEW i \in DOMAIN prepared'
        PROVE  /\ prepared'[i].id = i /\ prepared'[i].kind \in Kinds
               /\ prepared'[i].supersedes \in 0..(i - 1)
    <2>1. CASE i \in DOMAIN prepared
      BY <1>2, <2>1 DEF EvalInv, TypeOK
    <2>2. CASE i = n + 1
      BY <1>2, <2>2
    <2> QED
      BY <1>2, <2>1, <2>2
  <1>5. TypeOK'
    BY <1>1, <1>2, <1>4 DEF EvalInv, TypeOK
  <1> QED
    BY <1>3, <1>5 DEF EvalInv

\* An evaluation sealed that was prepared, or is a v1 one.
LEMMA KeepKeepsInv ==
    ASSUME EvalInv, NEW envelope, NEW timestamped, Keep(envelope, timestamped),
           envelope \in ToSet(prepared) \/ envelope.kind = "v1"
    PROVE  EvalInv'
  <1> DEFINE signed == [envelope |-> envelope, timestamped |-> timestamped]
             n == Len(sealed)
  <1>1. sealed' = Append(sealed, signed) /\ UNCHANGED <<run, received, prepared>>
    BY DEF Keep
  <1>2. /\ sealed' \in Seq(ToSet(sealed')) /\ n \in Nat
        /\ DOMAIN sealed = 1..n /\ DOMAIN sealed' = 1..(n + 1)
        /\ \A i \in DOMAIN sealed : sealed'[i] = sealed[i]
        /\ sealed'[n + 1] = signed
    BY <1>1, Appended DEF EvalInv, Shape
  <1>3. Shape'
    BY <1>1, <1>2 DEF EvalInv, Shape
  <1>4. ASSUME NEW i \in DOMAIN sealed'
        PROVE  sealed'[i].envelope \in ToSet(prepared) \/ sealed'[i].envelope.kind = "v1"
    <2>1. CASE i \in DOMAIN sealed
      BY <1>2, <2>1 DEF EvalInv, TypeOK
    <2>2. CASE i = n + 1
      BY <1>2, <2>2
    <2> QED
      BY <1>2, <2>1, <2>2
  <1>5. TypeOK'
    BY <1>1, <1>4 DEF EvalInv, TypeOK
  <1> QED
    BY <1>3, <1>5 DEF EvalInv

LEMMA NextInv == EvalInv /\ [Next]_vars => EvalInv'
  <1> SUFFICES ASSUME EvalInv, [Next]_vars
               PROVE  EvalInv'
    OBVIOUS
  <1> USE DEF EvalInv
  <1>1. CASE \E seqs \in SUBSET DOMAIN run : Arrive(seqs)
    BY <1>1 DEF Arrive, TypeOK, Shape
  <1>2. CASE PreparePolicy
    <2>1. PICK supersedes \in Predecessors :
             \E request \in {Honest(supersedes)} \cup
                            (IF Len(prepared) < MaxVaried THEN Varied(supersedes) ELSE {}) :
                 Add(PolicyEnvelope(Len(prepared) + 1, request))
      BY <1>2 DEF PreparePolicy
    <2>2. PICK request \in {Honest(supersedes)} \cup Varied(supersedes) :
             Add(PolicyEnvelope(Len(prepared) + 1, request))
      BY <2>1
    <2>3. request.supersedes = supersedes
      BY <2>2, RequestsName
    <2> DEFINE envelope == PolicyEnvelope(Len(prepared) + 1, request)
    <2>4. envelope.id = Len(prepared) + 1 /\ envelope.kind = "policy" /\ envelope.supersedes = supersedes
      BY <2>3 DEF PolicyEnvelope
    <2>5. Add(envelope)
      BY <2>2
    <2>6. supersedes \in 0..Len(prepared)
      BY PredecessorsAreEarlier
    <2> HIDE DEF envelope, EvalInv
    <2> QED
      BY <2>4, <2>5, <2>6, AddKeepsInv DEF Kinds
  <1>3. CASE PrepareAttested
    <2>1. PICK supersedes \in Predecessors :
             Add(OtherEnvelope(Len(prepared) + 1, "attested", supersedes))
      BY <1>3 DEF PrepareAttested
    <2> DEFINE envelope == OtherEnvelope(Len(prepared) + 1, "attested", supersedes)
    <2>2. envelope.id = Len(prepared) + 1 /\ envelope.kind = "attested" /\ envelope.supersedes = supersedes
      BY DEF OtherEnvelope
    <2>3. Add(envelope)
      BY <2>1
    <2>4. supersedes \in 0..Len(prepared)
      BY PredecessorsAreEarlier
    <2> HIDE DEF envelope, EvalInv
    <2> QED
      BY <2>2, <2>3, <2>4, AddKeepsInv DEF Kinds
  <1>4. CASE SealV1
    <2> DEFINE envelope == OtherEnvelope(MaxPrepared + Len(sealed) + 1, "v1", 0)
    <2>1. Keep(envelope, TRUE) /\ envelope.kind = "v1"
      BY <1>4 DEF SealV1, OtherEnvelope
    <2> HIDE DEF envelope, EvalInv
    <2> QED
      BY <2>1, KeepKeepsInv
  <1>5. CASE \E i \in DOMAIN prepared : Seal(prepared[i]) \/ Complete(prepared[i])
    <2>1. PICK i \in DOMAIN prepared : Keep(prepared[i], TRUE) \/ Keep(prepared[i], FALSE)
      BY <1>5 DEF Seal, Complete
    <2>2. prepared[i] \in ToSet(prepared)
      BY DEF ToSet
    <2> HIDE DEF EvalInv
    <2> QED
      BY <2>1, <2>2, KeepKeepsInv
  <1>6. CASE UNCHANGED vars
    BY <1>6 DEF vars, TypeOK, Shape
  <1> QED
    BY <1>1, <1>2, <1>3, <1>4, <1>5, <1>6 DEF Next

\* The inductive invariant of every behaviour: the evaluations prepared and
\* those sealed are two logs that only grow, and keep their types.
THEOREM EvaluationsInvariant == Spec => []EvalInv
  <1>1. Init => EvalInv
    BY InitInv
  <1>2. EvalInv /\ [Next]_vars => EvalInv'
    BY NextInv
  <1> QED
    BY <1>1, <1>2, PTL DEF Spec

\* TypeOK: an evaluation supersedes an earlier one only, and what is sealed and
\* no v1 request is what was prepared (ControlEvaluation.seal and complete).
THEOREM EvaluationsTyped == Spec => []TypeOK
  <1>1. EvalInv => TypeOK
    BY DEF EvalInv
  <1> QED
    BY <1>1, EvaluationsInvariant, PTL

-----------------------------------------------------------------------------
(* What supersedes what.                                                     *)

EnvelopeId(i) == sealed[i].envelope.id
Names(i, j) == sealed[j].envelope.supersedes = EnvelopeId(i)

\* A sealed evaluation that can be corrected has a positive id, and names a
\* lower one or none.
LEMMA SealedIds ==
    ASSUME EvalInv, NEW kind \in Corrected, NEW i \in OfKind(kind)
    PROVE  /\ i \in DOMAIN sealed /\ i \in Nat
           /\ EnvelopeId(i) \in 1..Len(prepared) /\ Len(prepared) \in Nat
           /\ sealed[i].envelope.supersedes \in 0..(EnvelopeId(i) - 1)
  <1>1. i \in DOMAIN sealed /\ sealed[i].envelope.kind \in {"policy", "attested"}
    BY DEF OfKind, Corrected
  <1>2. DOMAIN sealed = 1..Len(sealed) /\ DOMAIN prepared = 1..Len(prepared)
        /\ Len(sealed) \in Nat /\ Len(prepared) \in Nat
    BY Appended DEF EvalInv, Shape
  <1>3. sealed[i].envelope \in ToSet(prepared)
    BY <1>1 DEF EvalInv, TypeOK
  <1>4. PICK k \in DOMAIN prepared : sealed[i].envelope = prepared[k]
    BY <1>3 DEF ToSet
  <1>5. prepared[k].id = k /\ prepared[k].supersedes \in 0..(k - 1)
    BY <1>4 DEF EvalInv, TypeOK
  <1> QED
    BY <1>1, <1>2, <1>4, <1>5 DEF EnvelopeId

\* The one of a kind that has the greatest id is current, if no evaluation of
\* another kind names one of the kind.
LEMMA GreatestIsCurrent ==
    ASSUME EvalInv, NEW kind \in Corrected, NEW bundle, NEW verified,
           OfKind(kind) \cap verified # {}, Current(bundle, verified, kind) = {}
    PROVE  \E i \in verified \ (OfKind(kind) \cap verified) : NamesKind(sealed[i].envelope, kind)
  <1> DEFINE mine == OfKind(kind) \cap verified
             T == {EnvelopeId(i) : i \in mine}
  <1>1. ASSUME NEW i \in mine
        PROVE  /\ EnvelopeId(i) \in 1..Len(prepared) /\ Len(prepared) \in Nat
               /\ sealed[i].envelope.supersedes \in 0..(EnvelopeId(i) - 1)
               /\ sealed[i].envelope.kind = kind /\ i \in OfKind(kind)
    BY SealedIds DEF OfKind
  <1>2. T \in SUBSET Nat /\ T # {} /\ Len(prepared) \in Nat /\ \A x \in T : x <= Len(prepared)
    BY <1>1
  <1>3. PICK top \in T : \A x \in T : x <= top
    BY <1>2, GreatestOf
  <1>4. PICK i \in mine : top = EnvelopeId(i)
    OBVIOUS
  <1>5. top \in Superseded(bundle, verified)
    <2>1. i \in verified /\ i \notin Current(bundle, verified, kind)
      OBVIOUS
    <2> QED
      BY <1>1, <1>4, <2>1 DEF Current, EnvelopeId
  <1>6. PICK j \in verified : top = sealed[j].envelope.supersedes
    BY <1>5 DEF Superseded
  <1>7. j \notin mine
    <2> SUFFICES ASSUME j \in mine
                 PROVE  FALSE
      OBVIOUS
    <2>1. top \in 0..(EnvelopeId(j) - 1) /\ EnvelopeId(j) \in Nat
      BY <1>1, <1>6
    <2>2. EnvelopeId(j) <= top
      BY <1>3
    <2> QED
      BY <1>2, <2>1, <2>2
  <1>8. NamesKind(sealed[j].envelope, kind)
    BY <1>1, <1>4, <1>6 DEF NamesKind, EnvelopeId
  <1> QED
    BY <1>7, <1>8

\* SomeoneIsCurrent, for every run and however many evaluations: a valid
\* evaluation of a kind is current, or one of another kind names one of them.
THEOREM SomeEvaluationIsCurrent == Spec => []SomeoneIsCurrent
  <1>1. ASSUME EvalInv
        PROVE  SomeoneIsCurrent
    <2>1. ASSUME NEW n \in DOMAIN run, NEW kind \in Corrected, NEW bundle \in Bundles,
                 OfKind(kind) \cap (ValidAt(n) \cap bundle) # {}
          PROVE  LET verified == ValidAt(n) \cap bundle
                     mine     == OfKind(kind) \cap verified
                 IN  \/ Current(bundle, verified, kind) # {}
                     \/ \E i \in verified \ mine : NamesKind(sealed[i].envelope, kind)
      BY <1>1, <2>1, GreatestIsCurrent, Zenon
    <2> QED
      BY <2>1, Zenon DEF SomeoneIsCurrent
  <1> QED
    BY <1>1, EvaluationsInvariant, PTL

-----------------------------------------------------------------------------
(* Corrections made one after another.                                       *)

\* i was sealed last of the kind before j, and in a linear chain j names it.
Follows(i, j, kind) == i < j /\ \A x \in OfKind(kind) : x < j => x <= i

LEMMA LinearNames ==
    ASSUME EvalInv, NEW kind \in Corrected, Linear(kind), NEW j \in OfKind(kind),
           NEW i \in OfKind(kind), i < j
    PROVE  \E b \in OfKind(kind) : Follows(b, j, kind) /\ Names(b, j) /\ i <= b
  <1> DEFINE before == {x \in OfKind(kind) : x < j}
  <1>1. before \in SUBSET Nat /\ before # {} /\ j \in Nat /\ \A x \in before : x <= j
    BY SealedIds
  <1>2. Max(before) \in before /\ \A x \in before : x <= Max(before)
    <2> HIDE DEF before
    <2> QED
      BY <1>1, MaxIs
  <1>3. sealed[j].envelope.supersedes = sealed[Max(before)].envelope.id
    <2>1. sealed[j].envelope.supersedes =
             IF before = {} THEN 0 ELSE sealed[Max(before)].envelope.id
      BY Zenon DEF Linear
    <2> QED
      BY <1>1, <2>1
  <1> QED
    BY <1>2, <1>3 DEF Names, EnvelopeId, Follows

LEMMA LinearFirst ==
    ASSUME NEW kind, Linear(kind), NEW j \in OfKind(kind),
           \A x \in OfKind(kind) : ~(x < j)
    PROVE  sealed[j].envelope.supersedes = 0
  <1> DEFINE before == {x \in OfKind(kind) : x < j}
  <1>1. sealed[j].envelope.supersedes =
           IF before = {} THEN 0 ELSE sealed[Max(before)].envelope.id
    BY Zenon DEF Linear
  <1> QED
    BY <1>1

\* Along the chain the ids increase.
LEMMA LinearAscends ==
    ASSUME EvalInv, NEW kind \in Corrected, Linear(kind)
    PROVE  \A j, i \in OfKind(kind) : i < j => EnvelopeId(i) < EnvelopeId(j)
  <1> DEFINE chain == OfKind(kind)
             T == {j \in chain : \E i \in chain : i < j /\ ~(EnvelopeId(i) < EnvelopeId(j))}
  <1>1. \A i \in chain : i \in Nat /\ EnvelopeId(i) \in Nat
    BY SealedIds
  <1> SUFFICES ASSUME T # {}
               PROVE  FALSE
    OBVIOUS
  <1>2. PICK j \in T : \A x \in T : j <= x
    <2>1. T \in SUBSET Nat
      BY <1>1
    <2> QED
      BY <2>1, LeastOf
  <1>3. PICK i \in chain : i < j /\ ~(EnvelopeId(i) < EnvelopeId(j))
    OBVIOUS
  <1>4. PICK b \in chain : Follows(b, j, kind) /\ Names(b, j) /\ i <= b
    BY <1>3, LinearNames
  <1>5. EnvelopeId(b) < EnvelopeId(j)
    <2>1. sealed[j].envelope.supersedes \in 0..(EnvelopeId(j) - 1)
      BY SealedIds
    <2> QED
      BY <1>1, <1>4, <2>1 DEF Names
  <1>6. i < b /\ ~(EnvelopeId(i) < EnvelopeId(b))
    <2>1. i # b
      BY <1>3, <1>5
    <2>2. i \in Nat /\ b \in Nat /\ EnvelopeId(i) \in Nat /\ EnvelopeId(b) \in Nat /\ EnvelopeId(j) \in Nat
      BY <1>1
    <2> QED
      BY <1>3, <1>4, <1>5, <2>1, <2>2
  <1>7. b \in T /\ b < j
    BY <1>4, <1>6 DEF Follows
  <1>8. b \in Nat /\ j \in Nat
    BY <1>1
  <1> QED
    BY <1>2, <1>7, <1>8

\* One of the chain is named by the next of it, and by nothing else.
LEMMA LinearNamed ==
    ASSUME EvalInv, NEW kind \in Corrected, Linear(kind), NEW i \in OfKind(kind),
           NEW j \in DOMAIN sealed, Names(i, j)
    PROVE  j \in OfKind(kind) /\ Follows(i, j, kind)
  <1>1. j \in OfKind(kind)
    <2>1. NamesKind(sealed[j].envelope, kind)
      BY DEF NamesKind, Names, EnvelopeId
    <2> QED
      BY <2>1 DEF Linear
  <1>2. EnvelopeId(i) # 0
    BY SealedIds
  <1>3. PICK x \in OfKind(kind) : x < j
    BY <1>1, <1>2, LinearFirst DEF Names
  <1>4. PICK b \in OfKind(kind) : Follows(b, j, kind) /\ Names(b, j)
    BY <1>1, <1>3, LinearNames
  <1>5. b = i
    <2>1. EnvelopeId(b) = EnvelopeId(i)
      BY <1>4 DEF Names
    <2>2. /\ i < b => EnvelopeId(i) < EnvelopeId(b)
          /\ b < i => EnvelopeId(b) < EnvelopeId(i)
      BY LinearAscends
    <2>3. i \in Nat /\ b \in Nat /\ EnvelopeId(b) \in Nat
      BY SealedIds
    <2> QED
      BY <2>1, <2>2, <2>3
  <1> QED
    BY <1>1, <1>4, <1>5

\* Which of a linear chain are current, when some of it are left out.
LatestOf(bundle, verified, kind) ==
    LET mine    == OfKind(kind) \cap verified
        current == Current(bundle, verified, kind)
    IN  /\ Max(mine) \in current
        /\ current = {Max(mine)} <=> OfKind(kind) \cap (Min(mine)..Max(mine)) = mine

LEMMA LatestIsCurrent ==
    ASSUME EvalInv, NEW kind \in Corrected, Linear(kind), NEW bundle,
           NEW verified \in SUBSET DOMAIN sealed, OfKind(kind) \cap verified # {}
    PROVE  LatestOf(bundle, verified, kind)
  <1> DEFINE chain   == OfKind(kind)
             mine    == chain \cap verified
             current == Current(bundle, verified, kind)
             top     == Max(mine)
             bottom  == Min(mine)
  <1>1. \A i \in chain : i \in Nat /\ EnvelopeId(i) \in Nat /\ EnvelopeId(i) # 0
    BY SealedIds
  <1>2. top \in mine /\ \A i \in mine : i <= top
    <2>1. mine \in SUBSET Nat /\ Len(sealed) \in Nat /\ \A i \in mine : i <= Len(sealed)
      <3>1. DOMAIN sealed = 1..Len(sealed) /\ Len(sealed) \in Nat
        BY Appended DEF EvalInv, Shape
      <3> QED
        BY <3>1
    <2> HIDE DEF mine
    <2> QED
      BY <2>1, MaxIs DEF mine
  <1>3. bottom \in mine /\ \A i \in mine : bottom <= i
    <2>1. mine \in SUBSET Nat
      BY <1>1
    <2> HIDE DEF mine
    <2> QED
      BY <2>1, MinIs DEF mine
  <1> HIDE DEF top, bottom
  <1>4. ASSUME NEW i \in mine
        PROVE  i \in current <=> \A j \in mine : ~Follows(i, j, kind)
    <2>1. i \in current <=> \A j \in verified : ~Names(i, j)
      <3>1. EnvelopeId(i) # 0
        BY <1>1
      <3>2. EnvelopeId(i) \in Superseded(bundle, verified) <=> \E j \in verified : Names(i, j)
        BY <3>1 DEF Superseded, Names
      <3>3. sealed[i].envelope.kind = kind /\ i \in verified
        BY DEF OfKind
      <3> QED
        BY <3>2, <3>3 DEF Current, EnvelopeId
    <2>2. ASSUME NEW j \in verified, Names(i, j)
          PROVE  j \in mine /\ Follows(i, j, kind)
      BY <2>2, LinearNamed
    <2>3. ASSUME NEW j \in mine, Follows(i, j, kind)
          PROVE  Names(i, j)
      <3>1. PICK b \in chain : Follows(b, j, kind) /\ Names(b, j) /\ i <= b
        BY <2>3, LinearNames DEF Follows
      <3>2. b = i
        BY <1>1, <2>3, <3>1 DEF Follows
      <3> QED
        BY <3>1, <3>2
    <2> QED
      BY <2>1, <2>2, <2>3
  <1>5. current \subseteq mine
    BY DEF Current, OfKind
  <1>6. top \in current
    <2>1. ASSUME NEW j \in mine, Follows(top, j, kind)
          PROVE  FALSE
      BY <1>1, <1>2, <2>1 DEF Follows
    <2> QED
      BY <1>2, <1>4, <2>1
  <1>7. ASSUME chain \cap (bottom..top) = mine
        PROVE  current = {top}
    <2>1. ASSUME NEW i \in current, i # top
          PROVE  FALSE
      <3> DEFINE later == {x \in chain : i < x}
      <3>1. i \in mine /\ i < top /\ i \in Nat /\ top \in Nat /\ bottom <= i /\ bottom \in Nat
        BY <1>1, <1>2, <1>3, <1>5, <2>1
      <3>2. later \in SUBSET Nat /\ top \in later
        BY <1>1, <1>2, <3>1
      <3>3. PICK j \in later : \A x \in later : j <= x
        BY <3>2, LeastOf
      <3>4. j \in chain /\ i < j /\ j <= top /\ j \in Nat
        BY <3>2, <3>3
      <3>5. j \in bottom..top
        BY <3>1, <3>4
      <3>6. j \in mine
        BY <1>7, <3>4, <3>5
      <3>7. Follows(i, j, kind)
        <4>1. ASSUME NEW x \in chain, x < j
              PROVE  x <= i
          <5>1. x \in Nat /\ (i < x => j <= x)
            BY <1>1, <3>3
          <5> QED
            BY <3>1, <3>4, <4>1, <5>1
        <4> QED
          BY <3>4, <4>1 DEF Follows
      <3> QED
        BY <1>4, <3>1, <3>6, <3>7, <2>1
    <2> QED
      BY <1>6, <2>1
  <1>8. ASSUME current = {top}
        PROVE  chain \cap (bottom..top) = mine
    <2>1. ASSUME NEW i \in mine
          PROVE  i \in chain /\ i \in bottom..top
      <3>1. i \in Nat /\ top \in Nat /\ bottom \in Nat /\ bottom <= i /\ i <= top
        BY <1>1, <1>2, <1>3
      <3> QED
        BY <3>1
    <2>2. ASSUME NEW c \in chain, c \in bottom..top, c \notin mine
          PROVE  FALSE
      <3> DEFINE earlier == {x \in mine : x < c}
      <3>1. c \in Nat /\ top \in Nat /\ bottom \in Nat /\ bottom <= c /\ c <= top /\ c # top /\ c # bottom
        BY <1>1, <1>2, <1>3, <2>2
      <3>2. earlier \in SUBSET Nat /\ bottom \in earlier /\ \A x \in earlier : x <= c
        <4>1. bottom < c /\ bottom \in mine
          BY <1>3, <3>1
        <4>2. \A x \in earlier : x \in Nat /\ x < c
          BY <1>1
        <4>3. \A x \in earlier : x <= c
          BY <3>1, <4>2
        <4> HIDE DEF mine
        <4> QED
          BY <4>1, <4>2, <4>3
      <3>3. PICK p \in earlier : \A x \in earlier : x <= p
        BY <3>1, <3>2, GreatestOf
      <3>4. p \in mine /\ p \in chain /\ p < c /\ p \in Nat /\ p # top
        BY <3>1, <3>2
      <3>5. PICK j \in mine : Follows(p, j, kind)
        BY <1>4, <1>8, <3>4
      <3>6. j \in Nat /\ p < j /\ (c < j => c <= p)
        BY <1>1, <3>5 DEF Follows
      <3>7. j < c => j <= p
        BY <3>3
      <3>8. j # c
        BY <2>2
      <3> QED
        BY <3>1, <3>4, <3>6, <3>7, <3>8
    <2> QED
      BY <2>1, <2>2
  <1> QED
    BY <1>6, <1>7, <1>8 DEF top, bottom, LatestOf

\* CurrentIsLatest, for every run and however long the chain: the last of the
\* verified corrections of a bundle is current, and it alone exactly when none
\* between two of them is left out or invalid.
THEOREM LatestCorrectionIsCurrent == Spec => []CurrentIsLatest
  <1>1. ASSUME EvalInv
        PROVE  CurrentIsLatest
    <2>1. ASSUME NEW kind \in Corrected, Linear(kind), NEW n \in DOMAIN run, NEW bundle \in Bundles,
                 OfKind(kind) \cap (ValidAt(n) \cap bundle) # {}
          PROVE  LatestOf(bundle, ValidAt(n) \cap bundle, kind)
      <3>1. ValidAt(n) \cap bundle \in SUBSET DOMAIN sealed
        BY DEF ValidAt
      <3> QED
        BY <1>1, <2>1, <3>1, LatestIsCurrent, Zenon
    <2> QED
      BY <2>1, Zenon DEF CurrentIsLatest, LatestOf
  <1> QED
    BY <1>1, EvaluationsInvariant, PTL

-----------------------------------------------------------------------------
(* The facts of a prefix.                                                    *)

\* The prefix that was received whole, and what is missing behind it.
LEMMA PrefixOf ==
    ASSUME NEW n \in Nat, NEW seqs \in SUBSET (0..n)
    PROVE  /\ ThroughSeq(seqs) \in Int /\ -1 <= ThroughSeq(seqs) /\ ThroughSeq(seqs) <= n
           /\ 0..ThroughSeq(seqs) \subseteq seqs
           /\ Gaps(seqs) = {} => seqs = 0..ThroughSeq(seqs)
           /\ Gaps(seqs) # {} =>
                 /\ ThroughSeq(seqs) + 1 \in Gaps(seqs)
                 /\ \A g \in Gaps(seqs) : ThroughSeq(seqs) + 1 <= g
           /\ Gaps(seqs) \in SUBSET Nat /\ IsFiniteSet(Gaps(seqs))
  <1> DEFINE top == Max(seqs \cup {-1})
  <1>1. /\ top \in Int /\ -1 <= top /\ top <= n
        /\ top # -1 => top \in seqs
        /\ \A s \in seqs : s <= top
    <2>1. CASE seqs = {}
      <3>1. \A x \in {-1} : x = -1 /\ x >= -1
        OBVIOUS
      <3>2. Max({-1}) = -1
        BY <3>1, Zenon DEF Max
      <3>3. top = -1
        BY <2>1, <3>2
      <3> HIDE DEF top
      <3> QED
        BY <2>1, <3>3
    <2>2. CASE seqs # {}
      <3>1. \E x \in seqs : \A y \in seqs : y <= x
        <4>1. seqs \in SUBSET Nat /\ \A x \in seqs : x <= n
          OBVIOUS
        <4> QED
          BY <2>2, <4>1, GreatestOf
      <3>2. PICK x \in seqs : \A y \in seqs : y <= x
        BY <3>1
      <3>3. x \in Int /\ x >= -1 /\ \A y \in seqs : x >= y
        BY <3>2
      <3>4. x \in seqs \cup {-1} /\ \A y \in seqs \cup {-1} : x >= y
        BY <3>2, <3>3
      <3>5. top \in seqs \cup {-1} /\ \A y \in seqs \cup {-1} : top >= y
        BY <3>4, Zenon DEF Max
      <3> HIDE DEF top
      <3>6. top \in Int /\ top <= n /\ \A y \in seqs : y <= top
        <4>1. \A y \in seqs : y \in Int /\ y <= n
          OBVIOUS
        <4>2. top \in Int /\ top <= n
          BY <3>5, <4>1
        <4> QED
          BY <3>5, <4>1, <4>2
      <3>7. top >= -1 /\ (top # -1 => top \in seqs)
        BY <3>5
      <3> QED
        BY <3>6, <3>7
    <2> QED
      BY <2>1, <2>2
  <1>2. Gaps(seqs) = (0..top) \ seqs
    BY DEF Gaps
  <1>3. Gaps(seqs) \in SUBSET Nat /\ IsFiniteSet(Gaps(seqs))
    <2>1. IsFiniteSet(0..top)
      <3> HIDE DEF top
      <3> QED
        BY <1>1, FS_Interval
    <2> HIDE DEF top
    <2> QED
      BY <1>1, <1>2, <2>1, FS_Subset
  <1>4. CASE Gaps(seqs) = {}
    <2>1. ThroughSeq(seqs) = top
      BY <1>4 DEF ThroughSeq
    <2> HIDE DEF top
    <2>2. \A s \in seqs : s \in 0..top
      BY <1>1
    <2>3. \A s \in 0..top : s \in seqs
      BY <1>2, <1>4
    <2>4. seqs = 0..top
      BY <2>2, <2>3, Zenon
    <2> QED
      BY <1>1, <1>3, <1>4, <2>1, <2>4
  <1>5. CASE Gaps(seqs) # {}
    <2> DEFINE first == Min(Gaps(seqs))
    <2>1. first \in Gaps(seqs) /\ \A g \in Gaps(seqs) : first <= g
      BY <1>3, <1>5, MinIs
    <2>2. ThroughSeq(seqs) = first - 1
      BY <1>5 DEF ThroughSeq
    <2> HIDE DEF first, top
    <2>3. first \in 0..top /\ first \in Nat
      BY <1>2, <2>1
    <2>4. ASSUME NEW s \in 0..(first - 1)
          PROVE  s \in seqs
      <3>1. s \in 0..top /\ ~(first <= s)
        BY <1>1, <2>3
      <3> QED
        BY <1>2, <2>1, <3>1
    <2>5. first - 1 + 1 = first /\ first - 1 \in Int /\ -1 <= first - 1 /\ first - 1 <= n
      BY <1>1, <2>3
    <2> QED
      BY <1>3, <1>5, <2>1, <2>2, <2>4, <2>5
  <1> QED
    BY <1>4, <1>5

\* A contiguous prefix has no gaps and reaches as far as it does.
LEMMA WholePrefix ==
    ASSUME NEW t \in Int, -1 <= t
    PROVE  Gaps(0..t) = {} /\ ThroughSeq(0..t) = t
  <1> DEFINE S == 0..t \cup {-1}
  <1>1. t \in S /\ \A y \in S : t >= y
    OBVIOUS
  <1>2. Max(S) \in S /\ \A y \in S : Max(S) >= y
    BY <1>1, Zenon DEF Max
  <1>3. Max(S) = t
    <2>1. \A y \in S : y \in Int /\ t >= y
      OBVIOUS
    <2>2. Max(S) \in Int /\ t >= Max(S) /\ Max(S) >= t
      BY <1>1, <1>2, <2>1
    <2> HIDE DEF S
    <2> QED
      BY <2>2
  <1>4. Gaps(0..t) = {}
    <2>1. Gaps(0..t) = (0..Max(S)) \ (0..t)
      BY Zenon DEF Gaps
    <2> HIDE DEF S
    <2>2. Gaps(0..t) = (0..t) \ (0..t)
      BY <1>3, <2>1, Zenon
    <2> QED
      BY <2>2
  <1>5. ThroughSeq(0..t) = Max(S)
    BY <1>4 DEF ThroughSeq
  <1> HIDE DEF S
  <1> QED
    BY <1>3, <1>4, <1>5

\* What build_facts reports missing: the gaps in order; never the mark that
\* stands for no claim, and nothing exactly when there are no gaps.
LEMMA MissingAre ==
    ASSUME NEW n \in Nat, NEW seqs \in SUBSET (0..n)
    PROVE  /\ MissingSeqs(seqs) = InOrder(Gaps(seqs))
           /\ MissingSeqs(seqs) # NotClaimed
           /\ MissingSeqs(seqs) = <<>> <=> Gaps(seqs) = {}
  <1> DEFINE gaps == Gaps(seqs)
             size == Cardinality(gaps)
  <1>1. gaps \in SUBSET Nat /\ IsFiniteSet(gaps) /\ size \in Nat
    BY PrefixOf, FS_CardinalityType
  <1>2. MissingSeqs(seqs) = InOrder(gaps)
    BY Zenon DEF MissingSeqs, InOrder, Below
  <1>3. InOrder(gaps) \in [1..size -> gaps] /\ \A g \in gaps : \E k \in 1..size : InOrder(gaps)[k] = g
    BY <1>1, InOrderAscends
  <1>4. size = 0 <=> gaps = {}
    BY <1>1, FS_EmptySet
  <1> HIDE DEF gaps, size
  <1>5. InOrder(gaps) # <<-1>>
    <2> SUFFICES ASSUME InOrder(gaps) = <<-1>>
                 PROVE  FALSE
      OBVIOUS
    <2>1. DOMAIN InOrder(gaps) = 1..size /\ DOMAIN <<-1>> = 1..1 /\ <<-1>>[1] = -1
      BY <1>3
    <2>2. 1 \in 1..size
      BY <2>1
    <2>3. InOrder(gaps)[1] \in Nat
      BY <1>1, <1>3, <2>2
    <2> QED
      BY <2>1, <2>3
  <1>6. InOrder(gaps) = <<>> <=> gaps = {}
    <2>1. gaps = {} => InOrder(gaps) = <<>>
      BY <1>3, <1>4
    <2>2. InOrder(gaps) = <<>> => gaps = {}
      BY <1>3, <1>4
    <2> QED
      BY <2>1, <2>2
  <1> QED
    BY <1>2, <1>5, <1>6 DEF gaps, NotClaimed

\* Facts depend only on the events of the prefix they are about.
LEMMA RequestsOfPrefix ==
    ASSUME NEW f, NEW g, NEW t \in Int, \A s \in 0..t : f[s] = g[s], NEW s \in 0..t
    PROVE  EventRequest(f, s) = EventRequest(g, s)
  <1>1. f[s] = g[s] /\ f[0] = g[0] /\ \A i \in 0..s : f[i] = g[i]
    OBVIOUS
  <1>2. Consequential(f, s) = Consequential(g, s)
    BY <1>1, Zenon DEF Consequential
  <1>3. (\E i \in 0..(s - 1) : f[i].type = "human_approval")
           <=> (\E i \in 0..(s - 1) : g[i].type = "human_approval")
    BY <1>1
  <1>4. (IF \E i \in 0..(s - 1) : f[i].type = "human_approval" THEN "unbound" ELSE "none")
           = (IF \E i \in 0..(s - 1) : g[i].type = "human_approval" THEN "unbound" ELSE "none")
    BY <1>3
  <1> QED
    BY <1>1, <1>2, <1>4, Zenon DEF EventRequest

LEMMA CallsOfPrefix ==
    ASSUME NEW f, NEW g, NEW t \in Int, \A s \in 0..t : f[s] = g[s]
    PROVE  Calls(f, t) = Calls(g, t) /\ Consequential(f, t) = Consequential(g, t)
  BY Zenon DEF Calls, Consequential

LEMMA UnpairedOfPrefix ==
    ASSUME NEW f, NEW g, NEW t \in Int, \A s \in 0..t : f[s] = g[s]
    PROVE  Unpaired(f, t) = Unpaired(g, t)
  <1>1. Calls(f, t) = Calls(g, t) /\ \A c \in Calls(f, t) : c \in 0..t
    BY CallsOfPrefix DEF Calls
  <1>2. ASSUME NEW s \in Calls(f, t)
        PROVE  Paired(f, t, s) <=> Paired(g, t, s)
    <2>1. f[s] = g[s] /\ s \in 0..t
      BY <1>1
    <2>2. {c \in Calls(f, t) : f[c].use = f[s].use} = {c \in Calls(g, t) : g[c].use = g[s].use}
      BY <1>1, <2>1
    <2>3. \A i \in (s + 1)..t : f[i] = g[i]
      BY <2>1
    <2> QED
      BY <2>1, <2>2, <2>3 DEF Paired
  <1>3. \A s \in Calls(f, t) : f[s] = g[s]
    BY <1>1
  <1> QED
    BY <1>1, <1>2, <1>3 DEF Unpaired

LEMMA RunLevelOfPrefix ==
    ASSUME NEW f, NEW g, NEW t \in Int, \A s \in 0..t : f[s] = g[s], NEW missing
    PROVE  /\ RunLevel(f, t, missing) = RunLevel(g, t, missing)
           /\ RunLevel(f, t, missing) => RunLevelRequest(f, t) = RunLevelRequest(g, t)
  <1>1. RunLevel(f, t, missing) <=> RunLevel(g, t, missing)
    BY DEF RunLevel
  <1>2. ASSUME RunLevel(f, t, missing)
        PROVE  RunLevelRequest(f, t) = RunLevelRequest(g, t)
    <2>1. 0 \in 0..t
      BY <1>2 DEF RunLevel
    <2>2. {s \in 0..t : f[s].type = "run_end"} = {s \in 0..t : g[s].type = "run_end"}
      OBVIOUS
    <2>3. Consequential(f, t) = Consequential(g, t) /\ Unpaired(f, t) = Unpaired(g, t)
      BY CallsOfPrefix, UnpairedOfPrefix
    <2> QED
      BY <2>1, <2>2, <2>3, Zenon DEF RunLevelRequest
  <1> QED
    BY <1>1, <1>2 DEF RunLevel

\* The requests, without and with the run-level one.
EachRequest(events, t) == [k \in 1..(t + 1) |-> EventRequest(events, k - 1)]

RequestsUpTo(events, t, missing) ==
    IF RunLevel(events, t, missing) THEN Append(EachRequest(events, t), RunLevelRequest(events, t))
    ELSE EachRequest(events, t)

LEMMA FactsAre ==
    ASSUME NEW events, NEW claimed, NEW t, t = ThroughSeq(DOMAIN events),
           NEW missing, missing = IF claimed = NotClaimed THEN MissingSeqs(DOMAIN events) ELSE claimed
    PROVE  BuildFacts(events, claimed) =
              [through |-> t, missing |-> missing, runLevel |-> RunLevel(events, t, missing),
               requests |-> RequestsUpTo(events, t, missing)]
  BY Zenon DEF BuildFacts, RequestsUpTo, EachRequest

LEMMA RequestsAre ==
    ASSUME NEW events, NEW t \in Int, -1 <= t, NEW missing
    PROVE  LET requests == RequestsUpTo(events, t, missing)
           IN  /\ \A k \in 1..(t + 1) : requests[k] = EventRequest(events, k - 1)
               /\ RunLevel(events, t, missing) =>
                     Len(requests) = t + 2 /\ Last(requests) = RunLevelRequest(events, t)
               /\ DOMAIN requests = 1..(t + 1) \cup (IF RunLevel(events, t, missing) THEN {t + 2} ELSE {})
  <1> DEFINE each == EachRequest(events, t)
             level == RunLevelRequest(events, t)
             S == {EventRequest(events, k - 1) : k \in 1..(t + 1)} \cup {level}
             n == t + 1
  <1>1. n \in Nat /\ n + 1 = t + 2
    OBVIOUS
  <1>2. each \in [1..n -> S] /\ \A k \in 1..n : each[k] = EventRequest(events, k - 1)
    BY DEF EachRequest
  <1>3. level \in S
    OBVIOUS
  <1> HIDE DEF each, level, S, n
  <1>4. each \in Seq(S) /\ Len(each) = n /\ DOMAIN each = 1..n
    BY <1>1, <1>2
  <1>5. /\ Len(Append(each, level)) = n + 1 /\ DOMAIN Append(each, level) = 1..(n + 1)
        /\ \A k \in 1..n : Append(each, level)[k] = each[k]
        /\ Append(each, level)[n + 1] = level
    BY <1>1, <1>3, <1>4
  <1>6. CASE RunLevel(events, t, missing)
    <2>1. RequestsUpTo(events, t, missing) = Append(each, level)
      BY <1>6 DEF RequestsUpTo, each, level
    <2>2. 1..(n + 1) = 1..n \cup {n + 1}
      BY <1>1
    <2> QED
      BY <1>1, <1>2, <1>5, <1>6, <2>1, <2>2 DEF Last, level, n
  <1>7. CASE ~RunLevel(events, t, missing)
    <2>1. RequestsUpTo(events, t, missing) = each
      BY <1>7 DEF RequestsUpTo, each
    <2> QED
      BY <1>2, <1>4, <1>7, <2>1 DEF n
  <1> QED
    BY <1>6, <1>7

LEMMA RequestsAgree ==
    ASSUME NEW f, NEW g, NEW t \in Int, \A s \in 0..t : f[s] = g[s], NEW missing
    PROVE  RequestsUpTo(f, t, missing) = RequestsUpTo(g, t, missing)
  <1>1. ASSUME NEW k \in 1..(t + 1)
        PROVE  EventRequest(f, k - 1) = EventRequest(g, k - 1)
    <2>1. k - 1 \in 0..t
      OBVIOUS
    <2> QED
      BY <2>1, RequestsOfPrefix
  <1>2. EachRequest(f, t) = EachRequest(g, t)
    BY <1>1, Zenon DEF EachRequest
  <1>3. /\ RunLevel(f, t, missing) <=> RunLevel(g, t, missing)
        /\ RunLevel(f, t, missing) => RunLevelRequest(f, t) = RunLevelRequest(g, t)
    BY RunLevelOfPrefix
  <1> QED
    BY <1>2, <1>3 DEF RequestsUpTo

\* What the invariant says of the run and of what was received of it.
LEMMA ReceivedPrefix ==
    ASSUME EvalInv
    PROVE  /\ LastSeq \in Nat /\ DOMAIN run = 0..LastSeq
           /\ received \in SUBSET (0..LastSeq)
           /\ \A s \in DOMAIN run : run[s].type = "run_end" => s = LastSeq
           /\ ThroughSeq(received) \in Int /\ -1 <= ThroughSeq(received)
           /\ ThroughSeq(received) <= LastSeq
           /\ 0..ThroughSeq(received) \subseteq received
           /\ \A seqs : DOMAIN Part(seqs) = seqs /\ \A s \in seqs : Part(seqs)[s] = run[s]
  <1>1. run \in TheRuns /\ received \subseteq DOMAIN run
    BY DEF EvalInv, Shape, TypeOK
  <1>2. /\ LastSeq \in Nat /\ DOMAIN run = 0..LastSeq
        /\ \A s \in DOMAIN run : run[s].type = "run_end" => s = LastSeq
    BY <1>1, EvaluationAssumption DEF LastSeq
  <1>3. received \in SUBSET (0..LastSeq)
    BY <1>1, <1>2
  <1>4. \A seqs : DOMAIN Part(seqs) = seqs /\ \A s \in seqs : Part(seqs)[s] = run[s]
    BY DEF Part
  <1> QED
    BY <1>2, <1>3, <1>4, PrefixOf

\* FactsAgree, for every run and whatever was received of it: the facts the
\* rules ran on are the facts that are signed.
THEOREM SignedFactsAreTheEvaluated == Spec => []FactsAgree
  <1>1. ASSUME EvalInv
        PROVE  FactsAgree
    <2> DEFINE t == ThroughSeq(received)
               missing == MissingSeqs(received)
    <2>1. /\ t \in Int /\ -1 <= t /\ 0..t \subseteq received
          /\ LastSeq \in Nat /\ received \in SUBSET (0..LastSeq)
          /\ DOMAIN Part(received) = received /\ DOMAIN Part(0..t) = 0..t
          /\ \A s \in 0..t : Part(received)[s] = Part(0..t)[s]
      BY <1>1, ReceivedPrefix
    <2>2. missing # NotClaimed
      BY <2>1, MissingAre
    <2>3. ThroughSeq(0..t) = t
      BY <2>1, WholePrefix
    <2> HIDE DEF t, missing
    <2>4. BuildFacts(Part(received), NotClaimed) =
             [through |-> t, missing |-> missing, runLevel |-> RunLevel(Part(received), t, missing),
              requests |-> RequestsUpTo(Part(received), t, missing)]
      <3>1. t = ThroughSeq(DOMAIN Part(received)) /\ missing = MissingSeqs(DOMAIN Part(received))
        BY <2>1 DEF t, missing
      <3> QED
        BY <3>1, FactsAre
    <2>5. BuildFacts(Part(0..t), missing) =
             [through |-> t, missing |-> missing, runLevel |-> RunLevel(Part(0..t), t, missing),
              requests |-> RequestsUpTo(Part(0..t), t, missing)]
      <3>1. t = ThroughSeq(DOMAIN Part(0..t))
        BY <2>1, <2>3
      <3> QED
        BY <2>2, <3>1, FactsAre
    <2>6. RunLevel(Part(received), t, missing) = RunLevel(Part(0..t), t, missing)
      BY <2>1, RunLevelOfPrefix
    <2>7. RequestsUpTo(Part(received), t, missing) = RequestsUpTo(Part(0..t), t, missing)
      BY <2>1, RequestsAgree
    <2>8. BuildFacts(Part(received), NotClaimed) = BuildFacts(Part(0..t), missing)
      BY <2>4, <2>5, <2>6, <2>7, Zenon
    <2> QED
      BY <2>8 DEF FactsAgree, t, missing
  <1> QED
    BY <1>1, EvaluationsInvariant, PTL

\* FactsGrow, for every run: the request of an event stays what it was, and
\* the run-level one comes with the whole run.
THEOREM FactsOnlyGrow == Spec => []FactsGrow
  <1>1. ASSUME EvalInv
        PROVE  FactsGrow
    <2> DEFINE t     == ThroughSeq(received)
               n     == LastSeq
               mine  == BuildFacts(Part(received), NotClaimed)
               whole == BuildFacts(run, NotClaimed)
    <2>1. /\ t \in Int /\ -1 <= t /\ t <= n /\ 0..t \subseteq received
          /\ n \in Nat /\ received \in SUBSET (0..n) /\ DOMAIN run = 0..n
          /\ DOMAIN Part(received) = received
          /\ \A s \in received : Part(received)[s] = run[s]
          /\ \A s \in DOMAIN run : run[s].type = "run_end" => s = n
      BY <1>1, ReceivedPrefix
    <2>2. ThroughSeq(0..n) = n /\ Gaps(0..n) = {}
      BY <2>1, WholePrefix
    <2>3. MissingSeqs(0..n) = <<>>
      <3>1. 0..n \in SUBSET (0..n)
        OBVIOUS
      <3> QED
        BY <2>1, <2>2, <3>1, MissingAre
    <2>4. mine = [through |-> t, missing |-> MissingSeqs(received),
                  runLevel |-> RunLevel(Part(received), t, MissingSeqs(received)),
                  requests |-> RequestsUpTo(Part(received), t, MissingSeqs(received))]
      <3>1. t = ThroughSeq(DOMAIN Part(received)) /\ MissingSeqs(received) = MissingSeqs(DOMAIN Part(received))
        BY <2>1
      <3> QED
        BY <3>1, FactsAre
    <2>5. whole = [through |-> n, missing |-> <<>>, runLevel |-> RunLevel(run, n, <<>>),
                   requests |-> RequestsUpTo(run, n, <<>>)]
      <3>1. n = ThroughSeq(DOMAIN run) /\ <<>> = MissingSeqs(DOMAIN run)
        BY <2>1, <2>2, <2>3
      <3> QED
        BY <3>1, FactsAre
    <2>6. \A s \in 0..t : Part(received)[s] = run[s]
      BY <2>1
    <2> HIDE DEF t, n, mine, whole
    <2>7. mine.through = t
      BY <2>4
    <2>8. ASSUME NEW k \in 1..(t + 1)
          PROVE  mine.requests[k] = whole.requests[k]
      <3>1. k \in 1..(n + 1) /\ k - 1 \in 0..t /\ -1 <= n /\ n \in Int
        BY <2>1
      <3>2. mine.requests[k] = EventRequest(Part(received), k - 1)
        <4>1. mine.requests = RequestsUpTo(Part(received), t, MissingSeqs(received))
          BY <2>4
        <4>2. t \in Int /\ -1 <= t
          BY <2>1
        <4>3. RequestsUpTo(Part(received), t, MissingSeqs(received))[k] = EventRequest(Part(received), k - 1)
          BY <4>2, RequestsAre
        <4> QED
          BY <4>1, <4>3, Zenon
      <3>3. whole.requests[k] = EventRequest(run, k - 1)
        BY <2>5, <3>1, RequestsAre
      <3>4. EventRequest(Part(received), k - 1) = EventRequest(run, k - 1)
        BY <2>1, <2>6, <3>1, RequestsOfPrefix
      <3> QED
        BY <3>2, <3>3, <3>4
    <2>9. mine.runLevel <=> received = DOMAIN run /\ whole.runLevel
      <3>1. mine.runLevel <=> Gaps(received) = {} /\ \E s \in 0..t : run[s].type = "run_end"
        <4>1. mine.runLevel = RunLevel(Part(received), t, MissingSeqs(received))
          BY <2>4
        <4>2. MissingSeqs(received) = <<>> <=> Gaps(received) = {}
          BY <2>1, MissingAre
        <4>3. (\E s \in 0..t : Part(received)[s].type = "run_end")
                 <=> (\E s \in 0..t : run[s].type = "run_end")
          BY <2>6
        <4> QED
          BY <4>1, <4>2, <4>3, Zenon DEF RunLevel
      <3>2. whole.runLevel <=> \E s \in 0..n : run[s].type = "run_end"
        BY <2>5 DEF RunLevel
      <3>3. Gaps(received) = {} => received = 0..t
        BY <2>1, PrefixOf DEF t
      <3>4. ASSUME Gaps(received) = {}, NEW s \in 0..t, run[s].type = "run_end"
            PROVE  received = 0..n
        <4>1. s \in 0..n
          BY <2>1
        <4>2. s = n
          BY <2>1, <3>4, <4>1
        <4>3. t = n
          BY <2>1, <4>2
        <4> QED
          BY <3>3, <3>4, <4>3
      <3>5. ASSUME received = 0..n
            PROVE  Gaps(received) = {} /\ t = n
        BY <2>2, <3>5 DEF t
      <3>6. ASSUME mine.runLevel
            PROVE  received = DOMAIN run /\ whole.runLevel
        <4>1. PICK s \in 0..t : run[s].type = "run_end"
          BY <3>1, <3>6
        <4>2. s \in 0..n
          BY <2>1
        <4> QED
          BY <2>1, <3>1, <3>2, <3>4, <3>6, <4>1, <4>2
      <3>7. ASSUME received = DOMAIN run, whole.runLevel
            PROVE  mine.runLevel
        BY <2>1, <3>1, <3>2, <3>5, <3>7
      <3> QED
        BY <2>4, <3>6, <3>7 DEF RunLevel
    <2> QED
      BY <2>7, <2>8, <2>9 DEF FactsGrow, mine, whole
  <1> QED
    BY <1>1, EvaluationsInvariant, PTL

\* The calls answered by a result are no more than the results: a result
\* answers only calls of its own useId, and such a call only when it is alone.
LEMMA PairedAreFew ==
    ASSUME NEW events, NEW t \in Int, -1 <= t
    PROVE  LET calls   == {s \in Calls(events, t) : events[s].consequential}
               results == {s \in 0..t : events[s].type = "tool_result"}
           IN  Cardinality(calls) <= Cardinality(Unpaired(events, t)) + Cardinality(results)
  <1> DEFINE calls    == {s \in Calls(events, t) : events[s].consequential}
             results  == {s \in 0..t : events[s].type = "tool_result"}
             unpaired == Unpaired(events, t)
             paired   == calls \ unpaired
             f == [s \in paired |->
                     CHOOSE r \in (s + 1)..t : events[r].type = "tool_result" /\ events[r].use = events[s].use]
  <1>1. IsFiniteSet(0..t)
    BY FS_Interval
  <1>2. calls \subseteq 0..t /\ results \subseteq 0..t /\ unpaired \subseteq calls
    BY DEF Calls, Unpaired
  <1>3. ASSUME NEW s \in paired
        PROVE  Paired(events, t, s) /\ s \in Calls(events, t) /\ s \in 0..t
    BY <1>3 DEF Unpaired, Calls
  <1>4. ASSUME NEW s \in paired
        PROVE  f[s] \in results /\ events[f[s]].use = events[s].use
    <2>1. \E r \in (s + 1)..t : events[r].type = "tool_result" /\ events[r].use = events[s].use
      BY <1>3 DEF Paired
    <2>2. /\ f[s] \in (s + 1)..t
          /\ events[f[s]].type = "tool_result" /\ events[f[s]].use = events[s].use
      BY <2>1, Zenon
    <2>3. s \in 0..t
      BY <1>3
    <2> HIDE DEF f
    <2>4. f[s] \in 0..t
      BY <2>2, <2>3
    <2> QED
      BY <2>2, <2>4
  <1>5. ASSUME NEW s \in paired, NEW c \in paired, f[s] = f[c]
        PROVE  s = c
    <2>1. events[s].use = events[c].use
      <3>1. events[f[s]].use = events[s].use /\ events[f[c]].use = events[c].use
        BY <1>4
      <3> HIDE DEF f
      <3> QED
        BY <1>5, <3>1
    <2>2. c \in Calls(events, t) /\ Paired(events, t, s)
      BY <1>3
    <2>3. c \in {d \in Calls(events, t) : events[d].use = events[s].use}
      BY <2>1, <2>2
    <2>4. {d \in Calls(events, t) : events[d].use = events[s].use} = {s}
      BY <2>2 DEF Paired
    <2> QED
      BY <2>3, <2>4
  <1>6. f \in [paired -> results]
    <2>1. \A s \in paired : f[s] \in results
      BY <1>4
    <2> HIDE DEF results, paired
    <2> QED
      BY <2>1
  <1>7. /\ IsFiniteSet(results) /\ IsFiniteSet(calls) /\ IsFiniteSet(unpaired) /\ IsFiniteSet(paired)
    <2> HIDE DEF calls, results, unpaired
    <2>1. IsFiniteSet(results) /\ IsFiniteSet(calls)
      BY <1>1, <1>2, FS_Subset
    <2>2. paired \subseteq calls
      OBVIOUS
    <2> QED
      BY <1>2, <2>1, <2>2, FS_Subset
  <1> HIDE DEF f, results, calls, unpaired
  <1>8. Cardinality(paired) <= Cardinality(results)
    <2>1. f \in Injection(paired, results)
      BY <1>5, <1>6 DEF Injection, IsInjective
    <2> QED
      BY <1>7, <2>1, FS_Injection
  <1>9. Cardinality(calls) = Cardinality(unpaired) + Cardinality(paired)
    <2>1. calls = unpaired \cup paired /\ unpaired \cap paired = {}
      BY <1>2
    <2>2. Cardinality(unpaired \cup paired) =
             Cardinality(unpaired) + Cardinality(paired) - Cardinality(unpaired \cap paired)
      BY <1>7, FS_Union
    <2>3. Cardinality(unpaired \cap paired) = 0
      BY <2>1, FS_EmptySet
    <2>4. Cardinality(unpaired) \in Nat /\ Cardinality(paired) \in Nat
      BY <1>7, FS_CardinalityType
    <2>5. Cardinality(calls) = Cardinality(unpaired) + Cardinality(paired) - 0
      BY <2>1, <2>2, <2>3, Zenon
    <2> HIDE DEF paired
    <2> QED
      BY <2>4, <2>5
  <1>10. /\ Cardinality(unpaired) \in Nat /\ Cardinality(paired) \in Nat /\ Cardinality(results) \in Nat
    BY <1>7, FS_CardinalityType
  <1>11. Cardinality(calls) <= Cardinality(unpaired) + Cardinality(results)
    <2> HIDE DEF paired
    <2> QED
      BY <1>8, <1>9, <1>10
  <1> QED
    BY <1>11 DEF calls, results, unpaired

\* UnpairedCountsAll, for every run: no consequential call goes uncounted
\* behind the result of another.
THEOREM NoCallHidesBehindAResult == Spec => []UnpairedCountsAll
  <1>1. ASSUME EvalInv
        PROVE  UnpairedCountsAll
    <2> DEFINE t       == ThroughSeq(received)
               facts   == BuildFacts(Part(received), NotClaimed)
               missing == MissingSeqs(received)
               calls   == {s \in Calls(run, t) : run[s].consequential}
               results == {s \in 0..t : run[s].type = "tool_result"}
    <2>1. /\ t \in Int /\ -1 <= t
          /\ DOMAIN Part(received) = received
          /\ \A s \in 0..t : Part(received)[s] = run[s]
      BY <1>1, ReceivedPrefix
    <2>2. facts = [through |-> t, missing |-> missing,
                   runLevel |-> RunLevel(Part(received), t, missing),
                   requests |-> RequestsUpTo(Part(received), t, missing)]
      <3>1. t = ThroughSeq(DOMAIN Part(received)) /\ missing = MissingSeqs(DOMAIN Part(received))
        BY <2>1
      <3> QED
        BY <3>1, FactsAre
    <2> HIDE DEF t, missing, facts
    <2>3. facts.through = t
      BY <2>2
    <2>4. ASSUME facts.runLevel
          PROVE  Last(facts.requests).unpaired = Cardinality(Unpaired(run, t))
      <3>1. Last(facts.requests) = RunLevelRequest(Part(received), t)
        BY <2>1, <2>2, <2>4, RequestsAre
      <3>2. Unpaired(Part(received), t) = Unpaired(run, t)
        BY <2>1, UnpairedOfPrefix
      <3>3. RunLevelRequest(Part(received), t).unpaired = Cardinality(Unpaired(Part(received), t))
        BY DEF RunLevelRequest
      <3> QED
        BY <3>1, <3>2, <3>3
    <2>5. Cardinality(calls) <= Cardinality(Unpaired(run, t)) + Cardinality(results)
      BY <2>1, PairedAreFew
    <2> QED
      BY <2>3, <2>4, <2>5, Zenon DEF UnpairedCountsAll, facts
  <1> QED
    BY <1>1, EvaluationsInvariant, PTL

-----------------------------------------------------------------------------
(* What is prepared verifies.                                                *)

\* The missing seqs a request may report: any, in any order.
MissingKnown(missing) == missing # NotClaimed

\* The places a request may name as not qualified.
PlacesKnown(places) == places = NotRequired \/ places \in Seq(Nat \cup {Approval, Control})

\* A request an evaluator can make.
IsRequest(r) ==
    /\ {"prefix", "missing", "rules", "status", "approval", "notQualified"} \subseteq DOMAIN r
    /\ r.prefix \subseteq received
    /\ MissingKnown(r.missing)
    /\ PlacesKnown(r.notQualified)
    /\ r.status = "unapproved" => r.approval = NoApproval

\* The prefix is a whole run.
Final(e) == HasRunEnd(e.through) /\ e.missing = <<>>

\* What an accepted request makes of a policy evaluation.
PolicyPrepared(e) ==
    /\ e.through \in 0..LastSeq /\ e.named = e.through
    /\ MissingKnown(e.missing) /\ MissingSeqsFit(e.through, e.missing)
    /\ e.finalSeq = RunEndSeq(0..e.through)
    /\ e.state = IF Final(e) THEN "finalized" ELSE "partial"
    /\ e.runEnd = IF Final(e) THEN RunEndSeq(0..e.through) ELSE -1
    /\ e.facts = BuildFacts(Part(0..e.through), e.missing)
    /\ RulesOk(e)
    /\ PlacesKnown(e.notQualified)
    /\ e.approval.qualified <=> (e.notQualified # NotRequired)
    /\ e.status = "unapproved" => e.approval = NoApproval

\* The other evaluations are made of runs that have ended.
EndPrepared(e) == e.runEnd = LastSeq /\ run[LastSeq].type = "run_end"

\* What one evaluation has to be.
FitPrepared(e) == \/ e.kind = "policy" /\ PolicyPrepared(e)
                  \/ e.kind = "attested" /\ EndPrepared(e)
FitSealed(e)   == e \in ToSet(prepared) \/ (e.kind = "v1" /\ EndPrepared(e))

PreparedInv ==
    /\ \A e \in ToSet(prepared) : FitPrepared(e)
    /\ \A i \in DOMAIN sealed : FitSealed(sealed[i].envelope)

FitInv == EvalInv /\ PreparedInv

\* A sequence of seqs claims something, and so does one given twice.
LEMMA MissingOnce ==
    ASSUME NEW m \in Seq(Nat)
    PROVE  MissingKnown(m) /\ MissingKnown(m \o m)
  <1>1. ASSUME NEW l \in Seq(Nat)
        PROVE  l # NotClaimed
    <2> SUFFICES ASSUME l = <<-1>>
                 PROVE  FALSE
      BY DEF NotClaimed
    <2>1. l[1] \in Nat /\ l[1] = -1
      <3>1. Len(l) = 1 /\ l[1] = -1
        OBVIOUS
      <3> QED
        BY <3>1
    <2> QED
      BY <2>1
  <1>2. m \o m \in Seq(Nat)
    OBVIOUS
  <1> QED
    BY <1>1, <1>2 DEF MissingKnown

\* What build_facts reports, once and twice.
LEMMA MissingReported ==
    ASSUME EvalInv
    PROVE  LET missing == MissingSeqs(received)
           IN  MissingKnown(missing) /\ MissingKnown(missing \o missing)
  <1> DEFINE missing == MissingSeqs(received)
             gaps == Gaps(received)
             c == Cardinality(gaps)
  <1>1. LastSeq \in Nat /\ received \in SUBSET (0..LastSeq)
    BY ReceivedPrefix
  <1>2. gaps \in SUBSET Nat /\ IsFiniteSet(gaps) /\ missing = InOrder(gaps)
    BY <1>1, PrefixOf, MissingAre
  <1>3. c \in Nat /\ missing \in [1..c -> gaps]
    BY <1>2, InOrderAscends
  <1> HIDE DEF missing, gaps, c
  <1>4. missing \in Seq(Nat)
    <2>1. missing \in [1..c -> Nat]
      BY <1>2, <1>3
    <2> QED
      BY <1>3, <2>1
  <1> QED
    BY <1>4, MissingOnce DEF missing

\* What a caller can make of a request.
LEMMA RequestsVary ==
    ASSUME NEW r, IsRequest(r)
    PROVE  /\ \A x : IsRequest(Failed(r, x))
           /\ \A w : PlacesKnown(w) => IsRequest(Approved(r, w)) /\ Approved(r, w).status # "unapproved"
           /\ \A m : MissingKnown(m) => IsRequest([r EXCEPT !.missing = m])
           /\ IsRequest([r EXCEPT !.prefix = received])
           /\ \A a : r.status # "unapproved" => IsRequest([r EXCEPT !.approval = a])
  <1>0. /\ {"prefix", "missing", "rules", "status", "approval", "notQualified"} \subseteq DOMAIN r
        /\ r.prefix \subseteq received /\ MissingKnown(r.missing) /\ PlacesKnown(r.notQualified)
        /\ r.status = "unapproved" => r.approval = NoApproval
    BY DEF IsRequest
  <1>1. ASSUME NEW x
        PROVE  IsRequest(Failed(r, x))
    <2>1. ASSUME NEW R
          PROVE  IsRequest([r EXCEPT !.rules = R])
      BY <1>0 DEF IsRequest
    <2> QED
      BY <2>1, Zenon DEF Failed
  <1>2. ASSUME NEW w, PlacesKnown(w)
        PROVE  IsRequest(Approved(r, w)) /\ Approved(r, w).status # "unapproved"
    <2>1. ASSUME NEW a, NEW s, s # "unapproved"
          PROVE  LET q == [r EXCEPT !.status = s, !.notQualified = w, !.approval = a]
                 IN  IsRequest(q) /\ q.status # "unapproved"
      BY <1>0, <1>2, <2>1 DEF IsRequest
    <2>2. "approved_before_run" # "unapproved"
      OBVIOUS
    <2> QED
      BY <2>1, <2>2, Zenon DEF Approved
  <1>3. ASSUME NEW m, MissingKnown(m)
        PROVE  IsRequest([r EXCEPT !.missing = m])
    BY <1>0, <1>3 DEF IsRequest
  <1>4. IsRequest([r EXCEPT !.prefix = received])
    BY <1>0 DEF IsRequest
  <1>5. ASSUME NEW a, r.status # "unapproved"
        PROVE  IsRequest([r EXCEPT !.approval = a])
    BY <1>0, <1>5 DEF IsRequest
  <1> QED
    BY <1>1, <1>2, <1>3, <1>4, <1>5

\* Every request PreparePolicy makes, if it is about any event.
LEMMA RequestsFit ==
    ASSUME EvalInv, NEW p, NEW request \in {Honest(p)} \cup Varied(p), request.prefix # {}
    PROVE  IsRequest(request)
  <1> DEFINE h == Honest(p)
             through == ThroughSeq(received)
             a == Approved(h, NotRequired)
  <1>1. /\ through \in Int /\ -1 <= through /\ 0..through \subseteq received
        /\ LastSeq \in Nat
    BY ReceivedPrefix
  <1>2. MissingKnown(MissingSeqs(received)) /\ MissingKnown(MissingSeqs(received) \o MissingSeqs(received))
    BY MissingReported
  <1>3. PlacesKnown(NotRequired)
    BY DEF PlacesKnown
  <1>4. IsRequest(h) /\ h.missing = MissingSeqs(received)
    BY <1>1, <1>2, <1>3 DEF Honest, IsRequest
  <1>5. IsRequest(a) /\ a.status # "unapproved"
    BY <1>3, <1>4, RequestsVary
  <1>6. /\ through + 1 \in Nat
        /\ MissingKnown(<<>>) /\ MissingKnown(<<through + 1>>)
        /\ MissingKnown(<<through + 1, through + 3, through + 2>>)
    <2>1. /\ <<>> \in Seq(Nat) /\ <<through + 1>> \in Seq(Nat)
          /\ <<through + 1, through + 3, through + 2>> \in Seq(Nat)
      BY <1>1
    <2>2. \A m \in Seq(Nat) : MissingKnown(m)
      BY MissingOnce
    <2>3. through + 1 \in Nat
      BY <1>1
    <2> QED
      BY <2>1, <2>2, <2>3, Zenon
  <1> HIDE DEF h, a, through
  <1>7. PICK final : final = (HasRunEnd(through) /\ h.missing = <<>>)
    OBVIOUS
  <1>8. \/ request = h
        \/ \E x : request = Failed(a, x)
        \/ request = Approved(h, <<Control, through>> \o (IF final THEN <<RunEnd>> ELSE <<>>))
        \/ request = [h EXCEPT !.missing = h.missing \o h.missing]
        \/ request = [h EXCEPT !.missing = <<>>]
        \/ request = [h EXCEPT !.missing = <<through + 1>>]
        \/ request = [h EXCEPT !.missing = <<through + 1, through + 3, through + 2>>]
        \/ request = [h EXCEPT !.prefix = received]
        \/ \E x : request = Failed(h, x)
        \/ \E w \in {<<Control, Approval>>, <<through + 1>>, <<RunEnd>>} : request = Approved(h, w)
        \/ \E x : request = [a EXCEPT !.approval = x]
    BY <1>7, Zenon DEF Varied, h, a, through
  <1>9. PlacesKnown(<<Control, Approval>>) /\ PlacesKnown(<<through + 1>>) /\ PlacesKnown(<<RunEnd>>)
    <2>1. {Control, Approval, through + 1, RunEnd} \subseteq Nat \cup {Approval, Control}
      BY <1>1, <1>6 DEF RunEnd
    <2>2. \A x, y \in Nat \cup {Approval, Control} :
             <<x>> \in Seq(Nat \cup {Approval, Control}) /\ <<x, y>> \in Seq(Nat \cup {Approval, Control})
      OBVIOUS
    <2> QED
      BY <2>1, <2>2 DEF PlacesKnown
  <1>10. ASSUME request = Approved(h, <<Control, through>> \o (IF final THEN <<RunEnd>> ELSE <<>>))
         PROVE  IsRequest(request)
    <2> DEFINE w == <<Control, through>> \o (IF final THEN <<RunEnd>> ELSE <<>>)
    <2>1. request.prefix = 0..through
      <3>1. h.prefix = 0..through /\ "prefix" \in DOMAIN h
        BY DEF h, Honest, through
      <3>2. ASSUME NEW ap, NEW s, NEW v
            PROVE  [h EXCEPT !.status = s, !.notQualified = v, !.approval = ap].prefix = h.prefix
        BY <1>4 DEF IsRequest
      <3>3. request.prefix = h.prefix
        <4>1. PICK v : request = Approved(h, v)
          BY <1>10, Zenon
        <4> QED
          BY <3>2, <4>1, Zenon DEF Approved
      <3> QED
        BY <3>1, <3>3
    <2>2. through \in Nat
      BY <1>1, <2>1
    <2> DEFINE S == Nat \cup {Approval, Control}
    <2>3. <<Control, through>> \in Seq(S) /\ <<RunEnd>> \in Seq(S) /\ <<>> \in Seq(S)
      BY <1>1, <2>2 DEF RunEnd
    <2>4. w \in Seq(S)
      <3> HIDE DEF S
      <3>1. (IF final THEN <<RunEnd>> ELSE <<>>) \in Seq(S)
        BY <2>3
      <3> QED
        BY <2>3, <3>1
    <2>5. PlacesKnown(w)
      BY <2>4 DEF PlacesKnown
    <2> HIDE DEF w
    <2> QED
      BY <1>4, <1>10, <2>5, RequestsVary DEF w
  <1>11. ASSUME NEW x, \/ request = Failed(a, x)
                      \/ request = Failed(h, x)
                      \/ request = [a EXCEPT !.approval = x]
         PROVE  IsRequest(request)
    <2>1. IsRequest(Failed(a, x)) /\ IsRequest(Failed(h, x)) /\ IsRequest([a EXCEPT !.approval = x])
      BY <1>4, <1>5, RequestsVary
    <2> QED
      BY <1>11, <2>1
  <1>12. ASSUME \/ request = [h EXCEPT !.missing = h.missing \o h.missing]
                \/ request = [h EXCEPT !.missing = <<>>]
                \/ request = [h EXCEPT !.missing = <<through + 1>>]
                \/ request = [h EXCEPT !.missing = <<through + 1, through + 3, through + 2>>]
                \/ request = [h EXCEPT !.prefix = received]
         PROVE  IsRequest(request)
    <2>1. MissingKnown(h.missing \o h.missing)
      BY <1>2, <1>4, Zenon
    <2>2. /\ IsRequest([h EXCEPT !.missing = h.missing \o h.missing])
          /\ IsRequest([h EXCEPT !.missing = <<>>])
          /\ IsRequest([h EXCEPT !.missing = <<through + 1>>])
          /\ IsRequest([h EXCEPT !.missing = <<through + 1, through + 3, through + 2>>])
          /\ IsRequest([h EXCEPT !.prefix = received])
      BY <1>4, <1>6, <2>1, RequestsVary
    <2> QED
      BY <1>12, <2>2
  <1>13. ASSUME NEW w \in {<<Control, Approval>>, <<through + 1>>, <<RunEnd>>}, request = Approved(h, w)
         PROVE  IsRequest(request)
    <2>1. PlacesKnown(w)
      BY <1>9, Zenon
    <2> QED
      BY <1>4, <1>13, <2>1, RequestsVary, Zenon
  <1> QED
    BY <1>4, <1>8, <1>10, <1>11, <1>12, <1>13, Zenon

\* Where a run has its run_end.
LEMMA RunEnds ==
    ASSUME EvalInv, NEW seqs \in SUBSET (0..LastSeq)
    PROVE  RunEndSeq(seqs) = IF LastSeq \in seqs /\ run[LastSeq].type = "run_end" THEN LastSeq ELSE -1
  <1> DEFINE ends == {s \in seqs : run[s].type = "run_end"}
  <1>1. /\ LastSeq \in Nat /\ DOMAIN run = 0..LastSeq
        /\ \A s \in DOMAIN run : run[s].type = "run_end" => s = LastSeq
    BY ReceivedPrefix
  <1>2. \A s \in ends : s = LastSeq
    BY <1>1
  <1>3. RunEndSeq(seqs) = Max(ends \cup {-1})
    BY DEF RunEndSeq
  <1>4. CASE LastSeq \in seqs /\ run[LastSeq].type = "run_end"
    <2>1. ends \cup {-1} = {LastSeq, -1}
      BY <1>2, <1>4
    <2> HIDE DEF ends
    <2> DEFINE top == Max({LastSeq, -1})
    <2>2. LastSeq \in {LastSeq, -1} /\ \A y \in {LastSeq, -1} : LastSeq >= y
      BY <1>1
    <2>3. top \in {LastSeq, -1} /\ \A y \in {LastSeq, -1} : top >= y
      BY <2>2, Zenon DEF Max
    <2>4. RunEndSeq(seqs) = top
      BY <1>3, <2>1
    <2> HIDE DEF top
    <2>5. top = LastSeq
      BY <1>1, <2>3
    <2> QED
      BY <1>4, <2>4, <2>5
  <1>5. CASE ~(LastSeq \in seqs /\ run[LastSeq].type = "run_end")
    <2>1. ends \cup {-1} = {-1}
      BY <1>2, <1>5
    <2> HIDE DEF ends
    <2>2. \A x \in {-1} : x = -1 /\ x >= -1
      OBVIOUS
    <2>3. Max({-1}) = -1
      BY <2>2, Zenon DEF Max
    <2> QED
      BY <1>3, <1>5, <2>1, <2>3
  <1> QED
    BY <1>4, <1>5

\* A prefix ends the run exactly when it is all of a run that has ended.
LEMMA PrefixEnds ==
    ASSUME EvalInv, NEW t \in 0..LastSeq
    PROVE  /\ HasRunEnd(t) <=> t = LastSeq /\ run[LastSeq].type = "run_end"
           /\ RunEndSeq(0..t) = IF HasRunEnd(t) THEN LastSeq ELSE -1
  <1>1. /\ LastSeq \in Nat /\ DOMAIN run = 0..LastSeq
        /\ \A s \in DOMAIN run : run[s].type = "run_end" => s = LastSeq
    BY ReceivedPrefix
  <1>2. 0..t \in SUBSET (0..LastSeq) /\ t \in Nat /\ (LastSeq \in 0..t <=> t = LastSeq)
    BY <1>1
  <1>3. HasRunEnd(t) <=> t = LastSeq /\ run[LastSeq].type = "run_end"
    <2>1. ASSUME NEW s \in 0..t, run[s].type = "run_end"
          PROVE  s = LastSeq
      BY <1>1, <1>2, <2>1
    <2> QED
      BY <1>2, <2>1 DEF HasRunEnd
  <1> QED
    BY <1>2, <1>3, RunEnds

\* An accepted request is about a prefix of the run.
LEMMA AcceptedPrefix ==
    ASSUME EvalInv, NEW r, IsRequest(r), Accepts(r)
    PROVE  /\ ThroughSeq(r.prefix) \in 0..LastSeq
           /\ r.prefix = 0..ThroughSeq(r.prefix)
           /\ DOMAIN Part(r.prefix) = r.prefix
  <1>1. LastSeq \in Nat /\ received \in SUBSET (0..LastSeq) /\ DOMAIN Part(r.prefix) = r.prefix
    BY ReceivedPrefix
  <1>2. r.prefix \in SUBSET (0..LastSeq) /\ r.missing # NotClaimed
    BY <1>1 DEF IsRequest, MissingKnown
  <1>3. r.prefix # {} /\ Gaps(r.prefix) = {}
    BY <1>1, <1>2 DEF Accepts, FactsDefined
  <1>4. /\ ThroughSeq(r.prefix) \in Int /\ ThroughSeq(r.prefix) <= LastSeq
        /\ r.prefix = 0..ThroughSeq(r.prefix)
    BY <1>1, <1>2, <1>3, PrefixOf
  <1>5. ThroughSeq(r.prefix) >= 0
    BY <1>3, <1>4
  <1> QED
    BY <1>1, <1>4, <1>5

\* What prepare_policy writes for an accepted request.
LEMMA PolicyIsPrepared ==
    ASSUME EvalInv, NEW r, IsRequest(r), Accepts(r), NEW id
    PROVE  PolicyEnvelope(id, r).kind = "policy" /\ PolicyPrepared(PolicyEnvelope(id, r))
  <1> DEFINE t == ThroughSeq(r.prefix)
             e == PolicyEnvelope(id, r)
             facts == BuildFacts(Part(r.prefix), r.missing)
             final == HasRunEnd(facts.through) /\ r.missing = <<>>
  <1>1. t \in 0..LastSeq /\ r.prefix = 0..t /\ DOMAIN Part(r.prefix) = r.prefix
    BY AcceptedPrefix
  <1>2. MissingKnown(r.missing) /\ PlacesKnown(r.notQualified)
        /\ (r.status = "unapproved" => r.approval = NoApproval)
    BY DEF IsRequest
  <1>3. /\ MissingSeqsFit(t, r.missing)
        /\ \A q \in Rules : (r.rules[q].result = "PASS") <=> (r.rules[q].where = {})
        /\ r.approval.qualified <=> (r.notQualified # NotRequired)
    BY DEF Accepts
  <1> HIDE DEF t
  <1>4. facts.through = t
    <2>1. t = ThroughSeq(DOMAIN Part(r.prefix))
      BY <1>1 DEF t
    <2>2. PICK missing : missing = IF r.missing = NotClaimed THEN MissingSeqs(DOMAIN Part(r.prefix))
                                   ELSE r.missing
      OBVIOUS
    <2>3. facts = [through |-> t, missing |-> missing,
                   runLevel |-> RunLevel(Part(r.prefix), t, missing),
                   requests |-> RequestsUpTo(Part(r.prefix), t, missing)]
      BY <2>1, <2>2, FactsAre
    <2> HIDE DEF facts
    <2> QED
      BY <2>3
  <1>5. e = [id |-> id, kind |-> "policy", supersedes |-> r.supersedes,
             through |-> facts.through, named |-> facts.through,
             runEnd |-> IF final THEN RunEndSeq(r.prefix) ELSE -1,
             finalSeq |-> RunEndSeq(r.prefix),
             missing |-> r.missing,
             state |-> IF final THEN "finalized" ELSE "partial",
             facts |-> facts, rules |-> r.rules, overall |-> Worst(r.rules),
             status |-> r.status, approval |-> r.approval,
             notQualified |-> r.notQualified]
    BY Zenon DEF PolicyEnvelope
  <1>6. facts = BuildFacts(Part(0..t), r.missing)
    BY <1>1
  <1> HIDE DEF e, facts, final
  <1>7. /\ e.kind = "policy" /\ e.through = t /\ e.named = t /\ e.missing = r.missing
        /\ e.runEnd = (IF final THEN RunEndSeq(r.prefix) ELSE -1)
        /\ e.finalSeq = RunEndSeq(r.prefix)
        /\ e.state = (IF final THEN "finalized" ELSE "partial")
        /\ e.facts = facts /\ e.rules = r.rules /\ e.overall = Worst(r.rules)
        /\ e.status = r.status /\ e.approval = r.approval /\ e.notQualified = r.notQualified
    BY <1>4, <1>5
  <1>8. Final(e) <=> final
    BY <1>4, <1>7 DEF Final, final
  <1>9. RulesOk(e)
    BY <1>3, <1>7 DEF RulesOk
  <1>10. e.runEnd = IF Final(e) THEN RunEndSeq(0..e.through) ELSE -1
    BY <1>1, <1>7, <1>8
  <1>11. e.state = IF Final(e) THEN "finalized" ELSE "partial"
    BY <1>7, <1>8
  <1>12. e.finalSeq = RunEndSeq(0..e.through) /\ e.facts = BuildFacts(Part(0..e.through), e.missing)
    BY <1>1, <1>6, <1>7
  <1>13. MissingKnown(e.missing) /\ MissingSeqsFit(e.through, e.missing) /\ PlacesKnown(e.notQualified)
    BY <1>2, <1>3, <1>7
  <1>14. /\ e.approval.qualified <=> (e.notQualified # NotRequired)
         /\ e.status = "unapproved" => e.approval = NoApproval
    BY <1>2, <1>3, <1>7
  <1>15. e.through \in 0..LastSeq /\ e.named = e.through
    BY <1>1, <1>7
  <1> QED
    BY <1>7, <1>9, <1>10, <1>11, <1>12, <1>13, <1>14, <1>15 DEF PolicyPrepared, e

\* What else was prepared, of a run that has ended.
LEMMA OtherIsPrepared ==
    ASSUME EvalInv, RunEndSeq(received) >= 0, NEW id, NEW kind, NEW supersedes
    PROVE  OtherEnvelope(id, kind, supersedes).kind = kind
           /\ EndPrepared(OtherEnvelope(id, kind, supersedes))
  <1>1. received \in SUBSET (0..LastSeq)
    BY ReceivedPrefix
  <1>2. run[LastSeq].type = "run_end"
    BY <1>1, RunEnds
  <1> QED
    BY <1>2 DEF OtherEnvelope, EndPrepared

\* The run is the same in every state.
LEMMA RunStays ==
    ASSUME run' = run, NEW e
    PROVE  (PolicyPrepared(e) => PolicyPrepared(e)') /\ (EndPrepared(e) => EndPrepared(e)')
  BY DEF PolicyPrepared, EndPrepared, Final, HasRunEnd, RunEndSeq, Part, LastSeq

\* One more prepared, one more sealed, neither.
LEMMA AddKeepsPrepared ==
    ASSUME FitInv, NEW e, Add(e), FitPrepared(e)
    PROVE  PreparedInv'
  <1>1. prepared' = Append(prepared, e) /\ UNCHANGED <<run, received, sealed>>
    BY DEF Add
  <1>2. ToSet(prepared') = ToSet(prepared) \cup {e}
    BY <1>1, Appended DEF FitInv, EvalInv, Shape
  <1>3. ASSUME NEW x \in ToSet(prepared')
        PROVE  FitPrepared(x)'
    <2>1. FitPrepared(x)
      BY <1>2 DEF FitInv, PreparedInv
    <2> QED
      BY <1>1, <2>1, RunStays DEF FitPrepared
  <1>4. ASSUME NEW i \in DOMAIN sealed'
        PROVE  FitSealed(sealed[i].envelope)'
    <2>1. PICK x : x = sealed'[i].envelope
      OBVIOUS
    <2>2. FitSealed(x)
      BY <1>1, <2>1 DEF FitInv, PreparedInv
    <2>3. FitSealed(x)'
      BY <1>1, <1>2, <2>2, RunStays DEF FitSealed
    <2> QED
      BY <2>1, <2>3
  <1> QED
    BY <1>3, <1>4 DEF PreparedInv

LEMMA KeepKeepsPrepared ==
    ASSUME FitInv, NEW e, NEW timestamped, Keep(e, timestamped), FitSealed(e)
    PROVE  PreparedInv'
  <1> DEFINE signed == [envelope |-> e, timestamped |-> timestamped]
             n == Len(sealed)
  <1>1. sealed' = Append(sealed, signed) /\ UNCHANGED <<run, received, prepared>>
    BY DEF Keep
  <1>2. /\ n \in Nat /\ DOMAIN sealed = 1..n /\ DOMAIN sealed' = 1..(n + 1)
        /\ \A i \in DOMAIN sealed : sealed'[i] = sealed[i]
        /\ sealed'[n + 1] = signed
    BY <1>1, Appended DEF FitInv, EvalInv, Shape
  <1>3. ASSUME NEW x \in ToSet(prepared')
        PROVE  FitPrepared(x)'
    <2>1. FitPrepared(x)
      BY <1>1 DEF FitInv, PreparedInv
    <2> QED
      BY <1>1, <2>1, RunStays DEF FitPrepared
  <1>4. ASSUME NEW i \in DOMAIN sealed'
        PROVE  FitSealed(sealed[i].envelope)'
    <2>1. PICK x : x = sealed'[i].envelope
      OBVIOUS
    <2>2. FitSealed(x)
      <3>1. CASE i \in DOMAIN sealed
        BY <1>2, <2>1, <3>1 DEF FitInv, PreparedInv
      <3>2. CASE i = n + 1
        BY <1>2, <2>1, <3>2
      <3> QED
        BY <1>2, <3>1, <3>2
    <2>3. FitSealed(x)'
      BY <1>1, <2>2, RunStays DEF FitSealed
    <2> QED
      BY <2>1, <2>3
  <1> QED
    BY <1>3, <1>4 DEF PreparedInv

LEMMA NothingElsePrepared ==
    ASSUME FitInv, UNCHANGED <<run, prepared, sealed>>
    PROVE  PreparedInv'
  <1>1. ASSUME NEW x \in ToSet(prepared')
        PROVE  FitPrepared(x)'
    <2>1. FitPrepared(x)
      BY DEF FitInv, PreparedInv
    <2> QED
      BY <2>1, RunStays DEF FitPrepared
  <1>2. ASSUME NEW i \in DOMAIN sealed'
        PROVE  FitSealed(sealed[i].envelope)'
    <2>1. PICK x : x = sealed'[i].envelope
      OBVIOUS
    <2>2. FitSealed(x)
      BY <2>1 DEF FitInv, PreparedInv
    <2>3. FitSealed(x)'
      BY <2>2, RunStays DEF FitSealed
    <2> QED
      BY <2>1, <2>3
  <1> QED
    BY <1>1, <1>2 DEF PreparedInv

LEMMA FitNext == FitInv /\ [Next]_vars => FitInv'
  <1> SUFFICES ASSUME FitInv, [Next]_vars
               PROVE  FitInv'
    OBVIOUS
  <1>0. EvalInv /\ EvalInv'
    BY NextInv DEF FitInv
  <1>1. CASE \E seqs \in SUBSET DOMAIN run : Arrive(seqs)
    <2>1. UNCHANGED <<run, prepared, sealed>>
      BY <1>1 DEF Arrive
    <2> QED
      BY <1>0, <2>1, NothingElsePrepared DEF FitInv
  <1>2. CASE PreparePolicy
    <2>1. PICK supersedes \in Predecessors :
             \E request \in {Honest(supersedes)} \cup
                            (IF Len(prepared) < MaxVaried THEN Varied(supersedes) ELSE {}) :
                 Accepts(request) /\ Add(PolicyEnvelope(Len(prepared) + 1, request))
      BY <1>2 DEF PreparePolicy
    <2>2. PICK request \in {Honest(supersedes)} \cup Varied(supersedes) :
             Accepts(request) /\ Add(PolicyEnvelope(Len(prepared) + 1, request))
      BY <2>1
    <2>3. request.prefix # {}
      BY <2>2 DEF Accepts
    <2>4. IsRequest(request)
      BY <1>0, <2>2, <2>3, RequestsFit
    <2> DEFINE e == PolicyEnvelope(Len(prepared) + 1, request)
    <2>5. FitPrepared(e)
      BY <1>0, <2>2, <2>4, PolicyIsPrepared DEF FitPrepared
    <2>6. Add(e)
      BY <2>2
    <2> HIDE DEF e
    <2> QED
      BY <1>0, <2>5, <2>6, AddKeepsPrepared DEF FitInv
  <1>3. CASE PrepareAttested
    <2>1. PICK supersedes \in Predecessors :
             Add(OtherEnvelope(Len(prepared) + 1, "attested", supersedes))
      BY <1>3 DEF PrepareAttested
    <2>2. RunEndSeq(received) >= 0
      BY <1>3 DEF PrepareAttested
    <2> DEFINE e == OtherEnvelope(Len(prepared) + 1, "attested", supersedes)
    <2>3. FitPrepared(e)
      BY <1>0, <2>2, OtherIsPrepared DEF FitPrepared
    <2>4. Add(e)
      BY <2>1
    <2> HIDE DEF e
    <2> QED
      BY <1>0, <2>3, <2>4, AddKeepsPrepared DEF FitInv
  <1>4. CASE SealV1
    <2> DEFINE e == OtherEnvelope(MaxPrepared + Len(sealed) + 1, "v1", 0)
    <2>1. Keep(e, TRUE) /\ RunEndSeq(received) >= 0
      BY <1>4 DEF SealV1
    <2>2. FitSealed(e)
      BY <1>0, <2>1, OtherIsPrepared DEF FitSealed
    <2> HIDE DEF e
    <2> QED
      BY <1>0, <2>1, <2>2, KeepKeepsPrepared DEF FitInv
  <1>5. CASE \E i \in DOMAIN prepared : Seal(prepared[i]) \/ Complete(prepared[i])
    <2>1. PICK i \in DOMAIN prepared : Keep(prepared[i], TRUE) \/ Keep(prepared[i], FALSE)
      BY <1>5 DEF Seal, Complete
    <2>2. FitSealed(prepared[i])
      BY DEF ToSet, FitSealed
    <2> QED
      BY <1>0, <2>1, <2>2, KeepKeepsPrepared DEF FitInv
  <1>6. CASE UNCHANGED vars
    BY <1>0, <1>6, NothingElsePrepared DEF vars, FitInv
  <1> QED
    BY <1>1, <1>2, <1>3, <1>4, <1>5, <1>6 DEF Next

\* What every evaluation is made of: an accepted request about a prefix of the
\* run, or a run that has ended.
THEOREM PreparedInvariant == Spec => []FitInv
  <1>1. Init => FitInv
    <2> SUFFICES ASSUME Init
                 PROVE  FitInv
      OBVIOUS
    <2>1. ToSet(prepared) = {} /\ DOMAIN sealed = {}
      BY DEF Init, ToSet
    <2> QED
      BY <2>1, InitInv DEF FitInv, PreparedInv
  <1> QED
    BY <1>1, FitNext, PTL DEF Spec

\* What the requests of a prefix name: each event, and the run once it is whole.
LEMMA NamesOfPrefix ==
    ASSUME EvalInv, NEW t \in 0..LastSeq, NEW missing, missing # NotClaimed
    PROVE  RequestNames(BuildFacts(Part(0..t), missing)) =
              0..t \cup (IF HasRunEnd(t) /\ missing = <<>> THEN {RunRequest} ELSE {})
  <1> DEFINE events == Part(0..t)
             level == RunLevel(events, t, missing)
             requests == RequestsUpTo(events, t, missing)
             facts == BuildFacts(events, missing)
  <1>1. /\ t \in Int /\ -1 <= t /\ t \in Nat
        /\ DOMAIN events = 0..t /\ \A s \in 0..t : events[s] = run[s]
    BY ReceivedPrefix
  <1>2. level <=> HasRunEnd(t) /\ missing = <<>>
    BY <1>1 DEF RunLevel, HasRunEnd
  <1>3. t = ThroughSeq(DOMAIN events)
    BY <1>1, WholePrefix
  <1>4. facts = [through |-> t, missing |-> missing, runLevel |-> level, requests |-> requests]
    BY <1>3, FactsAre
  <1>5. /\ \A k \in 1..(t + 1) : requests[k] = EventRequest(events, k - 1)
        /\ level => Len(requests) = t + 2 /\ Last(requests) = RunLevelRequest(events, t)
        /\ DOMAIN requests = 1..(t + 1) \cup (IF level THEN {t + 2} ELSE {})
    <2>1. t \in Int /\ -1 <= t
      BY <1>1
    <2> HIDE DEF events
    <2> QED
      BY <2>1, RequestsAre
  <1>6. \A s : EventRequest(events, s).seq = s
    BY DEF EventRequest
  <1>7. RunLevelRequest(events, t).seq = RunRequest
    BY DEF RunLevelRequest
  <1> HIDE DEF events, level, requests, facts
  <1>8. RequestNames(facts) = {requests[k].seq : k \in DOMAIN requests}
    <2>1. facts.requests = requests
      BY <1>4
    <2> QED
      BY <2>1, Zenon DEF RequestNames
  <1>9. \A k \in 1..(t + 1) : requests[k].seq = k - 1
    BY <1>5, <1>6
  <1>10. level => requests[t + 2].seq = RunRequest
    BY <1>5, <1>7 DEF Last
  <1>11. ASSUME NEW x
         PROVE  x \in RequestNames(facts) <=> x \in 0..t \/ (level /\ x = RunRequest)
    <2>1. ASSUME x \in RequestNames(facts)
          PROVE  x \in 0..t \/ (level /\ x = RunRequest)
      <3>1. PICK k \in DOMAIN requests : x = requests[k].seq
        BY <1>8, <2>1
      <3>2. CASE k \in 1..(t + 1)
        <4>1. k - 1 \in 0..t
          BY <1>1, <3>2
        <4> QED
          BY <1>9, <3>1, <3>2, <4>1
      <3>3. CASE level /\ k = t + 2
        BY <1>10, <3>1, <3>3
      <3> QED
        BY <1>5, <3>2, <3>3
    <2>2. ASSUME x \in 0..t
          PROVE  x \in RequestNames(facts)
      <3>1. x + 1 \in 1..(t + 1) /\ x + 1 - 1 = x
        BY <1>1, <2>2
      <3>2. PICK k : k = x + 1
        OBVIOUS
      <3>3. k \in 1..(t + 1) /\ k - 1 = x
        BY <1>1, <2>2, <3>2
      <3>4. k \in DOMAIN requests
        BY <1>5, <3>3
      <3>5. requests[k].seq = k - 1
        BY <1>9, <3>3
      <3> QED
        BY <1>8, <3>3, <3>4, <3>5
    <2>3. ASSUME level, x = RunRequest
          PROVE  x \in RequestNames(facts)
      <3>1. t + 2 \in DOMAIN requests
        BY <1>5, <2>3
      <3> QED
        BY <1>8, <1>10, <2>3, <3>1
    <2> QED
      BY <2>1, <2>2, <2>3
  <1>12. RequestNames(facts) = 0..t \cup (IF level THEN {RunRequest} ELSE {})
    BY <1>11
  <1> QED
    BY <1>2, <1>12 DEF facts, events

\* What the invariant says of a policy evaluation's state and end.
LEMMA PolicyEnd ==
    ASSUME EvalInv, NEW e, PolicyPrepared(e)
    PROVE  /\ e.runEnd >= 0 <=> Final(e)
           /\ e.state = "finalized" <=> Final(e)
           /\ Final(e) => e.through = LastSeq /\ e.runEnd = LastSeq /\ run[LastSeq].type = "run_end"
           /\ HasRunEnd(e.through) <=> RunEndSeq(0..e.through) >= 0
  <1>1. LastSeq \in Nat
    BY ReceivedPrefix
  <1>2. e.through \in 0..LastSeq
    BY DEF PolicyPrepared
  <1>3. /\ HasRunEnd(e.through) <=> e.through = LastSeq /\ run[LastSeq].type = "run_end"
        /\ RunEndSeq(0..e.through) = IF HasRunEnd(e.through) THEN LastSeq ELSE -1
    BY <1>2, PrefixEnds
  <1>4. e.state = IF Final(e) THEN "finalized" ELSE "partial"
    BY DEF PolicyPrepared
  <1>5. e.runEnd = IF Final(e) THEN RunEndSeq(0..e.through) ELSE -1
    BY DEF PolicyPrepared
  <1>6. Final(e) => HasRunEnd(e.through)
    BY DEF Final
  <1> QED
    BY <1>1, <1>3, <1>4, <1>5, <1>6

\* The places named as not qualified are found to be in order exactly when they are.
LEMMA PlacesFit ==
    ASSUME EvalInv, NEW e, PolicyPrepared(e), e.notQualified # NotRequired
    PROVE  QualifiedOk(e) <=>
              /\ Ascending(e.notQualified)
              /\ ToSet(e.notQualified) \subseteq {Approval, Control} \cup 0..e.through
                    \cup (IF e.runEnd >= 0 THEN {RunEnd} ELSE {})
  <1> DEFINE w == e.notQualified
             t == e.through
             places == {Approval, Control} \cup 0..t \cup (IF e.runEnd >= 0 THEN {RunEnd} ELSE {})
  <1>1. LastSeq \in Nat /\ t \in 0..LastSeq /\ w \in Seq(Nat \cup {Approval, Control})
    BY ReceivedPrefix DEF PolicyPrepared, PlacesKnown
  <1>2. e.state = "finalized" <=> e.runEnd >= 0
    BY PolicyEnd
  <1>3. QualifiedOk(e) <=>
           /\ Ascending(w)
           /\ \A i \in DOMAIN w : w[i] # RunEnd => w[i] <= t
           /\ RunEnd \in ToSet(w) => e.runEnd >= 0
    BY <1>2 DEF QualifiedOk, Ascending
  <1>4. \A i \in DOMAIN w : w[i] \in Nat \cup {Approval, Control}
    BY <1>1
  <1> HIDE DEF w, t
  <1>5. ASSUME NEW x \in Nat \cup {Approval, Control}
        PROVE  x \in places <=> (x # RunEnd => x <= t) /\ (x = RunEnd => e.runEnd >= 0)
    BY <1>1 DEF RunEnd, Approval, Control
  <1> HIDE DEF places
  <1>6. ToSet(w) \subseteq places <=>
           /\ \A i \in DOMAIN w : w[i] # RunEnd => w[i] <= t
           /\ RunEnd \in ToSet(w) => e.runEnd >= 0
    <2>1. ToSet(w) \subseteq places <=> \A i \in DOMAIN w : w[i] \in places
      BY DEF ToSet
    <2>2. RunEnd \in ToSet(w) <=> \E i \in DOMAIN w : w[i] = RunEnd
      BY DEF ToSet
    <2> QED
      BY <1>4, <1>5, <2>1, <2>2
  <1> QED
    BY <1>3, <1>6 DEF w, t, places

\* A policy evaluation whose prefix is there verifies with its objects, unless
\* it is unfit.
LEMMA PolicyVerdict ==
    ASSUME EvalInv, NEW e, e.kind = "policy", PolicyPrepared(e),
           NEW seqs \in SUBSET (0..LastSeq), NEW payloads
    PROVE  SubjectBound(e, seqs) /\ EvaluationV2Ok(e, seqs, payloads)
              <=> ~Unfit(e) /\ Supplied(e, seqs, payloads)
  <1> DEFINE t == e.through
             prefix == {s \in seqs : s <= t}
             w == e.notQualified
             given == e.status # "unapproved"
             rulesFit == \A r \in Rules : e.rules[r].where \subseteq
                            0..t \cup (IF e.runEnd >= 0 THEN {RunRequest} ELSE {})
             placesFit == /\ Ascending(w)
                          /\ ToSet(w) \subseteq {Approval, Control} \cup 0..t
                                \cup (IF e.runEnd >= 0 THEN {RunEnd} ELSE {})
             approved == e.approval.record /\ e.approval.scope /\ e.approval.agent
  <1>1. LastSeq \in Nat /\ t \in 0..LastSeq /\ t \in Nat /\ e.named = t
    BY ReceivedPrefix DEF PolicyPrepared
  <1>2. /\ e.runEnd >= 0 <=> Final(e)
        /\ e.state = "finalized" <=> Final(e)
        /\ Final(e) => t = LastSeq /\ e.runEnd = LastSeq /\ run[LastSeq].type = "run_end"
        /\ HasRunEnd(t) <=> RunEndSeq(0..t) >= 0
    BY PolicyEnd
  <1>3. /\ MissingKnown(e.missing) /\ MissingSeqsFit(t, e.missing)
        /\ e.finalSeq = RunEndSeq(0..t) /\ RulesOk(e)
        /\ e.facts = BuildFacts(Part(0..t), e.missing)
        /\ e.approval.qualified <=> (w # NotRequired)
        /\ ~given => e.approval = NoApproval
    BY DEF PolicyPrepared
  <1>4. Unfit(e) <=> \/ ~Ascending(e.missing)
                     \/ ~rulesFit
                     \/ w # NotRequired /\ ~placesFit
                     \/ ~approved
    BY Zenon DEF Unfit
  <1>5. Supplied(e, seqs, payloads) <=>
           /\ 0..t \subseteq seqs
           /\ {"control-set", "evaluation-facts"} \subseteq payloads
           /\ given => "policy-approval" \in payloads
    BY DEF Supplied
  <1>6. ApprovalOk(e, payloads) <=>
           /\ w # NotRequired => placesFit
           /\ approved
           /\ given => "policy-approval" \in payloads
    <2>1. w # NotRequired => (QualifiedOk(e) <=> placesFit)
      BY PlacesFit
    <2>2. w = NotRequired => QualifiedOk(e)
      BY DEF QualifiedOk
    <2> HIDE DEF placesFit
    <2>3. CASE given
      BY <1>3, <2>1, <2>2, <2>3 DEF ApprovalOk
    <2>4. CASE ~given
      <3>1. approved /\ ~e.approval.qualified
        BY <1>3, <2>4 DEF NoApproval
      <3> QED
        BY <1>3, <2>4, <3>1 DEF ApprovalOk
    <2> QED
      BY <2>3, <2>4
  <1>7. FactsOk(e, seqs) => 0..t \subseteq seqs
    <2>1. FactsOk(e, seqs) => prefix = 0..t
      BY DEF FactsOk
    <2> QED
      BY <2>1
  <1>8. ASSUME 0..t \subseteq seqs
        PROVE  /\ SubjectBound(e, seqs)
               /\ PrefixOk(e, seqs) <=> Ascending(e.missing)
               /\ FactsOk(e, seqs) <=> rulesFit
    <2>1. prefix = 0..t
      <3>1. \A s \in seqs : s \in Nat /\ (s <= t <=> s \in 0..t)
        BY <1>1
      <3>2. \A s \in 0..t : s \in seqs /\ s <= t
        BY <1>1, <1>8
      <3> HIDE DEF t
      <3> QED
        BY <3>1, <3>2
    <2>2. SubjectBound(e, seqs)
      <3>1. t \in seqs
        BY <1>1, <1>8
      <3>2. Final(e) => RunEndSeq(seqs) = LastSeq
        BY <1>2, <3>1, RunEnds
      <3> QED
        BY <1>1, <1>2, <3>1, <3>2 DEF SubjectBound
    <2>3. PrefixOk(e, seqs) <=> Ascending(e.missing)
      <3>1. PrefixOk(e, seqs) <=>
               /\ MissingOk(e)
               /\ e.finalSeq = RunEndSeq(0..t)
               /\ (e.state = "finalized") <=> (RunEndSeq(0..t) >= 0 /\ e.missing = <<>>)
        BY <2>1, Zenon DEF PrefixOk
      <3>2. (e.state = "finalized") <=> (RunEndSeq(0..t) >= 0 /\ e.missing = <<>>)
        BY <1>2 DEF Final
      <3>3. MissingOk(e) <=> Ascending(e.missing)
        BY <1>3 DEF MissingOk
      <3> QED
        BY <1>3, <3>1, <3>2, <3>3
    <2>4. FactsOk(e, seqs) <=> rulesFit
      <3>1. FactsOk(e, seqs) <=>
               /\ BuildFacts(Part(0..t), e.missing) = e.facts
               /\ \A r \in Rules : e.rules[r].where \subseteq RequestNames(e.facts)
        BY <2>1, Zenon DEF FactsOk
      <3>2. RequestNames(BuildFacts(Part(0..t), e.missing)) =
               0..t \cup (IF HasRunEnd(t) /\ e.missing = <<>> THEN {RunRequest} ELSE {})
        BY <1>1, <1>3, NamesOfPrefix DEF MissingKnown
      <3>3. RequestNames(e.facts) = 0..t \cup (IF e.runEnd >= 0 THEN {RunRequest} ELSE {})
        BY <1>2, <1>3, <3>2 DEF Final
      <3> QED
        BY <1>3, <3>1, <3>3
    <2> QED
      BY <2>2, <2>3, <2>4
  <1>9. EvaluationV2Ok(e, seqs, payloads) <=>
           /\ {"control-set", "evaluation-facts"} \subseteq payloads
           /\ PrefixOk(e, seqs) /\ FactsOk(e, seqs) /\ ApprovalOk(e, payloads)
    BY <1>3 DEF EvaluationV2Ok
  <1> HIDE DEF t, prefix, w, given, rulesFit, placesFit, approved
  <1> QED
    BY <1>4, <1>5, <1>6, <1>7, <1>8, <1>9

\* The others verify when their run_end and their objects are there.
LEMMA OtherVerdict ==
    ASSUME EvalInv, NEW e, e.kind \in {"attested", "v1"}, EndPrepared(e),
           NEW seqs \in SUBSET (0..LastSeq), NEW payloads
    PROVE  SubjectBound(e, seqs) /\ (e.kind # "v1" => EvaluationV2Ok(e, seqs, payloads))
              <=> ~Unfit(e) /\ Supplied(e, seqs, payloads)
  <1>1. LastSeq \in Nat
    BY ReceivedPrefix
  <1>2. RunEndSeq(seqs) = IF LastSeq \in seqs THEN LastSeq ELSE -1
    BY RunEnds DEF EndPrepared
  <1>3. SubjectBound(e, seqs) <=> LastSeq \in seqs
    BY <1>1, <1>2 DEF SubjectBound, EndPrepared
  <1>4. ~Unfit(e)
    BY DEF Unfit
  <1> QED
    BY <1>3, <1>4 DEF Supplied, EvaluationV2Ok

\* PreparedVerifies, for every run, whatever was received of it and in whatever
\* order, and every request: what prepare_policy accepted verifies wherever its
\* events, its objects and a timestamped signature are, but for the fields it
\* takes over unchecked.
THEOREM PreparedEvaluationsVerify == Spec => []PreparedVerifies
  <1>1. ASSUME FitInv
        PROVE  PreparedVerifies
    <2> DEFINE signed == Last(sealed)
               e == signed.envelope
    <2> SUFFICES ASSUME sealed # <<>>, NEW seqs \in Copies, NEW payloads \in SUBSET Roles
                 PROVE  Valid(signed, seqs, payloads) <=>
                           (signed.timestamped /\ ~Unfit(e)) /\ Supplied(e, seqs, payloads)
      BY Zenon DEF PreparedVerifies
    <2>1. EvalInv
      BY <1>1 DEF FitInv
    <2>2. seqs \in SUBSET (0..LastSeq)
      <3>1. LastSeq \in Nat /\ DOMAIN run = 0..LastSeq
        BY <2>1, ReceivedPrefix
      <3> QED
        BY <3>1 DEF Copies
    <2>3. \/ e.kind = "policy" /\ PolicyPrepared(e)
          \/ e.kind \in {"attested", "v1"} /\ EndPrepared(e)
      <3>1. DOMAIN sealed = 1..Len(sealed) /\ Len(sealed) \in Nat /\ sealed \in Seq(ToSet(sealed))
        BY <2>1, Appended DEF EvalInv, Shape
      <3>2. Len(sealed) \in DOMAIN sealed
        BY <3>1
      <3>3. FitSealed(e)
        BY <1>1, <3>2 DEF FitInv, PreparedInv, Last
      <3> HIDE DEF e
      <3> QED
        BY <1>1, <3>3 DEF FitInv, PreparedInv, FitSealed, FitPrepared
    <2>4. Valid(signed, seqs, payloads) <=>
             /\ signed.timestamped
             /\ SubjectBound(e, seqs)
             /\ e.kind # "v1" => EvaluationV2Ok(e, seqs, payloads)
      BY Zenon DEF Valid
    <2> HIDE DEF signed, e
    <2>5. SubjectBound(e, seqs) /\ (e.kind # "v1" => EvaluationV2Ok(e, seqs, payloads))
             <=> ~Unfit(e) /\ Supplied(e, seqs, payloads)
      <3>1. CASE e.kind = "policy" /\ PolicyPrepared(e)
        BY <2>1, <2>2, <3>1, PolicyVerdict
      <3>2. CASE e.kind \in {"attested", "v1"} /\ EndPrepared(e)
        BY <2>1, <2>2, <3>2, OtherVerdict
      <3> QED
        BY <2>3, <3>1, <3>2
    <2> QED
      BY <2>4, <2>5
  <1> QED
    BY <1>1, PreparedInvariant, PTL
===================================================================================

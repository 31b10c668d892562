------------------------------ MODULE RunVerifier ------------------------------
(***************************************************************************)
(* verify_agent_run (_agent_verify.py): the verdict on a copy of a run's   *)
(* bundle.  Everything here is a function of the copy; module RunCopies    *)
(* records runs, hands copies of them out and lets the copies be damaged.  *)
(*                                                                         *)
(* A signed artifact is a record of the fields the checks read; its        *)
(* signature is named by what it signs, <<run, seq>> (the Control Artifact *)
(* has seq -1).  An item of a copy is an artifact with what can happen to  *)
(* it on the way: its state, its timestamp, the digests supplied with it.  *)
(*                                                                         *)
(* Left out: the wording of findings, warnings and notes, the trust of     *)
(* certificates and TSAs, schema conformance and sigD layout (an item that *)
(* fails them is "envelope_changed"), mixed schema versions, evaluations   *)
(* (they never touch the run's verdict).                                   *)
(***************************************************************************)
EXTENDS TimestampCoverage, Sequences, FiniteSets

CONSTANTS MaxMissingListed   \* _MAX_MISSING_LISTED

ASSUME MissingAssumption == MaxMissingListed \in Nat

NoSig == <<>>

States == {"intact", "envelope_changed", "signature_broken", "unreadable", "absent"}
Stamps == {"none", "valid", "invalid"}

Readable(s)       == s.state \notin {"unreadable", "absent"}
SignatureValid(s) == s.state # "signature_broken"
StampValid(s)     == s.stamp = "valid"
---------------------------------------------------------------------------------
(* The copy in the verifier's order. *)

\* By signed seq; what cannot be read comes last; ties keep the copy's order.
Before(events, i, j) ==
    LET s == events[i]
        t == events[j]
    IN  \/ Readable(s) /\ ~Readable(t)
        \/ Readable(s) /\ Readable(t) /\ s.art.seq < t.art.seq
        \/ /\ Readable(s) <=> Readable(t)
           /\ Readable(s) => s.art.seq = t.art.seq
           /\ i < j

Place(events, i) == Cardinality({j \in DOMAIN events : Before(events, j, i)}) + 1

Arts(copy) ==
    [k \in DOMAIN copy.events |->
        copy.events[CHOOSE i \in DOMAIN copy.events : Place(copy.events, i) = k]]

\* The ones that can be read, which come first.
Good(arts) == SubSeq(arts, 1, Cardinality({k \in DOMAIN arts : Readable(arts[k])}))

OfType(arts, type) == {k \in DOMAIN arts : Readable(arts[k]) /\ arts[k].art.type = type}

\* The event the others are judged against: run_start, or else the first.
Reference(arts) ==
    LET starts == OfType(arts, "run_start")
    IN  IF Cardinality(starts) = 1 THEN arts[CHOOSE k \in starts : TRUE].art ELSE arts[1].art

HasReference(arts) == arts # <<>> /\ Readable(arts[1])
---------------------------------------------------------------------------------
(* One item: _check_artifact. *)

\* What is supplied for a URI: the payload and the digest, when there are both.
Given(s, payloads, uri) == {p[2] : p \in {q \in s.digests \cup payloads : q[1] = uri}}

\* Every signed object is supplied and is the signed one, nothing unsigned is
\* supplied, and the signature covers the envelope.
ObjectsComplete(s, payloads) ==
    /\ s.state # "envelope_changed"
    /\ \A o \in s.art.objects : Given(s, payloads, o[1]) = {o[2]}
    /\ \A d \in s.digests : \E o \in s.art.objects : o[1] = d[1]

\* What the check of URI reuse compares: the payload if there is one.
Taken(s, payloads) ==
    LET uris == {o[1] : o \in s.art.objects}
        held == {p[1] : p \in payloads}
    IN  {p \in payloads : p[1] \in uris} \cup {d \in s.digests : d[1] \in uris \ held}
---------------------------------------------------------------------------------
(* The walk over the sequence numbers. *)

\* Mutant: the limit holds for each gap instead of for the whole list.
Listed_PerGap(missing, expected, seq) ==
    {n \in expected .. seq-1 : n - expected < MaxMissingListed}

\* What a gap adds to the list: its lowest numbers, as long as there is room.
Listed(missing, expected, seq) ==
    {n \in expected .. seq-1 : n - expected < MaxMissingListed - Cardinality(missing)}

Scan(arts) ==
    LET good == Good(arts)
        step[k \in 0..Len(good)] ==
            IF k = 0 THEN [expected |-> 0, missing |-> {}, ok |-> TRUE]
            ELSE LET p   == step[k-1]
                     seq == good[k].art.seq
                 IN  IF seq < p.expected
                     THEN [p EXCEPT !.ok = FALSE]
                     ELSE [expected |-> seq + 1,
                           missing  |-> p.missing \cup Listed(p.missing, p.expected, seq),
                           ok       |-> p.ok /\ p.expected = seq]
    IN  step[Len(good)]

MissingSeqs(copy) == Scan(Arts(copy)).missing
---------------------------------------------------------------------------------
(* The checks: TRUE when the check is not "bad". *)

CorrelationOk(arts) == \A k, l \in DOMAIN Good(arts) : Good(arts)[k].art.run = Good(arts)[l].art.run

SequenceOk(arts) ==
    /\ \A k \in DOMAIN arts : Readable(arts[k])
    /\ Scan(arts).ok
    /\ arts # <<>> => \E k \in DOMAIN arts : OfType(arts, "run_start") = {k} /\ arts[k].art.seq = 0

LinkOk(arts, k) ==
    LET a == arts[k].art IN
    IF a.seq = 0 THEN a.link = NoSig
    ELSE /\ k > 1
         /\ arts[k-1].art.seq = a.seq - 1
         /\ a.link = arts[k-1].art.sig

ChainOk(arts) == \A k \in DOMAIN arts : Readable(arts[k]) /\ LinkOk(arts, k)

\* One signer: the reference's, and the Control Artifact's must be the same.
SignaturesOk(copy, arts) ==
    LET all == {arts[k] : k \in DOMAIN arts} \cup
               (IF Readable(copy.control) THEN {copy.control} ELSE {})
    IN  \A s \in all : /\ Readable(s) /\ SignatureValid(s)
                       /\ \A t \in all : s.art.signer = t.art.signer

EnvelopeOk(copy, arts) ==
    /\ \A k \in DOMAIN arts : Readable(arts[k])
    /\ copy.control.state # "unreadable"

ObjectsOk(copy, arts) ==
    LET items == {arts[k] : k \in DOMAIN arts} \cup
                 (IF Readable(copy.control) THEN {copy.control} ELSE {})
        taken == UNION {Taken(s, copy.payloads) : s \in items}
        uris  == UNION {{o[1] : o \in s.art.objects} : s \in {t \in items : Readable(t)}}
    IN  /\ \A s \in items : Readable(s) /\ ObjectsComplete(s, copy.payloads)
        /\ \A o, p \in taken : o[1] = p[1] => o[2] = p[2]
        /\ \A p \in copy.payloads : p[1] \in uris

\* The coverage rule walked over the events as they were given.
Walk(copy, arts) ==
    LET known == Readable(copy.control)
        step[k \in 0..Len(arts)] ==
            IF k = 0 THEN Fresh ELSE Walked(step[k-1], known, arts[k].art)
    IN  step

RequiredAt(copy, arts, k) ==
    Required(Walk(copy, arts)[k-1], Readable(copy.control), arts[k].art)

\* Mutant: a timestamp that is missing is not missed.
TimestampsOk_PresentOnesOnly(copy, arts) == \A k \in DOMAIN arts : arts[k].stamp # "invalid"

TimestampsOk(copy, arts) ==
    \A k \in DOMAIN arts :
       /\ RequiredAt(copy, arts, k) => StampValid(arts[k])
       /\ arts[k].stamp # "invalid"

\* Mutant: a copy without its Control Artifact passes.
ControlOk_Optional(copy, arts) ==
    LET c == copy.control IN
    Readable(c) =>
       /\ ObjectsComplete(c, copy.payloads) /\ SignatureValid(c) /\ StampValid(c)
       /\ HasReference(arts) => /\ c.art.run = Reference(arts).run
                                /\ Reference(arts).binds = c.art.sig

ControlOk(copy, arts) ==
    LET c == copy.control IN
    /\ Readable(c)
    /\ ObjectsComplete(c, copy.payloads)
    /\ SignatureValid(c)
    /\ StampValid(c)
    /\ HasReference(arts) =>
          /\ c.art.run = Reference(arts).run
          /\ Reference(arts).binds = c.art.sig
          /\ \A k \in DOMAIN arts : arts[k].art.binds \in {NoSig, Reference(arts).binds}

Anchored(arts) == \E k \in OfType(arts, "run_end") : StampValid(arts[k]) /\ SignatureValid(arts[k])

FinalizationOk(arts) ==
    LET ends == OfType(arts, "run_end") IN
    ends # {} =>
       /\ ends = {Len(Good(arts))}
       /\ \A k \in ends : /\ arts[k].art.finalSeq = arts[k].art.seq
                          /\ arts[k].art.finalPrev = arts[k].art.link
       /\ Anchored(arts)

RunVerdict(copy) ==
    LET arts == Arts(copy) IN
    IF /\ CorrelationOk(arts)
       /\ SequenceOk(arts)
       /\ ChainOk(arts)
       /\ EnvelopeOk(copy, arts)
       /\ SignaturesOk(copy, arts)
       /\ ObjectsOk(copy, arts)
       /\ ControlOk(copy, arts)
       /\ TimestampsOk(copy, arts)
       /\ FinalizationOk(arts)
    THEN IF OfType(arts, "run_end") = {} THEN "run_open" ELSE "run_finalized"
    ELSE "run_invalid"
================================================================================

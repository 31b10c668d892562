----------------------------- MODULE PadesSealProofs -----------------------------
(***************************************************************************)
(* Theorems about PadesSeal.  Revisions are only appended, and of the bytes *)
(* already there only a slot is filled: so a file still begins with what    *)
(* the service signed, and every signature behind it covers it.  And what   *)
(* the signer appends it reads again: a revision of its own defines its     *)
(* objects in the file itself, under numbers not taken, or as they were     *)
(* read save for one entry.  Compared with the file as the signer takes it, *)
(* its revisions lose nothing and add their own fields; so a whole seal     *)
(* does, step by step.                                                      *)
(***************************************************************************)
EXTENDS PadesSeal, Orders

-----------------------------------------------------------------------------
(* Sequences: what the proofs need to know of a file.                        *)

IsSequence(s) == s \in Seq(ToSet(s))

\* A sequence of n with place k changed.
Changed(t, s, n, k, x) ==
    /\ t = [i \in 1..n |-> t[i]]
    /\ \A i \in 1..(k - 1) : t[i] = s[i]
    /\ t[k] = x

LEMMA ReplaceIs ==
    ASSUME NEW s, NEW n \in Nat, DOMAIN s = 1..n, NEW k \in 1..n, NEW x
    PROVE  Changed([s EXCEPT ![k] = x], s, n, k, x)
  <1> DEFINE t == [s EXCEPT ![k] = x]
  <1>1. t = [i \in 1..n |-> t[i]]
    OBVIOUS
  <1>2. \A i \in 1..n : i # k => t[i] = s[i]
    OBVIOUS
  <1>3. \A i \in 1..(k - 1) : i \in 1..n /\ i # k
    OBVIOUS
  <1> QED
    BY <1>1, <1>2, <1>3 DEF Changed

\* A revision with its slot holding w.
Holding(rev, w) == [rev EXCEPT !.slot.holds = w]

LEMMA SameSequence ==
    ASSUME NEW s, NEW t, IsSequence(s), IsSequence(t), Len(s) = Len(t),
           \A i \in 1..Len(s) : s[i] = t[i]
    PROVE  s = t
  BY DEF IsSequence

LEMMA SequenceBasics ==
    ASSUME NEW s, IsSequence(s)
    PROVE  Len(s) \in Nat /\ DOMAIN s = 1..Len(s) /\ (s # <<>> <=> Len(s) >= 1)
  BY DEF IsSequence

\* A function on 1..n is a sequence.
LEMMA FunctionIsSequence ==
    ASSUME NEW n \in Nat, NEW f, f = [i \in 1..n |-> f[i]]
    PROVE  IsSequence(f) /\ Len(f) = n
  <1>1. DOMAIN f = 1..n
    OBVIOUS
  <1>2. \A i \in 1..n : f[i] \in ToSet(f)
    BY <1>1 DEF ToSet
  <1>3. f \in [1..n -> ToSet(f)]
    BY <1>2
  <1> QED
    BY <1>3 DEF IsSequence

LEMMA AppendIs ==
    ASSUME NEW s, IsSequence(s), NEW x
    PROVE  /\ IsSequence(Append(s, x)) /\ Len(Append(s, x)) = Len(s) + 1
           /\ \A i \in 1..Len(s) : Append(s, x)[i] = s[i]
           /\ Append(s, x)[Len(s) + 1] = x
           /\ Last(Append(s, x)) = x
  <1> DEFINE S == ToSet(s) \cup {x}
             t == Append(s, x)
             n == Len(s)
  <1>1. s \in Seq(S) /\ x \in S
    BY DEF IsSequence
  <1>2. /\ t \in Seq(S) /\ Len(t) = n + 1 /\ n \in Nat
        /\ \A i \in 1..n : t[i] = s[i]
        /\ t[n + 1] = x
    BY <1>1
  <1>3. IsSequence(t)
    <2> HIDE DEF t, n
    <2>1. t = [i \in 1..(n + 1) |-> t[i]]
      BY <1>2
    <2> QED
      BY <1>2, <2>1, FunctionIsSequence
  <1>4. Last(t) = x
    BY <1>2 DEF Last
  <1> QED
    BY <1>2, <1>3, <1>4

LEMMA SubSeqIs ==
    ASSUME NEW s, IsSequence(s), NEW n \in 0..Len(s)
    PROVE  /\ IsSequence(SubSeq(s, 1, n)) /\ Len(SubSeq(s, 1, n)) = n
           /\ \A i \in 1..n : SubSeq(s, 1, n)[i] = s[i]
  <1> DEFINE t == SubSeq(s, 1, n)
  <1>1. Len(s) \in Nat /\ s \in Seq(ToSet(s))
    BY DEF IsSequence
  <1>2. t \in Seq(ToSet(s)) /\ Len(t) = n /\ \A i \in 1..n : t[i] = s[i]
    BY <1>1
  <1>3. n \in Nat
    BY <1>1
  <1>4. IsSequence(t)
    <2> HIDE DEF t
    <2>1. t = [i \in 1..n |-> t[i]]
      BY <1>2, <1>3
    <2> QED
      BY <1>3, <2>1, FunctionIsSequence
  <1> QED
    BY <1>2, <1>4

\* Two sequences agree up to n.
LEMMA PrefixIs ==
    ASSUME NEW s, NEW t, IsSequence(s), IsSequence(t)
    PROVE  IsPrefix(s, t) <=> Len(s) <= Len(t) /\ \A i \in 1..Len(s) : s[i] = t[i]
  <1>1. Len(s) \in Nat /\ Len(t) \in Nat
    BY SequenceBasics
  <1>2. CASE Len(s) <= Len(t)
    <2>1. Len(s) \in 0..Len(s) /\ Len(s) \in 0..Len(t)
      BY <1>1, <1>2
    <2>2. /\ IsSequence(SubSeq(s, 1, Len(s))) /\ Len(SubSeq(s, 1, Len(s))) = Len(s)
          /\ \A i \in 1..Len(s) : SubSeq(s, 1, Len(s))[i] = s[i]
      BY <2>1, SubSeqIs
    <2>3. /\ IsSequence(SubSeq(t, 1, Len(s))) /\ Len(SubSeq(t, 1, Len(s))) = Len(s)
          /\ \A i \in 1..Len(s) : SubSeq(t, 1, Len(s))[i] = t[i]
      BY <2>1, SubSeqIs
    <2>4. SubSeq(s, 1, Len(s)) = SubSeq(t, 1, Len(s)) <=> \A i \in 1..Len(s) : s[i] = t[i]
      <3>1. ASSUME SubSeq(s, 1, Len(s)) = SubSeq(t, 1, Len(s)), NEW i \in 1..Len(s)
            PROVE  s[i] = t[i]
        BY <2>2, <2>3, <3>1
      <3>2. ASSUME \A i \in 1..Len(s) : s[i] = t[i]
            PROVE  SubSeq(s, 1, Len(s)) = SubSeq(t, 1, Len(s))
        <4>1. \A i \in 1..Len(s) : SubSeq(s, 1, Len(s))[i] = SubSeq(t, 1, Len(s))[i]
          BY <2>2, <2>3, <3>2
        <4> QED
          BY <2>2, <2>3, <4>1, SameSequence
      <3> QED
        BY <3>1, <3>2
    <2> QED
      BY <1>2, <2>4 DEF IsPrefix
  <1>3. CASE ~(Len(s) <= Len(t))
    BY <1>3 DEF IsPrefix
  <1> QED
    BY <1>2, <1>3

\* Filling a slot twice, and what filling leaves alone.
LEMMA HoldingIs ==
    ASSUME NEW rev, HasSlot(rev), NEW v, NEW w
    PROVE  /\ HasSlot(Holding(rev, w))
           /\ Holding(rev, w).slot.holds = w
           /\ Holding(rev, w).slot.for = rev.slot.for
           /\ Holding(Holding(rev, v), w) = Holding(rev, w)
  <1>1. "slot" \in DOMAIN rev /\ "holds" \in DOMAIN rev.slot /\ "for" \in DOMAIN rev.slot
    BY DEF HasSlot
  <1>2. ASSUME NEW x
        PROVE  /\ DOMAIN Holding(rev, x) = DOMAIN rev
               /\ DOMAIN Holding(rev, x).slot = DOMAIN rev.slot
               /\ Holding(rev, x).slot.holds = x
               /\ \A f \in DOMAIN rev.slot : f # "holds" => Holding(rev, x).slot[f] = rev.slot[f]
               /\ \A f \in DOMAIN rev : f # "slot" => Holding(rev, x)[f] = rev[f]
               /\ Holding(rev, x) = [f \in DOMAIN rev |-> Holding(rev, x)[f]]
    BY <1>1 DEF Holding
  <1>3. Holding(rev, w).slot.for = rev.slot.for
    BY <1>1 DEF Holding
  <1>4. HasSlot(Holding(rev, w))
    BY <1>1, <1>2, <1>3 DEF HasSlot
  <1>5. Holding(Holding(rev, v), w) = Holding(rev, w)
    <2> DEFINE put(slot, x) == [slot EXCEPT !.holds = x]
    <2>1. \A slot : put(put(slot, v), w) = put(slot, w)
      OBVIOUS
    <2>2. \A r, x : Holding(r, x) = [r EXCEPT !.slot = put(r.slot, x)]
      BY DEF Holding
    <2> HIDE DEF put
    <2>3. Holding(rev, v).slot = put(rev.slot, v)
      BY <1>1, <2>2
    <2>4. Holding(Holding(rev, v), w) = [Holding(rev, v) EXCEPT !.slot = put(rev.slot, w)]
      BY <2>1, <2>2, <2>3
    <2>5. \A x, y : [[rev EXCEPT !.slot = x] EXCEPT !.slot = y] = [rev EXCEPT !.slot = y]
      OBVIOUS
    <2> QED
      BY <2>2, <2>4, <2>5
  <1> QED
    BY <1>2, <1>3, <1>4, <1>5

-----------------------------------------------------------------------------
(* The writers, as far as they concern slots.                                *)

LEMMA DocumentBasics ==
    ASSUME NEW doc, Document(doc)
    PROVE  /\ IsSequence(doc) /\ Len(doc) \in Nat /\ Len(doc) >= 1 /\ DOMAIN doc = 1..Len(doc)
           /\ Last(doc) = doc[Len(doc)]
           /\ \A i \in 1..Len(doc) : HasSlot(doc[i])
  <1>1. IsSequence(doc) /\ doc # <<>>
    BY DEF Document, IsSequence
  <1>2. Len(doc) \in Nat /\ DOMAIN doc = 1..Len(doc) /\ Len(doc) >= 1
    BY <1>1, SequenceBasics
  <1> QED
    BY <1>1, <1>2 DEF Document, Last

LEMMA DocumentMade ==
    ASSUME NEW doc, IsSequence(doc), Len(doc) >= 1, \A i \in 1..Len(doc) : HasSlot(doc[i])
    PROVE  Document(doc)
  <1>1. DOMAIN doc = 1..Len(doc) /\ doc # <<>>
    BY SequenceBasics
  <1> QED
    BY <1>1 DEF Document, IsSequence

\* A revision appended.
LEMMA DocumentGrows ==
    ASSUME NEW doc, Document(doc), NEW rev, HasSlot(rev)
    PROVE  Document(Append(doc, rev))
  <1> DEFINE n == Len(doc)
             more == Append(doc, rev)
  <1>1. IsSequence(doc) /\ n \in Nat /\ n >= 1 /\ \A i \in 1..n : HasSlot(doc[i])
    BY DocumentBasics
  <1>2. /\ IsSequence(more) /\ Len(more) = n + 1
        /\ \A i \in 1..n : more[i] = doc[i]
        /\ more[n + 1] = rev
    BY <1>1, AppendIs
  <1> HIDE DEF n, more
  <1>3. \A i \in 1..(n + 1) : HasSlot(more[i])
    <2>1. \A i \in 1..(n + 1) : i \in 1..n \/ i = n + 1
      BY <1>1
    <2> QED
      BY <1>1, <1>2, <2>1
  <1>4. Len(more) >= 1
    BY <1>1, <1>2
  <1>5. Document(more)
    BY <1>2, <1>3, <1>4, DocumentMade
  <1> QED
    BY <1>5 DEF more

LEMMA EmbedIs ==
    ASSUME NEW doc, Document(doc), NEW w
    PROVE  /\ Document(embed(doc, w)) /\ Len(embed(doc, w)) = Len(doc)
           /\ \A i \in 1..(Len(doc) - 1) : embed(doc, w)[i] = doc[i]
           /\ embed(doc, w)[Len(doc)] = Holding(doc[Len(doc)], w)
  <1> DEFINE n == Len(doc)
             done == embed(doc, w)
             last == Holding(doc[n], w)
  <1>1. /\ IsSequence(doc) /\ n \in Nat /\ n >= 1 /\ DOMAIN doc = 1..n
        /\ \A i \in 1..n : HasSlot(doc[i])
    BY DocumentBasics
  <1>2. done = [doc EXCEPT ![n] = last]
    BY DEF embed, Holding
  <1>3. HasSlot(last)
    BY <1>1, HoldingIs
  <1> HIDE DEF done, last, n
  <1>4. /\ done = [i \in 1..n |-> done[i]]
        /\ \A i \in 1..(n - 1) : done[i] = doc[i]
        /\ done[n] = last
    <2>1. n \in 1..n
      BY <1>1
    <2>2. Changed(done, doc, n, n, last)
      BY <1>1, <1>2, <2>1, ReplaceIs
    <2> QED
      BY <2>2, Zenon DEF Changed
  <1>5. IsSequence(done) /\ Len(done) = n
    BY <1>1, <1>4, FunctionIsSequence
  <1>6. \A i \in 1..n : HasSlot(done[i])
    <2>1. \A i \in 1..n : i = n \/ i \in 1..(n - 1)
      BY <1>1
    <2> QED
      BY <1>1, <1>3, <1>4, <2>1
  <1>7. Document(done)
    BY <1>1, <1>5, <1>6, DocumentMade
  <1> QED
    BY <1>4, <1>5, <1>7 DEF done, last, n

LEMMA ByteRangesAre ==
    ASSUME NEW doc, Document(doc), NEW k \in 1..Len(doc)
    PROVE  /\ IsSequence(ByteRanges(doc, k)) /\ Len(ByteRanges(doc, k)) = k
           /\ \A i \in 1..(k - 1) : ByteRanges(doc, k)[i] = doc[i]
           /\ ByteRanges(doc, k)[k] = Holding(doc[k], Empty)
  <1> DEFINE head == SubSeq(doc, 1, k)
             bytes == ByteRanges(doc, k)
             last == Holding(doc[k], Empty)
  <1>1. IsSequence(doc) /\ Len(doc) \in Nat /\ k \in 0..Len(doc) /\ k \in Nat /\ k \in 1..k
    BY DocumentBasics
  <1>2. IsSequence(head) /\ Len(head) = k /\ \A i \in 1..k : head[i] = doc[i]
    BY <1>1, SubSeqIs
  <1>3. DOMAIN head = 1..k
    BY <1>2, SequenceBasics
  <1>4. bytes = [head EXCEPT ![k] = last]
    <2>1. bytes = [head EXCEPT ![k] = Holding(head[k], Empty)]
      BY DEF ByteRanges, Holding
    <2>2. head[k] = doc[k]
      BY <1>1, <1>2
    <2> QED
      BY <2>1, <2>2
  <1> HIDE DEF head, bytes, last
  <1>5. /\ bytes = [i \in 1..k |-> bytes[i]]
        /\ \A i \in 1..(k - 1) : bytes[i] = head[i]
        /\ bytes[k] = last
    <2>1. Changed(bytes, head, k, k, last)
      BY <1>1, <1>3, <1>4, ReplaceIs
    <2> QED
      BY <2>1, Zenon DEF Changed
  <1>6. IsSequence(bytes) /\ Len(bytes) = k
    BY <1>1, <1>5, FunctionIsSequence
  <1>7. \A i \in 1..(k - 1) : bytes[i] = doc[i]
    <2>1. \A i \in 1..(k - 1) : i \in 1..k
      BY <1>1
    <2> QED
      BY <1>2, <1>5, <2>1
  <1> QED
    BY <1>5, <1>6, <1>7 DEF bytes, last

\* Files that agree up to a slot have it hashed alike.
LEMMA SameBytes ==
    ASSUME NEW doc, NEW other, Document(doc), Document(other),
           NEW k, k \in 1..Len(doc), k \in 1..Len(other),
           \A i \in 1..(k - 1) : doc[i] = other[i],
           Holding(doc[k], Empty) = Holding(other[k], Empty)
    PROVE  ByteRanges(doc, k) = ByteRanges(other, k)
  <1>1. /\ IsSequence(ByteRanges(doc, k)) /\ Len(ByteRanges(doc, k)) = k
        /\ \A i \in 1..(k - 1) : ByteRanges(doc, k)[i] = doc[i]
        /\ ByteRanges(doc, k)[k] = Holding(doc[k], Empty)
    BY ByteRangesAre
  <1>2. /\ IsSequence(ByteRanges(other, k)) /\ Len(ByteRanges(other, k)) = k
        /\ \A i \in 1..(k - 1) : ByteRanges(other, k)[i] = other[i]
        /\ ByteRanges(other, k)[k] = Holding(other[k], Empty)
    BY ByteRangesAre
  <1>3. k \in Nat
    BY DocumentBasics
  <1>4. \A i \in 1..k : ByteRanges(doc, k)[i] = ByteRanges(other, k)[i]
    <2>1. \A i \in 1..k : i = k \/ i \in 1..(k - 1)
      BY <1>3
    <2> QED
      BY <1>1, <1>2, <2>1
  <1> QED
    BY <1>1, <1>2, <1>4, SameSequence

-----------------------------------------------------------------------------
(* The inductive invariant.                                                  *)

\* Revision k of a file is what the service signed for op, with its CMS.
SealedAt(doc, op, k) ==
    /\ op \in DOMAIN ops /\ k \in 1..Len(doc)
    /\ doc[k].slot.for # "none"
    /\ doc[k] = Holding(doc[k], Cms(op)) /\ doc[k].slot.holds = Cms(op)
    /\ ops[op].digest = ByteRanges(doc, k)

\* Behind it there are no slots, or one with a token for all before it.
Stamped(doc, i) ==
    \E n \in DOMAIN tokens :
        /\ doc[i].slot.for = "archive" /\ doc[i].slot.holds = Token(n)
        /\ tokens[n] = ByteRanges(doc, i)

LaterNone(doc, k)  == \A i \in (k + 1)..Len(doc) : doc[i].slot.for = "none"
LaterValid(doc, k) == \A i \in (k + 1)..Len(doc) : doc[i].slot.for = "none" \/ Stamped(doc, i)

Unsigned(doc) == doc[Len(doc)].slot.for # "none"
AsSigned(doc, op) == op \in DOMAIN ops /\ ops[op].digest = ByteRanges(doc, Len(doc))
Bare(doc, op)     == \E k \in 1..Len(doc) : SealedAt(doc, op, k) /\ LaterNone(doc, k)
Finished(doc, op) == \E k \in 1..Len(doc) : SealedAt(doc, op, k) /\ LaterValid(doc, k)
ToStamp(doc, n) ==
    /\ n \in DOMAIN tokens
    /\ tokens[n] = ByteRanges(prepare_doc_timestamp(doc), Len(doc) + 1)

CallShape == {"step", "pdf", "ltv", "op", "token"} \subseteq DOMAIN call

LogsInv   == IsSequence(ops) /\ IsSequence(tokens)
FilesInv  == \A pdf \in files : Document(pdf)
CallInv   ==
    /\ CallShape
    /\ call.step \in {"sign", "signed"} => Unsigned(call.pdf)
    /\ call.step = "signed" => AsSigned(call.pdf, call.op)
    /\ call.step \in {"stamp", "stamped"} => Bare(call.pdf, call.op)
    /\ call.step = "stamped" => ToStamp(call.pdf, call.token)
ResultsInv == \A r \in Online : Finished(r.pdf, r.op)

PadesInv == TypeOK /\ LogsInv /\ FilesInv /\ CallInv /\ ResultsInv

-----------------------------------------------------------------------------
(* What the invariant says of a file stays true of a longer one, and when    *)
(* the service's records grow.                                               *)

LEMMA SealedAtStays ==
    ASSUME NEW doc, NEW longer, Document(doc), Document(longer), Len(doc) <= Len(longer),
           NEW op, NEW k, SealedAt(doc, op, k), \A i \in 1..k : longer[i] = doc[i]
    PROVE  SealedAt(longer, op, k)
  <1>1. Len(doc) \in Nat /\ Len(longer) \in Nat
    BY DocumentBasics
  <1>2. k \in 1..Len(doc) /\ k \in 1..Len(longer) /\ k \in 1..k
    BY <1>1 DEF SealedAt
  <1>3. longer[k] = doc[k] /\ \A i \in 1..(k - 1) : longer[i] = doc[i]
    BY <1>2
  <1>4. Holding(doc[k], Empty) = Holding(longer[k], Empty) /\ \A i \in 1..(k - 1) : doc[i] = longer[i]
    BY <1>3
  <1>5. ByteRanges(doc, k) = ByteRanges(longer, k)
    BY <1>2, <1>4, SameBytes
  <1> QED
    BY <1>2, <1>3, <1>5 DEF SealedAt

\* The service's records only grow.
LogsGrow ==
    /\ DOMAIN ops \subseteq DOMAIN ops' /\ \A o \in DOMAIN ops : ops'[o] = ops[o]
    /\ DOMAIN tokens \subseteq DOMAIN tokens' /\ \A n \in DOMAIN tokens : tokens'[n] = tokens[n]

LEMMA LogsGrowKeeps ==
    ASSUME LogsGrow, NEW doc, NEW op
    PROVE  /\ Bare(doc, op) => Bare(doc, op)'
           /\ Finished(doc, op) => Finished(doc, op)'
           /\ \A n : ToStamp(doc, n) => ToStamp(doc, n)'
           /\ AsSigned(doc, op) => AsSigned(doc, op)'
  <1>1. \A k : SealedAt(doc, op, k) => SealedAt(doc, op, k)'
    BY DEF LogsGrow, SealedAt
  <1>2. \A i : Stamped(doc, i) => Stamped(doc, i)'
    BY DEF LogsGrow, Stamped
  <1>3. \A k : LaterNone(doc, k) => LaterNone(doc, k)'
    BY DEF LaterNone
  <1>4. \A k : LaterValid(doc, k) => LaterValid(doc, k)'
    BY <1>2 DEF LaterValid
  <1>5. \A n : ToStamp(doc, n) => ToStamp(doc, n)'
    BY DEF LogsGrow, ToStamp
  <1>6. AsSigned(doc, op) => AsSigned(doc, op)'
    BY DEF LogsGrow, AsSigned
  <1>7. Bare(doc, op) => Bare(doc, op)'
    BY <1>1, <1>3 DEF Bare
  <1>8. Finished(doc, op) => Finished(doc, op)'
    BY <1>1, <1>4 DEF Finished
  <1> QED
    BY <1>5, <1>6, <1>7, <1>8

\* The revisions the signer appends: the slot each has.
LEMMA RevisionsHaveSlots ==
    ASSUME NEW doc, NEW title, NEW n, NEW op
    PROVE  /\ \A for \in {"seal", "archive"} :
                 LET rev == SignatureRevision(doc, title, for, n)
                 IN  HasSlot(rev) /\ rev.slot = Slot(for)
           /\ \E rev : append_dss(doc, op) = Append(doc, rev) /\ HasSlot(rev) /\ rev.slot = NoSlot
  <1>1. ASSUME NEW objects, NEW next, NEW slot, slot \in {Slot("seal"), Slot("archive"), NoSlot}
        PROVE  HasSlot(Revision(doc, objects, next, slot, n)) /\ Revision(doc, objects, next, slot, n).slot = slot
    BY <1>1 DEF Revision, HasSlot, Slot, NoSlot
  <1>2. ASSUME NEW for \in {"seal", "archive"}
        PROVE  \E objects, next : SignatureRevision(doc, title, for, n) = Revision(doc, objects, next, Slot(for), n)
    BY Zenon DEF SignatureRevision
  <1>3. \E objects, next : append_dss(doc, op) = Append(doc, Revision(doc, objects, next, NoSlot, 0))
    BY Zenon DEF append_dss
  <1>4. ASSUME NEW objects, NEW next
        PROVE  HasSlot(Revision(doc, objects, next, NoSlot, 0)) /\ Revision(doc, objects, next, NoSlot, 0).slot = NoSlot
    BY DEF Revision, HasSlot, NoSlot
  <1>5. ASSUME NEW for \in {"seal", "archive"}
        PROVE  LET rev == SignatureRevision(doc, title, for, n)
               IN  HasSlot(rev) /\ rev.slot = Slot(for)
    BY <1>1, <1>2
  <1>6. \E rev : append_dss(doc, op) = Append(doc, rev) /\ HasSlot(rev) /\ rev.slot = NoSlot
    BY <1>3, <1>4
  <1> QED
    BY <1>5, <1>6

\* A prepared file is one whose last slot is to be filled.
LEMMA PreparedIs ==
    ASSUME NEW doc, Document(doc), NEW n
    PROVE  Document(prepare(doc, n)) /\ Unsigned(prepare(doc, n))
  <1> DEFINE rev == SignatureRevision(doc, FieldTitle("seal"), "seal", n)
  <1>1. HasSlot(rev) /\ rev.slot = Slot("seal")
    BY RevisionsHaveSlots
  <1>2. prepare(doc, n) = Append(doc, rev)
    BY DEF prepare
  <1> HIDE DEF rev
  <1>3. Document(Append(doc, rev))
    BY <1>1, DocumentGrows
  <1>4. Len(Append(doc, rev)) = Len(doc) + 1 /\ Append(doc, rev)[Len(doc) + 1] = rev
    BY DocumentBasics, AppendIs
  <1> QED
    BY <1>1, <1>2, <1>3, <1>4 DEF Unsigned, Slot

\* What a file for the archival timestamp looks like.
LEMMA TimestampIs ==
    ASSUME NEW doc, Document(doc)
    PROVE  LET ts == prepare_doc_timestamp(doc)
           IN  /\ Document(ts) /\ Len(ts) = Len(doc) + 1
               /\ \A i \in 1..Len(doc) : ts[i] = doc[i]
               /\ ts[Len(doc) + 1].slot.for = "archive"
  <1> DEFINE rev == SignatureRevision(doc, FieldTitle("archive"), "archive", 0)
  <1>1. HasSlot(rev) /\ rev.slot = Slot("archive")
    BY RevisionsHaveSlots
  <1>2. prepare_doc_timestamp(doc) = Append(doc, rev)
    BY DEF prepare_doc_timestamp
  <1> HIDE DEF rev
  <1>3. Document(Append(doc, rev))
    BY <1>1, DocumentGrows
  <1>4. /\ Len(Append(doc, rev)) = Len(doc) + 1 /\ Append(doc, rev)[Len(doc) + 1] = rev
        /\ \A i \in 1..Len(doc) : Append(doc, rev)[i] = doc[i]
    BY DocumentBasics, AppendIs
  <1> QED
    BY <1>1, <1>2, <1>3, <1>4 DEF Slot

\* The CMS of an operation in the file it signed.
LEMMA EmbeddedIsSealed ==
    ASSUME NEW doc, Document(doc), NEW op, AsSigned(doc, op), Unsigned(doc)
    PROVE  LET done == embed(doc, Cms(op))
           IN  /\ Document(done) /\ Len(done) = Len(doc)
               /\ SealedAt(done, op, Len(doc)) /\ LaterNone(done, Len(doc))
  <1> DEFINE n == Len(doc)
             done == embed(doc, Cms(op))
  <1>1. n \in Nat /\ n >= 1 /\ n \in 1..n /\ HasSlot(doc[n])
    BY DocumentBasics
  <1>2. /\ Document(done) /\ Len(done) = n
        /\ \A i \in 1..(n - 1) : done[i] = doc[i]
        /\ done[n] = Holding(doc[n], Cms(op))
    BY EmbedIs
  <1>3. /\ done[n].slot.holds = Cms(op) /\ done[n].slot.for = doc[n].slot.for
        /\ Holding(done[n], Cms(op)) = done[n]
        /\ Holding(done[n], Empty) = Holding(doc[n], Empty)
    BY <1>1, <1>2, HoldingIs
  <1> HIDE DEF done
  <1>4. ByteRanges(done, n) = ByteRanges(doc, n)
    BY <1>1, <1>2, <1>3, SameBytes
  <1>5. SealedAt(done, op, n)
    BY <1>1, <1>2, <1>3, <1>4 DEF SealedAt, AsSigned, Unsigned, n
  <1>6. LaterNone(done, n)
    BY <1>1, <1>2 DEF LaterNone
  <1> QED
    BY <1>2, <1>5, <1>6 DEF done

\* What recover takes: a file whose newest slot is in its last revision.
LEMMA RecoverableIs ==
    ASSUME NEW doc, Document(doc), Recoverable(doc)
    PROVE  Unsigned(doc)
  <1>1. Len(doc) \in Nat /\ DOMAIN doc = 1..Len(doc)
    BY DocumentBasics
  <1>2. /\ Slots(doc) \in SUBSET Nat /\ Slots(doc) # {} /\ \A i \in Slots(doc) : i <= Len(doc)
    <2>1. \A i \in Slots(doc) : i \in 1..Len(doc)
      BY <1>1 DEF Slots
    <2> QED
      BY <1>1, <2>1 DEF Recoverable
  <1>3. Max(Slots(doc)) \in Slots(doc)
    BY <1>1, <1>2, MaxIs
  <1> QED
    BY <1>3 DEF Recoverable, Slots, Unsigned

-----------------------------------------------------------------------------
(* Each action keeps the invariant.                                          *)

LEMMA UnchangedGrow ==
    ASSUME UNCHANGED <<ops, tokens>>
    PROVE  LogsGrow
  BY DEF LogsGrow

\* Results kept are still what they were; the rest is to be shown.
LEMMA StepKeeps ==
    ASSUME PadesInv, LogsGrow, TypeOK', LogsInv', FilesInv', CallInv',
           \A r \in Online' : r \in Online \/ Finished(r.pdf, r.op)'
    PROVE  PadesInv'
  <1>1. ASSUME NEW r \in Online'
        PROVE  Finished(r.pdf, r.op)'
    <2>1. CASE r \in Online
      <3>1. Finished(r.pdf, r.op)
        BY <2>1 DEF PadesInv, ResultsInv
      <3> QED
        BY <3>1, LogsGrowKeeps
    <2>2. CASE r \notin Online
      BY <2>2
    <2> QED
      BY <2>1, <2>2
  <1>2. ResultsInv'
    BY <1>1 DEF ResultsInv
  <1> QED
    BY <1>2 DEF PadesInv

\* A call that has ended left nothing to say of it.
LEMMA NoCallInv ==
    ASSUME call' = NoCall
    PROVE  CallInv' /\ call'.step = "idle" /\ call'.op = 0 /\ call'.token = 0
  BY DEF NoCall, CallInv, CallShape

LEMMA PrepareKeepsInv ==
    ASSUME PadesInv, NEW pdf \in files, Prepare(pdf)
    PROVE  PadesInv'
  <1>1. /\ files' = files \cup {prepare(pdf, at + 1)} /\ at' = at + 1 /\ at < MaxPrepared
        /\ UNCHANGED <<call, sealed, ops, tokens, edits>>
    BY DEF Prepare
  <1>2. Document(pdf)
    BY DEF PadesInv, FilesInv
  <1>3. Document(prepare(pdf, at + 1))
    BY <1>2, PreparedIs
  <1>4. FilesInv'
    BY <1>1, <1>3 DEF PadesInv, FilesInv
  <1>5. TypeOK'
    BY <1>1, SealAssumption DEF PadesInv, TypeOK
  <1>6. LogsGrow /\ LogsInv'
    BY <1>1, UnchangedGrow DEF PadesInv, LogsInv
  <1>7. CallInv'
    BY <1>1 DEF PadesInv, CallInv, CallShape, AsSigned, Bare, SealedAt, ToStamp
  <1>8. Online' = Online
    BY <1>1 DEF Online
  <1> QED
    BY <1>4, <1>5, <1>6, <1>7, <1>8, StepKeeps

\* A call that begins, with the file it is to have signed.
LEMMA SignKeepsInv ==
    ASSUME PadesInv, NEW pdf, Document(pdf), Unsigned(pdf), NEW ltv,
           call' = [NoCall EXCEPT !.step = "sign", !.pdf = pdf, !.ltv = ltv],
           at' \in 0..MaxPrepared, UNCHANGED <<files, sealed, ops, tokens, edits>>
    PROVE  PadesInv'
  <1>1. /\ call'.step = "sign" /\ call'.pdf = pdf /\ call'.op = 0 /\ call'.token = 0
        /\ {"step", "pdf", "ltv", "op", "token"} \subseteq DOMAIN call'
    BY DEF NoCall
  <1>2. TypeOK'
    BY <1>1 DEF PadesInv, TypeOK, Steps
  <1>3. LogsGrow /\ LogsInv' /\ FilesInv'
    BY UnchangedGrow DEF PadesInv, LogsInv, FilesInv
  <1>4. CallInv'
    BY <1>1 DEF CallInv, CallShape
  <1>5. Online' = Online
    BY DEF Online
  <1> QED
    BY <1>2, <1>3, <1>4, <1>5, StepKeeps

LEMMA SealKeepsInv ==
    ASSUME PadesInv, NEW pdf \in files, NEW ltv, Seal(pdf, ltv) \/ SealPrepared(pdf, ltv)
    PROVE  PadesInv'
  <1>1. Document(pdf) /\ at \in 0..MaxPrepared
    BY DEF PadesInv, FilesInv, TypeOK
  <1>2. CASE Seal(pdf, ltv)
    <2>1. /\ call' = [NoCall EXCEPT !.step = "sign", !.pdf = prepare(pdf, at + 1), !.ltv = ltv]
          /\ at' = at + 1 /\ at < MaxPrepared
          /\ UNCHANGED <<files, sealed, ops, tokens, edits>>
      BY <1>2 DEF Seal
    <2>2. Document(prepare(pdf, at + 1)) /\ Unsigned(prepare(pdf, at + 1))
      BY <1>1, PreparedIs
    <2>3. at' \in 0..MaxPrepared
      BY <1>1, <2>1, SealAssumption
    <2> QED
      BY <2>1, <2>2, <2>3, SignKeepsInv
  <1>3. CASE SealPrepared(pdf, ltv)
    <2>1. /\ call' = [NoCall EXCEPT !.step = "sign", !.pdf = pdf, !.ltv = ltv]
          /\ Recoverable(pdf)
          /\ UNCHANGED <<files, sealed, ops, tokens, at, edits>>
      BY <1>3 DEF SealPrepared
    <2>2. Unsigned(pdf)
      BY <1>1, <2>1, RecoverableIs
    <2>3. at' \in 0..MaxPrepared
      BY <1>1, <2>1
    <2> QED
      BY <1>1, <2>1, <2>2, <2>3, SignKeepsInv
  <1> QED
    BY <1>2, <1>3

LEMMA ServiceSignsKeepsInv ==
    ASSUME PadesInv, NEW answer, ServiceSigns(answer)
    PROVE  PadesInv'
  <1> DEFINE entry == [digest |-> ByteRanges(call.pdf, Len(call.pdf)), size |-> answer.size,
                       stamped |-> answer.stamped, material |-> answer.material]
             n == Len(ops)
  <1>1. /\ call.step = "sign" /\ ops' = Append(ops, entry)
        /\ call' = [call EXCEPT !.step = "signed", !.op = Len(ops')]
        /\ UNCHANGED <<files, sealed, tokens, at, edits>>
    BY DEF ServiceSigns
  <1>2. IsSequence(ops) /\ n \in Nat /\ DOMAIN ops = 1..n
    BY SequenceBasics DEF PadesInv, LogsInv
  <1>3. /\ IsSequence(ops') /\ Len(ops') = n + 1 /\ DOMAIN ops' = 1..(n + 1)
        /\ \A i \in 1..n : ops'[i] = ops[i]
        /\ ops'[n + 1] = entry
    BY <1>1, <1>2, AppendIs, SequenceBasics
  <1>4. /\ call'.step = "signed" /\ call'.op = n + 1 /\ call'.pdf = call.pdf /\ call'.token = call.token
        /\ CallShape'
    BY <1>1, <1>3 DEF PadesInv, CallInv, CallShape
  <1>5. LogsGrow /\ LogsInv'
    BY <1>1, <1>2, <1>3 DEF LogsGrow, PadesInv, LogsInv
  <1>6. TypeOK'
    <2>1. \A r \in sealed : r.op \in DOMAIN ops'
      BY <1>2, <1>3 DEF PadesInv, TypeOK
    <2>2. Document(call'.pdf)
      BY <1>1, <1>4 DEF PadesInv, TypeOK
    <2>3. call'.op \in 0..Len(ops') /\ call'.op > 0
      BY <1>2, <1>3, <1>4
    <2> QED
      BY <1>1, <1>4, <2>1, <2>2, <2>3 DEF PadesInv, TypeOK, Steps
  <1>7. FilesInv'
    BY <1>1 DEF PadesInv, FilesInv
  <1>8. CallInv'
    <2>1. PICK doc, m : doc = call.pdf /\ m = n + 1
      OBVIOUS
    <2>2. Unsigned(doc)
      BY <1>1, <2>1 DEF PadesInv, CallInv
    <2>3. AsSigned(doc, m)'
      <3>1. entry.digest = ByteRanges(doc, Len(doc))
        BY <2>1
      <3>2. m \in DOMAIN ops' /\ ops'[m] = entry
        BY <1>2, <1>3, <2>1
      <3> HIDE DEF entry
      <3> QED
        BY <3>1, <3>2 DEF AsSigned
    <2>4. call'.pdf = doc /\ call'.op = m
      BY <1>4, <2>1
    <2> QED
      BY <1>4, <2>2, <2>3, <2>4 DEF CallInv
  <1>9. Online' = Online
    BY <1>1 DEF Online
  <1> QED
    BY <1>5, <1>6, <1>7, <1>8, <1>9, StepKeeps

\* A call that returns a file with its CMS in it.
LEMMA ReturnKeepsInv ==
    ASSUME PadesInv, NEW pdf, NEW format, Returns(pdf, format), call.op \in DOMAIN ops,
           Document(pdf), Finished(pdf, call.op), UNCHANGED <<ops, tokens, at, edits>>
    PROVE  PadesInv'
  <1> DEFINE result == Result(pdf, call.op, format)
  <1>1. /\ sealed' = sealed \cup {result} /\ files' = files \cup {pdf} /\ call' = NoCall
        /\ result.pdf = pdf /\ result.op = call.op
    BY DEF Returns, Result
  <1> HIDE DEF result
  <1>2. CallInv' /\ call'.step = "idle" /\ call'.op = 0 /\ call'.token = 0
    BY <1>1, NoCallInv
  <1>3. LogsGrow /\ LogsInv'
    BY UnchangedGrow DEF PadesInv, LogsInv
  <1>4. FilesInv'
    BY <1>1 DEF PadesInv, FilesInv
  <1>5. TypeOK'
    <2>1. Len(ops') \in Nat /\ Len(tokens') \in Nat
      BY <1>3, SequenceBasics DEF LogsInv
    <2>2. \A r \in sealed' : r.pdf \in files' /\ r.op \in DOMAIN ops'
      BY <1>1 DEF PadesInv, TypeOK
    <2> QED
      BY <1>2, <2>1, <2>2 DEF PadesInv, TypeOK, Steps
  <1>6. \A r \in Online' : r \in Online \/ Finished(r.pdf, r.op)'
    <2>1. PICK op : op = call.op
      OBVIOUS
    <2>2. Finished(pdf, op)'
      BY <1>3, <2>1, LogsGrowKeeps
    <2>3. \A r \in Online' : r \in Online \/ (r.pdf = pdf /\ r.op = op)
      BY <1>1, <2>1 DEF Online
    <2> QED
      BY <2>2, <2>3
  <1> QED
    BY <1>2, <1>3, <1>4, <1>5, <1>6, StepKeeps

\* A call that has the seal goes on to the archival timestamp.
\* A revision without a slot leaves the seal where it is.
LEMMA SealedUnder ==
    ASSUME NEW doc, Document(doc), NEW op, NEW k, SealedAt(doc, op, k), LaterNone(doc, k),
           NEW rev, HasSlot(rev), rev.slot.for = "none"
    PROVE  LET more == Append(doc, rev)
           IN  /\ Document(more) /\ Len(more) = Len(doc) + 1
               /\ \A i \in 1..Len(doc) : more[i] = doc[i]
               /\ SealedAt(more, op, k) /\ LaterNone(more, k)
  <1>1. PICK more : more = Append(doc, rev)
    OBVIOUS
  <1>2. PICK n : n = Len(doc)
    OBVIOUS
  <1>3. IsSequence(doc) /\ n \in Nat /\ k \in 1..n
    BY <1>2, DocumentBasics DEF SealedAt
  <1>4. /\ Document(more) /\ Len(more) = n + 1
        /\ \A i \in 1..n : more[i] = doc[i]
        /\ more[n + 1] = rev
    BY <1>1, <1>2, <1>3, DocumentGrows, AppendIs
  <1>5. SealedAt(more, op, k)
    <2>1. \A i \in 1..k : more[i] = doc[i]
      BY <1>3, <1>4
    <2>2. Len(doc) <= Len(more)
      BY <1>2, <1>3, <1>4
    <2> QED
      BY <1>4, <2>1, <2>2, SealedAtStays
  <1>6. LaterNone(more, k)
    <2>1. ASSUME NEW i \in (k + 1)..(n + 1)
          PROVE  more[i].slot.for = "none"
      <3>1. CASE i = n + 1
        BY <1>4, <3>1
      <3>2. CASE i # n + 1
        <4>1. i \in (k + 1)..n /\ i \in 1..n
          BY <1>3, <3>2
        <4> QED
          BY <1>2, <1>4, <4>1 DEF LaterNone
      <3> QED
        BY <3>1, <3>2
    <2> QED
      BY <1>4, <2>1 DEF LaterNone
  <1> QED
    BY <1>1, <1>2, <1>4, <1>5, <1>6

LEMMA EmbedCmsKeepsInv ==
    ASSUME PadesInv, EmbedCms
    PROVE  PadesInv'
  <1>1. PICK doc, op : doc = call.pdf /\ op = call.op
    OBVIOUS
  <1> DEFINE signed == embed(doc, Cms(op))
             n == Len(doc)
  <1>2. /\ call.step = "signed" /\ Document(doc) /\ AsSigned(doc, op) /\ Unsigned(doc)
        /\ UNCHANGED <<ops, tokens, at, edits>>
    BY <1>1 DEF EmbedCms, PadesInv, TypeOK, CallInv
  <1>3. /\ Document(signed) /\ Len(signed) = n /\ n \in Nat /\ n \in 1..n
        /\ SealedAt(signed, op, n) /\ LaterNone(signed, n)
    <2>1. n \in Nat /\ n >= 1
      BY <1>2, DocumentBasics
    <2> QED
      BY <1>2, <2>1, EmbeddedIsSealed
  <1>4. op \in DOMAIN ops
    BY <1>2 DEF AsSigned
  <1>5. \/ \E format : Returns(signed, format)
        \/ /\ call' = [call EXCEPT !.step = "stamp", !.pdf = append_dss(signed, op)]
           /\ UNCHANGED <<files, sealed>>
    BY <1>1, Zenon DEF EmbedCms
  <1>6. CASE \E format : Returns(signed, format)
    <2>1. Finished(signed, op)
      BY <1>3 DEF Finished, LaterNone, LaterValid
    <2> HIDE DEF signed
    <2> QED
      BY <1>1, <1>2, <1>3, <1>4, <1>6, <2>1, ReturnKeepsInv
  <1>7. CASE /\ call' = [call EXCEPT !.step = "stamp", !.pdf = append_dss(signed, op)]
             /\ UNCHANGED <<files, sealed>>
    <2>1. PICK rev : append_dss(signed, op) = Append(signed, rev) /\ HasSlot(rev) /\ rev.slot = NoSlot
      BY RevisionsHaveSlots
    <2>2. PICK more : more = Append(signed, rev)
      OBVIOUS
    <2> HIDE DEF signed
    <2>3. rev.slot.for = "none"
      BY <2>1 DEF NoSlot
    <2>4. Document(more) /\ SealedAt(more, op, n) /\ LaterNone(more, n)
      BY <1>3, <2>1, <2>2, <2>3, SealedUnder
    <2>5. n \in 1..Len(more)
      BY <2>4 DEF SealedAt
    <2>6. Bare(more, op)
      BY <2>4, <2>5 DEF Bare
    <2>7. LogsGrow /\ LogsInv' /\ FilesInv'
      BY <1>2, <1>7, UnchangedGrow DEF PadesInv, LogsInv, FilesInv
    <2>8. /\ call'.step = "stamp" /\ call'.pdf = more /\ call'.op = op /\ call'.token = call.token
          /\ CallShape'
      BY <1>1, <1>7, <2>1, <2>2 DEF PadesInv, CallInv, CallShape
    <2>9. TypeOK'
      BY <1>1, <1>2, <1>7, <2>4, <2>8 DEF PadesInv, TypeOK, Steps
    <2>10. CallInv'
      <3>1. Bare(more, op)'
        BY <2>6, <2>7, LogsGrowKeeps
      <3> QED
        BY <2>8, <3>1 DEF CallInv
    <2>11. Online' = Online
      BY <1>7 DEF Online
    <2> QED
      BY <2>7, <2>9, <2>10, <2>11, StepKeeps
  <1> QED
    BY <1>5, <1>6, <1>7

\* What a call that waits for its timestamp has.
LEMMA StampingIs ==
    ASSUME PadesInv, call.step \in {"stamp", "stamped"}
    PROVE  Document(call.pdf) /\ Bare(call.pdf, call.op) /\ call.op \in DOMAIN ops
  <1>1. Document(call.pdf) /\ Bare(call.pdf, call.op)
    BY DEF PadesInv, TypeOK, CallInv
  <1> QED
    BY <1>1 DEF Bare, SealedAt

LEMMA ServiceStampsKeepsInv ==
    ASSUME PadesInv, ServiceStamps
    PROVE  PadesInv'
  <1>1. PICK doc, op : doc = call.pdf /\ op = call.op
    OBVIOUS
  <1> DEFINE ts == prepare_doc_timestamp(doc)
             n == Len(tokens)
  <1>2. /\ call.step = "stamp" /\ tokens' = Append(tokens, ByteRanges(ts, Len(ts)))
        /\ call' = [call EXCEPT !.step = "stamped", !.token = Len(tokens')]
        /\ UNCHANGED <<files, sealed, ops, at, edits>>
    BY <1>1 DEF ServiceStamps
  <1>3. Document(doc) /\ Bare(doc, op)
    BY <1>1, <1>2, StampingIs
  <1>4. Len(ts) = Len(doc) + 1
    BY <1>3, TimestampIs
  <1> HIDE DEF ts
  <1>5. IsSequence(tokens) /\ n \in Nat /\ DOMAIN tokens = 1..n
    BY SequenceBasics DEF PadesInv, LogsInv
  <1>6. /\ IsSequence(tokens') /\ Len(tokens') = n + 1 /\ DOMAIN tokens' = 1..(n + 1)
        /\ \A i \in 1..n : tokens'[i] = tokens[i]
        /\ tokens'[n + 1] = ByteRanges(ts, Len(ts))
    BY <1>2, <1>5, AppendIs, SequenceBasics
  <1>7. /\ call'.step = "stamped" /\ call'.op = op /\ call'.pdf = doc /\ call'.token = n + 1
        /\ CallShape'
    BY <1>1, <1>2, <1>6 DEF PadesInv, CallInv, CallShape
  <1>8. LogsGrow /\ LogsInv' /\ FilesInv'
    BY <1>2, <1>5, <1>6 DEF LogsGrow, PadesInv, LogsInv, FilesInv
  <1>9. TypeOK'
    <2>1. call'.token \in 0..Len(tokens')
      BY <1>5, <1>6, <1>7
    <2> QED
      BY <1>1, <1>2, <1>3, <1>7, <2>1 DEF PadesInv, TypeOK, Steps
  <1>10. CallInv'
    <2>1. PICK m : m = n + 1
      OBVIOUS
    <2>2. Bare(doc, op)'
      BY <1>3, <1>8, LogsGrowKeeps
    <2>3. ToStamp(doc, m)'
      BY <1>4, <1>5, <1>6, <2>1 DEF ToStamp, ts
    <2>4. call'.token = m
      BY <1>7, <2>1
    <2> QED
      BY <1>7, <2>2, <2>3, <2>4 DEF CallInv
  <1>11. Online' = Online
    BY <1>2 DEF Online
  <1> QED
    BY <1>8, <1>9, <1>10, <1>11, StepKeeps

\* And so does the archival timestamp, with its token.
LEMMA StampedOver ==
    ASSUME NEW doc, Document(doc), NEW n, ToStamp(doc, n), NEW op, NEW k, SealedAt(doc, op, k), LaterNone(doc, k)
    PROVE  LET done == embed(prepare_doc_timestamp(doc), Token(n))
           IN  /\ Document(done) /\ Len(done) = Len(doc) + 1
               /\ \A i \in 1..Len(doc) : done[i] = doc[i]
               /\ Stamped(done, Len(done)) /\ SealedAt(done, op, k) /\ LaterValid(done, k)
  <1> DEFINE ts == prepare_doc_timestamp(doc)
             done == embed(ts, Token(n))
             last == Len(doc) + 1
  <1>1. Len(doc) \in Nat /\ k \in 1..Len(doc)
    BY DocumentBasics DEF SealedAt
  <1>2. /\ Document(ts) /\ Len(ts) = last
        /\ \A i \in 1..Len(doc) : ts[i] = doc[i]
        /\ ts[last].slot.for = "archive"
    BY TimestampIs
  <1>3. n \in DOMAIN tokens /\ tokens[n] = ByteRanges(ts, last)
    BY DEF ToStamp
  <1> HIDE DEF ts
  <1>4. /\ Document(done) /\ Len(done) = last
        /\ \A i \in 1..Len(doc) : done[i] = ts[i]
        /\ done[last] = Holding(ts[last], Token(n))
    <2>1. last - 1 = Len(doc)
      BY <1>1
    <2> QED
      BY <1>2, <2>1, EmbedIs
  <1> HIDE DEF done
  <1>5. \A i \in 1..Len(doc) : done[i] = doc[i]
    BY <1>2, <1>4
  <1>6. SealedAt(done, op, k)
    <2>1. \A i \in 1..k : done[i] = doc[i]
      BY <1>1, <1>5
    <2>2. Len(doc) <= Len(done)
      BY <1>1, <1>4
    <2> QED
      BY <1>4, <2>1, <2>2, SealedAtStays
  <1>7. Stamped(done, last)
    <2>1. last \in 1..Len(ts) /\ last \in 1..Len(done) /\ HasSlot(ts[last]) /\ last - 1 = Len(doc)
      BY <1>1, <1>2, <1>4, DocumentBasics
    <2>2. /\ done[last].slot.for = "archive" /\ done[last].slot.holds = Token(n)
          /\ Holding(done[last], Empty) = Holding(ts[last], Empty)
      BY <1>2, <1>4, <2>1, HoldingIs
    <2>3. ByteRanges(done, last) = ByteRanges(ts, last)
      BY <1>2, <1>4, <2>1, <2>2, SameBytes
    <2> QED
      BY <1>3, <2>2, <2>3 DEF Stamped
  <1>8. LaterValid(done, k)
    <2>1. ASSUME NEW i \in (k + 1)..Len(done)
          PROVE  done[i].slot.for = "none" \/ Stamped(done, i)
      <3>1. CASE i = last
        BY <1>7, <3>1
      <3>2. CASE i # last
        <4>1. i \in (k + 1)..Len(doc) /\ i \in 1..Len(doc)
          BY <1>1, <1>4, <3>2
        <4>2. doc[i].slot.for = "none"
          BY <4>1 DEF LaterNone
        <4> QED
          BY <1>5, <4>1, <4>2
      <3> QED
        BY <3>1, <3>2
    <2> QED
      BY <2>1 DEF LaterValid
  <1> QED
    BY <1>4, <1>5, <1>6, <1>7, <1>8 DEF done, ts

LEMMA StampArrivesKeepsInv ==
    ASSUME PadesInv, NEW size, StampArrives(size)
    PROVE  PadesInv'
  <1>1. PICK doc, op, n : doc = call.pdf /\ op = call.op /\ n = call.token
    OBVIOUS
  <1>2. PICK done : done = embed(prepare_doc_timestamp(doc), Token(n))
    OBVIOUS
  <1>3. /\ call.step = "stamped" /\ \E format : Returns(done, format)
        /\ UNCHANGED <<ops, tokens, at, edits>>
    BY <1>1, <1>2, Zenon DEF StampArrives
  <1>4. Document(doc) /\ Bare(doc, op) /\ op \in DOMAIN ops
    BY <1>1, <1>3, StampingIs
  <1>5. ToStamp(doc, n)
    BY <1>1, <1>3 DEF PadesInv, CallInv
  <1>6. PICK k \in 1..Len(doc) : SealedAt(doc, op, k) /\ LaterNone(doc, k)
    BY <1>4 DEF Bare
  <1>7. Document(done) /\ SealedAt(done, op, k) /\ LaterValid(done, k)
    BY <1>2, <1>4, <1>5, <1>6, StampedOver
  <1>8. Finished(done, op)
    BY <1>7 DEF Finished, SealedAt
  <1> QED
    BY <1>1, <1>3, <1>4, <1>7, <1>8, ReturnKeepsInv

LEMMA StampFailsKeepsInv ==
    ASSUME PadesInv, StampFails
    PROVE  PadesInv'
  <1>1. /\ call.step \in {"stamp", "stamped"} /\ \E format : Returns(call.pdf, format)
        /\ UNCHANGED <<ops, tokens, at, edits>>
    BY DEF StampFails
  <1>2. Document(call.pdf) /\ Bare(call.pdf, call.op) /\ call.op \in DOMAIN ops
    BY <1>1, StampingIs
  <1>3. Finished(call.pdf, call.op)
    BY <1>2 DEF Bare, Finished, LaterNone, LaterValid
  <1> QED
    BY <1>1, <1>2, <1>3, ReturnKeepsInv

LEMMA CallLostKeepsInv ==
    ASSUME PadesInv, CallLost
    PROVE  PadesInv'
  <1>1. call' = NoCall /\ UNCHANGED <<files, sealed, ops, tokens, at, edits>>
    BY DEF CallLost
  <1>2. CallInv' /\ call'.step = "idle" /\ call'.op = 0 /\ call'.token = 0
    BY <1>1, NoCallInv
  <1>3. LogsGrow /\ LogsInv' /\ FilesInv'
    BY <1>1, UnchangedGrow DEF PadesInv, LogsInv, FilesInv
  <1>4. TypeOK'
    <2>1. Len(ops') \in Nat /\ Len(tokens') \in Nat
      BY <1>3, SequenceBasics DEF LogsInv
    <2> QED
      BY <1>1, <1>2, <2>1 DEF PadesInv, TypeOK, Steps
  <1>5. Online' = Online
    BY <1>1 DEF Online
  <1> QED
    BY <1>2, <1>3, <1>4, <1>5, StepKeeps

\* Files that appear while no call is in progress.
LEMMA FileKeepsInv ==
    ASSUME PadesInv, NEW doc, Document(doc), files' = files \cup {doc},
           edits' \in 0..MaxEdits, UNCHANGED <<call, ops, tokens, at>>,
           Online' \subseteq Online, \A r \in sealed' : r \in sealed \/ (r.pdf = doc /\ r.op \in DOMAIN ops)
    PROVE  PadesInv'
  <1>1. LogsGrow /\ LogsInv'
    BY UnchangedGrow DEF PadesInv, LogsInv
  <1>2. FilesInv'
    BY DEF PadesInv, FilesInv
  <1>3. TypeOK'
    BY DEF PadesInv, TypeOK
  <1>4. CallInv'
    BY DEF PadesInv, CallInv, CallShape, AsSigned, Bare, SealedAt, ToStamp
  <1> QED
    BY <1>1, <1>2, <1>3, <1>4, StepKeeps

LEMMA CompleteKeepsInv ==
    ASSUME PadesInv, NEW pdf \in files, NEW op \in DOMAIN ops, Complete(pdf, op)
    PROVE  PadesInv'
  <1> DEFINE done == embed(pdf, Cms(op))
             result == Result(done, op, "completed")
  <1>1. /\ sealed' = sealed \cup {result} /\ files' = files \cup {done}
        /\ UNCHANGED <<call, ops, tokens, at, edits>>
    BY Zenon DEF Complete
  <1>2. result.pdf = done /\ result.op = op /\ result.format = "completed"
    BY DEF Result
  <1>3. Document(done)
    BY EmbedIs DEF PadesInv, FilesInv
  <1> HIDE DEF done, result
  <1>4. Online' \subseteq Online
    BY <1>1, <1>2 DEF Online
  <1>5. \A r \in sealed' : r \in sealed \/ (r.pdf = done /\ r.op \in DOMAIN ops)
    BY <1>1, <1>2
  <1>6. edits' \in 0..MaxEdits
    BY <1>1 DEF PadesInv, TypeOK
  <1> QED
    BY <1>1, <1>3, <1>4, <1>5, <1>6, FileKeepsInv

LEMMA EditKeepsInv ==
    ASSUME PadesInv, NEW pdf \in files, NEW packing, Edit(pdf, packing)
    PROVE  PadesInv'
  <1>1. PICK objects : files' = files \cup {Append(pdf, EditRevision(pdf, objects, packing))}
    BY DEF Edit
  <1>2. /\ edits < MaxEdits /\ edits' = edits + 1
        /\ UNCHANGED <<call, sealed, ops, tokens, at>>
    BY DEF Edit
  <1>3. Document(pdf)
    BY DEF PadesInv, FilesInv
  <1>4. HasSlot(EditRevision(pdf, objects, packing))
    <2>1. HasSlot(Last(pdf))
      BY <1>3, DocumentBasics
    <2> QED
      BY <2>1 DEF EditRevision, HasSlot, NoSlot
  <1>5. Document(Append(pdf, EditRevision(pdf, objects, packing)))
    BY <1>3, <1>4, DocumentGrows
  <1>6. edits' \in 0..MaxEdits
    BY <1>2, SealAssumption DEF PadesInv, TypeOK
  <1>7. Online' \subseteq Online /\ sealed' = sealed
    BY <1>2 DEF Online
  <1> QED
    BY <1>1, <1>2, <1>5, <1>6, <1>7, FileKeepsInv

LEMMA PadesInit == Init => PadesInv
  <1> SUFFICES ASSUME Init
               PROVE  PadesInv
    OBVIOUS
  <1>1. PICK pdf \in Sources : files = {pdf}
    BY DEF Init
  <1>2. FilesInv
    BY <1>1, SealAssumption DEF FilesInv, WellFormed
  <1>3. call = NoCall /\ sealed = {} /\ ops = <<>> /\ tokens = <<>> /\ at = 0 /\ edits = 0
    BY DEF Init
  <1>4. LogsInv /\ Len(ops) = 0 /\ Len(tokens) = 0
    BY <1>3 DEF LogsInv, IsSequence
  <1>5. CallInv /\ call.step = "idle" /\ call.op = 0 /\ call.token = 0
    BY <1>3 DEF NoCall, CallInv, CallShape
  <1>6. TypeOK
    BY <1>3, <1>4, <1>5, SealAssumption DEF TypeOK, Steps
  <1>7. ResultsInv
    BY <1>3 DEF ResultsInv, Online
  <1> QED
    BY <1>2, <1>4, <1>5, <1>6, <1>7 DEF PadesInv

LEMMA PadesNext == PadesInv /\ [Next]_vars => PadesInv'
  <1> SUFFICES ASSUME PadesInv, [Next]_vars
               PROVE  PadesInv'
    OBVIOUS
  <1>1. CASE \E pdf \in files : Prepare(pdf)
    BY <1>1, PrepareKeepsInv
  <1>2. CASE \E pdf \in files, ltv \in BOOLEAN : Seal(pdf, ltv) \/ SealPrepared(pdf, ltv)
    BY <1>2, SealKeepsInv
  <1>3. CASE \E answer \in Answers : ServiceSigns(answer)
    BY <1>3, ServiceSignsKeepsInv
  <1>4. CASE EmbedCms
    BY <1>4, EmbedCmsKeepsInv
  <1>5. CASE ServiceStamps
    BY <1>5, ServiceStampsKeepsInv
  <1>6. CASE \E size \in 1..2 : StampArrives(size)
    BY <1>6, StampArrivesKeepsInv
  <1>7. CASE StampFails
    BY <1>7, StampFailsKeepsInv
  <1>8. CASE CallLost
    BY <1>8, CallLostKeepsInv
  <1>9. CASE \E pdf \in files, op \in DOMAIN ops : Complete(pdf, op)
    BY <1>9, CompleteKeepsInv
  <1>10. CASE \E pdf \in files, packing \in BOOLEAN : Edit(pdf, packing)
    BY <1>10, EditKeepsInv
  <1>11. CASE UNCHANGED vars
    <2>1. UNCHANGED <<files, call, sealed, ops, tokens, at, edits>>
      BY <1>11 DEF vars
    <2>2. LogsGrow /\ LogsInv' /\ FilesInv' /\ TypeOK'
      BY <2>1, UnchangedGrow DEF PadesInv, LogsInv, FilesInv, TypeOK
    <2>3. CallInv'
      BY <2>1 DEF PadesInv, CallInv, CallShape, AsSigned, Bare, SealedAt, ToStamp
    <2>4. Online' = Online
      BY <2>1 DEF Online
    <2> QED
      BY <2>2, <2>3, <2>4, StepKeeps
  <1> QED
    BY <1>1, <1>2, <1>3, <1>4, <1>5, <1>6, <1>7, <1>8, <1>9, <1>10, <1>11 DEF Next

\* The inductive invariant of the sealing calls: every file is a document,
\* what the service signed is what its slot covers, and each result has the
\* operation's CMS in its slot and nothing unfilled behind it.
THEOREM SealingInvariant == Spec => []PadesInv
  <1>1. Init => PadesInv
    BY PadesInit
  <1>2. PadesInv /\ [Next]_vars => PadesInv'
    BY PadesNext
  <1> QED
    BY <1>1, <1>2, PTL DEF Spec

\* TypeOK, for every set of PDFs and whatever the service answers.
THEOREM CallsTyped == Spec => []TypeOK
  <1>1. PadesInv => TypeOK
    BY DEF PadesInv
  <1> QED
    BY <1>1, SealingInvariant, PTL

-----------------------------------------------------------------------------
(* What escrow restores.                                                     *)

\* A slot with the CMS of the operation that signed the bytes before it: valid
\* if the slot is a seal's.
LEMMA CmsSlotValid ==
    ASSUME NEW doc, NEW i, NEW o, doc[i].slot.for \in {"seal", "archive"},
           doc[i].slot.holds = Cms(o), ops[o].digest = ByteRanges(doc, i)
    PROVE  SlotValid(doc, i) <=> doc[i].slot.for = "seal"
  <1>1. Cms(o).what = "cms" /\ Cms(o).n = o
    BY DEF Cms
  <1>2. CASE doc[i].slot.for = "seal"
    <2>1. SlotValid(doc, i) <=> /\ doc[i].slot.holds.what = "cms"
                                /\ ops[doc[i].slot.holds.n].digest = ByteRanges(doc, i)
      BY <1>2 DEF SlotValid
    <2> QED
      BY <1>1, <1>2, <2>1
  <1>3. CASE doc[i].slot.for = "archive"
    <2>1. SlotValid(doc, i) => doc[i].slot.holds.what = "token"
      BY <1>3 DEF SlotValid
    <2> QED
      BY <1>1, <1>3, <2>1
  <1> QED
    BY <1>2, <1>3

\* A file of which the service signed the bytes: with the CMS in its slot it
\* is valid if the slot is a seal's, and it begins every result of the call.
LEMMA EscrowCompletes ==
    ASSUME PadesInv, NEW o \in DOMAIN ops, NEW pdf \in files, Recoverable(pdf),
           ops[o].digest = ByteRanges(pdf, Len(pdf))
    PROVE  LET done == embed(pdf, Cms(o))
           IN  /\ SlotValid(done, Len(done)) <=> Last(pdf).slot.for = "seal"
               /\ \A r \in Online : r.op = o => IsPrefix(done, r.pdf)
  <1> DEFINE n == Len(pdf)
             done == embed(pdf, Cms(o))
  <1>1. Document(pdf) /\ Unsigned(pdf) /\ AsSigned(pdf, o)
    BY RecoverableIs DEF PadesInv, FilesInv, AsSigned
  <1>2. n \in Nat /\ n \in 1..n /\ HasSlot(pdf[n]) /\ Last(pdf) = pdf[n]
    <2>1. n \in Nat /\ n >= 1
      BY <1>1, DocumentBasics
    <2> QED
      BY <1>1, <2>1, DocumentBasics
  <1>3. /\ Document(done) /\ Len(done) = n /\ SealedAt(done, o, n)
    BY <1>1, EmbeddedIsSealed
  <1>4. /\ \A i \in 1..(n - 1) : done[i] = pdf[i]
        /\ done[n] = Holding(pdf[n], Cms(o)) /\ done[n].slot.for = pdf[n].slot.for
    <2>1. /\ \A i \in 1..(n - 1) : done[i] = pdf[i]
          /\ done[n] = Holding(pdf[n], Cms(o))
      BY <1>1, EmbedIs
    <2>2. Holding(pdf[n], Cms(o)).slot.for = pdf[n].slot.for
      BY <1>2, HoldingIs
    <2> QED
      BY <2>1, <2>2
  <1> HIDE DEF done
  <1>5. SlotValid(done, n) <=> pdf[n].slot.for = "seal"
    <2>1. pdf[n].slot.for \in {"seal", "archive"}
      BY <1>1, <1>2 DEF Unsigned, HasSlot
    <2>2. done[n].slot.holds = Cms(o) /\ ops[o].digest = ByteRanges(done, n)
      BY <1>3 DEF SealedAt
    <2>3. done[n].slot.for = pdf[n].slot.for
      BY <1>4
    <2>4. SlotValid(done, n) <=> done[n].slot.for = "seal"
      BY <2>1, <2>2, <2>3, CmsSlotValid
    <2> QED
      BY <2>3, <2>4
  <1>6. ASSUME NEW r \in Online, r.op = o
        PROVE  IsPrefix(done, r.pdf)
    <2>1. Document(r.pdf) /\ Finished(r.pdf, o)
      BY <1>6 DEF PadesInv, ResultsInv, FilesInv, TypeOK, Online
    <2>2. PICK k \in 1..Len(r.pdf) : SealedAt(r.pdf, o, k)
      BY <2>1 DEF Finished
    <2>3. /\ IsSequence(ByteRanges(r.pdf, k)) /\ Len(ByteRanges(r.pdf, k)) = k
          /\ \A i \in 1..(k - 1) : ByteRanges(r.pdf, k)[i] = r.pdf[i]
          /\ ByteRanges(r.pdf, k)[k] = Holding(r.pdf[k], Empty)
      BY <2>1, ByteRangesAre
    <2>4. /\ Len(ByteRanges(pdf, n)) = n
          /\ \A i \in 1..(n - 1) : ByteRanges(pdf, n)[i] = pdf[i]
          /\ ByteRanges(pdf, n)[n] = Holding(pdf[n], Empty)
      BY <1>1, <1>2, ByteRangesAre
    <2>5. ByteRanges(r.pdf, k) = ByteRanges(pdf, n)
      BY <2>2 DEF SealedAt
    <2>6. k = n /\ \A i \in 1..(n - 1) : r.pdf[i] = pdf[i]
      BY <2>3, <2>4, <2>5
    <2>7. Holding(r.pdf[n], Empty) = Holding(pdf[n], Empty)
      BY <2>3, <2>4, <2>5, <2>6
    <2>8. r.pdf[n] = Holding(r.pdf[n], Cms(o)) /\ HasSlot(r.pdf[n])
      BY <2>1, <2>2, <2>6, DocumentBasics DEF SealedAt
    <2>9. r.pdf[n] = done[n]
      <3>1. /\ Holding(Holding(r.pdf[n], Empty), Cms(o)) = Holding(r.pdf[n], Cms(o))
            /\ Holding(Holding(pdf[n], Empty), Cms(o)) = Holding(pdf[n], Cms(o))
        BY <1>2, <2>8, HoldingIs
      <3> QED
        BY <1>4, <2>7, <2>8, <3>1
    <2>10. \A i \in 1..n : done[i] = r.pdf[i]
      <3>1. \A i \in 1..n : i = n \/ i \in 1..(n - 1)
        BY <1>2
      <3> QED
        BY <1>4, <2>6, <2>9, <3>1
    <2>11. IsSequence(done) /\ IsSequence(r.pdf) /\ Len(done) = n /\ n <= Len(r.pdf)
      BY <1>2, <1>3, <2>1, <2>6, DocumentBasics
    <2> QED
      BY <2>10, <2>11, PrefixIs
  <1>7. SlotValid(done, Len(done)) <=> Last(pdf).slot.for = "seal"
    BY <1>2, <1>3, <1>5
  <1> QED
    BY <1>6, <1>7 DEF done

\* EscrowRestores, for every set of PDFs, however calls were cut and however
\* often a checkpoint was signed.
THEOREM EscrowAlwaysRestores == Spec => []EscrowRestores
  <1>1. ASSUME PadesInv
        PROVE  EscrowRestores
    BY <1>1, EscrowCompletes, Zenon DEF EscrowRestores
  <1> QED
    BY <1>1, SealingInvariant, PTL

-----------------------------------------------------------------------------
(* Which signatures of a result verify.                                      *)

\* A signature says the same of every file that begins with what it covers.
LEMMA SlotValidAgrees ==
    ASSUME NEW doc, NEW other, Document(doc), Document(other), NEW j,
           j \in 1..Len(doc), j \in 1..Len(other), \A i \in 1..j : doc[i] = other[i]
    PROVE  SlotValid(doc, j) = SlotValid(other, j)
  <1>1. j \in Nat /\ j \in 1..j
    BY DocumentBasics
  <1>2. doc[j] = other[j] /\ \A i \in 1..(j - 1) : doc[i] = other[i]
    BY <1>1
  <1>3. Holding(doc[j], Empty) = Holding(other[j], Empty)
    BY <1>2
  <1>4. ByteRanges(doc, j) = ByteRanges(other, j)
    BY <1>2, <1>3, SameBytes
  <1> QED
    BY <1>2, <1>4, Zenon DEF SlotValid

\* The seal of a result is the last slot that holds its CMS.
LEMMA SealAtIs ==
    ASSUME NEW r, Document(r.pdf), NEW k \in 1..Len(r.pdf), SealedAt(r.pdf, r.op, k), LaterValid(r.pdf, k)
    PROVE  SealAt(r) = k
  <1> DEFINE doc == r.pdf
             n == Len(doc)
             T == {i \in Slots(doc) : doc[i].slot.holds = Cms(r.op)}
  <1>1. n \in Nat /\ DOMAIN doc = 1..n
    BY DocumentBasics
  <1>2. k \in T
    BY <1>1 DEF SealedAt, Slots
  <1>3. ASSUME NEW i \in T
        PROVE  i <= k
    <2> SUFFICES ASSUME i > k
                 PROVE  FALSE
      BY <1>1 DEF Slots
    <2>1. i \in (k + 1)..n /\ doc[i].slot.for # "none" /\ doc[i].slot.holds = Cms(r.op)
      BY <1>1 DEF Slots
    <2>2. Stamped(doc, i)
      BY <2>1 DEF LaterValid
    <2> QED
      BY <2>1, <2>2 DEF Stamped, Cms, Token
  <1>4. T \in SUBSET Nat /\ k \in Nat
    BY <1>1 DEF Slots
  <1> HIDE DEF T
  <1>5. Max(T) \in T /\ \A i \in T : i <= Max(T)
    BY <1>2, <1>3, <1>4, MaxIs
  <1>6. Max(T) = k
    <2>1. Max(T) <= k /\ k <= Max(T)
      BY <1>2, <1>3, <1>5
    <2>2. Max(T) \in Nat
      BY <1>4, <1>5
    <2> QED
      BY <1>4, <2>1, <2>2
  <1> QED
    BY <1>6 DEF SealAt, T

LEMMA ResultVerifies ==
    ASSUME PadesInv, NEW r \in Online
    PROVE  LET i == SealAt(r)
           IN  AllValid(r.pdf) <=> /\ r.pdf[i].slot.for = "seal"
                                   /\ AllValid(SubSeq(r.pdf, 1, i - 1))
  <1> DEFINE doc == r.pdf
             n == Len(doc)
  <1>1. Document(doc) /\ Finished(doc, r.op)
    BY DEF PadesInv, ResultsInv, FilesInv, TypeOK, Online
  <1>2. PICK k \in 1..n : SealedAt(doc, r.op, k) /\ LaterValid(doc, k)
    BY <1>1 DEF Finished
  <1>3. IsSequence(doc) /\ n \in Nat /\ DOMAIN doc = 1..n /\ \A i \in 1..n : HasSlot(doc[i])
    BY <1>1, DocumentBasics
  <1>4. SealAt(r) = k
    BY <1>1, <1>2, SealAtIs
  <1> DEFINE head == SubSeq(doc, 1, k - 1)
  <1>5. /\ IsSequence(head) /\ Len(head) = k - 1 /\ DOMAIN head = 1..(k - 1)
        /\ \A i \in 1..(k - 1) : head[i] = doc[i]
    <2>1. k - 1 \in 0..n
      BY <1>3
    <2> QED
      BY <1>3, <2>1, SubSeqIs, SequenceBasics
  <1>6. ASSUME NEW j \in 1..(k - 1)
        PROVE  /\ j \in Slots(head) <=> j \in Slots(doc)
               /\ SlotValid(head, j) <=> SlotValid(doc, j)
    <2>1. j \in 1..n /\ \A i \in 1..j : i \in 1..(k - 1)
      BY <1>3
    <2>2. Document(head)
      <3>1. Len(head) >= 1
        BY <1>3, <1>5
      <3>2. \A i \in 1..Len(head) : HasSlot(head[i])
        BY <1>3, <1>5
      <3> HIDE DEF head
      <3> QED
        BY <1>5, <3>1, <3>2, DocumentMade
    <2>3. SlotValid(head, j) = SlotValid(doc, j)
      <3> HIDE DEF head
      <3> QED
        BY <1>1, <1>5, <2>1, <2>2, SlotValidAgrees
    <2>4. j \in Slots(head) <=> j \in Slots(doc)
      BY <1>3, <1>5, <2>1 DEF Slots
    <2> QED
      BY <2>3, <2>4
  <1> HIDE DEF head
  <1>7. k \in Slots(doc) /\ (SlotValid(doc, k) <=> doc[k].slot.for = "seal")
    <2>1. /\ doc[k].slot.for \in {"seal", "archive"} /\ doc[k].slot.holds = Cms(r.op)
          /\ ops[r.op].digest = ByteRanges(doc, k)
      BY <1>2, <1>3 DEF SealedAt, HasSlot
    <2>2. SlotValid(doc, k) <=> doc[k].slot.for = "seal"
      BY <2>1, CmsSlotValid
    <2>3. k \in Slots(doc)
      BY <1>3, <2>1 DEF Slots
    <2> QED
      BY <2>2, <2>3
  <1>8. ASSUME NEW j \in Slots(doc), j > k
        PROVE  SlotValid(doc, j)
    <2>1. j \in (k + 1)..n /\ doc[j].slot.for # "none"
      BY <1>3, <1>8 DEF Slots
    <2>2. Stamped(doc, j)
      BY <1>2, <2>1 DEF LaterValid
    <2> QED
      BY <2>2 DEF Stamped, SlotValid, Token
  <1>9. \A j \in Slots(doc) : j \in Nat /\ (j \in 1..(k - 1) \/ j = k \/ j > k)
    BY <1>3 DEF Slots
  <1>10. \A j \in Slots(head) : j \in 1..(k - 1)
    BY <1>5 DEF Slots
  <1>11. AllValid(doc) <=> doc[k].slot.for = "seal" /\ AllValid(head)
    <2>1. ASSUME AllValid(doc)
          PROVE  doc[k].slot.for = "seal" /\ AllValid(head)
      BY <1>6, <1>7, <1>10, <2>1 DEF AllValid
    <2>2. ASSUME doc[k].slot.for = "seal", AllValid(head), NEW j \in Slots(doc)
          PROVE  SlotValid(doc, j)
      BY <1>6, <1>7, <1>8, <1>9, <2>2 DEF AllValid
    <2> QED
      BY <2>1, <2>2 DEF AllValid
  <1> QED
    BY <1>4, <1>11 DEF head

\* SealsVerify, for every set of PDFs and whatever revisions they carry: a
\* seal that went into a slot made for one is valid, and invalidates no
\* signature before it.
THEOREM SealsAlwaysVerify == Spec => []SealsVerify
  <1>1. ASSUME PadesInv
        PROVE  SealsVerify
    BY <1>1, ResultVerifies, Zenon DEF SealsVerify
  <1> QED
    BY <1>1, SealingInvariant, PTL

-----------------------------------------------------------------------------
(* Objects: where they are defined, and what the two readings find.          *)

LEMMA PlacesIn ==
    ASSUME NEW doc, Document(doc), NEW id
    PROVE  /\ TopIn(doc, id) \in SUBSET (1..Len(doc)) /\ PackedIn(doc, id) \in SUBSET (1..Len(doc))
           /\ \A S \in SUBSET (1..Len(doc)) : S # {} => Max(S) \in S /\ \A i \in S : i <= Max(S)
  <1>1. DOMAIN doc = 1..Len(doc) /\ Len(doc) \in Nat
    BY DocumentBasics
  <1>2. ASSUME NEW S \in SUBSET (1..Len(doc)), S # {}
        PROVE  Max(S) \in S /\ \A i \in S : i <= Max(S)
    <2>1. S \in SUBSET Nat /\ \A i \in S : i <= Len(doc)
      BY <1>1
    <2> QED
      BY <1>1, <1>2, <2>1, MaxIs
  <1> QED
    BY <1>1, <1>2 DEF TopIn, PackedIn

LEMMA NumberIsDefined ==
    ASSUME NEW doc, NEW id
    PROVE  id \in Numbers(doc) <=> Defined(doc, id)
  BY DEF Numbers, Defined, TopIn, PackedIn

LEMMA SeenIsDefined ==
    ASSUME NEW doc, Document(doc), NEW id, Defined(doc, id)
    PROVE  SignerSees(doc, id) \in Definitions(doc, id) /\ ReaderSees(doc, id) \in Definitions(doc, id)
  <1> DEFINE T == TopIn(doc, id)
             P == PackedIn(doc, id)
  <1>1. T \in SUBSET (1..Len(doc)) /\ P \in SUBSET (1..Len(doc)) /\ T \cup P # {}
    BY PlacesIn DEF Defined
  <1>2. \A S \in SUBSET (1..Len(doc)) : S # {} => Max(S) \in S
    BY PlacesIn
  <1>3. SignerSees(doc, id) \in Definitions(doc, id)
    <2>1. CASE T # {}
      BY <1>1, <1>2, <2>1 DEF SignerSees, Definitions
    <2>2. CASE T = {}
      BY <1>1, <1>2, <2>2 DEF SignerSees, Definitions
    <2> QED
      BY <2>1, <2>2
  <1>4. ReaderSees(doc, id) \in Definitions(doc, id)
    <2>1. PICK i : i = Max(T \cup P)
      OBVIOUS
    <2>2. i \in T \/ i \in P
      BY <1>1, <1>2, <2>1
    <2>3. ReaderSees(doc, id) = IF id \in DOMAIN doc[i].top THEN doc[i].top[id] ELSE doc[i].packed[id]
      BY <2>1 DEF ReaderSees
    <2>4. i \in T <=> i \in DOMAIN doc /\ id \in DOMAIN doc[i].top
      BY DEF TopIn
    <2>5. i \in P => i \in DOMAIN doc
      BY DEF PackedIn
    <2> QED
      BY <2>2, <2>3, <2>4, <2>5 DEF Definitions
  <1> QED
    BY <1>3, <1>4

\* One more revision: what it defines, and what it leaves as it was.
LEMMA OneMore ==
    ASSUME NEW doc, Document(doc), NEW rev, HasSlot(rev)
    PROVE  LET more == Append(doc, rev)
           IN  /\ Document(more) /\ Len(more) = Len(doc) + 1
               /\ \A i \in 1..Len(doc) : more[i] = doc[i]
               /\ more[Len(doc) + 1] = rev /\ Last(more) = rev
               /\ \A id : /\ TopIn(more, id) = TopIn(doc, id) \cup
                                (IF id \in DOMAIN rev.top THEN {Len(doc) + 1} ELSE {})
                          /\ PackedIn(more, id) = PackedIn(doc, id) \cup
                                (IF id \in DOMAIN rev.packed THEN {Len(doc) + 1} ELSE {})
               /\ Numbers(more) = Numbers(doc) \cup DOMAIN rev.top \cup DOMAIN rev.packed
  <1>1. PICK more : more = Append(doc, rev)
    OBVIOUS
  <1>2. PICK n : n = Len(doc)
    OBVIOUS
  <1>3. /\ IsSequence(doc) /\ n \in Nat /\ n >= 1 /\ DOMAIN doc = 1..n
    BY <1>2, DocumentBasics
  <1>4. /\ Document(more) /\ Len(more) = n + 1
        /\ \A i \in 1..n : more[i] = doc[i]
        /\ more[n + 1] = rev /\ Last(more) = rev
    BY <1>1, <1>2, <1>3, AppendIs, DocumentGrows
  <1>5. DOMAIN more = 1..(n + 1) /\ \A i \in 1..(n + 1) : i \in 1..n \/ i = n + 1
    BY <1>3, <1>4, DocumentBasics
  <1>6. n + 1 \in 1..(n + 1) /\ \A i \in 1..n : i \in 1..(n + 1)
    BY <1>3
  <1>7. ASSUME NEW id
        PROVE  /\ TopIn(more, id) = TopIn(doc, id) \cup (IF id \in DOMAIN rev.top THEN {n + 1} ELSE {})
               /\ PackedIn(more, id) = PackedIn(doc, id) \cup (IF id \in DOMAIN rev.packed THEN {n + 1} ELSE {})
    <2>1. \A i : i \in TopIn(more, id) <=>
                    i \in TopIn(doc, id) \/ (i = n + 1 /\ id \in DOMAIN rev.top)
      BY <1>3, <1>4, <1>5, <1>6 DEF TopIn
    <2>2. \A i : i \in PackedIn(more, id) <=>
                    i \in PackedIn(doc, id) \/ (i = n + 1 /\ id \in DOMAIN rev.packed)
      BY <1>3, <1>4, <1>5, <1>6 DEF PackedIn
    <2> QED
      BY <2>1, <2>2
  <1>8. Numbers(more) = Numbers(doc) \cup DOMAIN rev.top \cup DOMAIN rev.packed
    <2>1. ASSUME NEW id
          PROVE  id \in Numbers(more) <=> id \in Numbers(doc) \cup DOMAIN rev.top \cup DOMAIN rev.packed
      <3>1. id \in Numbers(more) <=> TopIn(more, id) \cup PackedIn(more, id) # {}
        BY NumberIsDefined DEF Defined
      <3>2. id \in Numbers(doc) <=> TopIn(doc, id) \cup PackedIn(doc, id) # {}
        BY NumberIsDefined DEF Defined
      <3> QED
        BY <1>7, <3>1, <3>2
    <2> QED
      BY <2>1
  <1> QED
    BY <1>1, <1>2, <1>4, <1>7, <1>8

\* Its definitions come after all others.
LEMMA OneMoreSees ==
    ASSUME NEW doc, Document(doc), NEW rev, HasSlot(rev), NEW id
    PROVE  LET more == Append(doc, rev)
           IN  /\ id \in DOMAIN rev.top => SignerSees(more, id) = rev.top[id] /\ ReaderSees(more, id) = rev.top[id]
               /\ id \notin DOMAIN rev.top \cup DOMAIN rev.packed /\ Defined(doc, id) =>
                     SignerSees(more, id) = SignerSees(doc, id) /\ ReaderSees(more, id) = ReaderSees(doc, id)
               /\ \A b \in Definitions(more, id) :
                     \/ b \in Definitions(doc, id)
                     \/ id \in DOMAIN rev.top /\ b = rev.top[id]
                     \/ id \in DOMAIN rev.packed /\ b = rev.packed[id]
               /\ Definitions(doc, id) \subseteq Definitions(more, id)
  <1>1. PICK more : more = Append(doc, rev)
    OBVIOUS
  <1>2. PICK n : n = Len(doc)
    OBVIOUS
  <1> DEFINE T == TopIn(doc, id)
             P == PackedIn(doc, id)
  <1>3. /\ Document(more) /\ Len(more) = n + 1
        /\ \A i \in 1..n : more[i] = doc[i]
        /\ more[n + 1] = rev
        /\ TopIn(more, id) = T \cup (IF id \in DOMAIN rev.top THEN {n + 1} ELSE {})
        /\ PackedIn(more, id) = P \cup (IF id \in DOMAIN rev.packed THEN {n + 1} ELSE {})
    BY <1>1, <1>2, OneMore
  <1>4. n \in Nat /\ n >= 1 /\ T \in SUBSET (1..n) /\ P \in SUBSET (1..n)
    BY <1>2, DocumentBasics, PlacesIn
  <1>5. /\ \A S \in SUBSET (1..n) : S # {} => Max(S) \in S
        /\ \A S \in SUBSET (1..(n + 1)) : S # {} => Max(S) \in S /\ \A i \in S : i <= Max(S)
    BY <1>2, <1>3, PlacesIn
  <1>6. ASSUME NEW S, S \in SUBSET (1..(n + 1)), n + 1 \in S
        PROVE  Max(S) = n + 1
    <2>1. Max(S) \in S /\ n + 1 <= Max(S)
      BY <1>5, <1>6
    <2>2. Max(S) \in 1..(n + 1)
      BY <1>6, <2>1
    <2> QED
      BY <1>4, <2>1, <2>2
  <1>7. ASSUME id \in DOMAIN rev.top
        PROVE  SignerSees(more, id) = rev.top[id] /\ ReaderSees(more, id) = rev.top[id]
    <2>1. TopIn(more, id) \in SUBSET (1..(n + 1)) /\ n + 1 \in TopIn(more, id)
      BY <1>3, <1>4, <1>7
    <2>2. TopIn(more, id) \cup PackedIn(more, id) \in SUBSET (1..(n + 1))
          /\ n + 1 \in TopIn(more, id) \cup PackedIn(more, id)
      BY <1>3, <1>4, <1>7
    <2>3. Max(TopIn(more, id)) = n + 1 /\ Max(TopIn(more, id) \cup PackedIn(more, id)) = n + 1
      BY <1>6, <2>1, <2>2
    <2> QED
      BY <1>3, <1>7, <2>1, <2>3 DEF SignerSees, ReaderSees
  <1>8. ASSUME id \notin DOMAIN rev.top \cup DOMAIN rev.packed, Defined(doc, id)
        PROVE  SignerSees(more, id) = SignerSees(doc, id) /\ ReaderSees(more, id) = ReaderSees(doc, id)
    <2>1. TopIn(more, id) = T /\ PackedIn(more, id) = P /\ T \cup P # {}
      BY <1>3, <1>8 DEF Defined
    <2>2. /\ T # {} => more[Max(T)] = doc[Max(T)]
          /\ P # {} => more[Max(P)] = doc[Max(P)]
          /\ more[Max(T \cup P)] = doc[Max(T \cup P)]
      <3>1. \A S \in SUBSET (1..n) : S # {} => more[Max(S)] = doc[Max(S)]
        BY <1>3, <1>5
      <3>2. T \cup P \in SUBSET (1..n)
        BY <1>4
      <3> QED
        BY <1>4, <2>1, <3>1, <3>2
    <2>3. SignerSees(more, id) = SignerSees(doc, id)
      BY <2>1, <2>2 DEF SignerSees
    <2>4. ReaderSees(more, id) = ReaderSees(doc, id)
      BY <2>1, <2>2, Zenon DEF ReaderSees
    <2> QED
      BY <2>3, <2>4
  <1>9. ASSUME NEW b \in Definitions(more, id)
        PROVE  \/ b \in Definitions(doc, id)
               \/ id \in DOMAIN rev.top /\ b = rev.top[id]
               \/ id \in DOMAIN rev.packed /\ b = rev.packed[id]
    <2>1. CASE \E i \in TopIn(more, id) : b = more[i].top[id]
      BY <1>3, <1>4, <2>1 DEF Definitions
    <2>2. CASE \E i \in PackedIn(more, id) : b = more[i].packed[id]
      BY <1>3, <1>4, <2>2 DEF Definitions
    <2> QED
      BY <2>1, <2>2 DEF Definitions
  <1>10. Definitions(doc, id) \subseteq Definitions(more, id)
    <2> SUFFICES ASSUME NEW b \in Definitions(doc, id)
                 PROVE  b \in Definitions(more, id)
      OBVIOUS
    <2>1. CASE \E i \in T : b = doc[i].top[id]
      BY <1>3, <1>4, <2>1 DEF Definitions
    <2>2. CASE \E i \in P : b = doc[i].packed[id]
      BY <1>3, <1>4, <2>2 DEF Definitions
    <2> QED
      BY <2>1, <2>2 DEF Definitions
  <1> QED
    BY <1>1, <1>7, <1>8, <1>9, <1>10

-----------------------------------------------------------------------------
(* What a revision has to be for the file to stay well formed.               *)

LEMMA GrowsWellFormed ==
    ASSUME NEW doc, WellFormed(doc), NEW rev, HasSlot(rev),
           {"top", "packed", "filter", "xref", "root"} \subseteq DOMAIN rev, rev.root = RootId(doc),
           NEW m \in Nat, DOMAIN rev.top \cup DOMAIN rev.packed \subseteq 1..m,
           DOMAIN rev.top \cup DOMAIN rev.packed # {},
           \A id \in DOMAIN rev.top : /\ Body(rev.top[id])
                                      /\ id = RootId(doc) => rev.top[id].type = "catalog",
           \A id \in DOMAIN rev.packed : /\ Body(rev.packed[id])
                                         /\ id = RootId(doc) => rev.packed[id].type = "catalog"
    PROVE  WellFormed(Append(doc, rev)) /\ RootId(Append(doc, rev)) = RootId(doc)
  <1>1. PICK more : more = Append(doc, rev)
    OBVIOUS
  <1>2. PICK n : n = Len(doc)
    OBVIOUS
  <1>3. Document(doc) /\ n \in Nat /\ DOMAIN doc = 1..n
    BY <1>2, DocumentBasics DEF WellFormed
  <1>4. /\ Document(more) /\ Len(more) = n + 1
        /\ \A i \in 1..n : more[i] = doc[i]
        /\ more[n + 1] = rev /\ Last(more) = rev
        /\ Numbers(more) = Numbers(doc) \cup DOMAIN rev.top \cup DOMAIN rev.packed
    BY <1>1, <1>2, <1>3, OneMore
  <1>5. RootId(more) = RootId(doc)
    BY <1>4 DEF RootId
  <1>6. \A i \in DOMAIN more : {"top", "packed", "filter", "xref", "root"} \subseteq DOMAIN more[i]
    <2>1. DOMAIN more = 1..(n + 1) /\ \A i \in 1..(n + 1) : i \in 1..n \/ i = n + 1
      BY <1>3, <1>4, DocumentBasics
    <2>2. \A i \in 1..n : {"top", "packed", "filter", "xref", "root"} \subseteq DOMAIN doc[i]
      BY <1>3 DEF WellFormed
    <2> QED
      BY <1>4, <2>1, <2>2
  <1>7. MaxId(more) \in Nat /\ Numbers(more) \subseteq 1..MaxId(more)
    <2>1. MaxId(doc) \in Nat /\ Numbers(doc) \subseteq 1..MaxId(doc)
      BY DEF MaxId, WellFormed
    <2>2. PICK a \in Nat : a = MaxId(doc)
      BY <2>1
    <2>3. \A x \in Numbers(more) : x \in Nat /\ x >= 1 /\ x <= a + m
      BY <1>4, <2>1, <2>2
    <2>4. Numbers(more) \in SUBSET Nat /\ Numbers(more) # {} /\ a + m \in Nat
      BY <1>4, <2>3
    <2>5. Max(Numbers(more)) \in Numbers(more) /\ \A x \in Numbers(more) : x <= Max(Numbers(more))
      BY <2>3, <2>4, MaxIs
    <2> QED
      BY <2>3, <2>5 DEF MaxId
  <1>8. ASSUME NEW id \in Numbers(more), NEW b \in Definitions(more, id)
        PROVE  Body(b) /\ (id = RootId(doc) => b.type = "catalog")
    <2>1. \/ b \in Definitions(doc, id)
          \/ id \in DOMAIN rev.top /\ b = rev.top[id]
          \/ id \in DOMAIN rev.packed /\ b = rev.packed[id]
      BY <1>1, <1>3, <1>8, OneMoreSees
    <2>2. CASE b \in Definitions(doc, id)
      <3>1. Defined(doc, id)
        BY <2>2 DEF Definitions, Defined
      <3> QED
        BY <2>2, <3>1, NumberIsDefined DEF WellFormed
    <2> QED
      BY <2>1, <2>2
  <1>9. \A cat \in Definitions(more, RootId(more)) : cat.type = "catalog"
    <2> SUFFICES ASSUME NEW cat \in Definitions(more, RootId(more))
                 PROVE  cat.type = "catalog"
      OBVIOUS
    <2>1. RootId(more) \in Numbers(more)
      <3>1. Defined(more, RootId(more))
        BY DEF Definitions, Defined
      <3> QED
        BY <3>1, NumberIsDefined
    <2> QED
      BY <1>5, <1>8, <2>1
  <1>10. RootId(more) \in Numbers(more)
    BY <1>4, <1>5 DEF WellFormed
  <1>11. WellFormed(more)
    BY <1>4, <1>6, <1>7, <1>8, <1>9, <1>10 DEF MaxId, WellFormed
  <1> QED
    BY <1>1, <1>5, <1>11

\* What a rewritten body shares with the one it was read from.
Rewrites(new, b) ==
    /\ DOMAIN new = DOMAIN b
    /\ \A f \in DOMAIN b \ {"annots", "items", "fields", "form", "dss"} : new[f] = b[f]

\* Objects that are new, or rewritten.
Continues(doc, objects) ==
    \A id \in DOMAIN objects \cap Numbers(doc) :
        \E b \in Definitions(doc, id) : Rewrites(objects[id], b)

\* The DSS a new catalog names: an old one, or one the revision defines.
NamesDss(doc, objects, n) ==
    RootId(doc) \in DOMAIN objects =>
        LET dss == objects[RootId(doc)].dss
        IN  \/ dss = 0
            \/ \E b \in Definitions(doc, RootId(doc)) : dss = b.dss
            \/ /\ dss \in DOMAIN objects /\ dss \notin Numbers(doc)
               /\ "op" \in DOMAIN objects[dss] /\ objects[dss].op \in 0..n

LEMMA GrowsDssUpTo ==
    ASSUME NEW doc, Document(doc), NEW n, DssUpTo(doc, n), NEW rev, HasSlot(rev), rev.root = RootId(doc),
           Continues(doc, rev.top), Continues(doc, rev.packed),
           NamesDss(doc, rev.top, n),
           RootId(doc) \in DOMAIN rev.packed =>
              \E b \in Definitions(doc, RootId(doc)) : rev.packed[RootId(doc)].dss = b.dss,
           DOMAIN rev.top \cap DOMAIN rev.packed = {}
    PROVE  DssUpTo(Append(doc, rev), n)
  <1>1. PICK more : more = Append(doc, rev)
    OBVIOUS
  <1>2. PICK root : root = RootId(doc)
    OBVIOUS
  <1>3. /\ Numbers(more) = Numbers(doc) \cup DOMAIN rev.top \cup DOMAIN rev.packed
        /\ RootId(more) = root
    BY <1>1, <1>2, OneMore DEF RootId
  <1>4. \A id : \A b \in Definitions(more, id) :
           \/ b \in Definitions(doc, id)
           \/ id \in DOMAIN rev.top /\ b = rev.top[id]
           \/ id \in DOMAIN rev.packed /\ b = rev.packed[id]
    BY <1>1, OneMoreSees
  <1>5. \A id : Definitions(doc, id) # {} => id \in Numbers(doc)
    BY NumberIsDefined DEF Definitions, Defined
  <1>6. ASSUME NEW cat \in Definitions(more, root), cat.dss # 0
        PROVE  /\ cat.dss \in Numbers(more)
               /\ \A b \in Definitions(more, cat.dss) : "op" \in DOMAIN b /\ b.op \in 0..n
    <2>1. PICK dss : dss = cat.dss
      OBVIOUS
    <2>2. \/ \E b \in Definitions(doc, root) : dss = b.dss
          \/ /\ dss \in DOMAIN rev.top /\ dss \notin Numbers(doc)
             /\ "op" \in DOMAIN rev.top[dss] /\ rev.top[dss].op \in 0..n
      BY <1>2, <1>4, <1>6, <2>1 DEF NamesDss
    <2>3. CASE \E b \in Definitions(doc, root) : dss = b.dss
      <3>1. /\ dss \in Numbers(doc)
            /\ \A b \in Definitions(doc, dss) : "op" \in DOMAIN b /\ b.op \in 0..n
        BY <1>2, <1>6, <2>1, <2>3 DEF DssUpTo
      <3>2. ASSUME NEW objects, Continues(doc, objects), dss \in DOMAIN objects
            PROVE  "op" \in DOMAIN objects[dss] /\ objects[dss].op \in 0..n
        <4>1. PICK b \in Definitions(doc, dss) : Rewrites(objects[dss], b)
          BY <3>1, <3>2 DEF Continues
        <4> QED
          BY <3>1, <4>1 DEF Rewrites
      <3>3. ASSUME NEW b \in Definitions(more, dss)
            PROVE  "op" \in DOMAIN b /\ b.op \in 0..n
        BY <1>4, <3>1, <3>2
      <3> QED
        BY <1>3, <2>1, <3>1, <3>3
    <2>4. CASE /\ dss \in DOMAIN rev.top /\ dss \notin Numbers(doc)
               /\ "op" \in DOMAIN rev.top[dss] /\ rev.top[dss].op \in 0..n
      <3>1. dss \notin DOMAIN rev.packed /\ Definitions(doc, dss) = {}
        BY <1>5, <2>4
      <3>2. \A b \in Definitions(more, dss) : b = rev.top[dss]
        BY <1>4, <3>1
      <3> QED
        BY <1>3, <2>1, <2>4, <3>2
    <2> QED
      BY <2>2, <2>3, <2>4
  <1> QED
    BY <1>1, <1>3, <1>6 DEF DssUpTo

LEMMA DssUpToMore ==
    ASSUME NEW doc, NEW n \in Nat, NEW m \in Nat, n <= m, DssUpTo(doc, n)
    PROVE  DssUpTo(doc, m)
  <1>1. 0..n \subseteq 0..m
    OBVIOUS
  <1> QED
    BY <1>1, Zenon DEF DssUpTo

-----------------------------------------------------------------------------
(* The first page, and when a file that is changed still parses.             *)

IsWalk(doc, node) ==
    node = [n \in 0..MaxHops |->
               IF n = 0 THEN SignerSees(doc, RootId(doc)).pages ELSE FirstKid(doc, node[n - 1])]

LEMMA WalkIs ==
    ASSUME NEW doc
    PROVE  /\ WalkDown(doc)[0] = SignerSees(doc, RootId(doc)).pages
           /\ \A n \in 0..(MaxHops - 1) : WalkDown(doc)[n + 1] = FirstKid(doc, WalkDown(doc)[n])
  <1> DEFINE first == SignerSees(doc, RootId(doc)).pages
             U == {0, first} \cup {SignerSees(doc, id).kids[1] : id \in Numbers(doc)}
             step == [up \in U |-> FirstKid(doc, up)]
             W == CHOOSE node : IsWalk(doc, node)
  <1>1. WalkDown(doc) = W
    BY DEF WalkDown, IsWalk
  <1>2. MaxHops \in Nat /\ first \in U
    BY HopsAssumption
  <1>3. step \in [U -> U]
    <2>1. ASSUME NEW up \in U
          PROVE  FirstKid(doc, up) \in U
      <3>1. FirstKid(doc, up) = 0 \/ (Defined(doc, up) /\ FirstKid(doc, up) = SignerSees(doc, up).kids[1])
        BY Zenon DEF FirstKid
      <3> QED
        BY <3>1, NumberIsDefined
    <2> HIDE DEF U
    <2> QED
      BY <2>1
  <1> HIDE DEF U
  <1>4. PICK f \in [0..MaxHops -> U] : Iterates(step, first, MaxHops, f)
    BY <1>2, <1>3, Iterated
  <1>5. f[0] = first /\ \A n \in 1..MaxHops : f[n] = FirstKid(doc, f[n - 1])
    <2>1. f[0] = first /\ \A n \in 1..MaxHops : f[n] = step[f[n - 1]]
      BY <1>4 DEF Iterates
    <2>2. ASSUME NEW n \in 1..MaxHops
          PROVE  f[n] = FirstKid(doc, f[n - 1])
      <3>1. n - 1 \in 0..MaxHops
        BY <1>2
      <3>2. PICK up \in U : up = f[n - 1]
        BY <3>1
      <3> QED
        BY <2>1, <3>2
    <2> QED
      BY <2>1, <2>2
  <1>6. IsWalk(doc, f)
    <2>1. \A n \in 0..MaxHops : n # 0 => n \in 1..MaxHops
      BY <1>2
    <2>2. \A n \in 0..MaxHops : f[n] = IF n = 0 THEN first ELSE FirstKid(doc, f[n - 1])
      BY <1>5, <2>1
    <2>3. f = [n \in 0..MaxHops |-> f[n]]
      OBVIOUS
    <2> QED
      BY <2>2, <2>3 DEF IsWalk
  <1>7. IsWalk(doc, W)
    BY <1>6
  <1> HIDE DEF W
  <1>8. \A n \in 0..MaxHops : W[n] = IF n = 0 THEN first ELSE FirstKid(doc, W[n - 1])
    BY <1>7 DEF IsWalk
  <1>9. ASSUME NEW n \in 0..(MaxHops - 1)
        PROVE  W[n + 1] = FirstKid(doc, W[n])
    <2>1. PICK m \in 0..MaxHops : m = n + 1 /\ m # 0 /\ m - 1 = n
      BY <1>2
    <2> QED
      BY <1>8, <2>1
  <1>10. W[0] = first
    BY <1>2, <1>8
  <1> QED
    BY <1>1, <1>9, <1>10

LEMMA FirstPageIs ==
    ASSUME NEW doc, Structured(doc)
    PROVE  Defined(doc, FirstPage(doc)) /\ SignerSees(doc, FirstPage(doc)).type = "page"
  <1>1. Leaves(doc) # {} /\ Leaves(doc) \in SUBSET Nat
    BY HopsAssumption DEF Structured, Leaves
  <1>2. Min(Leaves(doc)) \in Leaves(doc)
    BY <1>1, MinIs
  <1> QED
    BY <1>2 DEF Leaves, FirstPage

\* What the parser makes of a body.
SameNode(new, b) ==
    /\ new.type = b.type
    /\ b.type = "pages" => new.kids = b.kids
    /\ b.type = "page" => FirstRef(new.annots) = FirstRef(b.annots)

LEMMA StructureKept ==
    ASSUME NEW doc, Structured(doc), NEW other, RootId(other) = RootId(doc),
           \A i \in DOMAIN other : other[i].filter \in {"none", "flate"},
           \A id : Defined(doc, id) =>
              Defined(other, id) /\ SameNode(SignerSees(other, id), SignerSees(doc, id)),
           \A id : Defined(other, id) /\ ~Defined(doc, id) =>
              SignerSees(other, id).type \notin {"pages", "page"},
           SignerSees(other, RootId(doc)).pages = SignerSees(doc, RootId(doc)).pages,
           LET form == FirstRef(SignerSees(other, RootId(doc)).form)
           IN  form = FirstRef(SignerSees(doc, RootId(doc)).form) \/ Defined(other, form)
    PROVE  /\ Structured(other) /\ FirstPage(other) = FirstPage(doc)
           /\ Parses(doc) => Parses(other)
  <1>1. ASSUME NEW up
        PROVE  FirstKid(other, up) = FirstKid(doc, up)
    <2>1. CASE Defined(doc, up)
      <3>1. Defined(other, up) /\ SameNode(SignerSees(other, up), SignerSees(doc, up))
        BY <2>1
      <3> QED
        BY <2>1, <3>1 DEF FirstKid, SameNode
    <2>2. CASE ~Defined(doc, up)
      BY <2>2 DEF FirstKid
    <2> QED
      BY <2>1, <2>2
  <1> DEFINE T == {n \in 0..MaxHops : WalkDown(other)[n] = WalkDown(doc)[n]}
  <1>2. 0..MaxHops \subseteq T
    <2>1. MaxHops \in Nat
      BY HopsAssumption
    <2>2. 0 \in T
      BY <2>1, WalkIs
    <2>3. ASSUME NEW n \in 0..(MaxHops - 1), n \in T
          PROVE  n + 1 \in T
      <3>1. WalkDown(other)[n + 1] = FirstKid(other, WalkDown(other)[n])
        BY WalkIs
      <3>2. WalkDown(doc)[n + 1] = FirstKid(doc, WalkDown(doc)[n])
        BY WalkIs
      <3>3. n + 1 \in 0..MaxHops
        BY <2>1
      <3> QED
        BY <1>1, <2>3, <3>1, <3>2, <3>3
    <2> HIDE DEF T
    <2> QED
      BY <2>1, <2>2, <2>3, UpTo
  <1>3. \A n \in 1..MaxHops : WalkDown(other)[n] = WalkDown(doc)[n]
    BY <1>2, HopsAssumption
  <1>4. \A id : Defined(other, id) /\ SignerSees(other, id).type = "page" <=>
                Defined(doc, id) /\ SignerSees(doc, id).type = "page"
    BY DEF SameNode
  <1>5. Leaves(other) = Leaves(doc)
    <2>1. \A n \in 1..MaxHops : n \in Leaves(other) <=> n \in Leaves(doc)
      BY <1>3, <1>4 DEF Leaves
    <2> QED
      BY <2>1 DEF Leaves
  <1>6. FirstPage(other) = FirstPage(doc)
    <2>1. Leaves(doc) # {} /\ Leaves(doc) \in SUBSET Nat
      BY HopsAssumption DEF Structured, Leaves
    <2>2. Min(Leaves(doc)) \in 1..MaxHops
      BY <2>1, MinIs DEF Leaves
    <2> QED
      BY <1>3, <1>5, <2>2 DEF FirstPage
  <1> DEFINE page == FirstPage(doc)
             arr == FirstRef(SignerSees(doc, page).annots)
             root == RootId(doc)
  <1>7. FirstRef(SignerSees(other, page).annots) = arr
    BY FirstPageIs DEF SameNode
  <1>8. arr > 0 => Defined(doc, arr) /\ Defined(other, arr) /\ SignerSees(other, arr).type = SignerSees(doc, arr).type
    BY DEF Structured, SameNode
  <1>9. Defined(other, root) /\ Leaves(other) # {}
    BY <1>5 DEF Structured
  <1>10. FirstRef(SignerSees(other, root).form) > 0 => Defined(other, FirstRef(SignerSees(other, root).form))
    BY DEF Structured
  <1>11. Structured(other)
    BY <1>6, <1>7, <1>8, <1>9, <1>10 DEF Structured
  <1>12. Parses(doc) => Parses(other)
    BY <1>6, <1>7, <1>8, <1>11 DEF Parses
  <1> QED
    BY <1>6, <1>11, <1>12

\* Filling a slot changes nothing the parser or a reader finds.
LEMMA EmbedSees ==
    ASSUME NEW doc, WellFormed(doc), NEW w
    PROVE  LET done == embed(doc, w)
           IN  /\ WellFormed(done) /\ RootId(done) = RootId(doc)
               /\ \A n : DssUpTo(done, n) <=> DssUpTo(doc, n)
               /\ Structured(done) <=> Structured(doc)
               /\ Parses(done) <=> Parses(doc)
               /\ \A id : Defined(doc, id) => ReaderSees(done, id) = ReaderSees(doc, id)
               /\ Slots(done) = Slots(doc)
  <1>1. PICK done : done = embed(doc, w)
    OBVIOUS
  <1>2. PICK n : n = Len(doc)
    OBVIOUS
  <1>3. Document(doc) /\ n \in Nat /\ n >= 1 /\ DOMAIN doc = 1..n /\ \A i \in 1..n : HasSlot(doc[i])
    BY <1>2, DocumentBasics DEF WellFormed
  <1>4. /\ Document(done) /\ Len(done) = n
        /\ \A i \in 1..(n - 1) : done[i] = doc[i]
        /\ done[n] = Holding(doc[n], w)
    BY <1>1, <1>2, <1>3, EmbedIs
  <1>5. DOMAIN done = 1..n /\ \A i \in 1..n : i \in 1..(n - 1) \/ i = n
    BY <1>3, <1>4, DocumentBasics
  <1>6. ASSUME NEW i \in 1..n
        PROVE  /\ done[i].top = doc[i].top /\ done[i].packed = doc[i].packed /\ done[i].root = doc[i].root
               /\ done[i].filter = doc[i].filter
               /\ {"top", "packed", "filter", "xref", "root"} \subseteq DOMAIN done[i]
               /\ done[i].slot.for = doc[i].slot.for
    <2>1. {"top", "packed", "filter", "xref", "root"} \subseteq DOMAIN doc[i] /\ HasSlot(doc[i])
      BY <1>3 DEF WellFormed
    <2>2. CASE i \in 1..(n - 1)
      BY <1>4, <2>1, <2>2
    <2>3. CASE i = n
      <3>1. \A f \in DOMAIN doc[i] : f # "slot" => Holding(doc[i], w)[f] = doc[i][f]
        BY DEF Holding
      <3>2. DOMAIN Holding(doc[i], w) = DOMAIN doc[i]
        BY DEF Holding
      <3>3. Holding(doc[i], w).slot.for = doc[i].slot.for
        BY <2>1, HoldingIs
      <3> QED
        BY <1>4, <2>1, <2>3, <3>1, <3>2, <3>3
    <2> QED
      BY <1>5, <2>2, <2>3
  <1>7. \A id : TopIn(done, id) = TopIn(doc, id) /\ PackedIn(done, id) = PackedIn(doc, id)
    BY <1>3, <1>5, <1>6 DEF TopIn, PackedIn
  <1>8. \A id : Defined(done, id) <=> Defined(doc, id)
    BY <1>7 DEF Defined
  <1>9. Numbers(done) = Numbers(doc)
    BY <1>8, NumberIsDefined
  <1>10. RootId(done) = RootId(doc)
    <2>1. Last(done) = done[n] /\ Last(doc) = doc[n] /\ n \in 1..n
      BY <1>2, <1>3, <1>4, DocumentBasics
    <2> QED
      BY <1>6, <2>1 DEF RootId
  <1>11. ASSUME NEW id
         PROVE  Definitions(done, id) = Definitions(doc, id)
    <2>1. \A i \in TopIn(doc, id) \cup PackedIn(doc, id) : i \in 1..n
      BY <1>2, <1>3, PlacesIn
    <2>2. \A b : b \in Definitions(done, id) <=> b \in Definitions(doc, id)
      BY <1>6, <1>7, <2>1 DEF Definitions
    <2> QED
      BY <2>2
  <1>12. ASSUME NEW id, Defined(doc, id)
         PROVE  SignerSees(done, id) = SignerSees(doc, id) /\ ReaderSees(done, id) = ReaderSees(doc, id)
    <2> DEFINE T == TopIn(doc, id)
               P == PackedIn(doc, id)
    <2>1. T \in SUBSET (1..n) /\ P \in SUBSET (1..n) /\ T \cup P \in SUBSET (1..n) /\ T \cup P # {}
      BY <1>2, <1>3, <1>12, PlacesIn DEF Defined
    <2>2. \A S \in SUBSET (1..n) : S # {} => Max(S) \in 1..n
      BY <1>2, <1>3, PlacesIn
    <2>3. /\ T # {} => done[Max(T)].top = doc[Max(T)].top
          /\ P # {} => done[Max(P)].packed = doc[Max(P)].packed
          /\ done[Max(T \cup P)].top = doc[Max(T \cup P)].top
          /\ done[Max(T \cup P)].packed = doc[Max(T \cup P)].packed
      BY <1>6, <2>1, <2>2
    <2>4. TopIn(done, id) = T /\ PackedIn(done, id) = P
      BY <1>7
    <2>5. SignerSees(done, id) = SignerSees(doc, id)
      BY <2>1, <2>3, <2>4 DEF SignerSees
    <2>6. ReaderSees(done, id) = ReaderSees(doc, id)
      BY <2>3, <2>4, Zenon DEF ReaderSees
    <2> QED
      BY <2>5, <2>6
  <1>13. WellFormed(done)
    <2>1. MaxId(done) = MaxId(doc)
      BY <1>9 DEF MaxId
    <2>2. \A i \in DOMAIN done : {"top", "packed", "filter", "xref", "root"} \subseteq DOMAIN done[i]
      BY <1>5, <1>6
    <2>3. /\ MaxId(done) \in Nat /\ Numbers(done) \subseteq 1..MaxId(done)
          /\ \A id \in Numbers(done) : \A b \in Definitions(done, id) : Body(b)
          /\ \A cat \in Definitions(done, RootId(done)) : cat.type = "catalog"
          /\ RootId(done) \in Numbers(done)
      BY <1>9, <1>10, <1>11, <2>1, Zenon DEF MaxId, WellFormed
    <2> QED
      BY <1>4, <2>2, <2>3 DEF MaxId, WellFormed
  <1>14. \A m : DssUpTo(done, m) <=> DssUpTo(doc, m)
    <2> SUFFICES ASSUME NEW m
                 PROVE  DssUpTo(done, m) <=> DssUpTo(doc, m)
      OBVIOUS
    <2>1. Definitions(done, RootId(done)) = Definitions(doc, RootId(doc))
      BY <1>10, <1>11
    <2> QED
      BY <1>9, <1>11, <2>1 DEF DssUpTo
  <1>15. \A id : Defined(doc, id) => SameNode(SignerSees(done, id), SignerSees(doc, id))
                                     /\ SameNode(SignerSees(doc, id), SignerSees(done, id))
    BY <1>12 DEF SameNode
  <1>16. (Structured(done) <=> Structured(doc)) /\ (Parses(done) <=> Parses(doc))
    <2>1. Defined(doc, RootId(doc)) => SignerSees(done, RootId(doc)) = SignerSees(doc, RootId(doc))
      BY <1>12
    <2>2. ASSUME Structured(doc)
          PROVE  Structured(done) /\ (Parses(doc) => Parses(done))
      <3>1. \A i \in DOMAIN done : done[i].filter \in {"none", "flate"}
        BY <1>3, <1>5, <1>6, <2>2 DEF Structured
      <3>2. SignerSees(done, RootId(doc)) = SignerSees(doc, RootId(doc))
        BY <2>1, <2>2 DEF Structured
      <3> QED
        BY <1>8, <1>10, <1>15, <2>2, <3>1, <3>2, StructureKept
    <2>3. ASSUME Structured(done)
          PROVE  Structured(doc) /\ (Parses(done) => Parses(doc))
      <3>1. \A i \in DOMAIN doc : doc[i].filter \in {"none", "flate"}
        BY <1>3, <1>5, <1>6, <2>3 DEF Structured
      <3>2. SignerSees(done, RootId(doc)) = SignerSees(doc, RootId(doc))
        BY <1>8, <1>10, <2>1, <2>3 DEF Structured
      <3> QED
        BY <1>8, <1>10, <1>15, <2>3, <3>1, <3>2, StructureKept
    <2> QED
      BY <2>2, <2>3 DEF Parses
  <1>17. Slots(done) = Slots(doc)
    BY <1>3, <1>5, <1>6 DEF Slots
  <1> QED
    BY <1>1, <1>10, <1>12, <1>13, <1>14, <1>16, <1>17

-----------------------------------------------------------------------------
(* Entries of a dictionary: what adding an item or a reference does.         *)

LEMMA FirstRefIs ==
    ASSUME NEW e, Entry(e)
    PROVE  /\ FirstRef(e) \in Nat /\ (FirstRef(e) > 0 <=> Refs(e) # {})
           /\ Refs(e) # {} => Min(Refs(e)) \in Refs(e)
           /\ DOMAIN e = 1..Len(e) /\ Len(e) \in Nat
  <1>1. DOMAIN e = 1..Len(e) /\ Len(e) \in Nat
    BY SequenceBasics DEF Entry, IsSequence
  <1>2. Refs(e) \in SUBSET Nat /\ \A k \in Refs(e) : e[k].ref \in Nat /\ e[k].ref > 0
    BY <1>1 DEF Refs, Entry
  <1>3. Refs(e) # {} => Min(Refs(e)) \in Refs(e)
    BY <1>2, MinIs
  <1> QED
    BY <1>1, <1>2, <1>3 DEF FirstRef

\* An entry with the references of another.
LEMMA SameRefs ==
    ASSUME NEW e, NEW f, Refs(e) = Refs(f), \A k \in Refs(e) : e[k].ref = f[k].ref, Entry(e)
    PROVE  FirstRef(e) = FirstRef(f)
  BY FirstRefIs DEF FirstRef

LEMMA AppendEntry ==
    ASSUME NEW e, Entry(e), NEW x, {"ref", "items"} \subseteq DOMAIN x, x.ref \in Nat
    PROVE  LET more == Append(e, x)
           IN  /\ Entry(more)
               /\ \A k \in DOMAIN e : more[k] = e[k]
               /\ Refs(more) = Refs(e) \cup (IF x.ref > 0 THEN {Len(e) + 1} ELSE {})
               /\ more[Len(e) + 1] = x
  <1>1. PICK more : more = Append(e, x)
    OBVIOUS
  <1>2. PICK n : n = Len(e)
    OBVIOUS
  <1>3. IsSequence(e) /\ DOMAIN e = 1..n /\ n \in Nat
    BY <1>2, FirstRefIs DEF Entry, IsSequence
  <1>4. IsSequence(more) /\ Len(more) = n + 1 /\ (\A i \in 1..n : more[i] = e[i]) /\ more[n + 1] = x
    BY <1>1, <1>2, <1>3, AppendIs
  <1>5. DOMAIN more = 1..(n + 1) /\ \A k \in 1..(n + 1) : k \in 1..n \/ k = n + 1
    BY <1>3, <1>4, SequenceBasics
  <1>6. \A k \in DOMAIN e : {"ref", "items"} \subseteq DOMAIN e[k] /\ e[k].ref \in Nat
    BY DEF Entry
  <1>7. \A k \in DOMAIN more : {"ref", "items"} \subseteq DOMAIN more[k] /\ more[k].ref \in Nat
    BY <1>3, <1>4, <1>5, <1>6
  <1>8. Entry(more)
    BY <1>4, <1>7 DEF Entry, IsSequence
  <1>9. \A k : k \in Refs(more) <=> k \in Refs(e) \/ (k = n + 1 /\ x.ref > 0)
    <2>1. n + 1 \in 1..(n + 1) /\ \A k \in 1..n : k \in 1..(n + 1)
      BY <1>3
    <2> QED
      BY <1>3, <1>4, <1>5, <2>1 DEF Refs
  <1> QED
    BY <1>1, <1>2, <1>3, <1>4, <1>8, <1>9

LEMMA InlineAdded ==
    ASSUME NEW e, Entry(e), NEW id
    PROVE  Entry(AddInline(e, id)) /\ FirstRef(AddInline(e, id)) = FirstRef(e)
  <1>1. CASE Inlines(e) = {}
    <2>1. AddInline(e, id) = Append(e, Inline({id}))
      BY <1>1 DEF AddInline
    <2>2. {"ref", "items"} \subseteq DOMAIN Inline({id}) /\ Inline({id}).ref = 0
      BY DEF Inline
    <2>3. PICK x : x = Inline({id}) /\ {"ref", "items"} \subseteq DOMAIN x /\ x.ref \in Nat /\ ~(x.ref > 0)
      BY <2>2
    <2>4. PICK more : more = Append(e, x)
      OBVIOUS
    <2>5. Entry(more) /\ (\A k \in DOMAIN e : more[k] = e[k]) /\ Refs(more) = Refs(e)
      <3>1. /\ Entry(Append(e, x)) /\ \A k \in DOMAIN e : Append(e, x)[k] = e[k]
            /\ Refs(Append(e, x)) = Refs(e) \cup (IF x.ref > 0 THEN {Len(e) + 1} ELSE {})
        <4>1. {"ref", "items"} \subseteq DOMAIN x
          BY <2>3
        <4>2. x.ref \in Nat
          BY <2>3
        <4>3. Entry(e)
          OBVIOUS
        <4> QED
          BY <4>1, <4>2, <4>3, AppendEntry
      <3> QED
        BY <2>3, <2>4, <3>1
    <2>6. \A k \in Refs(more) : more[k].ref = e[k].ref
      BY <2>5 DEF Refs
    <2>7. FirstRef(more) = FirstRef(e)
      BY <2>5, <2>6, SameRefs
    <2> QED
      BY <2>1, <2>3, <2>4, <2>5, <2>7
  <1>2. CASE Inlines(e) # {}
    <2>1. PICK k : k = Min(Inlines(e))
      OBVIOUS
    <2>2. PICK n : n = Len(e)
      OBVIOUS
    <2>3. DOMAIN e = 1..n /\ n \in Nat
      BY <2>2, FirstRefIs
    <2>4. k \in Inlines(e)
      <3>1. Inlines(e) \in SUBSET Nat
        BY <2>3 DEF Inlines
      <3> QED
        BY <1>2, <2>1, <3>1, MinIs
    <2>5. k \in 1..n /\ e[k].ref = 0 /\ {"ref", "items"} \subseteq DOMAIN e[k]
      BY <2>3, <2>4 DEF Inlines, Entry
    <2>6. PICK x : x = [e[k] EXCEPT !.items = @ \cup {id}]
      OBVIOUS
    <2>7. x.ref = 0 /\ {"ref", "items"} \subseteq DOMAIN x
      BY <2>5, <2>6
    <2>8. PICK f : f = AddInline(e, id)
      OBVIOUS
    <2>9. f = [e EXCEPT ![k] = x]
      BY <1>2, <2>1, <2>6, <2>8 DEF AddInline
    <2>10. DOMAIN f = 1..n /\ f[k] = x /\ (\A i \in 1..n : i # k => f[i] = e[i]) /\ f = [i \in 1..n |-> f[i]]
      BY <2>3, <2>5, <2>9
    <2>11. IsSequence(f)
      BY <2>3, <2>10, FunctionIsSequence
    <2>12. \A i \in DOMAIN f : {"ref", "items"} \subseteq DOMAIN f[i] /\ f[i].ref \in Nat
      <3>1. \A i \in 1..n : {"ref", "items"} \subseteq DOMAIN e[i] /\ e[i].ref \in Nat
        BY <2>3 DEF Entry
      <3> QED
        BY <2>7, <2>10, <3>1
    <2>13. Entry(f)
      BY <2>11, <2>12 DEF Entry, IsSequence
    <2>14. \A i \in 1..n : f[i].ref = e[i].ref
      BY <2>5, <2>7, <2>10
    <2>15. Refs(f) = Refs(e) /\ \A i \in Refs(f) : f[i].ref = e[i].ref
      BY <2>3, <2>10, <2>14 DEF Refs
    <2>16. FirstRef(f) = FirstRef(e)
      BY <2>13, <2>15, SameRefs
    <2> QED
      BY <2>8, <2>13, <2>16
  <1> QED
    BY <1>1, <1>2

LEMMA RefAdded ==
    ASSUME NEW e, Entry(e), Refs(e) = {}, NEW id \in Nat, id > 0
    PROVE  Entry(Append(e, ByRef(id))) /\ FirstRef(Append(e, ByRef(id))) = id
  <1>1. {"ref", "items"} \subseteq DOMAIN ByRef(id) /\ ByRef(id).ref = id
    BY DEF ByRef
  <1>2. PICK x : x = ByRef(id)
    OBVIOUS
  <1>3. PICK more : more = Append(e, x)
    OBVIOUS
  <1>4. PICK n : n = Len(e) + 1
    OBVIOUS
  <1>5. Entry(more) /\ Refs(more) = {n} /\ more[n] = x
    BY <1>1, <1>2, <1>3, <1>4, AppendEntry
  <1>6. Min(Refs(more)) = n
    BY <1>5, FirstRefIs
  <1>7. FirstRef(more) = id
    BY <1>1, <1>2, <1>5, <1>6 DEF FirstRef
  <1> QED
    BY <1>2, <1>3, <1>5, <1>7

-----------------------------------------------------------------------------
(* The objects of the signer's revisions.                                    *)

NewObject(b) == Body(b) /\ b.type \in {"other", "field", "form", "dss"}

Rewritten(b, old) ==
    /\ Rewrites(b, old) /\ Body(b)
    /\ old.type = "page" => FirstRef(b.annots) = FirstRef(old.annots)

Good(doc, id, b) ==
    /\ id \in 1..(MaxId(doc) + 5)
    /\ id \in Numbers(doc) => Rewritten(b, SignerSees(doc, id))
    /\ id \notin Numbers(doc) => NewObject(b)

GoodObjects(doc, objects) == \A id \in DOMAIN objects : Good(doc, id, objects[id])

GoodRevision(doc, rev) ==
    /\ {"top", "packed", "filter", "xref", "root"} \subseteq DOMAIN rev
    /\ rev.packed = NoObjects /\ rev.filter = "none" /\ rev.root = RootId(doc)
    /\ GoodObjects(doc, rev.top)
    /\ RootId(doc) \in DOMAIN rev.top
    /\ rev.top[RootId(doc)].pages = SignerSees(doc, RootId(doc)).pages
    /\ rev.top[RootId(doc)].inlineDss = SignerSees(doc, RootId(doc)).inlineDss
    /\ LET form == FirstRef(rev.top[RootId(doc)].form)
       IN  form = FirstRef(SignerSees(doc, RootId(doc)).form) \/ form \in DOMAIN rev.top

LEMMA PutIs ==
    ASSUME NEW id, NEW b, NEW objects
    PROVE  /\ DOMAIN Put(id, b, objects) = {id} \cup DOMAIN objects
           /\ Put(id, b, objects)[id] = b
           /\ \A x \in DOMAIN objects : x # id => Put(id, b, objects)[x] = objects[x]
  BY DEF Put

LEMMA PutGood ==
    ASSUME NEW doc, NEW id, NEW b, NEW objects, GoodObjects(doc, objects), Good(doc, id, b)
    PROVE  GoodObjects(doc, Put(id, b, objects))
  <1> SUFFICES ASSUME NEW x \in DOMAIN Put(id, b, objects)
               PROVE  Good(doc, x, Put(id, b, objects)[x])
    BY DEF GoodObjects
  <1>1. CASE x = id
    <2>1. Put(id, b, objects)[x] = b
      BY <1>1, PutIs
    <2> QED
      BY <1>1, <2>1
  <1>2. CASE x # id
    <2>1. x \in DOMAIN objects
      <3>1. DOMAIN Put(id, b, objects) = {id} \cup DOMAIN objects
        BY PutIs
      <3> QED
        BY <1>2, <3>1
    <2>2. Put(id, b, objects)[x] = objects[x]
      BY <1>2, <2>1 DEF Put
    <2> QED
      BY <2>1, <2>2 DEF GoodObjects
  <1> QED
    BY <1>1, <1>2

LEMMA NothingGood ==
    ASSUME NEW doc
    PROVE  GoodObjects(doc, NoObjects) /\ DOMAIN NoObjects = {}
  BY DEF GoodObjects, NoObjects

LEMMA NewAre ==
    ASSUME NEW t, NEW v
    PROVE  NewObject(Other) /\ NewObject(Field(t, v)) /\ NewObject(Form(v)) /\ NewObject(Dss(v))
  BY DEF NewObject, Body, Other, Field, Form, Dss

LEMMA FieldReplaced ==
    ASSUME NEW b, NEW f, NEW v
    PROVE  /\ DOMAIN [b EXCEPT ![f] = v] = DOMAIN b
           /\ \A g \in DOMAIN b : g # f => [b EXCEPT ![f] = v][g] = b[g]
           /\ f \in DOMAIN b => [b EXCEPT ![f] = v][f] = v
  OBVIOUS

LEMMA RewrittenAre ==
    ASSUME NEW b, Body(b), NEW f, NEW v,
           \/ f \in {"items", "fields", "dss"}
           \/ f = "annots" /\ b.type = "page" /\ Entry(v) /\ FirstRef(v) = FirstRef(b.annots)
           \/ f = "form" /\ b.type = "catalog" /\ Entry(v)
    PROVE  Rewritten([b EXCEPT ![f] = v], b)
  <1>1. PICK new : new = [b EXCEPT ![f] = v]
    OBVIOUS
  <1>2. /\ DOMAIN new = DOMAIN b
        /\ \A g \in DOMAIN b : g # f => new[g] = b[g]
        /\ f \in DOMAIN b => new[f] = v
    BY <1>1, FieldReplaced
  <1>3. Rewrites(new, b)
    BY <1>2 DEF Rewrites
  <1>4. "type" \in DOMAIN new /\ new.type = b.type
    BY <1>2 DEF Body
  <1>5. b.type = "pages" => "kids" \in DOMAIN new
    BY <1>2 DEF Body
  <1>6. b.type = "page" => "annots" \in DOMAIN new /\ Entry(new.annots) /\ FirstRef(new.annots) = FirstRef(b.annots)
    BY <1>2 DEF Body
  <1>7. b.type = "catalog" => {"pages", "form", "dss", "inlineDss"} \subseteq DOMAIN new /\ Entry(new.form)
    BY <1>2 DEF Body
  <1>8. Rewritten(new, b)
    BY <1>3, <1>4, <1>5, <1>6, <1>7 DEF Rewritten, Body
  <1> QED
    BY <1>1, <1>8

\* What the signer reads is well formed.
LEMMA SeenIsBody ==
    ASSUME NEW doc, WellFormed(doc), NEW id, Defined(doc, id)
    PROVE  /\ Body(SignerSees(doc, id)) /\ Body(ReaderSees(doc, id)) /\ id \in 1..MaxId(doc) /\ id \in Numbers(doc)
           /\ id = RootId(doc) => SignerSees(doc, id).type = "catalog" /\ ReaderSees(doc, id).type = "catalog"
  <1>1. id \in Numbers(doc) /\ Document(doc)
    BY NumberIsDefined DEF WellFormed
  <1>2. SignerSees(doc, id) \in Definitions(doc, id) /\ ReaderSees(doc, id) \in Definitions(doc, id)
    BY <1>1, SeenIsDefined
  <1> QED
    BY <1>1, <1>2 DEF MaxId, WellFormed

\* A revision of the signer keeps a file well formed and readable.
LEMMA GoodRevisionKeeps ==
    ASSUME NEW doc, WellFormed(doc), Structured(doc), NEW rev, HasSlot(rev), GoodRevision(doc, rev)
    PROVE  LET more == Append(doc, rev)
           IN  /\ WellFormed(more) /\ Structured(more) /\ RootId(more) = RootId(doc) /\ FirstPage(more) = FirstPage(doc)
               /\ Parses(doc) => Parses(more)
               /\ \A n : DssUpTo(doc, n) /\ NamesDss(doc, rev.top, n) => DssUpTo(more, n)
  <1>1. PICK more : more = Append(doc, rev)
    OBVIOUS
  <1>2. PICK root : root = RootId(doc)
    OBVIOUS
  <1>3. /\ Document(doc) /\ MaxId(doc) \in Nat /\ DOMAIN rev.packed = {}
        /\ {"top", "packed", "filter", "xref", "root"} \subseteq DOMAIN rev /\ rev.root = root
        /\ root \in DOMAIN rev.top /\ rev.filter = "none"
    BY <1>2, NothingGood DEF MaxId, WellFormed, GoodRevision
  <1>4. \A id \in DOMAIN rev.top : Good(doc, id, rev.top[id])
    BY DEF GoodRevision, GoodObjects
  <1>5. Defined(doc, root)
    BY <1>2 DEF Structured
  <1>6. ASSUME NEW id \in DOMAIN rev.top
        PROVE  /\ Body(rev.top[id]) /\ id \in 1..(MaxId(doc) + 5)
               /\ id = root => rev.top[id].type = "catalog"
    <2>1. id \in 1..(MaxId(doc) + 5) /\ Body(rev.top[id])
      BY <1>4 DEF Good, Rewritten, NewObject
    <2>2. ASSUME id = root
          PROVE  rev.top[id].type = "catalog"
      <3>1. Body(SignerSees(doc, root)) /\ root \in Numbers(doc) /\ SignerSees(doc, root).type = "catalog"
        BY <1>2, <1>5, SeenIsBody
      <3>2. Rewrites(rev.top[root], SignerSees(doc, root))
        BY <1>4, <2>2, <3>1 DEF Good, Rewritten
      <3> QED
        BY <2>2, <3>1, <3>2 DEF Rewrites, Body
    <2> QED
      BY <2>1, <2>2
  <1>7. WellFormed(more) /\ RootId(more) = root
    <2>1. MaxId(doc) + 5 \in Nat /\ DOMAIN rev.top \cup DOMAIN rev.packed \subseteq 1..(MaxId(doc) + 5)
          /\ DOMAIN rev.top \cup DOMAIN rev.packed # {}
      BY <1>3, <1>6
    <2>2. \A id \in DOMAIN rev.top : Body(rev.top[id]) /\ (id = RootId(doc) => rev.top[id].type = "catalog")
      BY <1>2, <1>6
    <2>3. \A id \in DOMAIN rev.packed : Body(rev.packed[id]) /\ (id = RootId(doc) => rev.packed[id].type = "catalog")
      BY <1>3
    <2> QED
      BY <1>1, <1>2, <1>3, <2>1, <2>2, <2>3, GrowsWellFormed
  <1>8. /\ Document(more) /\ Len(more) = Len(doc) + 1
        /\ \A i \in 1..Len(doc) : more[i] = doc[i]
        /\ more[Len(doc) + 1] = rev
        /\ Numbers(more) = Numbers(doc) \cup DOMAIN rev.top
    BY <1>1, <1>3, OneMore
  <1>9. ASSUME NEW id
        PROVE  /\ id \in DOMAIN rev.top => SignerSees(more, id) = rev.top[id]
               /\ id \notin DOMAIN rev.top /\ Defined(doc, id) => SignerSees(more, id) = SignerSees(doc, id)
    BY <1>1, <1>3, OneMoreSees
  <1>10. \A id : Defined(more, id) <=> Defined(doc, id) \/ id \in DOMAIN rev.top
    BY <1>8, NumberIsDefined
  <1>11. ASSUME NEW id, Defined(doc, id)
         PROVE  SameNode(SignerSees(more, id), SignerSees(doc, id))
    <2>1. Body(SignerSees(doc, id)) /\ id \in Numbers(doc)
      BY <1>11, SeenIsBody
    <2>2. CASE id \in DOMAIN rev.top
      <3>1. SignerSees(more, id) = rev.top[id] /\ Rewritten(rev.top[id], SignerSees(doc, id))
        BY <1>4, <1>9, <2>1, <2>2 DEF Good
      <3> QED
        BY <2>1, <3>1 DEF Rewritten, Rewrites, Body, SameNode
    <2>3. CASE id \notin DOMAIN rev.top
      BY <1>9, <1>11, <2>3 DEF SameNode
    <2> QED
      BY <2>2, <2>3
  <1>12. ASSUME NEW id, Defined(more, id), ~Defined(doc, id)
         PROVE  SignerSees(more, id).type \notin {"pages", "page"}
    <2>1. id \in DOMAIN rev.top /\ id \notin Numbers(doc)
      BY <1>10, <1>12, NumberIsDefined
    <2>2. SignerSees(more, id) = rev.top[id] /\ NewObject(rev.top[id])
      BY <1>4, <1>9, <2>1 DEF Good
    <2> QED
      BY <2>2 DEF NewObject
  <1>13. Structured(more) /\ FirstPage(more) = FirstPage(doc) /\ (Parses(doc) => Parses(more))
    <2>1. \A i \in DOMAIN more : more[i].filter \in {"none", "flate"}
      <3>1. DOMAIN more = 1..(Len(doc) + 1) /\ Len(doc) \in Nat /\ DOMAIN doc = 1..Len(doc)
        BY <1>3, <1>8, DocumentBasics
      <3>2. \A i \in 1..(Len(doc) + 1) : i \in 1..Len(doc) \/ i = Len(doc) + 1
        BY <3>1
      <3> QED
        BY <1>3, <1>8, <3>1, <3>2 DEF Structured
    <2>2. SignerSees(more, root) = rev.top[root]
      BY <1>3, <1>9
    <2>3. SignerSees(more, root).pages = SignerSees(doc, root).pages
      BY <1>2, <2>2 DEF GoodRevision
    <2>4. FirstRef(SignerSees(more, root).form) = FirstRef(SignerSees(doc, root).form)
          \/ Defined(more, FirstRef(SignerSees(more, root).form))
      BY <1>2, <1>10, <2>2 DEF GoodRevision
    <2> QED
      BY <1>2, <1>7, <1>10, <1>11, <1>12, <2>1, <2>3, <2>4, StructureKept
  <1>14. ASSUME NEW n, DssUpTo(doc, n), NamesDss(doc, rev.top, n)
         PROVE  DssUpTo(more, n)
    <2>1. Continues(doc, rev.top)
      <3> SUFFICES ASSUME NEW id \in DOMAIN rev.top \cap Numbers(doc)
                   PROVE  \E b \in Definitions(doc, id) : Rewrites(rev.top[id], b)
        BY DEF Continues
      <3>1. SignerSees(doc, id) \in Definitions(doc, id)
        BY <1>3, NumberIsDefined, SeenIsDefined
      <3> QED
        BY <1>4, <3>1 DEF Good, Rewritten
    <2>2. Continues(doc, rev.packed) /\ DOMAIN rev.top \cap DOMAIN rev.packed = {}
          /\ RootId(doc) \notin DOMAIN rev.packed
      BY <1>3 DEF Continues
    <2> QED
      BY <1>1, <1>2, <1>3, <1>14, <2>1, <2>2, GrowsDssUpTo
  <1> QED
    BY <1>1, <1>2, <1>7, <1>13, <1>14

LEMMA PutOther ==
    ASSUME NEW id, NEW b, NEW objects, NEW x \in DOMAIN objects, x # id
    PROVE  x \in DOMAIN Put(id, b, objects) /\ Put(id, b, objects)[x] = objects[x]
  BY DEF Put

LEMMA UnchangedIsRewritten ==
    ASSUME NEW b, Body(b)
    PROVE  Rewritten(b, b)
  BY DEF Rewritten, Rewrites

\* The catalog with a form: the one it had, or the new one.
LEMMA AcroFormAdded ==
    ASSUME NEW cat, Body(cat), cat.type = "catalog", NEW form \in Nat, form > 0
    PROVE  LET new == AddAcroForm(cat, form)
           IN  /\ Rewritten(new, cat) /\ new.pages = cat.pages /\ new.dss = cat.dss /\ new.inlineDss = cat.inlineDss
               /\ FirstRef(new.form) = IF FirstRef(cat.form) > 0 THEN FirstRef(cat.form) ELSE form
  <1>1. {"pages", "form", "dss", "inlineDss"} \subseteq DOMAIN cat /\ Entry(cat.form)
    BY DEF Body
  <1>2. FirstRef(cat.form) > 0 <=> Refs(cat.form) # {}
    BY <1>1, FirstRefIs
  <1>3. CASE Refs(cat.form) # {}
    <2>1. AddAcroForm(cat, form) = cat
      BY <1>3 DEF AddAcroForm
    <2> QED
      BY <1>2, <1>3, <2>1, UnchangedIsRewritten
  <1>4. CASE Refs(cat.form) = {}
    <2>1. PICK v : v = Append(cat.form, ByRef(form))
      OBVIOUS
    <2>2. AddAcroForm(cat, form) = [cat EXCEPT !["form"] = v]
      BY <1>4, <2>1 DEF AddAcroForm
    <2>3. Entry(v) /\ FirstRef(v) = form
      BY <1>1, <1>4, <2>1, RefAdded
    <2>4. PICK new : new = [cat EXCEPT !["form"] = v]
      OBVIOUS
    <2>5. Rewritten(new, cat)
      BY <2>3, <2>4, RewrittenAre
    <2>6. new.pages = cat.pages /\ new.dss = cat.dss /\ new.inlineDss = cat.inlineDss /\ new.form = v
      BY <1>1, <2>4
    <2> QED
      BY <1>2, <1>4, <2>2, <2>3, <2>4, <2>5, <2>6
  <1> QED
    BY <1>3, <1>4

\* A revision of these objects, with a cross-reference stream or without.
LEMMA RevisionIs ==
    ASSUME NEW doc, MaxId(doc) \in Nat, NEW objects, GoodObjects(doc, objects), NEW root, root = RootId(doc),
           root \in DOMAIN objects,
           objects[root].pages = SignerSees(doc, root).pages,
           objects[root].inlineDss = SignerSees(doc, root).inlineDss,
           NEW next, Good(doc, next, Other), next # root,
           LET form == FirstRef(objects[root].form)
           IN  form = FirstRef(SignerSees(doc, root).form) \/ form \in DOMAIN objects,
           NEW slot, NEW n
    PROVE  LET rev == Revision(doc, objects, next, slot, n)
           IN  /\ GoodRevision(doc, rev)
               /\ \A x \in DOMAIN objects : x # next => x \in DOMAIN rev.top /\ rev.top[x] = objects[x]
  <1>1. PICK rev : rev = Revision(doc, objects, next, slot, n)
    OBVIOUS
  <1>2. /\ {"top", "packed", "filter", "xref", "root"} \subseteq DOMAIN rev
        /\ rev.packed = NoObjects /\ rev.filter = "none" /\ rev.root = RootId(doc)
        /\ rev.top = Put(next, Other, objects) \/ rev.top = objects
    BY <1>1 DEF Revision
  <1>3. GoodObjects(doc, rev.top)
    BY <1>2, PutGood
  <1>4. \A x \in DOMAIN objects : x # next => x \in DOMAIN rev.top /\ rev.top[x] = objects[x]
    BY <1>2, PutOther
  <1>5. DOMAIN objects \subseteq DOMAIN rev.top
    BY <1>2 DEF Put
  <1>6. root \in DOMAIN rev.top /\ rev.top[root] = objects[root]
    BY <1>4
  <1>7. GoodRevision(doc, rev)
    BY <1>2, <1>3, <1>5, <1>6 DEF GoodRevision
  <1> QED
    BY <1>1, <1>4, <1>7

SameCatalog(new, cat) == new.pages = cat.pages /\ new.dss = cat.dss /\ new.inlineDss = cat.inlineDss

LEMMA SignatureRevisionIs ==
    ASSUME NEW doc, WellFormed(doc), Parses(doc), NEW title, NEW for, NEW n
    PROVE  LET rev == SignatureRevision(doc, title, for, n)
           IN  /\ GoodRevision(doc, rev)
               /\ rev.top[RootId(doc)].dss = SignerSees(doc, RootId(doc)).dss
  <1> DEFINE m     == MaxId(doc)
             root  == RootId(doc)
             sig   == MaxId(doc) + 1
             field == sig + 1
             cat   == SignerSees(doc, RootId(doc))
             page  == FirstPage(doc)
             arr   == FirstRef(SignerSees(doc, page).annots)
             old   == FirstRef(cat.form)
             form  == IF old > 0 THEN old ELSE field + 1
             next  == IF old > 0 THEN field + 1 ELSE field + 2
             place == IF arr > 0 THEN arr ELSE page
             noted == IF arr > 0
                      THEN [SignerSees(doc, arr) EXCEPT !.items = @ \cup {field}]
                      ELSE [SignerSees(doc, page) EXCEPT !.annots = AddInline(@, field)]
             listed == IF old > 0
                       THEN [SignerSees(doc, old) EXCEPT !.fields = AddInline(@, field)]
                       ELSE Form(<<Inline({field})>>)
             first  == Put(root, AddAcroForm(cat, form), NoObjects)
             second == Put(form, listed, first)
             third  == Put(place, noted, second)
             fourth == Put(field, Field(title, sig), third)
             all    == Put(sig, Other, fourth)
  <1>1. SignatureRevision(doc, title, for, n) = Revision(doc, all, next, Slot(for), n)
    BY DEF SignatureRevision
  <1>2. m \in Nat /\ Numbers(doc) \subseteq 1..m /\ sig = m + 1 /\ field = m + 2
    BY DEF MaxId, WellFormed
  <1>3. /\ Defined(doc, root) /\ Body(cat) /\ cat.type = "catalog" /\ root \in 1..m /\ root \in Numbers(doc)
        /\ {"form", "pages", "dss", "inlineDss"} \subseteq DOMAIN cat /\ Entry(cat.form)
    <2>1. Defined(doc, root)
      BY DEF Parses, Structured
    <2>2. Body(cat) /\ cat.type = "catalog" /\ root \in 1..m /\ root \in Numbers(doc)
      BY <2>1, SeenIsBody
    <2> QED
      BY <2>1, <2>2 DEF Body
  <1>4. /\ Defined(doc, page) /\ SignerSees(doc, page).type = "page" /\ Body(SignerSees(doc, page))
        /\ page \in 1..m /\ page \in Numbers(doc) /\ Entry(SignerSees(doc, page).annots)
    <2>1. Defined(doc, page) /\ SignerSees(doc, page).type = "page"
      BY FirstPageIs DEF Parses
    <2>2. Body(SignerSees(doc, page)) /\ page \in 1..m /\ page \in Numbers(doc)
      BY <2>1, SeenIsBody
    <2> QED
      BY <2>1, <2>2 DEF Body
  <1>5. arr \in Nat /\ (arr > 0 => Defined(doc, arr) /\ SignerSees(doc, arr).type = "array")
    BY <1>4, FirstRefIs DEF Parses, Structured
  <1>6. old \in Nat /\ (old > 0 => Defined(doc, old))
    BY <1>3, FirstRefIs DEF Parses, Structured
  <1>7. form \in Nat /\ form > 0 /\ form \in 1..(m + 5)
        /\ (old > 0 => form = old /\ form \in Numbers(doc)) /\ (~(old > 0) => form \notin Numbers(doc))
    <2>1. CASE old > 0
      <3>1. old \in 1..m /\ old \in Numbers(doc)
        BY <1>6, <2>1, SeenIsBody
      <3> QED
        BY <1>2, <2>1, <3>1
    <2>2. CASE ~(old > 0)
      <3>1. form = m + 3
        BY <1>2, <2>2
      <3> QED
        BY <1>2, <2>2, <3>1
    <2> QED
      BY <2>1, <2>2
  <1>8. next \in 1..(m + 5) /\ next \notin Numbers(doc) /\ next # root
    <2>1. next \in {m + 3, m + 4}
      BY <1>2
    <2> HIDE DEF next
    <2>2. next \in Nat /\ next > m /\ next <= m + 5
      BY <1>2, <2>1
    <2> QED
      BY <1>2, <1>3, <2>2
  <1>9. /\ sig \in 1..(m + 5) /\ sig \notin Numbers(doc) /\ sig # root
        /\ field \in 1..(m + 5) /\ field \notin Numbers(doc) /\ field # root
    BY <1>2, <1>3
  <1>10. /\ place \in Numbers(doc) /\ place \in 1..(m + 5) /\ place # root
    <2>1. CASE arr > 0
      <3>1. arr \in 1..m /\ arr \in Numbers(doc)
        BY <1>5, <2>1, SeenIsBody
      <3>2. arr # root
        BY <1>3, <1>5, <2>1
      <3> QED
        BY <1>2, <2>1, <3>1, <3>2
    <2>2. CASE ~(arr > 0)
      <3>1. page # root
        BY <1>3, <1>4
      <3> QED
        BY <1>2, <1>4, <2>2, <3>1
    <2> QED
      BY <2>1, <2>2
  <1>11. Rewritten(noted, SignerSees(doc, place))
    <2>1. CASE arr > 0
      <3>1. PICK v : v = SignerSees(doc, arr).items \cup {field}
        OBVIOUS
      <3>2. noted = [SignerSees(doc, arr) EXCEPT !["items"] = v]
        BY <2>1, <3>1
      <3>3. Body(SignerSees(doc, arr))
        BY <1>5, <2>1, SeenIsBody
      <3>4. Rewritten([SignerSees(doc, arr) EXCEPT !["items"] = v], SignerSees(doc, arr))
        BY <3>3, RewrittenAre
      <3> QED
        BY <2>1, <3>2, <3>4
    <2>2. CASE ~(arr > 0)
      <3>1. PICK v : v = AddInline(SignerSees(doc, page).annots, field)
        OBVIOUS
      <3>2. noted = [SignerSees(doc, page) EXCEPT !["annots"] = v]
        BY <2>2, <3>1
      <3>3. Entry(v) /\ FirstRef(v) = FirstRef(SignerSees(doc, page).annots)
        BY <1>4, <3>1, InlineAdded
      <3>4. Rewritten([SignerSees(doc, page) EXCEPT !["annots"] = v], SignerSees(doc, page))
        BY <1>4, <3>3, RewrittenAre
      <3> QED
        BY <2>2, <3>2, <3>4
    <2> QED
      BY <2>1, <2>2
  <1>12. /\ old > 0 => Rewritten(listed, SignerSees(doc, form))
         /\ ~(old > 0) => NewObject(listed)
         /\ form = root => SameCatalog(listed, cat) /\ listed.form = cat.form
    <2>1. CASE old > 0
      <3>1. PICK v : v = AddInline(SignerSees(doc, old).fields, field)
        OBVIOUS
      <3>2. listed = [SignerSees(doc, old) EXCEPT !["fields"] = v] /\ form = old
        BY <2>1, <3>1
      <3>3. Body(SignerSees(doc, old))
        BY <1>6, <2>1, SeenIsBody
      <3>4. Rewritten([SignerSees(doc, old) EXCEPT !["fields"] = v], SignerSees(doc, old))
        BY <3>3, RewrittenAre
      <3>5. form = root => SameCatalog(listed, cat) /\ listed.form = cat.form
        <4> SUFFICES ASSUME form = root
                     PROVE  SameCatalog(listed, cat) /\ listed.form = cat.form
          OBVIOUS
        <4>1. SignerSees(doc, old) = cat
          BY <3>2
        <4>2. listed = [cat EXCEPT !["fields"] = v]
          BY <3>2, <4>1
        <4> HIDE DEF listed, cat
        <4> QED
          BY <1>3, <4>2 DEF SameCatalog
      <3> QED
        BY <2>1, <3>2, <3>4, <3>5
    <2>2. CASE ~(old > 0)
      <3>1. listed = Form(<<Inline({field})>>)
        BY <2>2
      <3>2. form # root
        BY <1>3, <1>7, <2>2
      <3> QED
        BY <2>2, <3>1, <3>2, NewAre
    <2> QED
      BY <2>1, <2>2
  <1>13. /\ Rewritten(AddAcroForm(cat, form), cat)
         /\ SameCatalog(AddAcroForm(cat, form), cat)
         /\ FirstRef(AddAcroForm(cat, form).form) = form
    <2>1. /\ Rewritten(AddAcroForm(cat, form), cat) /\ SameCatalog(AddAcroForm(cat, form), cat)
          /\ FirstRef(AddAcroForm(cat, form).form) = IF old > 0 THEN old ELSE form
      <3> HIDE DEF form, cat
      <3> QED
        BY <1>3, <1>7, AcroFormAdded DEF SameCatalog
    <2> QED
      BY <1>7, <2>1
  <1> HIDE DEF sig, field, form, next, place, noted, listed
  <1>14. Good(doc, root, AddAcroForm(cat, form)) /\ Good(doc, form, listed) /\ Good(doc, place, noted)
    <2>1. root \in 1..(m + 5)
      BY <1>2, <1>3
    <2> QED
      BY <1>3, <1>7, <1>10, <1>11, <1>12, <1>13, <2>1 DEF Good
  <1>15. Good(doc, field, Field(title, sig)) /\ Good(doc, sig, Other) /\ Good(doc, next, Other)
    BY <1>8, <1>9, NewAre DEF Good
  <1>16. GoodObjects(doc, all)
    <2>1. GoodObjects(doc, first)
      BY <1>14, NothingGood, PutGood
    <2>2. GoodObjects(doc, second)
      BY <1>14, <2>1, PutGood
    <2>3. GoodObjects(doc, third)
      BY <1>14, <2>2, PutGood
    <2>4. GoodObjects(doc, fourth)
      BY <1>15, <2>3, PutGood
    <2> QED
      BY <1>15, <2>4, PutGood
  <1>17. /\ root \in DOMAIN all /\ form \in DOMAIN all
         /\ (all[root] = listed /\ form = root) \/ all[root] = AddAcroForm(cat, form)
    <2>1. root \in DOMAIN first /\ first[root] = AddAcroForm(cat, form)
      BY DEF Put
    <2>2. root \in DOMAIN second /\ form \in DOMAIN second
          /\ ((second[root] = listed /\ form = root) \/ second[root] = AddAcroForm(cat, form))
      <3>1. DOMAIN second = {form} \cup DOMAIN first /\ second[form] = listed
        <4>1. \A o : DOMAIN Put(form, listed, o) = {form} \cup DOMAIN o /\ Put(form, listed, o)[form] = listed
          BY PutIs
        <4> QED
          BY <4>1, Zenon
      <3>2. form # root => second[root] = first[root]
        BY <2>1, PutOther
      <3> QED
        BY <2>1, <3>1, <3>2
    <2> HIDE DEF first, second
    <2>3. root \in DOMAIN third /\ form \in DOMAIN third /\ third[root] = second[root]
      BY <1>10, <2>2 DEF Put
    <2> HIDE DEF third
    <2>4. root \in DOMAIN fourth /\ form \in DOMAIN fourth /\ fourth[root] = third[root]
      BY <1>9, <2>3 DEF Put
    <2> HIDE DEF fourth
    <2>5. root \in DOMAIN all /\ form \in DOMAIN all /\ all[root] = fourth[root]
      BY <1>9, <2>4 DEF Put
    <2> QED
      BY <2>2, <2>3, <2>4, <2>5
  <1> HIDE DEF all
  <1>18. /\ all[root].pages = cat.pages /\ all[root].dss = cat.dss /\ all[root].inlineDss = cat.inlineDss
         /\ (FirstRef(all[root].form) = old \/ FirstRef(all[root].form) \in DOMAIN all)
    BY <1>12, <1>13, <1>17 DEF SameCatalog
  <1>19. PICK rev : rev = Revision(doc, all, next, Slot(for), n)
    OBVIOUS
  <1>20. GoodRevision(doc, rev) /\ rev.top[root] = all[root]
    BY <1>2, <1>8, <1>15, <1>16, <1>17, <1>18, <1>19, RevisionIs
  <1> QED
    BY <1>1, <1>18, <1>19, <1>20

-----------------------------------------------------------------------------
(* The DSS of an operation.                                                  *)

\* Both readings find one catalog entry, and a DSS of this operation behind it.
HasDss(doc, op) ==
    LET dss == SignerSees(doc, RootId(doc)).dss
    IN  /\ Defined(doc, RootId(doc)) /\ ReaderSees(doc, RootId(doc)).dss = dss
        /\ dss # 0 /\ Defined(doc, dss)
        /\ \A b \in {SignerSees(doc, dss), ReaderSees(doc, dss)} : "op" \in DOMAIN b /\ b.op = op

LEMMA DssIs ==
    ASSUME NEW doc, NEW op, HasDss(doc, op)
    PROVE  DssOf(doc) = op
  BY DEF HasDss, DssOf

LEMMA SignatureNamesDss ==
    ASSUME NEW doc, WellFormed(doc), NEW objects,
           objects[RootId(doc)].dss = SignerSees(doc, RootId(doc)).dss, NEW n
    PROVE  NamesDss(doc, objects, n)
  <1>1. SignerSees(doc, RootId(doc)) \in Definitions(doc, RootId(doc))
    BY NumberIsDefined, SeenIsDefined DEF WellFormed
  <1> QED
    BY <1>1, Zenon DEF NamesDss

\* A signature revision takes the DSS over.
LEMMA DssKept ==
    ASSUME NEW doc, WellFormed(doc), NEW op, HasDss(doc, op), NEW rev, HasSlot(rev),
           GoodRevision(doc, rev), rev.top[RootId(doc)].dss = SignerSees(doc, RootId(doc)).dss
    PROVE  HasDss(Append(doc, rev), op)
  <1>1. PICK more : more = Append(doc, rev)
    OBVIOUS
  <1>2. PICK root : root = RootId(doc)
    OBVIOUS
  <1>3. PICK dss : dss = SignerSees(doc, root).dss
    OBVIOUS
  <1>4. /\ Document(doc) /\ DOMAIN rev.packed = {} /\ rev.root = root /\ root \in DOMAIN rev.top
    BY <1>2, NothingGood DEF WellFormed, GoodRevision
  <1>5. RootId(more) = root /\ Numbers(more) = Numbers(doc) \cup DOMAIN rev.top
    BY <1>1, <1>4, OneMore DEF RootId
  <1>6. SignerSees(more, root) = rev.top[root] /\ ReaderSees(more, root) = rev.top[root]
    BY <1>1, <1>4, OneMoreSees
  <1>7. /\ dss # 0 /\ Defined(doc, dss) /\ dss \in Numbers(doc)
        /\ "op" \in DOMAIN SignerSees(doc, dss) /\ SignerSees(doc, dss).op = op
        /\ "op" \in DOMAIN ReaderSees(doc, dss) /\ ReaderSees(doc, dss).op = op
    BY <1>2, <1>3, NumberIsDefined DEF HasDss
  <1>8. Defined(more, root) /\ Defined(more, dss)
    BY <1>4, <1>5, <1>7, NumberIsDefined
  <1>9. \A b \in {SignerSees(more, dss), ReaderSees(more, dss)} : "op" \in DOMAIN b /\ b.op = op
    <2>1. CASE dss \in DOMAIN rev.top
      <3>1. SignerSees(more, dss) = rev.top[dss] /\ ReaderSees(more, dss) = rev.top[dss]
        BY <1>1, <1>4, <2>1, OneMoreSees
      <3>2. Rewrites(rev.top[dss], SignerSees(doc, dss))
        BY <1>7, <2>1 DEF GoodRevision, GoodObjects, Good, Rewritten
      <3> QED
        BY <1>7, <3>1, <3>2 DEF Rewrites
    <2>2. CASE dss \notin DOMAIN rev.top
      <3>1. SignerSees(more, dss) = SignerSees(doc, dss) /\ ReaderSees(more, dss) = ReaderSees(doc, dss)
        BY <1>1, <1>4, <1>7, <2>2, OneMoreSees
      <3> QED
        BY <1>7, <3>1
    <2> QED
      BY <2>1, <2>2
  <1>10. SignerSees(more, root).dss = dss /\ ReaderSees(more, root).dss = dss
    BY <1>2, <1>3, <1>6
  <1>11. HasDss(more, op)
    BY <1>5, <1>7, <1>8, <1>9, <1>10 DEF HasDss
  <1> QED
    BY <1>1, <1>11

\* Both readings find the /DSS that the catalog the signer read in doc has inline.
InlineAs(more, doc) ==
    /\ SignerSees(more, RootId(more)).inlineDss = InlineDssRead(doc)
    /\ ReaderSees(more, RootId(more)).inlineDss = InlineDssRead(doc)

LEMMA InlineTakenOver ==
    ASSUME NEW doc, WellFormed(doc), NEW rev, HasSlot(rev), GoodRevision(doc, rev)
    PROVE  InlineAs(Append(doc, rev), doc)
  <1>1. PICK more : more = Append(doc, rev)
    OBVIOUS
  <1>2. PICK root : root = RootId(doc)
    OBVIOUS
  <1>3. Document(doc) /\ rev.root = root /\ root \in DOMAIN rev.top
    BY <1>2 DEF WellFormed, GoodRevision
  <1>4. RootId(more) = root
    BY <1>1, <1>3, OneMore DEF RootId
  <1>5. SignerSees(more, root) = rev.top[root] /\ ReaderSees(more, root) = rev.top[root]
    BY <1>1, <1>3, OneMoreSees
  <1>6. rev.top[root].inlineDss = SignerSees(doc, root).inlineDss
    BY <1>2 DEF GoodRevision
  <1> QED
    BY <1>1, <1>2, <1>4, <1>5, <1>6 DEF InlineAs, InlineDssRead

LEMMA WholeIs ==
    ASSUME NEW doc, Document(doc)
    PROVE  SubSeq(doc, 1, Len(doc)) = doc
  <1>1. PICK k : k = Len(doc)
    OBVIOUS
  <1>2. IsSequence(doc) /\ k \in 0..Len(doc)
    BY <1>1, DocumentBasics
  <1>3. PICK t : t = SubSeq(doc, 1, k)
    OBVIOUS
  <1>4. IsSequence(t) /\ Len(t) = k /\ \A i \in 1..k : t[i] = doc[i]
    BY <1>2, <1>3, SubSeqIs
  <1>5. t = doc
    BY <1>1, <1>2, <1>4, SameSequence
  <1> QED
    BY <1>1, <1>3, <1>5

LEMMA SamePrefix ==
    ASSUME NEW doc, NEW longer, Document(doc), Document(longer), Len(doc) <= Len(longer),
           NEW k \in 1..Len(doc), \A i \in 1..Len(doc) : longer[i] = doc[i]
    PROVE  SubSeq(longer, 1, k) = SubSeq(doc, 1, k)
  <1>1. IsSequence(doc) /\ IsSequence(longer) /\ Len(doc) \in Nat /\ Len(longer) \in Nat
    BY DocumentBasics
  <1>2. k \in 0..Len(doc) /\ k \in 0..Len(longer) /\ \A i \in 1..k : i \in 1..Len(doc)
    BY <1>1
  <1>3. PICK s : s = SubSeq(doc, 1, k)
    OBVIOUS
  <1>4. PICK t : t = SubSeq(longer, 1, k)
    OBVIOUS
  <1>5. IsSequence(s) /\ Len(s) = k /\ \A i \in 1..k : s[i] = doc[i]
    BY <1>1, <1>2, <1>3, SubSeqIs
  <1>6. IsSequence(t) /\ Len(t) = k /\ \A i \in 1..k : t[i] = longer[i]
    BY <1>1, <1>2, <1>4, SubSeqIs
  <1>7. \A i \in 1..k : s[i] = t[i]
    BY <1>2, <1>5, <1>6
  <1>8. s = t
    BY <1>5, <1>6, <1>7, SameSequence
  <1> QED
    BY <1>3, <1>4, <1>8

\* The revision with an operation's validation material: a DSS of its own, and
\* the catalog that names it.
ListsMaterial(doc, rev, op) ==
    LET cat == SignerSees(doc, RootId(doc))
        dss == MaxId(doc) + 2
    IN  /\ HasSlot(rev) /\ rev.slot = NoSlot /\ GoodRevision(doc, rev) /\ rev.xref = Last(doc).xref
        /\ DOMAIN rev.top \cap Numbers(doc) = {RootId(doc)}
        /\ rev.top[RootId(doc)].type = "catalog"
        /\ rev.top[RootId(doc)].form = cat.form /\ rev.top[RootId(doc)].dss = dss
        /\ dss \in DOMAIN rev.top \ Numbers(doc) /\ dss # 0 /\ rev.top[dss] = Dss(op)
        /\ \A id \in DOMAIN rev.top \ Numbers(doc) : rev.top[id] = Other \/ rev.top[id] = Dss(op)

LEMMA DssRevisionIs ==
    ASSUME NEW doc, WellFormed(doc), Structured(doc), NEW op
    PROVE  \E rev : append_dss(doc, op) = Append(doc, rev) /\ ListsMaterial(doc, rev, op)
  <1> DEFINE m        == MaxId(doc)
             root     == RootId(doc)
             material == MaxId(doc) + 1
             dss      == material + 1
             cat      == [SignerSees(doc, RootId(doc)) EXCEPT !.dss = dss]
             first    == Put(root, cat, NoObjects)
             second   == Put(dss, Dss(op), first)
             all      == Put(material, Other, second)
  <1>1. append_dss(doc, op) = Append(doc, Revision(doc, all, dss + 1, NoSlot, 0))
    BY DEF append_dss
  <1>2. m \in Nat /\ Numbers(doc) \subseteq 1..m /\ material = m + 1 /\ dss = m + 2 /\ Document(doc)
    BY DEF MaxId, WellFormed
  <1>3. /\ Body(SignerSees(doc, root)) /\ SignerSees(doc, root).type = "catalog" /\ root \in 1..m
        /\ root \in Numbers(doc) /\ {"pages", "form", "dss", "inlineDss", "type"} \subseteq DOMAIN SignerSees(doc, root)
    <2>1. Defined(doc, root)
      BY DEF Structured
    <2>2. Body(SignerSees(doc, root)) /\ SignerSees(doc, root).type = "catalog" /\ root \in 1..m
          /\ root \in Numbers(doc)
      BY <2>1, SeenIsBody
    <2> QED
      BY <2>2 DEF Body
  <1>4. /\ Rewritten(cat, SignerSees(doc, root)) /\ cat.pages = SignerSees(doc, root).pages
        /\ cat.form = SignerSees(doc, root).form /\ cat.dss = dss /\ cat.type = "catalog"
        /\ cat.inlineDss = SignerSees(doc, root).inlineDss
    <2>1. PICK v : v = dss
      OBVIOUS
    <2>2. PICK b : b = SignerSees(doc, root)
      OBVIOUS
    <2>3. cat = [b EXCEPT !["dss"] = v]
      BY <2>1, <2>2
    <2>4. PICK new : new = [b EXCEPT !["dss"] = v]
      OBVIOUS
    <2>5. Rewritten(new, b)
      BY <1>3, <2>2, <2>4, RewrittenAre
    <2>6. /\ new.pages = b.pages /\ new.form = b.form /\ new.dss = v /\ new.type = b.type
          /\ new.inlineDss = b.inlineDss
      BY <1>3, <2>2, <2>4
    <2> QED
      BY <1>3, <2>1, <2>2, <2>3, <2>4, <2>5, <2>6
  <1>5. /\ material \notin Numbers(doc) /\ dss \notin Numbers(doc) /\ dss + 1 \notin Numbers(doc)
        /\ material # root /\ dss # root /\ dss + 1 # root /\ material # dss /\ dss # 0 /\ dss # dss + 1 /\ material # dss + 1
        /\ material \in 1..(m + 5) /\ dss \in 1..(m + 5) /\ dss + 1 \in 1..(m + 5) /\ root \in 1..(m + 5)
    BY <1>2, <1>3
  <1> HIDE DEF material, dss, cat
  <1>6. Good(doc, root, cat) /\ Good(doc, dss, Dss(op)) /\ Good(doc, material, Other) /\ Good(doc, dss + 1, Other)
    BY <1>3, <1>4, <1>5, NewAre DEF Good
  <1>7. GoodObjects(doc, all)
    <2>1. GoodObjects(doc, first)
      BY <1>6, NothingGood, PutGood
    <2>2. GoodObjects(doc, second)
      BY <1>6, <2>1, PutGood
    <2> QED
      BY <1>6, <2>2, PutGood
  <1>8. /\ root \in DOMAIN all /\ all[root] = cat /\ dss \in DOMAIN all /\ all[dss] = Dss(op)
        /\ \A x \in DOMAIN all : x \in {root, dss, material}
        /\ all[material] = Other
    <2>1. DOMAIN first = {root} /\ first[root] = cat
      BY NothingGood DEF Put
    <2> HIDE DEF first
    <2>2. DOMAIN second = {dss, root} /\ second[root] = cat /\ second[dss] = Dss(op)
      BY <1>5, <2>1 DEF Put
    <2> HIDE DEF second
    <2> QED
      BY <1>5, <2>2 DEF Put
  <1> HIDE DEF all
  <1>9. PICK rev : rev = Revision(doc, all, dss + 1, NoSlot, 0)
    OBVIOUS
  <1>10. /\ GoodRevision(doc, rev)
         /\ \A x \in DOMAIN all : x # dss + 1 => x \in DOMAIN rev.top /\ rev.top[x] = all[x]
    <2>1. FirstRef(all[root].form) = FirstRef(SignerSees(doc, root).form)
      BY <1>4, <1>8
    <2>2. all[root].pages = SignerSees(doc, root).pages /\ all[root].inlineDss = SignerSees(doc, root).inlineDss
      BY <1>4, <1>8
    <2> QED
      BY <1>2, <1>5, <1>6, <1>7, <1>8, <1>9, <2>1, <2>2, RevisionIs
  <1>11. HasSlot(rev) /\ rev.slot = NoSlot /\ rev.xref = Last(doc).xref
    BY <1>9 DEF Revision, HasSlot, NoSlot
  <1>12. \A x \in DOMAIN rev.top : x \in DOMAIN all \/ (x = dss + 1 /\ rev.top[x] = Other)
    <2>1. rev.top = all \/ rev.top = Put(dss + 1, Other, all)
      BY <1>9 DEF Revision
    <2>2. ASSUME rev.top = Put(dss + 1, Other, all)
          PROVE  \A x \in DOMAIN rev.top : x \in DOMAIN all \/ (x = dss + 1 /\ rev.top[x] = Other)
      BY <2>2 DEF Put
    <2> QED
      BY <2>1, <2>2
  <1>13. \A x \in DOMAIN rev.top : \/ x = root
                                   \/ x \notin Numbers(doc) /\ (rev.top[x] = Other \/ rev.top[x] = Dss(op))
    BY <1>5, <1>8, <1>10, <1>12
  <1>14. root \in DOMAIN rev.top /\ rev.top[root] = cat /\ dss \in DOMAIN rev.top /\ rev.top[dss] = Dss(op)
    BY <1>5, <1>8, <1>10
  <1>15. DOMAIN rev.top \cap Numbers(doc) = {root}
    <2>1. \A x : x \in DOMAIN rev.top \cap Numbers(doc) <=> x = root
      BY <1>3, <1>13, <1>14
    <2> QED
      BY <2>1
  <1>16. PICK n : n = m + 2
    OBVIOUS
  <1>17. ListsMaterial(doc, rev, op)
    <2>1. dss = n
      BY <1>2, <1>16
    <2>2. \A id \in DOMAIN rev.top \ Numbers(doc) : rev.top[id] = Other \/ rev.top[id] = Dss(op)
      BY <1>3, <1>13
    <2> QED
      BY <1>4, <1>5, <1>10, <1>11, <1>14, <1>15, <1>16, <2>1, <2>2 DEF ListsMaterial
  <1> QED
    BY <1>1, <1>9, <1>17

LEMMA AppendDssIs ==
    ASSUME NEW doc, WellFormed(doc), Structured(doc), NEW n \in Nat, NEW op \in 0..n, DssUpTo(doc, n)
    PROVE  LET more == append_dss(doc, op)
           IN  /\ WellFormed(more) /\ Structured(more) /\ DssUpTo(more, n) /\ HasDss(more, op)
               /\ Last(more).slot.for = "none" /\ InlineAs(more, doc)
               /\ \E rev : more = Append(doc, rev) /\ HasSlot(rev) /\ rev.slot.for = "none"
  <1>1. PICK rev : append_dss(doc, op) = Append(doc, rev) /\ ListsMaterial(doc, rev, op)
    BY DssRevisionIs
  <1>2. PICK dss : dss = MaxId(doc) + 2
    OBVIOUS
  <1>3. PICK root : root = RootId(doc)
    OBVIOUS
  <1>4. HasSlot(rev) /\ rev.slot.for = "none" /\ GoodRevision(doc, rev)
    BY <1>1 DEF ListsMaterial, NoSlot
  <1>5. /\ root \in DOMAIN rev.top /\ rev.top[root].dss = dss
        /\ dss \in DOMAIN rev.top /\ dss # 0 /\ rev.top[dss] = Dss(op)
    BY <1>1, <1>2, <1>3 DEF ListsMaterial
  <1>6. "op" \in DOMAIN Dss(op) /\ Dss(op).op = op
    BY DEF Dss
  <1>7. NamesDss(doc, rev.top, n)
    BY <1>1, <1>2, <1>3, <1>5, <1>6 DEF NamesDss, ListsMaterial
  <1>8. PICK more : more = Append(doc, rev)
    OBVIOUS
  <1>9. WellFormed(more) /\ Structured(more) /\ RootId(more) = root /\ DssUpTo(more, n)
    BY <1>3, <1>4, <1>7, <1>8, GoodRevisionKeeps
  <1>10. Document(doc)
    BY DEF WellFormed
  <1>11. Last(more) = rev /\ Numbers(more) = Numbers(doc) \cup DOMAIN rev.top \cup DOMAIN rev.packed
    BY <1>4, <1>8, <1>10, OneMore
  <1>12. \A id \in DOMAIN rev.top : SignerSees(more, id) = rev.top[id] /\ ReaderSees(more, id) = rev.top[id]
    BY <1>4, <1>8, <1>10, OneMoreSees
  <1>13. Defined(more, root) /\ Defined(more, dss)
    BY <1>5, <1>11, NumberIsDefined
  <1>14. HasDss(more, op)
    BY <1>5, <1>6, <1>9, <1>12, <1>13 DEF HasDss
  <1>15. InlineAs(more, doc)
    BY <1>4, <1>8, InlineTakenOver
  <1> QED
    BY <1>1, <1>4, <1>8, <1>9, <1>11, <1>14, <1>15

-----------------------------------------------------------------------------
(* What other tools append.                                                  *)

Edited(new, b) ==
    /\ Rewrites(new, b) /\ Body(new)
    /\ "dss" \in DOMAIN b => new.dss = b.dss

LEMMA EditedAre ==
    ASSUME NEW b, Body(b), NEW f \in {"items", "fields", "annots", "form"}, NEW v,
           f = "annots" /\ b.type = "page" => Entry(v),
           f = "form" /\ b.type = "catalog" => Entry(v)
    PROVE  Edited([b EXCEPT ![f] = v], b)
  <1>1. PICK new : new = [b EXCEPT ![f] = v]
    OBVIOUS
  <1>2. /\ DOMAIN new = DOMAIN b
        /\ \A g \in DOMAIN b : g # f => new[g] = b[g]
        /\ f \in DOMAIN b => new[f] = v
    BY <1>1, FieldReplaced
  <1>3. Rewrites(new, b) /\ ("dss" \in DOMAIN b => new.dss = b.dss)
    BY <1>2 DEF Rewrites
  <1>4. "type" \in DOMAIN new /\ new.type = b.type
    BY <1>2 DEF Body
  <1>5. b.type = "pages" => "kids" \in DOMAIN new
    BY <1>2 DEF Body
  <1>6. b.type = "page" => "annots" \in DOMAIN new /\ Entry(new.annots)
    BY <1>2 DEF Body
  <1>7. b.type = "catalog" => {"pages", "form", "dss", "inlineDss"} \subseteq DOMAIN new /\ Entry(new.form)
    BY <1>2 DEF Body
  <1>8. Edited(new, b)
    BY <1>3, <1>4, <1>5, <1>6, <1>7 DEF Edited, Body
  <1> QED
    BY <1>1, <1>8

LEMMA WithItemIs ==
    ASSUME NEW pdf, WellFormed(pdf), NEW id \in Numbers(pdf), NEW f \in {"fields", "annots", "form"}, NEW new,
           FirstRef(ReaderSees(pdf, id)[f]) \in {0} \cup Numbers(pdf)
    PROVE  \E x \in Numbers(pdf) : \E b : /\ WithItem(pdf, id, f, new) = Put(x, b, NoObjects)
                                           /\ Edited(b, ReaderSees(pdf, x))
  <1>1. PICK body : body = ReaderSees(pdf, id)
    OBVIOUS
  <1>2. PICK arr : arr = FirstRef(body[f])
    OBVIOUS
  <1>3. \A x \in Numbers(pdf) : Body(ReaderSees(pdf, x))
    BY NumberIsDefined, SeenIsBody
  <1>4. CASE arr > 0
    <2>1. arr \in Numbers(pdf)
      BY <1>1, <1>2, <1>4
    <2>2. PICK v : v = ReaderSees(pdf, arr).items \cup {new}
      OBVIOUS
    <2>3. PICK b : b = [ReaderSees(pdf, arr) EXCEPT !["items"] = v]
      OBVIOUS
    <2>4. WithItem(pdf, id, f, new) = Put(arr, b, NoObjects)
      BY <1>1, <1>2, <1>4, <2>2, <2>3 DEF WithItem
    <2>5. Edited(b, ReaderSees(pdf, arr))
      BY <1>3, <2>1, <2>3, EditedAre
    <2> QED
      BY <2>1, <2>4, <2>5
  <1>5. CASE ~(arr > 0)
    <2>1. PICK v : v = AddInline(body[f], new)
      OBVIOUS
    <2>2. PICK b : b = [body EXCEPT ![f] = v]
      OBVIOUS
    <2>3. WithItem(pdf, id, f, new) = Put(id, b, NoObjects)
      BY <1>1, <1>2, <1>5, <2>1, <2>2 DEF WithItem
    <2>4. Body(body)
      BY <1>1, <1>3
    <2>5. f = "annots" /\ body.type = "page" => Entry(v)
      BY <2>1, <2>4, InlineAdded DEF Body
    <2>6. f = "form" /\ body.type = "catalog" => Entry(v)
      BY <2>1, <2>4, InlineAdded DEF Body
    <2>7. Edited(b, body)
      BY <2>2, <2>4, <2>5, <2>6, EditedAre
    <2> QED
      BY <1>1, <2>3, <2>7
  <1> QED
    BY <1>4, <1>5

LEMMA EditsAre ==
    ASSUME NEW pdf, WellFormed(pdf), Parses(pdf), Finds(pdf), NEW objects \in EditsOf(pdf)
    PROVE  \E x \in Numbers(pdf) : \E b : /\ objects = Put(MaxId(pdf) + 1, Field("other", 0), Put(x, b, NoObjects))
                                           /\ Edited(b, ReaderSees(pdf, x))
  <1> DEFINE new  == MaxId(pdf) + 1
             root == RootId(pdf)
             form == ReaderSees(pdf, root).form
             ref  == FirstRef(form)
             Ok(o) == \E x \in Numbers(pdf) : \E b : o = Put(x, b, NoObjects) /\ Edited(b, ReaderSees(pdf, x))
  <1>1. root \in Numbers(pdf) /\ FirstPage(pdf) \in Numbers(pdf)
    BY FirstPageIs, NumberIsDefined DEF Parses, Structured
  <1>2. /\ FirstRef(ReaderSees(pdf, FirstPage(pdf)).annots) \in {0} \cup Numbers(pdf)
        /\ ref \in {0} \cup Numbers(pdf)
        /\ ref > 0 => ref \in Numbers(pdf) /\ FirstRef(ReaderSees(pdf, ref).fields) \in {0} \cup Numbers(pdf)
    BY DEF Finds
  <1>3. Ok(WithItem(pdf, FirstPage(pdf), "annots", new))
    BY <1>1, <1>2, WithItemIs
  <1>4. ref > 0 => Ok(WithItem(pdf, ref, "fields", new))
    BY <1>2, WithItemIs
  <1>5. Ok(WithItem(pdf, root, "form", new))
    BY <1>1, <1>2, WithItemIs
  <1>6. PICK o : Ok(o) /\ objects = Put(new, Field("other", 0), o)
    <2> HIDE DEF Ok
    <2> QED
      BY <1>3, <1>4, <1>5 DEF EditsOf
  <1> QED
    BY <1>6

\* A file another tool has edited is still well formed, and says the same of
\* operations.
LEMMA EditKeeps ==
    ASSUME NEW pdf, WellFormed(pdf), Parses(pdf), Finds(pdf), NEW n, DssUpTo(pdf, n),
           NEW objects \in EditsOf(pdf), NEW packing \in BOOLEAN
    PROVE  LET more == Append(pdf, EditRevision(pdf, objects, packing))
           IN  WellFormed(more) /\ DssUpTo(more, n) /\ Document(pdf) /\ HasSlot(Last(more)) /\ Last(more).slot.for = "none"
  <1>1. PICK rev : rev = EditRevision(pdf, objects, packing)
    OBVIOUS
  <1>2. PICK m : m = MaxId(pdf)
    OBVIOUS
  <1>3. PICK root : root = RootId(pdf)
    OBVIOUS
  <1>4. /\ Document(pdf) /\ m \in Nat /\ Numbers(pdf) \subseteq 1..m /\ root \in Numbers(pdf)
        /\ {"top", "packed", "filter", "xref", "root"} \subseteq DOMAIN Last(pdf)
        /\ HasSlot(Last(pdf))
    <2>1. Document(pdf) /\ root \in Numbers(pdf)
      BY <1>3, NumberIsDefined DEF WellFormed, Parses, Structured
    <2>2. Last(pdf) = pdf[Len(pdf)] /\ Len(pdf) \in DOMAIN pdf /\ HasSlot(pdf[Len(pdf)])
      BY <2>1, DocumentBasics
    <2> QED
      BY <1>2, <2>1, <2>2 DEF MaxId, WellFormed
  <1>5. PICK x \in Numbers(pdf) : \E b :
             objects = Put(m + 1, Field("other", 0), Put(x, b, NoObjects)) /\ Edited(b, ReaderSees(pdf, x))
    BY <1>2, EditsAre
  <1>6. PICK b : objects = Put(m + 1, Field("other", 0), Put(x, b, NoObjects)) /\ Edited(b, ReaderSees(pdf, x))
    BY <1>5
  <1>7. x \in 1..m /\ x # m + 1
    BY <1>4
  <1>8. DOMAIN objects = {m + 1, x} /\ objects[m + 1] = Field("other", 0) /\ objects[x] = b
    <2>1. PICK o : o = Put(x, b, NoObjects)
      OBVIOUS
    <2>2. DOMAIN o = {x} /\ o[x] = b
      BY <2>1, NothingGood DEF Put
    <2> QED
      BY <1>6, <1>7, <2>1, <2>2 DEF Put
  <1>9. PICK one : one = Put(m + 2, Other, NoObjects)
    OBVIOUS
  <1>10. DOMAIN one = {m + 2} /\ one[m + 2] = Other
    BY <1>9, NothingGood DEF Put
  <1>11. /\ {"top", "packed", "filter", "xref", "root"} \subseteq DOMAIN rev
         /\ rev.root = root /\ HasSlot(rev) /\ rev.slot.for = "none"
         /\ \/ rev.top = one /\ rev.packed = objects
            \/ rev.top = objects /\ rev.packed = NoObjects
    <2>1. PICK last : last = Last(pdf)
      OBVIOUS
    <2>2. last.root = root
      BY <1>3, <2>1 DEF RootId
    <2>3. DOMAIN rev = DOMAIN last /\ rev.root = last.root /\ rev.slot = NoSlot
          /\ rev.top = (IF packing THEN one ELSE objects) /\ rev.packed = (IF packing THEN objects ELSE NoObjects)
      BY <1>1, <1>2, <1>4, <1>9, <2>1 DEF EditRevision, HasSlot
    <2>4. "slot" \in DOMAIN rev
      BY <1>4, <2>1, <2>3 DEF HasSlot
    <2>5. HasSlot(rev) /\ rev.slot.for = "none"
      BY <2>3, <2>4 DEF HasSlot, NoSlot
    <2> QED
      BY <1>4, <2>1, <2>2, <2>3, <2>5
  <1>12. DOMAIN NoObjects = {}
    BY NothingGood
  <1>13. ReaderSees(pdf, x) \in Definitions(pdf, x) /\ Body(ReaderSees(pdf, x))
         /\ (x = root => ReaderSees(pdf, x).type = "catalog" /\ "dss" \in DOMAIN ReaderSees(pdf, x))
    BY <1>3, <1>4, NumberIsDefined, SeenIsDefined, SeenIsBody DEF Body
  <1>14. /\ Body(b) /\ Rewrites(b, ReaderSees(pdf, x))
         /\ x = root => b.type = "catalog" /\ b.dss = ReaderSees(pdf, x).dss
    BY <1>6, <1>13 DEF Edited, Rewrites, Body
  <1>15. Body(Field("other", 0)) /\ Body(Other)
    BY NewAre DEF NewObject
  <1>16. m + 1 # root /\ m + 2 # root /\ m + 1 \notin Numbers(pdf) /\ m + 2 \notin Numbers(pdf) /\ m + 2 # x /\ m + 2 # m + 1
    BY <1>4, <1>7
  <1>17. PICK more : more = Append(pdf, rev)
    OBVIOUS
  <1>18. WellFormed(more)
    <2>1. m + 2 \in Nat /\ DOMAIN rev.top \cup DOMAIN rev.packed \subseteq 1..(m + 2)
          /\ DOMAIN rev.top \cup DOMAIN rev.packed # {}
      <3>1. {m + 2} \subseteq 1..(m + 2) /\ {m + 1, x} \subseteq 1..(m + 2) /\ m + 2 \in Nat
        BY <1>4, <1>7
      <3> QED
        BY <1>8, <1>10, <1>11, <1>12, <3>1
    <2>2. \A id \in DOMAIN objects : Body(objects[id]) /\ (id = root => objects[id].type = "catalog")
      BY <1>8, <1>14, <1>15, <1>16
    <2>3. \A id \in DOMAIN one : Body(one[id]) /\ (id = root => one[id].type = "catalog")
      BY <1>10, <1>15, <1>16
    <2>4. \A id \in DOMAIN rev.top : Body(rev.top[id]) /\ (id = root => rev.top[id].type = "catalog")
      BY <1>11, <2>2, <2>3
    <2>5. \A id \in DOMAIN rev.packed : Body(rev.packed[id]) /\ (id = root => rev.packed[id].type = "catalog")
      BY <1>11, <1>12, <2>2
    <2> QED
      BY <1>3, <1>11, <1>17, <2>1, <2>4, <2>5, GrowsWellFormed
  <1>19. DssUpTo(more, n)
    <2>1. Continues(pdf, objects) /\ Continues(pdf, one) /\ Continues(pdf, NoObjects)
      BY <1>8, <1>10, <1>12, <1>13, <1>14, <1>16 DEF Continues
    <2>2. root \in DOMAIN objects => \E c \in Definitions(pdf, root) : objects[root].dss = c.dss
      BY <1>8, <1>13, <1>14, <1>16
    <2>3. NamesDss(pdf, objects, n)
      BY <1>3, <2>2 DEF NamesDss
    <2>4. root \notin DOMAIN one
      BY <1>10, <1>16
    <2>5. NamesDss(pdf, one, n)
      BY <1>3, <2>4 DEF NamesDss
    <2>6. Continues(pdf, rev.top) /\ Continues(pdf, rev.packed) /\ NamesDss(pdf, rev.top, n)
      BY <1>11, <2>1, <2>3, <2>5
    <2>7. root \in DOMAIN rev.packed => \E c \in Definitions(pdf, root) : rev.packed[root].dss = c.dss
      BY <1>11, <1>12, <2>2
    <2>8. DOMAIN rev.top \cap DOMAIN rev.packed = {}
      BY <1>8, <1>10, <1>11, <1>12, <1>16
    <2> QED
      BY <1>3, <1>4, <1>11, <1>17, <2>6, <2>7, <2>8, GrowsDssUpTo
  <1>20. Last(more) = rev
    BY <1>4, <1>11, <1>17, OneMore
  <1> QED
    BY <1>1, <1>4, <1>11, <1>17, <1>18, <1>19, <1>20

-----------------------------------------------------------------------------
(* The inductive invariant of what files hold.                               *)

\* The parser reads it; or nobody prepared it, and it is what recover takes of
\* a source all the same.
FromUnreadable(pdf) ==
    \E src \in Sources : /\ ~Structured(src) /\ Recoverable(src)
                         /\ ByteRanges(pdf, Len(pdf)) = ByteRanges(src, Len(src))
Readable(pdf) == Structured(pdf) \/ FromUnreadable(pdf)

\* Behind the seal for op the catalog has what the signer read when it wrote the
\* DSS: a second /DSS beside an inline one, and none otherwise.
SealedInline(doc, op) ==
    \E k \in 1..Len(doc) : SealedAt(doc, op, k) /\ LaterNone(doc, k) /\ InlineAs(doc, SubSeq(doc, 1, k))
KeepsInline(doc, op) ==
    \E k \in 1..Len(doc) :
        /\ SealedAt(doc, op, k) /\ LaterValid(doc, k)
        /\ ReaderSees(doc, RootId(doc)).inlineDss = InlineDssRead(SubSeq(doc, 1, k))

\* A result's format, and what stands in the file.
Tells(r) ==
    /\ \/ ~ops[r.op].stamped /\ r.format = "pades-bes"
       \/ ops[r.op].stamped /\ r.format = "pades-b-t" /\ DssOf(r.pdf) # r.op
       \/ ops[r.op].stamped /\ r.format = "pades-b-lt" /\ DssOf(r.pdf) = r.op /\ Last(r.pdf).slot.for = "none"
       \/ ops[r.op].stamped /\ r.format = "pades-b-lta" /\ DssOf(r.pdf) = r.op /\ Stamped(r.pdf, Len(r.pdf))
    /\ DssOf(r.pdf) = r.op => KeepsInline(r.pdf, r.op)

Holds(pdf, n) == WellFormed(pdf) /\ DssUpTo(pdf, n) /\ (Recoverable(pdf) => Readable(pdf))

CallContents ==
    /\ call.step # "idle" => WellFormed(call.pdf)
    /\ call.step \in {"sign", "signed"} => Readable(call.pdf)
    /\ call.step = "sign" => DssUpTo(call.pdf, Len(ops))
    /\ call.step = "signed" => DssUpTo(call.pdf, call.op - 1)
    /\ call.step \in {"stamp", "stamped"} => /\ Structured(call.pdf) /\ DssUpTo(call.pdf, Len(ops))
                                            /\ HasDss(call.pdf, call.op)
                                            /\ Last(call.pdf).slot.for = "none"
                                            /\ SealedInline(call.pdf, call.op)
    /\ call.step = "stamped" => Parses(call.pdf)

ContentsInv ==
    /\ PadesInv
    /\ \A pdf \in files : Holds(pdf, Len(ops))
    /\ CallContents
    /\ \A r \in Online : Tells(r)

-----------------------------------------------------------------------------
(* What the writers make of a file.                                          *)

LEMMA SignatureKeeps ==
    ASSUME NEW doc, WellFormed(doc), Parses(doc), NEW title, NEW for \in {"seal", "archive"}, NEW k
    PROVE  LET more == Append(doc, SignatureRevision(doc, title, for, k))
           IN  /\ WellFormed(more) /\ Parses(more)
               /\ \A n : DssUpTo(doc, n) => DssUpTo(more, n)
               /\ \A op : HasDss(doc, op) => HasDss(more, op)
               /\ InlineAs(more, doc)
  <1>1. PICK rev : rev = SignatureRevision(doc, title, for, k)
    OBVIOUS
  <1>2. GoodRevision(doc, rev) /\ rev.top[RootId(doc)].dss = SignerSees(doc, RootId(doc)).dss
    BY <1>1, SignatureRevisionIs
  <1>3. HasSlot(rev)
    BY <1>1, RevisionsHaveSlots
  <1>4. PICK more : more = Append(doc, rev)
    OBVIOUS
  <1>5. WellFormed(more) /\ Parses(more)
    BY <1>2, <1>3, <1>4, GoodRevisionKeeps DEF Parses
  <1>6. ASSUME NEW n, DssUpTo(doc, n)
        PROVE  DssUpTo(more, n)
    <2>1. PICK objects : objects = rev.top
      OBVIOUS
    <2>2. NamesDss(doc, objects, n)
      BY <1>2, <2>1, SignatureNamesDss
    <2> QED
      BY <1>2, <1>3, <1>4, <1>6, <2>1, <2>2, GoodRevisionKeeps DEF Parses
  <1>7. ASSUME NEW op, HasDss(doc, op)
        PROVE  HasDss(more, op)
    BY <1>2, <1>3, <1>4, <1>7, DssKept
  <1>8. InlineAs(more, doc)
    BY <1>2, <1>3, <1>4, InlineTakenOver
  <1> QED
    BY <1>1, <1>4, <1>5, <1>6, <1>7, <1>8

LEMMA UnreadableKept ==
    ASSUME NEW doc, Document(doc), NEW w
    PROVE  FromUnreadable(embed(doc, w)) <=> FromUnreadable(doc)
  <1>1. PICK done : done = embed(doc, w)
    OBVIOUS
  <1>2. PICK n : n = Len(doc)
    OBVIOUS
  <1>3. /\ Document(done) /\ Len(done) = n /\ n \in Nat /\ n >= 1 /\ n \in 1..n /\ HasSlot(doc[n])
        /\ \A i \in 1..(n - 1) : done[i] = doc[i]
        /\ done[n] = Holding(doc[n], w)
    BY <1>1, <1>2, EmbedIs, DocumentBasics
  <1>4. Holding(done[n], Empty) = Holding(doc[n], Empty)
    BY <1>3, HoldingIs
  <1>5. ByteRanges(done, n) = ByteRanges(doc, n)
    BY <1>2, <1>3, <1>4, SameBytes
  <1> QED
    BY <1>1, <1>2, <1>3, <1>5 DEF FromUnreadable

\* A file in a call, with its slot filled.
LEMMA EmbedHolds ==
    ASSUME NEW doc, WellFormed(doc), Readable(doc), NEW w, NEW n, DssUpTo(doc, n)
    PROVE  Holds(embed(doc, w), n)
  <1>1. WellFormed(embed(doc, w)) /\ DssUpTo(embed(doc, w), n) /\ (Structured(embed(doc, w)) <=> Structured(doc))
    BY EmbedSees
  <1>2. FromUnreadable(embed(doc, w)) <=> FromUnreadable(doc)
    BY UnreadableKept DEF WellFormed
  <1> QED
    BY <1>1, <1>2 DEF Holds, Readable

LEMMA ParsedHolds ==
    ASSUME NEW doc, WellFormed(doc), Structured(doc), NEW n, DssUpTo(doc, n)
    PROVE  Holds(doc, n)
  BY DEF Holds, Readable

-----------------------------------------------------------------------------
(* Each action keeps it.                                                     *)

LEMMA LogsOnlyGrow ==
    ASSUME PadesInv, [Next]_vars
    PROVE  LogsGrow /\ Len(ops) \in Nat /\ Len(ops') \in Nat /\ Len(ops) <= Len(ops')
  <1>1. IsSequence(ops) /\ IsSequence(tokens)
    BY DEF PadesInv, LogsInv
  <1>2. CASE UNCHANGED <<ops, tokens>>
    BY <1>1, <1>2, SequenceBasics, UnchangedGrow
  <1>3. CASE \E x : ops' = Append(ops, x) /\ UNCHANGED tokens
    BY <1>1, <1>3, AppendIs, SequenceBasics DEF LogsGrow
  <1>4. CASE \E x : tokens' = Append(tokens, x) /\ UNCHANGED ops
    BY <1>1, <1>4, AppendIs, SequenceBasics DEF LogsGrow
  <1>5. CASE \E answer \in Answers : ServiceSigns(answer)
    BY <1>3, <1>5, Zenon DEF ServiceSigns
  <1>6. CASE ServiceStamps
    BY <1>4, <1>6, Zenon DEF ServiceStamps
  <1>7. CASE \/ \E pdf \in files : Prepare(pdf)
             \/ \E pdf \in files, ltv \in BOOLEAN : Seal(pdf, ltv) \/ SealPrepared(pdf, ltv)
             \/ EmbedCms
             \/ \E size \in 1..2 : StampArrives(size)
             \/ StampFails
             \/ CallLost
             \/ \E pdf \in files, op \in DOMAIN ops : Complete(pdf, op)
             \/ \E pdf \in files, packing \in BOOLEAN : Edit(pdf, packing)
    BY <1>2, <1>7 DEF Prepare, Seal, SealPrepared, EmbedCms, StampArrives, StampFails, CallLost, Complete, Edit
  <1>8. CASE UNCHANGED vars
    BY <1>2, <1>8 DEF vars
  <1> QED
    BY <1>5, <1>6, <1>7, <1>8 DEF Next

LEMMA TellsStays ==
    ASSUME LogsGrow, NEW r, r.op \in DOMAIN ops, Tells(r)
    PROVE  Tells(r)'
  <1>1. ops'[r.op] = ops[r.op]
    BY DEF LogsGrow
  <1>2. Stamped(r.pdf, Len(r.pdf)) => Stamped(r.pdf, Len(r.pdf))'
    BY DEF LogsGrow, Stamped
  <1>3. ASSUME KeepsInline(r.pdf, r.op)
        PROVE  KeepsInline(r.pdf, r.op)'
    <2>1. PICK doc, op : doc = r.pdf /\ op = r.op
      OBVIOUS
    <2>2. PICK k \in 1..Len(doc) :
             /\ SealedAt(doc, op, k) /\ LaterValid(doc, k)
             /\ ReaderSees(doc, RootId(doc)).inlineDss = InlineDssRead(SubSeq(doc, 1, k))
      BY <1>3, <2>1 DEF KeepsInline
    <2>3. SealedAt(doc, op, k)' /\ LaterValid(doc, k)'
      <3>1. SealedAt(doc, op, k)'
        BY <2>2 DEF LogsGrow, SealedAt
      <3>2. \A i : Stamped(doc, i) => Stamped(doc, i)'
        BY DEF LogsGrow, Stamped
      <3> QED
        BY <2>2, <3>1, <3>2 DEF LaterValid
    <2>4. KeepsInline(doc, op)'
      BY <2>2, <2>3 DEF KeepsInline
    <2> QED
      BY <2>1, <2>4
  <1> QED
    BY <1>1, <1>2, <1>3 DEF Tells

\* Files and results kept are still what they were; the rest is to be shown.
LEMMA ContentsStep ==
    ASSUME ContentsInv, [Next]_vars,
           \A f \in files' : f \in files \/ Holds(f, Len(ops')),
           CallContents',
           \A r \in Online' : r \in Online \/ Tells(r)'
    PROVE  ContentsInv'
  <1>1. PadesInv'
    BY PadesNext DEF ContentsInv
  <1>2. LogsGrow /\ Len(ops) \in Nat /\ Len(ops') \in Nat /\ Len(ops) <= Len(ops')
    BY LogsOnlyGrow DEF ContentsInv
  <1>3. ASSUME NEW f \in files'
        PROVE  Holds(f, Len(ops'))
    <2>1. CASE f \in files
      <3>1. Holds(f, Len(ops))
        BY <2>1 DEF ContentsInv
      <3>2. DssUpTo(f, Len(ops'))
        BY <1>2, <3>1, DssUpToMore DEF Holds
      <3> QED
        BY <3>1, <3>2 DEF Holds
    <2> QED
      BY <2>1
  <1>4. ASSUME NEW r \in Online'
        PROVE  Tells(r)'
    <2>1. CASE r \in Online
      <3>1. Tells(r) /\ r.op \in DOMAIN ops
        BY <2>1 DEF ContentsInv, PadesInv, TypeOK, Online
      <3> QED
        BY <1>2, <3>1, TellsStays
    <2> QED
      BY <1>4, <2>1
  <1>5. \A pdf \in files' : Holds(pdf, Len(ops)')
    BY <1>3
  <1> QED
    BY <1>1, <1>4, <1>5 DEF ContentsInv

LEMMA NoCallContents ==
    ASSUME call' = NoCall
    PROVE  CallContents'
  BY DEF NoCall, CallContents

LEMMA SameCallContents ==
    ASSUME CallContents, UNCHANGED <<call, ops>>
    PROVE  CallContents'
  BY DEF CallContents, SealedInline, SealedAt

LEMMA PreparedHolds ==
    ASSUME NEW pdf, WellFormed(pdf), Parses(pdf), NEW n, DssUpTo(pdf, n), NEW k
    PROVE  Holds(prepare(pdf, k), n) /\ Readable(prepare(pdf, k))
  <1>1. PICK done : done = prepare(pdf, k)
    OBVIOUS
  <1>2. WellFormed(done) /\ Parses(done) /\ DssUpTo(done, n)
    BY <1>1, SignatureKeeps DEF prepare
  <1> QED
    BY <1>1, <1>2 DEF Holds, Readable, Parses

LEMMA PrepareKeepsContents ==
    ASSUME ContentsInv, NEW pdf \in files, Prepare(pdf)
    PROVE  ContentsInv'
  <1>1. /\ files' = files \cup {prepare(pdf, at + 1)} /\ Parses(pdf)
        /\ UNCHANGED <<call, sealed, ops>>
    BY DEF Prepare
  <1>2. Holds(pdf, Len(ops))
    BY DEF ContentsInv
  <1>3. Holds(prepare(pdf, at + 1), Len(ops))
    BY <1>1, <1>2, PreparedHolds DEF Holds
  <1>4. CallContents'
    BY <1>1, SameCallContents DEF ContentsInv
  <1>5. Online' = Online
    BY <1>1 DEF Online
  <1>6. [Next]_vars
    BY DEF Next
  <1>7. \A f \in files' : f \in files \/ Holds(f, Len(ops'))
    BY <1>1, <1>3
  <1> QED
    BY <1>4, <1>5, <1>6, <1>7, ContentsStep

LEMMA SealKeepsContents ==
    ASSUME ContentsInv, NEW pdf \in files, NEW ltv \in BOOLEAN, Seal(pdf, ltv) \/ SealPrepared(pdf, ltv)
    PROVE  ContentsInv'
  <1>1. Holds(pdf, Len(ops))
    BY DEF ContentsInv
  <1>2. PICK doc : /\ call' = [NoCall EXCEPT !.step = "sign", !.pdf = doc, !.ltv = ltv]
                   /\ Holds(doc, Len(ops)) /\ Readable(doc)
    <2>1. CASE Seal(pdf, ltv)
      <3>1. /\ call' = [NoCall EXCEPT !.step = "sign", !.pdf = prepare(pdf, at + 1), !.ltv = ltv]
            /\ Parses(pdf)
        BY <2>1 DEF Seal
      <3>2. Holds(prepare(pdf, at + 1), Len(ops)) /\ Readable(prepare(pdf, at + 1))
        BY <1>1, <3>1, PreparedHolds DEF Holds
      <3> QED
        BY <3>1, <3>2
    <2>2. CASE SealPrepared(pdf, ltv)
      <3>1. call' = [NoCall EXCEPT !.step = "sign", !.pdf = pdf, !.ltv = ltv] /\ Recoverable(pdf)
        BY <2>2 DEF SealPrepared
      <3> QED
        BY <1>1, <3>1 DEF Holds
    <2> QED
      BY <2>1, <2>2
  <1>3. UNCHANGED <<files, sealed, ops>>
    BY DEF Seal, SealPrepared
  <1>4. call'.step = "sign" /\ call'.pdf = doc
    BY <1>2 DEF NoCall
  <1>5. CallContents'
    BY <1>2, <1>3, <1>4 DEF CallContents, Holds
  <1>6. Online' = Online
    BY <1>3 DEF Online
  <1>7. [Next]_vars
    BY DEF Next
  <1> QED
    BY <1>3, <1>5, <1>6, <1>7, ContentsStep

LEMMA ServiceSignsKeepsContents ==
    ASSUME ContentsInv, NEW answer \in Answers, ServiceSigns(answer)
    PROVE  ContentsInv'
  <1>1. /\ call.step = "sign" /\ \E x : ops' = Append(ops, x)
        /\ call' = [call EXCEPT !.step = "signed", !.op = Len(ops')]
        /\ UNCHANGED <<files, sealed>>
    BY Zenon DEF ServiceSigns
  <1>2. IsSequence(ops) /\ CallShape
    BY DEF ContentsInv, PadesInv, LogsInv, CallInv
  <1>3. Len(ops) \in Nat /\ Len(ops') = Len(ops) + 1
    BY <1>1, <1>2, AppendIs, SequenceBasics
  <1>4. call'.step = "signed" /\ call'.pdf = call.pdf /\ call'.op = Len(ops) + 1
    BY <1>1, <1>2, <1>3 DEF CallShape
  <1>5. WellFormed(call.pdf) /\ Readable(call.pdf) /\ DssUpTo(call.pdf, Len(ops))
    BY <1>1 DEF ContentsInv, CallContents
  <1>6. call'.op - 1 = Len(ops)
    BY <1>3, <1>4
  <1>7. CallContents'
    BY <1>4, <1>5, <1>6 DEF CallContents
  <1>8. Online' = Online
    BY <1>1 DEF Online
  <1>9. [Next]_vars
    BY DEF Next
  <1> QED
    BY <1>1, <1>7, <1>8, <1>9, ContentsStep

\* A call that returns a file that holds what its format says.
LEMMA ReturnKeepsContents ==
    ASSUME ContentsInv, [Next]_vars, NEW pdf, NEW format, Returns(pdf, format), UNCHANGED <<ops, tokens>>,
           Holds(pdf, Len(ops)), Tells(Result(pdf, call.op, format))
    PROVE  ContentsInv'
  <1>1. PICK r : r = Result(pdf, call.op, format)
    OBVIOUS
  <1>2. sealed' = sealed \cup {r} /\ files' = files \cup {pdf} /\ call' = NoCall
    BY <1>1, Zenon DEF Returns
  <1>3. Tells(r)
    BY <1>1
  <1>4. Tells(r)'
    BY <1>3 DEF Tells, Stamped, KeepsInline, SealedAt, LaterValid
  <1>5. \A x \in Online' : x \in Online \/ Tells(x)'
    BY <1>2, <1>4 DEF Online
  <1>6. \A f \in files' : f \in files \/ Holds(f, Len(ops'))
    BY <1>2
  <1>7. CallContents'
    BY <1>2, NoCallContents
  <1> QED
    BY <1>5, <1>6, <1>7, ContentsStep

\* An operation's number is of no DSS that was there before it.
LEMMA OtherDss ==
    ASSUME NEW doc, WellFormed(doc), NEW op \in Nat, op > 0, DssUpTo(doc, op - 1)
    PROVE  DssOf(doc) # op
  <1>1. PICK dss : dss = ReaderSees(doc, RootId(doc)).dss
    OBVIOUS
  <1>2. Document(doc) /\ Defined(doc, RootId(doc))
    BY NumberIsDefined DEF WellFormed
  <1>3. ReaderSees(doc, RootId(doc)) \in Definitions(doc, RootId(doc))
    BY <1>2, SeenIsDefined
  <1>4. CASE dss = 0
    BY <1>1, <1>4 DEF DssOf
  <1>5. CASE dss # 0
    <2>1. dss \in Numbers(doc) /\ \A b \in Definitions(doc, dss) : b.op \in 0..(op - 1)
      BY <1>1, <1>3, <1>5 DEF DssUpTo
    <2>2. ReaderSees(doc, dss) \in Definitions(doc, dss)
      BY <1>2, <2>1, NumberIsDefined, SeenIsDefined
    <2>3. DssOf(doc) = ReaderSees(doc, dss).op
      BY <1>1, <1>5 DEF DssOf
    <2> QED
      BY <2>1, <2>2, <2>3
  <1> QED
    BY <1>4, <1>5

LEMMA EmbedCmsKeepsContents ==
    ASSUME ContentsInv, EmbedCms
    PROVE  ContentsInv'
  <1>1. PICK doc, op : doc = call.pdf /\ op = call.op
    OBVIOUS
  <1>2. PICK signed : signed = embed(doc, Cms(op))
    OBVIOUS
  <1>3. PICK n : n = Len(ops)
    OBVIOUS
  <1>4. call.step = "signed" /\ UNCHANGED <<ops, tokens>>
    BY DEF EmbedCms
  <1>5. op \in 0..n /\ op > 0 /\ n \in Nat /\ CallShape
    BY <1>1, <1>3, <1>4, SequenceBasics DEF ContentsInv, PadesInv, TypeOK, LogsInv, CallInv
  <1>6. WellFormed(doc) /\ Readable(doc) /\ DssUpTo(doc, op - 1)
    BY <1>1, <1>4 DEF ContentsInv, CallContents
  <1>7. Holds(signed, op - 1) /\ WellFormed(signed) /\ DssUpTo(signed, op - 1) /\ DssUpTo(signed, n)
    <2>1. Holds(signed, op - 1)
      BY <1>2, <1>6, EmbedHolds
    <2>2. op - 1 \in Nat /\ op - 1 <= n
      BY <1>5
    <2>3. DssUpTo(signed, n)
      BY <1>5, <2>1, <2>2, DssUpToMore DEF Holds
    <2> QED
      BY <2>1, <2>3 DEF Holds
  <1>8. Holds(signed, n)
    BY <1>7 DEF Holds
  <1>9. [Next]_vars
    BY DEF Next
  <1>10. \/ Returns(signed, Format(ops[op], FALSE, FALSE))
         \/ /\ Structured(signed)
            /\ call' = [call EXCEPT !.step = "stamp", !.pdf = append_dss(signed, op)]
            /\ UNCHANGED <<files, sealed>>
    BY <1>1, <1>2, Zenon DEF EmbedCms
  <1>11. CASE Returns(signed, Format(ops[op], FALSE, FALSE))
    <2>1. PICK format : format = Format(ops[op], FALSE, FALSE)
      OBVIOUS
    <2>2. DssOf(signed) # op
      BY <1>5, <1>7, OtherDss
    <2>3. PICK r : r = Result(signed, op, format)
      OBVIOUS
    <2>4. r.pdf = signed /\ r.op = op /\ r.format = format
      BY <2>3 DEF Result
    <2>5. \/ ~ops[op].stamped /\ format = "pades-bes"
          \/ ops[op].stamped /\ format = "pades-b-t"
      BY <2>1 DEF Format
    <2>6. Tells(r)
      BY <2>2, <2>4, <2>5 DEF Tells
    <2> QED
      BY <1>1, <1>3, <1>4, <1>8, <1>9, <1>11, <2>1, <2>3, <2>6, ReturnKeepsContents
  <1>12. CASE /\ Structured(signed)
              /\ call' = [call EXCEPT !.step = "stamp", !.pdf = append_dss(signed, op)]
              /\ UNCHANGED <<files, sealed>>
    <2>1. PICK more : more = append_dss(signed, op)
      OBVIOUS
    <2>2. /\ WellFormed(more) /\ Structured(more) /\ DssUpTo(more, n) /\ HasDss(more, op)
          /\ Last(more).slot.for = "none" /\ InlineAs(more, signed)
          /\ \E rev : more = Append(signed, rev) /\ HasSlot(rev) /\ rev.slot.for = "none"
      BY <1>5, <1>7, <1>12, <2>1, AppendDssIs
    <2>3. call'.step = "stamp" /\ call'.pdf = more /\ call'.op = op
      BY <1>1, <1>5, <1>12, <2>1 DEF CallShape
    <2>4. SealedInline(more, op)
      <3>1. PICK rev : more = Append(signed, rev) /\ HasSlot(rev) /\ rev.slot.for = "none"
        BY <2>2
      <3>2. PICK k : k = Len(signed)
        OBVIOUS
      <3>3. Document(doc) /\ Document(signed) /\ AsSigned(doc, op) /\ Unsigned(doc)
        BY <1>1, <1>4, <1>6, <1>7 DEF WellFormed, ContentsInv, PadesInv, CallInv
      <3>4. SealedAt(signed, op, k) /\ LaterNone(signed, k)
        BY <1>2, <3>2, <3>3, EmbeddedIsSealed
      <3>5. /\ Document(more) /\ Len(more) = Len(signed) + 1
            /\ \A i \in 1..Len(signed) : more[i] = signed[i]
            /\ SealedAt(more, op, k) /\ LaterNone(more, k)
        BY <3>1, <3>3, <3>4, SealedUnder
      <3>6. k \in 1..Len(signed) /\ k \in 1..Len(more) /\ Len(signed) \in Nat /\ Len(signed) <= Len(more)
        BY <3>3, <3>4, <3>5, DocumentBasics DEF SealedAt
      <3>7. SubSeq(more, 1, k) = SubSeq(signed, 1, k)
        BY <3>3, <3>5, <3>6, SamePrefix
      <3>8. SubSeq(signed, 1, k) = signed
        BY <3>2, <3>3, WholeIs
      <3> QED
        BY <2>2, <3>5, <3>6, <3>7, <3>8 DEF SealedInline
    <2>5. SealedInline(more, op)'
      BY <1>4, <2>4 DEF SealedInline, SealedAt
    <2>6. CallContents'
      BY <1>3, <1>4, <2>2, <2>3, <2>5 DEF CallContents
    <2>7. Online' = Online
      BY <1>12 DEF Online
    <2> QED
      BY <1>9, <1>12, <2>6, <2>7, ContentsStep
  <1> QED
    BY <1>10, <1>11, <1>12

LEMMA ServiceStampsKeepsContents ==
    ASSUME ContentsInv, ServiceStamps
    PROVE  ContentsInv'
  <1>1. /\ call.step = "stamp" /\ call' = [call EXCEPT !.step = "stamped", !.token = Len(tokens')]
        /\ Parses(call.pdf) /\ UNCHANGED <<files, sealed, ops>>
    BY Zenon DEF ServiceStamps
  <1>2. call'.step = "stamped" /\ call'.pdf = call.pdf /\ call'.op = call.op
    BY <1>1 DEF ContentsInv, PadesInv, CallInv, CallShape
  <1>3. CallContents'
    <2>1. PICK doc, op : doc = call.pdf /\ op = call.op
      OBVIOUS
    <2>2. SealedInline(doc, op)
      BY <1>1, <2>1 DEF ContentsInv, CallContents
    <2>3. SealedInline(doc, op)'
      BY <1>1, <2>2 DEF SealedInline, SealedAt
    <2>4. call'.pdf = doc /\ call'.op = op
      BY <1>2, <2>1
    <2> QED
      BY <1>1, <1>2, <2>1, <2>3, <2>4 DEF ContentsInv, CallContents
  <1>4. Online' = Online
    BY <1>1 DEF Online
  <1>5. [Next]_vars
    BY DEF Next
  <1> QED
    BY <1>1, <1>3, <1>4, <1>5, ContentsStep

LEMMA StampArrivesKeepsContents ==
    ASSUME ContentsInv, NEW size \in 1..2, StampArrives(size)
    PROVE  ContentsInv'
  <1>1. PICK doc, op, n : doc = call.pdf /\ op = call.op /\ n = call.token
    OBVIOUS
  <1>2. PICK ts : ts = prepare_doc_timestamp(doc)
    OBVIOUS
  <1>3. PICK done : done = embed(ts, Token(n))
    OBVIOUS
  <1>4. /\ call.step = "stamped" /\ Returns(done, Format(ops[op], TRUE, TRUE))
        /\ UNCHANGED <<ops, tokens>>
    BY <1>1, <1>2, <1>3, Zenon DEF StampArrives
  <1>5. /\ WellFormed(doc) /\ Parses(doc) /\ DssUpTo(doc, Len(ops)) /\ HasDss(doc, op) /\ ToStamp(doc, n)
        /\ Document(doc) /\ SealedInline(doc, op)
    BY <1>1, <1>4 DEF ContentsInv, CallContents, PadesInv, CallInv, WellFormed
  <1>6. WellFormed(ts) /\ Parses(ts) /\ DssUpTo(ts, Len(ops)) /\ HasDss(ts, op) /\ InlineAs(ts, doc)
    BY <1>2, <1>5, SignatureKeeps DEF prepare_doc_timestamp
  <1>7. Holds(done, Len(ops)) /\ DssOf(done) = op
    <2>1. Readable(ts)
      BY <1>6 DEF Readable, Parses
    <2>2. Holds(done, Len(ops))
      BY <1>3, <1>6, <2>1, EmbedHolds
    <2>3. RootId(done) = RootId(ts) /\ \A id : Defined(ts, id) => ReaderSees(done, id) = ReaderSees(ts, id)
      BY <1>3, <1>6, EmbedSees
    <2>4. DssOf(done) = op
      BY <1>6, <2>3 DEF DssOf, HasDss
    <2> QED
      BY <2>2, <2>4
  <1>8. Stamped(done, Len(done)) /\ KeepsInline(done, op)
    <2>1. PICK k \in 1..Len(doc) : /\ SealedAt(doc, op, k) /\ LaterNone(doc, k)
                                   /\ InlineAs(doc, SubSeq(doc, 1, k))
      BY <1>5 DEF SealedInline
    <2>2. /\ Document(done) /\ Len(done) = Len(doc) + 1
          /\ \A i \in 1..Len(doc) : done[i] = doc[i]
          /\ Stamped(done, Len(done)) /\ SealedAt(done, op, k) /\ LaterValid(done, k)
      BY <1>2, <1>3, <1>5, <2>1, StampedOver
    <2>3. Len(doc) \in Nat /\ k \in 1..Len(done) /\ Len(doc) <= Len(done)
      BY <1>5, <2>2, DocumentBasics DEF SealedAt
    <2>4. SubSeq(done, 1, k) = SubSeq(doc, 1, k)
      BY <1>5, <2>2, <2>3, SamePrefix
    <2>5. RootId(done) = RootId(ts) /\ ReaderSees(done, RootId(ts)) = ReaderSees(ts, RootId(ts))
      BY <1>3, <1>6, EmbedSees DEF HasDss
    <2>6. ReaderSees(done, RootId(done)).inlineDss = InlineDssRead(doc)
      BY <1>6, <2>5 DEF InlineAs
    <2>7. InlineDssRead(doc) = InlineDssRead(SubSeq(done, 1, k))
      BY <2>1, <2>4 DEF InlineAs, InlineDssRead
    <2> QED
      BY <2>2, <2>3, <2>6, <2>7 DEF KeepsInline
  <1>9. PICK format : format = Format(ops[op], TRUE, TRUE)
    OBVIOUS
  <1>10. PICK r : r = Result(done, op, format)
    OBVIOUS
  <1>11. r.pdf = done /\ r.op = op /\ r.format = format
    BY <1>10 DEF Result
  <1>12. \/ ~ops[op].stamped /\ format = "pades-bes"
         \/ ops[op].stamped /\ format = "pades-b-lta"
    BY <1>9 DEF Format
  <1>13. Tells(r)
    BY <1>7, <1>8, <1>11, <1>12 DEF Tells
  <1>14. [Next]_vars
    BY DEF Next
  <1> QED
    BY <1>1, <1>4, <1>7, <1>9, <1>10, <1>13, <1>14, ReturnKeepsContents

LEMMA StampFailsKeepsContents ==
    ASSUME ContentsInv, StampFails
    PROVE  ContentsInv'
  <1>1. PICK doc, op, format : doc = call.pdf /\ op = call.op /\ format = Format(ops[op], TRUE, FALSE)
    OBVIOUS
  <1>2. /\ call.step \in {"stamp", "stamped"} /\ Returns(doc, format)
        /\ UNCHANGED <<ops, tokens>>
    BY <1>1, Zenon DEF StampFails
  <1>3. /\ WellFormed(doc) /\ Structured(doc) /\ DssUpTo(doc, Len(ops)) /\ HasDss(doc, op)
        /\ Last(doc).slot.for = "none" /\ SealedInline(doc, op)
    BY <1>1, <1>2 DEF ContentsInv, CallContents
  <1>4. Holds(doc, Len(ops)) /\ DssOf(doc) = op
    BY <1>3, ParsedHolds, DssIs
  <1>5. PICK r : r = Result(doc, op, format)
    OBVIOUS
  <1>6. r.pdf = doc /\ r.op = op /\ r.format = format
    BY <1>5 DEF Result
  <1>7. \/ ~ops[op].stamped /\ format = "pades-bes"
        \/ ops[op].stamped /\ format = "pades-b-lt"
    BY <1>1 DEF Format
  <1>8. Tells(r)
    <2>1. KeepsInline(doc, op)
      BY <1>3 DEF SealedInline, KeepsInline, LaterNone, LaterValid, InlineAs
    <2> QED
      BY <1>3, <1>4, <1>6, <1>7, <2>1 DEF Tells
  <1>9. [Next]_vars
    BY DEF Next
  <1> QED
    BY <1>1, <1>2, <1>4, <1>5, <1>8, <1>9, ReturnKeepsContents

LEMMA CallLostKeepsContents ==
    ASSUME ContentsInv, CallLost
    PROVE  ContentsInv'
  <1>1. call' = NoCall /\ UNCHANGED <<files, sealed>>
    BY DEF CallLost
  <1>2. CallContents' /\ Online' = Online
    BY <1>1, NoCallContents DEF Online
  <1>3. [Next]_vars
    BY DEF Next
  <1> QED
    BY <1>1, <1>2, <1>3, ContentsStep

LEMMA CompleteKeepsContents ==
    ASSUME ContentsInv, NEW pdf \in files, NEW op \in DOMAIN ops, Complete(pdf, op)
    PROVE  ContentsInv'
  <1>1. PICK done : done = embed(pdf, Cms(op))
    OBVIOUS
  <1>2. PICK result : result = Result(done, op, "completed")
    OBVIOUS
  <1>3. result.format = "completed"
    BY <1>2 DEF Result
  <1>4. /\ Recoverable(pdf) /\ sealed' = sealed \cup {result} /\ files' = files \cup {done}
        /\ UNCHANGED <<call, ops>>
    BY <1>1, <1>2, Zenon DEF Complete
  <1>5. Holds(pdf, Len(ops))
    BY DEF ContentsInv
  <1>6. Holds(done, Len(ops))
    BY <1>1, <1>4, <1>5, EmbedHolds DEF Holds
  <1>7. \A f \in files' : f \in files \/ Holds(f, Len(ops'))
    BY <1>4, <1>6
  <1>8. CallContents'
    BY <1>4, SameCallContents DEF ContentsInv
  <1>9. \A r \in Online' : r \in Online
    BY <1>3, <1>4 DEF Online
  <1>10. [Next]_vars
    BY DEF Next
  <1> QED
    BY <1>7, <1>8, <1>9, <1>10, ContentsStep

LEMMA EditKeepsContents ==
    ASSUME ContentsInv, NEW pdf \in files, NEW packing \in BOOLEAN, Edit(pdf, packing)
    PROVE  ContentsInv'
  <1>1. PICK objects \in EditsOf(pdf) :
           files' = files \cup {Append(pdf, EditRevision(pdf, objects, packing))}
    BY DEF Edit
  <1>2. Parses(pdf) /\ Finds(pdf) /\ UNCHANGED <<call, sealed, ops>>
    BY DEF Edit
  <1>3. PICK more : more = Append(pdf, EditRevision(pdf, objects, packing))
    OBVIOUS
  <1>4. WellFormed(pdf) /\ DssUpTo(pdf, Len(ops))
    BY DEF ContentsInv, Holds
  <1>5. WellFormed(more) /\ DssUpTo(more, Len(ops)) /\ Last(more).slot.for = "none"
    BY <1>2, <1>3, <1>4, EditKeeps
  <1>6. ~Recoverable(more)
    <2>1. Document(more)
      BY <1>5 DEF WellFormed
    <2>2. Last(more) = more[Len(more)]
      BY <2>1, DocumentBasics
    <2> QED
      BY <1>5, <2>1, <2>2, RecoverableIs DEF Unsigned
  <1>7. Holds(more, Len(ops))
    BY <1>5, <1>6 DEF Holds
  <1>8. \A f \in files' : f \in files \/ Holds(f, Len(ops'))
    BY <1>1, <1>2, <1>3, <1>7
  <1>9. CallContents' /\ Online' = Online
    BY <1>2, SameCallContents DEF ContentsInv, Online
  <1>10. [Next]_vars
    BY DEF Next
  <1> QED
    BY <1>8, <1>9, <1>10, ContentsStep

LEMMA ContentsInit == Init => ContentsInv
  <1> SUFFICES ASSUME Init
               PROVE  ContentsInv
    OBVIOUS
  <1>1. PICK pdf \in Sources : files = {pdf}
    BY DEF Init
  <1>2. PadesInv
    BY PadesInit
  <1>3. call = NoCall /\ sealed = {} /\ ops = <<>>
    BY DEF Init
  <1>4. Len(ops) = 0
    BY <1>3
  <1>5. WellFormed(pdf) /\ DssUpTo(pdf, 0)
    BY SealAssumption
  <1>6. Recoverable(pdf) => Readable(pdf)
    BY DEF Readable, FromUnreadable
  <1>7. \A f \in files : Holds(f, Len(ops))
    BY <1>1, <1>4, <1>5, <1>6 DEF Holds
  <1>8. CallContents
    BY <1>3 DEF NoCall, CallContents
  <1> QED
    BY <1>2, <1>3, <1>7, <1>8 DEF ContentsInv, Online

LEMMA ContentsNext == ContentsInv /\ [Next]_vars => ContentsInv'
  <1> SUFFICES ASSUME ContentsInv, [Next]_vars
               PROVE  ContentsInv'
    OBVIOUS
  <1>1. CASE \E pdf \in files : Prepare(pdf)
    BY <1>1, PrepareKeepsContents
  <1>2. CASE \E pdf \in files, ltv \in BOOLEAN : Seal(pdf, ltv) \/ SealPrepared(pdf, ltv)
    BY <1>2, SealKeepsContents
  <1>3. CASE \E answer \in Answers : ServiceSigns(answer)
    BY <1>3, ServiceSignsKeepsContents
  <1>4. CASE EmbedCms
    BY <1>4, EmbedCmsKeepsContents
  <1>5. CASE ServiceStamps
    BY <1>5, ServiceStampsKeepsContents
  <1>6. CASE \E size \in 1..2 : StampArrives(size)
    BY <1>6, StampArrivesKeepsContents
  <1>7. CASE StampFails
    BY <1>7, StampFailsKeepsContents
  <1>8. CASE CallLost
    BY <1>8, CallLostKeepsContents
  <1>9. CASE \E pdf \in files, op \in DOMAIN ops : Complete(pdf, op)
    BY <1>9, CompleteKeepsContents
  <1>10. CASE \E pdf \in files, packing \in BOOLEAN : Edit(pdf, packing)
    BY <1>10, EditKeepsContents
  <1>11. CASE UNCHANGED vars
    <2>1. UNCHANGED <<files, call, sealed, ops>>
      BY <1>11 DEF vars
    <2>2. CallContents' /\ Online' = Online
      BY <2>1, SameCallContents DEF ContentsInv, Online
    <2> QED
      BY <2>1, <2>2, ContentsStep
  <1> QED
    BY <1>1, <1>2, <1>3, <1>4, <1>5, <1>6, <1>7, <1>8, <1>9, <1>10, <1>11 DEF Next

\* The inductive invariant of what files hold: each is well formed and names
\* the DSS of operations there were only, the file of a call is one the parser
\* reads or a source it never read, and a result's format is what is in it.
THEOREM ContentsInvariant == Spec => []ContentsInv
  <1>1. Init => ContentsInv
    BY ContentsInit
  <1>2. ContentsInv /\ [Next]_vars => ContentsInv'
    BY ContentsNext
  <1> QED
    BY <1>1, <1>2, PTL DEF Spec

\* SignedIsFinished, for every set of PDFs: the signer reads what it has
\* written, so after the service has signed it is never the file that stops
\* the call, save a file it never read.
THEOREM SignedCallsFinish == Spec => []SignedIsFinished
  <1>1. ASSUME ContentsInv
        PROVE  SignedIsFinished
    BY <1>1 DEF ContentsInv, CallContents, Readable, FromUnreadable, SignedIsFinished
  <1> QED
    BY <1>1, ContentsInvariant, PTL

LEMMA FormatIs ==
    ASSUME ContentsInv, NEW r \in Online
    PROVE  /\ r.format = Format(ops[r.op], DssOf(r.pdf) = r.op,
                                Last(r.pdf).slot.for = "archive" /\ SlotValid(r.pdf, Len(r.pdf)))
           /\ \A i \in Slots(r.pdf) : i > SealAt(r) => r.pdf[i].slot.holds # Empty
           /\ DssOf(r.pdf) = r.op =>
                 ReaderSees(r.pdf, RootId(r.pdf)).inlineDss = InlineDssRead(SubSeq(r.pdf, 1, SealAt(r)))
  <1> DEFINE doc == r.pdf
             n == Len(doc)
             stamp == Last(doc).slot.for = "archive" /\ SlotValid(doc, n)
  <1>1. Document(doc) /\ Finished(doc, r.op)
    BY DEF ContentsInv, PadesInv, ResultsInv, FilesInv, TypeOK, Online
  <1>2. PICK k \in 1..n : SealedAt(doc, r.op, k) /\ LaterValid(doc, k)
    BY <1>1 DEF Finished
  <1>3. n \in Nat /\ DOMAIN doc = 1..n /\ Last(doc) = doc[n]
    BY <1>1, DocumentBasics
  <1>4. SealAt(r) = k
    BY <1>1, <1>2, SealAtIs
  <1>5. ASSUME NEW i \in Slots(doc), i > k
        PROVE  doc[i].slot.holds # Empty
    <2>1. i \in (k + 1)..n /\ doc[i].slot.for # "none"
      BY <1>3, <1>5 DEF Slots
    <2>2. Stamped(doc, i)
      BY <1>2, <2>1 DEF LaterValid
    <2> QED
      BY <2>2 DEF Stamped, Token, Empty
  <1>6. Tells(r)
    BY DEF ContentsInv
  <1>7. Stamped(doc, n) => stamp
    BY <1>3 DEF Stamped, SlotValid, Token
  <1>8. Last(doc).slot.for = "none" => ~stamp
    OBVIOUS
  <1> HIDE DEF stamp
  <1>9. r.format = Format(ops[r.op], DssOf(doc) = r.op, stamp)
    BY <1>6, <1>7, <1>8 DEF Tells, Format
  <1>10. ASSUME DssOf(doc) = r.op
         PROVE  ReaderSees(doc, RootId(doc)).inlineDss = InlineDssRead(SubSeq(doc, 1, SealAt(r)))
    <2>1. PICK j \in 1..n :
             /\ SealedAt(doc, r.op, j) /\ LaterValid(doc, j)
             /\ ReaderSees(doc, RootId(doc)).inlineDss = InlineDssRead(SubSeq(doc, 1, j))
      BY <1>6, <1>10 DEF Tells, KeepsInline
    <2>2. SealAt(r) = j
      BY <1>1, <2>1, SealAtIs
    <2> QED
      BY <2>1, <2>2
  <1> QED
    BY <1>4, <1>5, <1>9, <1>10 DEF stamp

\* FormatTellsContents, for every set of PDFs and whatever the service
\* answers: the format names the DSS and the timestamp a reader finds, and a
\* seal adds a second /DSS to no catalog but one read with an inline one.
THEOREM FormatsTellContents == Spec => []FormatTellsContents
  <1>1. ASSUME ContentsInv
        PROVE  FormatTellsContents
    BY <1>1, FormatIs, Zenon DEF FormatTellsContents
  <1> QED
    BY <1>1, ContentsInvariant, PTL

-----------------------------------------------------------------------------
(* Entries that gain an item or a reference, and what they then list.      *)

\* An item added to an entry: to the inline list there is, or in one of its own.
Gains(f, e, id) ==
    /\ Entry(f) /\ Refs(f) = Refs(e)
    /\ \A k \in Refs(e) : f[k].ref = e[k].ref
    /\ \A x : (\E k \in Inlines(f) : x \in f[k].items) <=> x = id \/ \E k \in Inlines(e) : x \in e[k].items
    /\ Len(f) <= 1 <=> Len(e) <= 1 /\ Refs(e) = {}

LEMMA InlineAddedIs ==
    ASSUME NEW e, Entry(e), NEW id
    PROVE  Gains(AddInline(e, id), e, id)
  <1>1. PICK n : n = Len(e)
    OBVIOUS
  <1>2. DOMAIN e = 1..n /\ n \in Nat
    BY <1>1, FirstRefIs
  <1>3. PICK f : f = AddInline(e, id)
    OBVIOUS
  <1>4. CASE Inlines(e) = {}
    <2>1. PICK x : x = Inline({id})
      OBVIOUS
    <2>2. x.ref = 0 /\ x.items = {id} /\ {"ref", "items"} \subseteq DOMAIN x
      BY <2>1 DEF Inline
    <2>3. f = Append(e, x)
      BY <1>3, <1>4, <2>1 DEF AddInline
    <2>4. Entry(f) /\ (\A k \in DOMAIN e : f[k] = e[k]) /\ f[n + 1] = x /\ Refs(f) = Refs(e)
      <3>1. x.ref \in Nat
        BY <2>2
      <3>2. ~(x.ref > 0) /\ {"ref", "items"} \subseteq DOMAIN x
        BY <2>2
      <3>3. /\ Entry(Append(e, x)) /\ \A k \in DOMAIN e : Append(e, x)[k] = e[k]
            /\ Refs(Append(e, x)) = Refs(e) \cup (IF x.ref > 0 THEN {Len(e) + 1} ELSE {})
            /\ Append(e, x)[Len(e) + 1] = x
        BY <3>1, <3>2, AppendEntry
      <3> QED
        BY <1>1, <2>3, <3>2, <3>3
    <2>5. Len(f) = n + 1 /\ DOMAIN f = 1..(n + 1)
      BY <1>1, <2>3, <2>4, AppendIs, FirstRefIs DEF Entry, IsSequence
    <2>6. Inlines(f) = {n + 1}
      <3>1. \A k \in 1..n : e[k].ref # 0
        BY <1>2, <1>4 DEF Inlines
      <3>2. \A k \in 1..(n + 1) : k \in 1..n \/ k = n + 1
        BY <1>2
      <3>3. \A k : k \in Inlines(f) <=> k = n + 1
        BY <1>2, <2>2, <2>4, <2>5, <3>1, <3>2 DEF Inlines
      <3> QED
        BY <3>3
    <2>7. \A y : (\E k \in Inlines(f) : y \in f[k].items) <=> y = id \/ \E k \in Inlines(e) : y \in e[k].items
      BY <1>4, <2>2, <2>4, <2>6
    <2>8. n <= 1 /\ Refs(e) = {} <=> n = 0
      <3>1. \A k \in DOMAIN e : k \in Refs(e)
        BY <1>4 DEF Refs, Inlines, Entry
      <3>2. n >= 1 => 1 \in 1..n
        BY <1>2
      <3>3. n = 0 => Refs(e) = {}
        BY <1>2 DEF Refs
      <3> QED
        BY <1>2, <3>1, <3>2, <3>3
    <2>9. Len(f) <= 1 <=> n = 0
      BY <1>2, <2>5
    <2>10. \A k \in Refs(e) : f[k].ref = e[k].ref
      BY <2>4 DEF Refs
    <2> QED
      BY <1>1, <1>3, <2>4, <2>7, <2>8, <2>9, <2>10 DEF Gains
  <1>5. CASE Inlines(e) # {}
    <2>1. PICK k : k = Min(Inlines(e))
      OBVIOUS
    <2>2. k \in Inlines(e)
      <3>1. Inlines(e) \in SUBSET Nat
        BY <1>2 DEF Inlines
      <3> QED
        BY <1>5, <2>1, <3>1, MinIs
    <2>3. k \in 1..n /\ e[k].ref = 0 /\ {"ref", "items"} \subseteq DOMAIN e[k]
      BY <1>2, <2>2 DEF Inlines, Entry
    <2>4. PICK x : x = [e[k] EXCEPT !.items = @ \cup {id}]
      OBVIOUS
    <2>5. x.ref = 0 /\ x.items = e[k].items \cup {id}
      BY <2>3, <2>4
    <2>6. f = [e EXCEPT ![k] = x]
      BY <1>3, <1>5, <2>1, <2>4 DEF AddInline
    <2>7. DOMAIN f = 1..n /\ f[k] = x /\ (\A i \in 1..n : i # k => f[i] = e[i]) /\ f = [i \in 1..n |-> f[i]]
      BY <1>2, <2>3, <2>6
    <2>8. Len(f) = n
      BY <1>2, <2>7, FunctionIsSequence
    <2>9. \A i \in 1..n : f[i].ref = e[i].ref
      BY <2>3, <2>5, <2>7
    <2>10. Refs(f) = Refs(e) /\ Inlines(f) = Inlines(e) /\ \A i \in Refs(e) : f[i].ref = e[i].ref
      BY <1>2, <2>7, <2>9 DEF Refs, Inlines
    <2>11. ASSUME NEW y
           PROVE  (\E i \in Inlines(e) : y \in f[i].items) <=> y = id \/ \E i \in Inlines(e) : y \in e[i].items
      <3>1. \A i \in Inlines(e) : i # k => f[i] = e[i]
        BY <1>2, <2>7 DEF Inlines
      <3> QED
        BY <2>2, <2>5, <2>7, <3>1
    <2>12. \A y : (\E i \in Inlines(f) : y \in f[i].items) <=> y = id \/ \E i \in Inlines(e) : y \in e[i].items
      BY <2>10, <2>11
    <2>13. n <= 1 => Refs(e) = {}
      <3> SUFFICES ASSUME n <= 1, NEW i \in Refs(e)
                   PROVE  FALSE
        OBVIOUS
      <3>1. i \in 1..n /\ e[i].ref > 0 /\ e[i].ref # 0
        BY <1>2 DEF Refs, Entry
      <3>2. i = 1 /\ k = 1
        BY <1>2, <2>3, <3>1
      <3> QED
        BY <2>3, <3>1, <3>2
    <2>14. Entry(f)
      BY <1>3, InlineAdded
    <2> QED
      BY <1>1, <1>3, <2>8, <2>10, <2>12, <2>13, <2>14 DEF Gains
  <1> QED
    BY <1>4, <1>5

\* An entry of one inline item.
LEMMA SingleEntry ==
    ASSUME NEW id
    PROVE  LET e == <<Inline({id})>>
           IN  Entry(e) /\ Refs(e) = {} /\ Inlines(e) = {1} /\ e[1].items = {id} /\ Len(e) = 1
  <1>1. PICK x : x = Inline({id})
    OBVIOUS
  <1>2. x.ref = 0 /\ x.items = {id} /\ {"ref", "items"} \subseteq DOMAIN x
    BY <1>1 DEF Inline
  <1>3. PICK e : e = <<x>>
    OBVIOUS
  <1>4. DOMAIN e = {1} /\ e[1] = x /\ Len(e) = 1
    BY <1>3
  <1>5. e \in Seq(ToSet(e))
    BY <1>3 DEF ToSet
  <1>6. Entry(e) /\ Refs(e) = {} /\ Inlines(e) = {1}
    BY <1>2, <1>4, <1>5 DEF Entry, Refs, Inlines
  <1> QED
    BY <1>1, <1>2, <1>3, <1>4, <1>6

\* A reference appended to an entry that has none.
LEMMA RefAddedIs ==
    ASSUME NEW e, Entry(e), Refs(e) = {}, NEW id \in Nat, id > 0
    PROVE  LET f == Append(e, ByRef(id))
           IN  /\ Entry(f) /\ Refs(f) = {Len(e) + 1} /\ f[Len(e) + 1].ref = id
               /\ Inlines(f) = Inlines(e) /\ \A k \in Inlines(e) : f[k] = e[k]
               /\ Len(f) = Len(e) + 1
  <1>1. PICK n : n = Len(e)
    OBVIOUS
  <1>2. DOMAIN e = 1..n /\ n \in Nat
    BY <1>1, FirstRefIs
  <1>3. PICK x : x = ByRef(id)
    OBVIOUS
  <1>4. x.ref = id /\ {"ref", "items"} \subseteq DOMAIN x
    BY <1>3 DEF ByRef
  <1>5. PICK f : f = Append(e, x)
    OBVIOUS
  <1>6. Entry(f) /\ (\A k \in DOMAIN e : f[k] = e[k]) /\ f[n + 1] = x /\ Refs(f) = {n + 1}
    <2>1. x.ref \in Nat
      BY <1>4
    <2>2. {"ref", "items"} \subseteq DOMAIN x /\ x.ref > 0
      BY <1>4
    <2>3. /\ Entry(Append(e, x)) /\ \A k \in DOMAIN e : Append(e, x)[k] = e[k]
          /\ Refs(Append(e, x)) = Refs(e) \cup (IF x.ref > 0 THEN {Len(e) + 1} ELSE {})
          /\ Append(e, x)[Len(e) + 1] = x
      BY <2>1, <2>2, AppendEntry
    <2> QED
      BY <1>1, <1>5, <2>2, <2>3
  <1>7. Len(f) = n + 1 /\ DOMAIN f = 1..(n + 1)
    BY <1>1, <1>5, <1>6, AppendIs, FirstRefIs DEF Entry, IsSequence
  <1>8. \A k \in 1..(n + 1) : k \in 1..n \/ k = n + 1
    BY <1>2
  <1>9. \A k : k \in Inlines(f) <=> k \in Inlines(e)
    BY <1>2, <1>4, <1>6, <1>7, <1>8 DEF Inlines
  <1>10. \A k \in Inlines(e) : f[k] = e[k]
    BY <1>6 DEF Inlines
  <1>11. Inlines(f) = Inlines(e)
    BY <1>9
  <1> QED
    BY <1>1, <1>3, <1>4, <1>5, <1>6, <1>7, <1>10, <1>11

\* An entry's references and inline items are all there is of it.
LEMMA EntryIs ==
    ASSUME NEW e, Entry(e)
    PROVE  /\ \A k : k \in DOMAIN e <=> k \in Refs(e) \/ k \in Inlines(e)
           /\ \A k \in Refs(e) : e[k].ref \in Nat /\ e[k].ref > 0 /\ e[k].ref # 0
           /\ \A k \in Inlines(e) : e[k].ref = 0
  <1>1. \A k \in DOMAIN e : e[k].ref \in Nat
    BY DEF Entry
  <1>2. \A n \in Nat : n = 0 <=> ~(n > 0)
    OBVIOUS
  <1> QED
    BY <1>1, <1>2 DEF Refs, Inlines

LEMMA ItemsAre ==
    ASSUME NEW doc, NEW e, Entry(e), NEW y
    PROVE  y \in Items(doc, e) <=>
              \/ \E k \in Inlines(e) : y \in e[k].items
              \/ \E k \in Refs(e) : y \in ReaderSees(doc, e[k].ref).items
  <1>1. y \in Items(doc, e) <=>
          \E k \in DOMAIN e : y \in IF e[k].ref = 0 THEN e[k].items ELSE ReaderSees(doc, e[k].ref).items
    BY DEF Items
  <1> QED
    BY <1>1, EntryIs

-----------------------------------------------------------------------------
(* What a reader finds in the form and on the first page.                    *)

ListAt(doc, k)  == ReaderSees(doc, FormEntry(doc)[k].ref).fields
PageEntry(doc)  == ReaderSees(doc, FirstPage(doc)).annots

LEMMA FieldsAre ==
    ASSUME NEW doc, NEW y
    PROVE  y \in FieldsOf(doc) <=>
              \/ \E k \in Inlines(FormEntry(doc)) : y \in FormEntry(doc)[k].items
              \/ \E k \in Refs(FormEntry(doc)) : y \in Items(doc, ListAt(doc, k))
  <1>1. \A entry : entry \in FieldEntries(doc) <=> \E k \in Refs(FormEntry(doc)) : entry = ListAt(doc, k)
    BY DEF FieldEntries, ListAt
  <1>2. y \in UNION {Items(doc, entry) : entry \in FieldEntries(doc)}
          <=> \E k \in Refs(FormEntry(doc)) : y \in Items(doc, ListAt(doc, k))
    <2>1. y \in UNION {Items(doc, entry) : entry \in FieldEntries(doc)}
            <=> \E entry \in FieldEntries(doc) : y \in Items(doc, entry)
      OBVIOUS
    <2> QED
      BY <1>1, <2>1
  <1>3. y \in UNION {FormEntry(doc)[k].items : k \in Inlines(FormEntry(doc))}
          <=> \E k \in Inlines(FormEntry(doc)) : y \in FormEntry(doc)[k].items
    OBVIOUS
  <1>4. PICK A : A = UNION {FormEntry(doc)[k].items : k \in Inlines(FormEntry(doc))}
    OBVIOUS
  <1>5. PICK B : B = UNION {Items(doc, entry) : entry \in FieldEntries(doc)}
    OBVIOUS
  <1>6. FieldsOf(doc) = A \cup B
    BY <1>4, <1>5 DEF FieldsOf
  <1>7. y \in FieldsOf(doc) <=> y \in A \/ y \in B
    BY <1>6
  <1> QED
    BY <1>2, <1>3, <1>4, <1>5, <1>7, Zenon

LEMMA OneOfAKind ==
    ASSUME NEW doc, WellFormed(doc), Linked(doc), NEW id, NEW type, Kind(doc, id, type)
    PROVE  /\ id \in Numbers(doc) /\ Defined(doc, id)
           /\ \A b \in Definitions(doc, id) : b.type = type /\ Body(b) /\ LinkedBody(doc, b)
           /\ type # "catalog" => id # RootId(doc)
  <1>1. id \in Numbers(doc) /\ Defined(doc, id) /\ \A b \in Definitions(doc, id) : b.type = type
    BY NumberIsDefined DEF Kind
  <1>2. \A b \in Definitions(doc, id) : Body(b) /\ LinkedBody(doc, b)
    BY <1>1 DEF WellFormed, Linked
  <1>3. SignerSees(doc, id) \in Definitions(doc, id)
    BY <1>1, SeenIsDefined DEF WellFormed
  <1>4. \A cat \in Definitions(doc, RootId(doc)) : cat.type = "catalog"
    BY DEF WellFormed
  <1>5. id = RootId(doc) => type = "catalog"
    BY <1>1, <1>3, <1>4
  <1> QED
    BY <1>1, <1>2, <1>5, Zenon

LEMMA OnlyFieldsAre ==
    ASSUME NEW doc, NEW e, Entry(e)
    PROVE  OnlyFields(doc, e) <=>
              /\ \A k \in Inlines(e) : \A id \in e[k].items : Kind(doc, id, "field")
              /\ \A k \in Refs(e) : \A b \in Definitions(doc, e[k].ref) : \A id \in b.items : Kind(doc, id, "field")
  <1> DEFINE items(k) == IF e[k].ref = 0 THEN {e[k].items} ELSE {b.items : b \in Definitions(doc, e[k].ref)}
  <1>1. \A k \in Inlines(e) : items(k) = {e[k].items}
    BY EntryIs
  <1>2. \A k \in Refs(e) : items(k) = {b.items : b \in Definitions(doc, e[k].ref)}
    BY EntryIs
  <1>3. \A k \in Inlines(e) : (\A id \in UNION items(k) : Kind(doc, id, "field"))
                                <=> \A id \in e[k].items : Kind(doc, id, "field")
    BY <1>1
  <1>4. \A k \in Refs(e) : (\A id \in UNION items(k) : Kind(doc, id, "field"))
                             <=> \A b \in Definitions(doc, e[k].ref) : \A id \in b.items : Kind(doc, id, "field")
    BY <1>2
  <1>5. OnlyFields(doc, e) <=> \A k \in DOMAIN e : \A id \in UNION items(k) : Kind(doc, id, "field")
    BY DEF OnlyFields
  <1> HIDE DEF items
  <1> QED
    BY <1>3, <1>4, <1>5, EntryIs

\* A file in which a reader sees what another file defines.
Reads(d, doc) ==
    /\ RootId(d) = RootId(doc) /\ FirstPage(d) = FirstPage(doc)
    /\ \A id \in Numbers(doc) : ReaderSees(d, id) \in Definitions(doc, id)

LEMMA LinksRead ==
    ASSUME NEW doc, WellFormed(doc), Linked(doc), NEW d, Reads(d, doc)
    PROVE  /\ Entry(FormEntry(d)) /\ Entry(PageEntry(d))
           /\ \A k \in Refs(FormEntry(d)) : Kind(doc, FormEntry(d)[k].ref, "form") /\ Entry(ListAt(d, k))
           /\ \A k \in Refs(FormEntry(d)) : \A j \in Refs(ListAt(d, k)) : Kind(doc, ListAt(d, k)[j].ref, "array")
           /\ \A k \in Refs(PageEntry(d)) : Kind(doc, PageEntry(d)[k].ref, "array")
           /\ \A id \in FieldsOf(d) : Kind(doc, id, "field")
  <1> DEFINE cat == ReaderSees(d, RootId(doc))
             page == ReaderSees(d, FirstPage(doc))
  <1>1. /\ cat.type = "catalog" /\ Body(cat) /\ LinkedBody(doc, cat)
        /\ page.type = "page" /\ Body(page) /\ LinkedBody(doc, page)
    <2>1. cat \in Definitions(doc, RootId(doc)) /\ RootId(doc) \in Numbers(doc)
      BY DEF Reads, WellFormed
    <2>2. Kind(doc, FirstPage(doc), "page")
      BY DEF Linked
    <2>3. page \in Definitions(doc, FirstPage(doc))
      BY <2>2, OneOfAKind DEF Reads
    <2> QED
      BY <2>1, <2>2, <2>3, OneOfAKind DEF WellFormed, Linked
  <1>2. FormEntry(d) = cat.form /\ PageEntry(d) = page.annots
    BY DEF FormEntry, PageEntry, Reads
  <1> HIDE DEF cat, page
  <1>3. /\ Entry(FormEntry(d)) /\ Entry(PageEntry(d))
        /\ Links(doc, FormEntry(d), "form") /\ Links(doc, PageEntry(d), "array")
        /\ \A k \in Inlines(FormEntry(d)) : \A id \in FormEntry(d)[k].items : Kind(doc, id, "field")
    BY <1>1, <1>2 DEF LinkedBody, Body
  <1>4. \A k \in Refs(FormEntry(d)) : Kind(doc, FormEntry(d)[k].ref, "form")
    BY <1>3, EntryIs DEF Links
  <1>5. \A k \in Refs(PageEntry(d)) : Kind(doc, PageEntry(d)[k].ref, "array")
    BY <1>3, EntryIs DEF Links
  <1>6. ASSUME NEW k \in Refs(FormEntry(d))
        PROVE  Entry(ListAt(d, k)) /\ Links(doc, ListAt(d, k), "array") /\ OnlyFields(doc, ListAt(d, k))
    <2> DEFINE ref == FormEntry(d)[k].ref
    <2>1. Kind(doc, ref, "form")
      BY <1>4
    <2>2. ReaderSees(d, ref) \in Definitions(doc, ref)
      BY <2>1, OneOfAKind DEF Reads
    <2>3. ReaderSees(d, ref).type = "form" /\ LinkedBody(doc, ReaderSees(d, ref))
      BY <2>1, <2>2, OneOfAKind
    <2> QED
      BY <2>3 DEF LinkedBody, ListAt
  <1>7. \A k \in Refs(FormEntry(d)) : \A j \in Refs(ListAt(d, k)) : Kind(doc, ListAt(d, k)[j].ref, "array")
    BY <1>6, EntryIs DEF Links
  <1>8. ASSUME NEW id \in FieldsOf(d)
        PROVE  Kind(doc, id, "field")
    <2>1. CASE \E k \in Inlines(FormEntry(d)) : id \in FormEntry(d)[k].items
      BY <1>3, <2>1
    <2>2. CASE \E k \in Refs(FormEntry(d)) : id \in Items(d, ListAt(d, k))
      <3>1. PICK k \in Refs(FormEntry(d)) : id \in Items(d, ListAt(d, k))
        BY <2>2
      <3>2. PICK e : e = ListAt(d, k)
        OBVIOUS
      <3>3. Entry(e) /\ OnlyFields(doc, e) /\ id \in Items(d, e)
        BY <1>6, <3>1, <3>2
      <3>4. /\ \A j \in Inlines(e) : \A x \in e[j].items : Kind(doc, x, "field")
            /\ \A j \in Refs(e) : \A b \in Definitions(doc, e[j].ref) : \A x \in b.items : Kind(doc, x, "field")
        BY <3>3, OnlyFieldsAre
      <3>5. CASE \E j \in Inlines(e) : id \in e[j].items
        BY <3>4, <3>5
      <3>6. CASE \E j \in Refs(e) : id \in ReaderSees(d, e[j].ref).items
        <4>1. PICK j \in Refs(e) : id \in ReaderSees(d, e[j].ref).items
          BY <3>6
        <4>2. Kind(doc, e[j].ref, "array")
          BY <1>7, <3>1, <3>2
        <4>3. ReaderSees(d, e[j].ref) \in Definitions(doc, e[j].ref)
          BY <4>2, OneOfAKind DEF Reads
        <4> QED
          BY <3>4, <4>1, <4>3
      <3> QED
        BY <3>3, <3>5, <3>6, ItemsAre
    <2> QED
      BY <2>1, <2>2, FieldsAre
  <1> QED
    BY <1>3, <1>4, <1>5, <1>6, <1>7, <1>8

\* A form whose entries have what they list in the place the patchers look.
Plain(doc) ==
    /\ Refs(FormEntry(doc)) = DOMAIN FormEntry(doc)
    /\ \A k \in Refs(FormEntry(doc)) : Refs(ListAt(doc, k)) = {}

LEMMA PlacesAre ==
    ASSUME NEW doc
    PROVE  /\ Plain(doc) <=> /\ Refs(FormEntry(doc)) = DOMAIN FormEntry(doc)
                             /\ \A entry \in FieldEntries(doc) : Refs(entry) = {}
           /\ Unambiguous(doc) <=> /\ Len(FormEntry(doc)) <= 1
                                   /\ \A k \in Refs(FormEntry(doc)) : Len(ListAt(doc, k)) <= 1
                                   /\ Len(PageEntry(doc)) <= 1
  <1>1. \A entry : entry \in FieldEntries(doc) <=> \E k \in Refs(FormEntry(doc)) : entry = ListAt(doc, k)
    BY DEF FieldEntries, ListAt
  <1>2. (\A entry \in FieldEntries(doc) : Refs(entry) = {}) <=> \A k \in Refs(FormEntry(doc)) : Refs(ListAt(doc, k)) = {}
    BY <1>1
  <1>3. (\A entry \in FieldEntries(doc) : Len(entry) <= 1) <=> \A k \in Refs(FormEntry(doc)) : Len(ListAt(doc, k)) <= 1
    BY <1>1
  <1> QED
    BY <1>2, <1>3 DEF Plain, Unambiguous, PageEntry

\* Two files that look alike: only the catalog's DSS may differ.
Alike(a, b, doc) ==
    /\ RootId(b) = RootId(a) /\ FirstPage(b) = FirstPage(a) /\ FormEntry(b) = FormEntry(a)
    /\ \A id \in Numbers(doc) : id # RootId(doc) => ReaderSees(b, id) = ReaderSees(a, id)

LEMMA AlikeShow ==
    ASSUME NEW doc, WellFormed(doc), Linked(doc), NEW a, Reads(a, doc), NEW b, Alike(a, b, doc)
    PROVE  /\ FieldsOf(b) = FieldsOf(a) /\ AnnotsOf(b) = AnnotsOf(a)
           /\ Unambiguous(b) <=> Unambiguous(a)
           /\ Plain(b) <=> Plain(a)
           /\ \A id \in FieldsOf(a) : ReaderSees(b, id) = ReaderSees(a, id)
  <1>1. FormEntry(b) = FormEntry(a)
    BY DEF Alike
  <1>2. \A id, type : Kind(doc, id, type) /\ type # "catalog" => ReaderSees(b, id) = ReaderSees(a, id)
    BY OneOfAKind DEF Alike
  <1>3. \A k \in Refs(FormEntry(a)) : ListAt(b, k) = ListAt(a, k)
    BY <1>1, <1>2, LinksRead DEF ListAt
  <1>4. PageEntry(b) = PageEntry(a)
    <2>1. Kind(doc, FirstPage(a), "page")
      BY DEF Linked, Reads
    <2> QED
      BY <1>2, <2>1 DEF PageEntry, Alike
  <1>5. \A k \in Refs(FormEntry(a)) : \A j \in Refs(ListAt(a, k)) :
           ReaderSees(b, ListAt(a, k)[j].ref) = ReaderSees(a, ListAt(a, k)[j].ref)
    BY <1>2, LinksRead
  <1>6. ASSUME NEW e, Entry(e), \A k \in Refs(e) : ReaderSees(b, e[k].ref) = ReaderSees(a, e[k].ref)
        PROVE  Items(b, e) = Items(a, e)
    <2>1. \A y : y \in Items(b, e) <=> y \in Items(a, e)
      BY <1>6, ItemsAre
    <2> QED
      BY <2>1 DEF Items
  <1>7. \A k \in Refs(FormEntry(a)) : Items(b, ListAt(b, k)) = Items(a, ListAt(a, k))
    BY <1>3, <1>5, <1>6, LinksRead
  <1>8. \A y : y \in FieldsOf(b) <=> y \in FieldsOf(a)
    BY <1>1, <1>7, FieldsAre
  <1>9. FieldsOf(b) = FieldsOf(a)
    BY <1>8 DEF FieldsOf
  <1>10. AnnotsOf(b) = AnnotsOf(a)
    <2>1. \A k \in Refs(PageEntry(a)) : ReaderSees(b, PageEntry(a)[k].ref) = ReaderSees(a, PageEntry(a)[k].ref)
      BY <1>2, LinksRead
    <2>2. Items(b, PageEntry(a)) = Items(a, PageEntry(a))
      BY <1>6, <2>1, LinksRead
    <2>3. AnnotsOf(a) = Items(a, PageEntry(a)) /\ AnnotsOf(b) = Items(b, PageEntry(b))
      BY DEF AnnotsOf, PageEntry
    <2> QED
      BY <1>4, <2>2, <2>3
  <1>11. \A id \in FieldsOf(a) : ReaderSees(b, id) = ReaderSees(a, id)
    BY <1>2, LinksRead
  <1>12. Unambiguous(b) <=> Unambiguous(a)
    BY <1>1, <1>3, <1>4, PlacesAre
  <1>13. Plain(b) <=> Plain(a)
    BY <1>1, <1>3 DEF Plain
  <1> QED
    BY <1>9, <1>10, <1>11, <1>12, <1>13

-----------------------------------------------------------------------------
(* The objects of a signature revision, one by one.                          *)

\* The array the signer adds its field to, the form it adds it to: 0 when there is none yet.
ArrayOf(doc) == FirstRef(SignerSees(doc, FirstPage(doc)).annots)
FormOf(doc)  == FirstRef(SignerSees(doc, RootId(doc)).form)
PlaceOf(doc) == IF ArrayOf(doc) > 0 THEN ArrayOf(doc) ELSE FirstPage(doc)

\* The file as the signer takes it: the objects a signature revision defines
\* anew, as the signer sees them.  And whether the patcher adds the annotation
\* to an array that a reader of the page looks into.
AsTaken(doc) ==
    Append(doc, Revision(doc, [id \in Touched(doc) |-> SignerSees(doc, id)], MaxId(doc) + 1, NoSlot, 0))

SamePlace(pdf) ==
    LET arr   == FirstRef(SignerSees(pdf, FirstPage(pdf)).annots)
        found == ReaderSees(pdf, FirstPage(pdf)).annots
    IN  arr > 0 => \E k \in Refs(found) : found[k].ref = arr

LEMMA TouchedIs ==
    ASSUME NEW doc, WellFormed(doc), Parses(doc), Linked(doc)
    PROVE  /\ Touched(doc) = {RootId(doc), PlaceOf(doc)} \cup (IF FormOf(doc) > 0 THEN {FormOf(doc)} ELSE {})
           /\ FormOf(doc) \in Nat /\ ArrayOf(doc) \in Nat
           /\ FormOf(doc) > 0 => Kind(doc, FormOf(doc), "form")
           /\ ArrayOf(doc) > 0 => Kind(doc, ArrayOf(doc), "array")
           /\ Kind(doc, FirstPage(doc), "page") /\ Kind(doc, RootId(doc), "catalog")
           /\ RootId(doc) # PlaceOf(doc)
           /\ FormOf(doc) > 0 => FormOf(doc) \notin {RootId(doc), PlaceOf(doc)}
           /\ Touched(doc) \subseteq Numbers(doc)
  <1> DEFINE cat == SignerSees(doc, RootId(doc))
             page == SignerSees(doc, FirstPage(doc))
  <1>1. Kind(doc, RootId(doc), "catalog") /\ Kind(doc, FirstPage(doc), "page")
    BY DEF Kind, Linked, WellFormed
  <1>2. cat \in Definitions(doc, RootId(doc)) /\ page \in Definitions(doc, FirstPage(doc))
    BY <1>1, OneOfAKind, SeenIsDefined DEF WellFormed
  <1>3. /\ Body(cat) /\ LinkedBody(doc, cat) /\ cat.type = "catalog"
        /\ Body(page) /\ LinkedBody(doc, page) /\ page.type = "page"
    BY <1>1, <1>2, OneOfAKind
  <1>4. Entry(cat.form) /\ Links(doc, cat.form, "form") /\ Entry(page.annots) /\ Links(doc, page.annots, "array")
    BY <1>3 DEF Body, LinkedBody
  <1>5. ASSUME NEW e, Entry(e), NEW type, Links(doc, e, type)
        PROVE  FirstRef(e) \in Nat /\ (FirstRef(e) > 0 => Kind(doc, FirstRef(e), type))
    <2>1. FirstRef(e) \in Nat /\ (FirstRef(e) > 0 <=> Refs(e) # {}) /\ (Refs(e) # {} => Min(Refs(e)) \in Refs(e))
      BY <1>5, FirstRefIs
    <2>2. Refs(e) # {} => FirstRef(e) = e[Min(Refs(e))].ref
      BY DEF FirstRef
    <2>3. \A k \in Refs(e) : Kind(doc, e[k].ref, type)
      BY <1>5, EntryIs DEF Links
    <2> QED
      BY <2>1, <2>2, <2>3
  <1> HIDE DEF cat, page
  <1>6. FormOf(doc) = FirstRef(cat.form) /\ ArrayOf(doc) = FirstRef(page.annots)
    BY DEF FormOf, ArrayOf, cat, page
  <1>7. /\ FormOf(doc) \in Nat /\ ArrayOf(doc) \in Nat
        /\ FormOf(doc) > 0 => Kind(doc, FormOf(doc), "form")
        /\ ArrayOf(doc) > 0 => Kind(doc, ArrayOf(doc), "array")
    BY <1>4, <1>5, <1>6
  <1>8. PICK type \in {"array", "page"} : Kind(doc, PlaceOf(doc), type)
    BY <1>1, <1>7 DEF PlaceOf
  <1>9. RootId(doc) # PlaceOf(doc) /\ PlaceOf(doc) \in Numbers(doc)
    BY <1>8, OneOfAKind
  <1>10. FormOf(doc) > 0 => FormOf(doc) \notin {RootId(doc), PlaceOf(doc)} /\ FormOf(doc) \in Numbers(doc)
    <2>1. FormOf(doc) > 0 => FormOf(doc) # RootId(doc) /\ FormOf(doc) \in Numbers(doc)
      BY <1>7, OneOfAKind
    <2>2. ASSUME FormOf(doc) > 0, FormOf(doc) = PlaceOf(doc)
          PROVE  FALSE
      <3>1. PICK b : b \in Definitions(doc, PlaceOf(doc))
        BY <1>8, OneOfAKind, SeenIsDefined DEF WellFormed
      <3>2. b.type = type /\ b.type = "form"
        BY <1>7, <1>8, <2>2, <3>1, OneOfAKind
      <3> QED
        BY <3>2
    <2> QED
      BY <2>1, <2>2
  <1>11. Touched(doc) = {RootId(doc), PlaceOf(doc)} \cup (IF FormOf(doc) > 0 THEN {FormOf(doc)} ELSE {})
    BY DEF Touched, PlaceOf, ArrayOf, FormOf
  <1>12. Touched(doc) \subseteq Numbers(doc)
    BY <1>1, <1>9, <1>10, <1>11 DEF Kind
  <1> QED
    BY <1>1, <1>7, <1>9, <1>10, <1>11, <1>12

\* A field f with title t, in the form and on the first page, and nothing else of note.
Signs(doc, objects, f, t) ==
    LET seen(id) == SignerSees(doc, id)
        cat      == SignerSees(doc, RootId(doc))
        fresh    == DOMAIN objects \ Numbers(doc)
    IN  /\ DOMAIN objects \cap Numbers(doc) = Touched(doc)
        /\ f \in fresh /\ objects[f] = Field(t, f - 1)
        /\ objects[PlaceOf(doc)] = IF ArrayOf(doc) > 0
                                   THEN [seen(ArrayOf(doc)) EXCEPT !["items"] = @ \cup {f}]
                                   ELSE [seen(FirstPage(doc)) EXCEPT !["annots"] = AddInline(@, f)]
        /\ FormOf(doc) > 0 =>
              /\ objects[RootId(doc)] = cat
              /\ objects[FormOf(doc)] = [seen(FormOf(doc)) EXCEPT !["fields"] = AddInline(@, f)]
              /\ \A id \in fresh : id = f \/ objects[id] = Other
        /\ FormOf(doc) = 0 =>
              \E form \in fresh :
                 /\ form \in Nat /\ form > 0 /\ form # f
                 /\ objects[form] = Form(<<Inline({f})>>)
                 /\ objects[RootId(doc)] = [cat EXCEPT !["form"] = Append(@, ByRef(form))]
                 /\ \A id \in fresh : id \in {f, form} \/ objects[id] = Other

LEMMA SignatureSigns ==
    ASSUME NEW doc, WellFormed(doc), Parses(doc), Linked(doc), NEW title, NEW for, NEW n
    PROVE  LET rev == SignatureRevision(doc, title, for, n)
           IN  /\ Signs(doc, rev.top, MaxId(doc) + 2, title)
               /\ rev.xref = Last(doc).xref /\ rev.slot = Slot(for)
  <1> DEFINE m     == MaxId(doc)
             root  == RootId(doc)
             sig   == MaxId(doc) + 1
             field == sig + 1
             cat   == SignerSees(doc, RootId(doc))
             page  == FirstPage(doc)
             arr   == FirstRef(SignerSees(doc, page).annots)
             old   == FirstRef(cat.form)
             form  == IF old > 0 THEN old ELSE field + 1
             next  == IF old > 0 THEN field + 1 ELSE field + 2
             place == IF arr > 0 THEN arr ELSE page
             noted == IF arr > 0
                      THEN [SignerSees(doc, arr) EXCEPT !.items = @ \cup {field}]
                      ELSE [SignerSees(doc, page) EXCEPT !.annots = AddInline(@, field)]
             listed == IF old > 0
                       THEN [SignerSees(doc, old) EXCEPT !.fields = AddInline(@, field)]
                       ELSE Form(<<Inline({field})>>)
             all == Put(sig, Other, Put(field, Field(title, sig), Put(place, noted, Put(form, listed,
                       Put(root, AddAcroForm(cat, form), NoObjects)))))
  <1>1. PICK rev : rev = SignatureRevision(doc, title, for, n)
    OBVIOUS
  <1>2. /\ rev.top = Put(next, Other, all) \/ rev.top = all
        /\ rev.xref = Last(doc).xref /\ rev.slot = Slot(for)
    BY <1>1 DEF SignatureRevision, Revision
  <1>3. m \in Nat /\ Numbers(doc) \subseteq 1..m /\ sig = m + 1 /\ field = m + 2
    BY DEF MaxId, WellFormed
  <1>4. arr = ArrayOf(doc) /\ old = FormOf(doc) /\ place = PlaceOf(doc)
    BY DEF ArrayOf, FormOf, PlaceOf
  <1>5. /\ Touched(doc) = {root, place} \cup (IF old > 0 THEN {old} ELSE {})
        /\ old \in Nat /\ arr \in Nat /\ root # place /\ (old > 0 => old \notin {root, place})
        /\ root \in 1..m /\ place \in 1..m /\ (old > 0 => old \in 1..m)
        /\ root \in Numbers(doc) /\ place \in Numbers(doc) /\ (old > 0 => old \in Numbers(doc))
    <2>1. /\ Touched(doc) = {root, place} \cup (IF old > 0 THEN {old} ELSE {})
          /\ old \in Nat /\ arr \in Nat /\ root # place /\ (old > 0 => old \notin {root, place})
          /\ Touched(doc) \subseteq Numbers(doc)
      BY <1>4, TouchedIs
    <2> HIDE DEF root, place, old
    <2>2. root \in Numbers(doc) /\ place \in Numbers(doc) /\ (old > 0 => old \in Numbers(doc))
      BY <2>1
    <2> QED
      BY <1>3, <2>1, <2>2
  <1> HIDE DEF noted, listed, root, place, old, arr
  <1>6. /\ next \in Nat /\ next > m /\ next \notin {sig, field, form}
        /\ old > 0 => form = old
        /\ ~(old > 0) => form = m + 3
    <2>1. CASE old > 0
      <3>1. form = old /\ next = m + 3
        BY <1>3, <2>1
      <3> QED
        BY <1>3, <1>5, <2>1, <3>1
    <2>2. CASE ~(old > 0)
      <3>1. form = m + 3 /\ next = m + 4
        BY <1>3, <2>2
      <3> QED
        BY <1>3, <2>2, <3>1
    <2> QED
      BY <2>1, <2>2
  <1> HIDE DEF form, next
  <1>7. form \notin {sig, field, place, root}
    BY <1>3, <1>5, <1>6
  <1>8. /\ DOMAIN all = {sig, field, place, form, root}
        /\ all[sig] = Other /\ all[field] = Field(title, sig) /\ all[place] = noted
        /\ all[form] = listed /\ all[root] = AddAcroForm(cat, form)
    <2>1. sig \notin {field, place, form, root} /\ field \notin {place, form, root}
      BY <1>3, <1>5, <1>7
    <2>2. place \notin {form, root} /\ form # root
      BY <1>5, <1>7
    <2>3. PICK catalog, entry : catalog = AddAcroForm(cat, form) /\ entry = Field(title, sig)
      OBVIOUS
    <2>4. PICK p : p = Put(root, catalog, NoObjects)
      OBVIOUS
    <2>5. DOMAIN p = {root} /\ p[root] = catalog
      BY <2>4, NothingGood DEF Put
    <2>6. PICK q : q = Put(form, listed, p)
      OBVIOUS
    <2>7. DOMAIN q = {form, root} /\ q[form] = listed /\ q[root] = catalog
      BY <2>2, <2>5, <2>6 DEF Put
    <2>8. PICK r : r = Put(place, noted, q)
      OBVIOUS
    <2>9. DOMAIN r = {place, form, root} /\ r[place] = noted /\ r[form] = listed /\ r[root] = catalog
      BY <2>2, <2>7, <2>8 DEF Put
    <2>10. PICK s : s = Put(field, entry, r)
      OBVIOUS
    <2> HIDE DEF sig, field
    <2>11. /\ DOMAIN s = {field, place, form, root}
           /\ s[field] = entry /\ s[place] = noted /\ s[form] = listed /\ s[root] = catalog
      BY <2>1, <2>9, <2>10 DEF Put
    <2>12. PICK t : t = Put(sig, Other, s)
      OBVIOUS
    <2>13. /\ DOMAIN t = {sig, field, place, form, root}
           /\ t[sig] = Other /\ t[field] = entry /\ t[place] = noted /\ t[form] = listed /\ t[root] = catalog
      BY <2>1, <2>11, <2>12 DEF Put
    <2>14. t = all
      BY <2>3, <2>4, <2>6, <2>8, <2>10, <2>12 DEF all
    <2> HIDE DEF all
    <2> QED
      BY <2>3, <2>13, <2>14
  <1> HIDE DEF all
  <1>9. PICK objects : objects = rev.top
    OBVIOUS
  <1>10. /\ DOMAIN all \subseteq DOMAIN objects /\ DOMAIN objects \subseteq DOMAIN all \cup {next}
         /\ \A id \in DOMAIN all : objects[id] = all[id]
         /\ next \in DOMAIN objects => objects[next] = Other
    <2>1. next \notin DOMAIN all
      BY <1>3, <1>5, <1>6, <1>8
    <2> QED
      BY <1>2, <1>9, <2>1 DEF Put
  <1>11. \A id \in 1..m : id \notin {sig, field, next}
    BY <1>3, <1>6
  <1>12. \A id : id \in DOMAIN objects \ Numbers(doc) =>
                    id \in {field, form} \/ objects[id] = Other
    BY <1>5, <1>8, <1>10
  <1>13. field \in DOMAIN objects \ Numbers(doc) /\ objects[field] = Field(title, field - 1)
    BY <1>3, <1>8, <1>10
  <1>14. DOMAIN objects \cap Numbers(doc) = Touched(doc)
    <2>1. sig \notin Numbers(doc) /\ field \notin Numbers(doc) /\ next \notin Numbers(doc)
      BY <1>3, <1>11
    <2>2. form \in Numbers(doc) <=> old > 0
      BY <1>3, <1>5, <1>6
    <2>3. \A id : id \in DOMAIN objects /\ id \in Numbers(doc) <=> id \in {place, root} \/ (id = form /\ old > 0)
      BY <1>5, <1>8, <1>10, <2>1, <2>2
    <2> QED
      BY <1>5, <1>6, <2>3
  <1>15. objects[place] = IF arr > 0 THEN [SignerSees(doc, arr) EXCEPT !["items"] = @ \cup {field}]
                                     ELSE [SignerSees(doc, page) EXCEPT !["annots"] = AddInline(@, field)]
    BY <1>8, <1>10 DEF noted
  <1>16. old > 0 => /\ objects[root] = cat
                    /\ objects[old] = [SignerSees(doc, old) EXCEPT !["fields"] = AddInline(@, field)]
    <2> SUFFICES ASSUME old > 0
                 PROVE  /\ objects[root] = cat
                        /\ objects[old] = [SignerSees(doc, old) EXCEPT !["fields"] = AddInline(@, field)]
      OBVIOUS
    <2>1. Refs(cat.form) # {}
      <3>1. FirstRef(cat.form) # 0
        BY <1>5 DEF old
      <3> QED
        BY <3>1 DEF FirstRef
    <2>2. AddAcroForm(cat, form) = cat
      BY <2>1 DEF AddAcroForm
    <2> QED
      BY <1>6, <1>8, <1>10, <2>2 DEF listed
  <1>17. old = 0 => /\ objects[root] = [cat EXCEPT !["form"] = Append(@, ByRef(form))]
                    /\ objects[form] = Form(<<Inline({field})>>)
    <2> SUFFICES ASSUME old = 0
                 PROVE  /\ objects[root] = [cat EXCEPT !["form"] = Append(@, ByRef(form))]
                        /\ objects[form] = Form(<<Inline({field})>>)
      OBVIOUS
    <2>1. Refs(cat.form) = {}
      <3>1. Kind(doc, RootId(doc), "catalog") /\ cat \in Definitions(doc, RootId(doc))
        BY TouchedIs, OneOfAKind, SeenIsDefined DEF WellFormed
      <3>2. Body(cat) /\ cat.type = "catalog"
        BY <3>1, OneOfAKind
      <3>3. Entry(cat.form)
        BY <3>2 DEF Body
      <3> QED
        BY <3>3, FirstRefIs DEF old
    <2>2. AddAcroForm(cat, form) = [cat EXCEPT !.form = Append(@, ByRef(form))]
      BY <2>1 DEF AddAcroForm
    <2> QED
      BY <1>8, <1>10, <2>2 DEF listed
  <1>18. old = 0 => form \in DOMAIN objects \ Numbers(doc) /\ form \in Nat /\ form > 0 /\ form # field
    BY <1>3, <1>6, <1>8, <1>10
  <1>19. old > 0 => form \in Numbers(doc)
    BY <1>5, <1>6
  <1>20. Signs(doc, objects, field, title)
    <2>1. old > 0 => \A id \in DOMAIN objects \ Numbers(doc) : id = field \/ objects[id] = Other
      BY <1>12, <1>19
    <2>2. cat = SignerSees(doc, RootId(doc)) /\ root = RootId(doc) /\ page = FirstPage(doc)
      BY DEF root
    <2> HIDE DEF cat, page
    <2> QED
      BY <1>4, <1>12, <1>13, <1>14, <1>15, <1>16, <1>17, <1>18, <2>1, <2>2 DEF Signs
  <1> QED
    BY <1>1, <1>2, <1>3, <1>9, <1>20

-----------------------------------------------------------------------------
(* References still lead to what they should when bodies keep their types    *)
(* and arrays gain fields only.                                              *)

Extends(doc, rev, new) ==
    /\ HasSlot(rev) /\ DOMAIN rev.packed = {}
    /\ \A id \in new : id \in DOMAIN rev.top /\ id \notin Numbers(doc) /\ rev.top[id].type = "field"
    /\ \A id \in DOMAIN rev.top \cap Numbers(doc) :
          /\ rev.top[id].type = SignerSees(doc, id).type
          /\ rev.top[id].type = "array" => rev.top[id].items \subseteq SignerSees(doc, id).items \cup new

LEMMA KindGrows ==
    ASSUME NEW doc, WellFormed(doc), Linked(doc), NEW rev, NEW new, Extends(doc, rev, new)
    PROVE  /\ \A id, type : Kind(doc, id, type) => Kind(Append(doc, rev), id, type)
           /\ \A id \in new : Kind(Append(doc, rev), id, "field")
           /\ \A id : \A b \in Definitions(Append(doc, rev), id) :
                 b \in Definitions(doc, id) \/ (id \in DOMAIN rev.top /\ b = rev.top[id])
  <1>1. PICK more : more = Append(doc, rev)
    OBVIOUS
  <1>2. Document(doc) /\ HasSlot(rev) /\ DOMAIN rev.packed = {}
    BY DEF WellFormed, Extends
  <1>3. \A id : \A b \in Definitions(more, id) :
           b \in Definitions(doc, id) \/ (id \in DOMAIN rev.top /\ b = rev.top[id])
    BY <1>1, <1>2, OneMoreSees
  <1>4. Numbers(more) = Numbers(doc) \cup DOMAIN rev.top
    BY <1>1, <1>2, OneMore
  <1>5. ASSUME NEW id, NEW type, Kind(doc, id, type)
        PROVE  Kind(more, id, type)
    <2>1. id \in Numbers(doc) /\ Defined(doc, id) /\ \A b \in Definitions(doc, id) : b.type = type
      BY <1>5, OneOfAKind
    <2>2. SignerSees(doc, id).type = type
      BY <1>2, <2>1, SeenIsDefined
    <2>3. id \in DOMAIN rev.top => rev.top[id].type = type
      BY <2>1, <2>2 DEF Extends
    <2> QED
      BY <1>3, <1>4, <2>1, <2>3 DEF Kind
  <1>6. ASSUME NEW id \in new
        PROVE  Kind(more, id, "field")
    <2>1. id \in DOMAIN rev.top /\ id \notin Numbers(doc) /\ rev.top[id].type = "field"
      BY DEF Extends
    <2>2. Definitions(doc, id) = {}
      BY <2>1, NumberIsDefined DEF Defined, Definitions
    <2> QED
      BY <1>3, <1>4, <2>1, <2>2 DEF Kind
  <1> QED
    BY <1>1, <1>3, <1>5, <1>6

LEMMA BodyGrows ==
    ASSUME NEW doc, WellFormed(doc), Linked(doc), NEW rev, NEW new, Extends(doc, rev, new), NEW b
    PROVE  /\ \A e, type : Links(doc, e, type) => Links(Append(doc, rev), e, type)
           /\ \A e : Entry(e) /\ Links(doc, e, "array") /\ OnlyFields(doc, e) => OnlyFields(Append(doc, rev), e)
           /\ LinkedBody(doc, b) => LinkedBody(Append(doc, rev), b)
  <1>1. PICK more : more = Append(doc, rev)
    OBVIOUS
  <1>2. /\ \A id, type : Kind(doc, id, type) => Kind(more, id, type)
        /\ \A id \in new : Kind(more, id, "field")
        /\ \A id : \A d \in Definitions(more, id) :
              d \in Definitions(doc, id) \/ (id \in DOMAIN rev.top /\ d = rev.top[id])
    BY <1>1, KindGrows
  <1>3. \A e, type : Links(doc, e, type) => Links(more, e, type)
    BY <1>2 DEF Links
  <1>4. ASSUME NEW e, Entry(e), Links(doc, e, "array"), OnlyFields(doc, e)
        PROVE  OnlyFields(more, e)
    <2>1. /\ \A k \in Inlines(e) : \A id \in e[k].items : Kind(doc, id, "field")
          /\ \A k \in Refs(e) : \A d \in Definitions(doc, e[k].ref) : \A id \in d.items : Kind(doc, id, "field")
      BY <1>4, OnlyFieldsAre
    <2>2. ASSUME NEW k \in Refs(e), NEW d \in Definitions(more, e[k].ref), NEW id \in d.items
          PROVE  Kind(more, id, "field")
      <3> DEFINE ref == e[k].ref
      <3>1. Kind(doc, ref, "array")
        BY <1>4, EntryIs DEF Links
      <3>2. CASE d \in Definitions(doc, ref)
        BY <1>2, <2>1, <3>2
      <3>3. CASE ref \in DOMAIN rev.top /\ d = rev.top[ref]
        <4>1. ref \in Numbers(doc) /\ SignerSees(doc, ref) \in Definitions(doc, ref)
          BY <3>1, OneOfAKind, SeenIsDefined DEF WellFormed
        <4>2. SignerSees(doc, ref).type = "array"
          BY <3>1, <4>1, OneOfAKind
        <4>3. d.items \subseteq SignerSees(doc, ref).items \cup new
          BY <3>3, <4>1, <4>2 DEF Extends
        <4> QED
          BY <1>2, <2>1, <4>1, <4>3
      <3> QED
        BY <1>2, <3>2, <3>3
    <2>3. \A k \in Inlines(e) : \A id \in e[k].items : Kind(more, id, "field")
      BY <1>2, <2>1
    <2> QED
      BY <1>4, <2>2, <2>3, OnlyFieldsAre
  <1>5. LinkedBody(doc, b) => LinkedBody(more, b)
    BY <1>2, <1>3, <1>4 DEF LinkedBody
  <1> QED
    BY <1>1, <1>3, <1>4, <1>5

LEMMA LinkedGrows ==
    ASSUME NEW doc, WellFormed(doc), Linked(doc), NEW rev, NEW new, Extends(doc, rev, new),
           NEW more, more = Append(doc, rev), FirstPage(more) = FirstPage(doc),
           \A id \in DOMAIN rev.top : LinkedBody(more, rev.top[id])
    PROVE  Linked(more)
  <1>1. Kind(more, FirstPage(more), "page")
    BY KindGrows DEF Linked
  <1>2. ASSUME NEW id \in Numbers(more), NEW b \in Definitions(more, id)
        PROVE  LinkedBody(more, b)
    <2>1. CASE id \in DOMAIN rev.top /\ b = rev.top[id]
      BY <2>1
    <2>2. CASE b \in Definitions(doc, id)
      <3>1. Defined(doc, id)
        BY <2>2 DEF Definitions, Defined
      <3>2. LinkedBody(doc, b)
        BY <2>2, <3>1, NumberIsDefined DEF Linked
      <3> QED
        BY <3>2, BodyGrows
    <2> QED
      BY <2>1, <2>2, KindGrows
  <1> QED
    BY <1>1, <1>2 DEF Linked

LEMMA SeenAre ==
    ASSUME NEW doc, WellFormed(doc), Linked(doc), NEW id, NEW type, Kind(doc, id, type)
    PROVE  /\ SignerSees(doc, id).type = type /\ Body(SignerSees(doc, id)) /\ LinkedBody(doc, SignerSees(doc, id))
           /\ ReaderSees(doc, id).type = type /\ Body(ReaderSees(doc, id)) /\ LinkedBody(doc, ReaderSees(doc, id))
           /\ SignerSees(doc, id) \in Definitions(doc, id) /\ ReaderSees(doc, id) \in Definitions(doc, id)
  <1>1. Defined(doc, id) /\ \A b \in Definitions(doc, id) : b.type = type /\ Body(b) /\ LinkedBody(doc, b)
    BY OneOfAKind
  <1>2. SignerSees(doc, id) \in Definitions(doc, id) /\ ReaderSees(doc, id) \in Definitions(doc, id)
    BY <1>1, SeenIsDefined DEF WellFormed
  <1> QED
    BY <1>1, <1>2

\* What becomes of each of the objects taken over.
LEMMA SignsOver ==
    ASSUME NEW doc, WellFormed(doc), Parses(doc), Linked(doc), NEW objects, NEW f, NEW t, Signs(doc, objects, f, t)
    PROVE  /\ \A id \in Touched(doc) : id \in DOMAIN objects /\ objects[id].type = SignerSees(doc, id).type
           /\ ArrayOf(doc) > 0 =>
                 /\ "items" \in DOMAIN objects[ArrayOf(doc)]
                 /\ objects[ArrayOf(doc)].items = SignerSees(doc, ArrayOf(doc)).items \cup {f}
           /\ ArrayOf(doc) = 0 =>
                 objects[FirstPage(doc)].annots = AddInline(SignerSees(doc, FirstPage(doc)).annots, f)
           /\ FormOf(doc) > 0 =>
                 /\ "fields" \in DOMAIN objects[FormOf(doc)]
                 /\ objects[FormOf(doc)].fields = AddInline(SignerSees(doc, FormOf(doc)).fields, f)
           /\ RootId(doc) \in Touched(doc) /\ PlaceOf(doc) \in Touched(doc)
           /\ FormOf(doc) > 0 => FormOf(doc) \in Touched(doc)
           /\ \A id \in Touched(doc) : \/ id = RootId(doc)
                                       \/ id = PlaceOf(doc)
                                       \/ id = FormOf(doc) /\ FormOf(doc) > 0
  <1> DEFINE cat  == SignerSees(doc, RootId(doc))
             page == SignerSees(doc, FirstPage(doc))
             arr  == SignerSees(doc, ArrayOf(doc))
             form == SignerSees(doc, FormOf(doc))
  <1>1. /\ Touched(doc) = {RootId(doc), PlaceOf(doc)} \cup (IF FormOf(doc) > 0 THEN {FormOf(doc)} ELSE {})
        /\ FormOf(doc) \in Nat /\ ArrayOf(doc) \in Nat
        /\ FormOf(doc) > 0 => Kind(doc, FormOf(doc), "form")
        /\ ArrayOf(doc) > 0 => Kind(doc, ArrayOf(doc), "array")
        /\ Kind(doc, FirstPage(doc), "page") /\ Kind(doc, RootId(doc), "catalog")
    BY TouchedIs
  <1>2. /\ cat.type = "catalog" /\ Body(cat) /\ page.type = "page" /\ Body(page)
        /\ ArrayOf(doc) > 0 => arr.type = "array" /\ Body(arr) /\ LinkedBody(doc, arr)
        /\ FormOf(doc) > 0 => form.type = "form" /\ Body(form) /\ LinkedBody(doc, form)
    BY <1>1, SeenAre
  <1>3. ArrayOf(doc) > 0 => PlaceOf(doc) = ArrayOf(doc)
    BY DEF PlaceOf
  <1>4. ~(ArrayOf(doc) > 0) => PlaceOf(doc) = FirstPage(doc)
    BY DEF PlaceOf
  <1>5. ArrayOf(doc) > 0 =>
           /\ objects[PlaceOf(doc)] = [arr EXCEPT !["items"] = @ \cup {f}]
           /\ "items" \in DOMAIN arr /\ "type" \in DOMAIN arr
    BY <1>2 DEF Signs, LinkedBody, Body
  <1>6. ~(ArrayOf(doc) > 0) =>
           /\ objects[PlaceOf(doc)] = [page EXCEPT !["annots"] = AddInline(@, f)]
           /\ "annots" \in DOMAIN page /\ "type" \in DOMAIN page
    BY <1>2 DEF Signs, Body
  <1>7. FormOf(doc) > 0 =>
           /\ objects[RootId(doc)] = cat
           /\ objects[FormOf(doc)] = [form EXCEPT !["fields"] = AddInline(@, f)]
           /\ "fields" \in DOMAIN form /\ "type" \in DOMAIN form
    BY <1>2 DEF Signs, LinkedBody, Body
  <1>8. FormOf(doc) = 0 => \E x : objects[RootId(doc)] = [cat EXCEPT !["form"] = Append(@, ByRef(x))]
    BY DEF Signs
  <1>9. "type" \in DOMAIN cat
    BY <1>2 DEF Body
  <1> HIDE DEF cat, page, arr, form
  <1>10. objects[RootId(doc)].type = cat.type
    <2>1. CASE FormOf(doc) > 0
      BY <1>7, <2>1
    <2>2. CASE FormOf(doc) = 0
      BY <1>8, <1>9, <2>2
    <2> QED
      BY <1>1, <2>1, <2>2
  <1>11. /\ ArrayOf(doc) > 0 => /\ objects[PlaceOf(doc)].type = arr.type /\ "items" \in DOMAIN objects[PlaceOf(doc)]
                                /\ objects[PlaceOf(doc)].items = arr.items \cup {f}
         /\ ~(ArrayOf(doc) > 0) => /\ objects[PlaceOf(doc)].type = page.type
                                   /\ objects[PlaceOf(doc)].annots = AddInline(page.annots, f)
    BY <1>5, <1>6
  <1>12. FormOf(doc) > 0 => /\ objects[FormOf(doc)].type = form.type /\ "fields" \in DOMAIN objects[FormOf(doc)]
                            /\ objects[FormOf(doc)].fields = AddInline(form.fields, f)
    BY <1>7
  <1>13. \A id \in Touched(doc) : id \in DOMAIN objects
    BY DEF Signs
  <1>14. objects[PlaceOf(doc)].type = SignerSees(doc, PlaceOf(doc)).type
    BY <1>3, <1>4, <1>11 DEF arr, page
  <1>15. \A id \in Touched(doc) : objects[id].type = SignerSees(doc, id).type
    BY <1>1, <1>10, <1>12, <1>14 DEF cat, form
  <1> QED
    BY <1>1, <1>3, <1>4, <1>11, <1>12, <1>13, <1>15 DEF arr, page, form

LEMMA SignsExtends ==
    ASSUME NEW doc, WellFormed(doc), Parses(doc), Linked(doc), NEW rev, HasSlot(rev), DOMAIN rev.packed = {},
           NEW f, NEW t, Signs(doc, rev.top, f, t)
    PROVE  Extends(doc, rev, {f})
  <1>1. /\ f \in DOMAIN rev.top /\ f \notin Numbers(doc) /\ rev.top[f].type = "field"
        /\ DOMAIN rev.top \cap Numbers(doc) = Touched(doc)
    BY DEF Signs, Field
  <1>2. ASSUME NEW id \in Touched(doc)
        PROVE  /\ rev.top[id].type = SignerSees(doc, id).type
               /\ rev.top[id].type = "array" => rev.top[id].items \subseteq SignerSees(doc, id).items \cup {f}
    <2>1. rev.top[id].type = SignerSees(doc, id).type
      BY SignsOver
    <2>2. ASSUME rev.top[id].type = "array"
          PROVE  rev.top[id].items \subseteq SignerSees(doc, id).items \cup {f}
      <3>1. SignerSees(doc, RootId(doc)).type = "catalog" /\ SignerSees(doc, FirstPage(doc)).type = "page"
            /\ (FormOf(doc) > 0 => SignerSees(doc, FormOf(doc)).type = "form")
        BY TouchedIs, SeenAre
      <3>2. id = PlaceOf(doc)
        BY <2>1, <2>2, <3>1, SignsOver
      <3>3. ArrayOf(doc) > 0 /\ id = ArrayOf(doc)
        BY <2>1, <2>2, <3>1, <3>2 DEF PlaceOf
      <3>4. rev.top[id].items = SignerSees(doc, id).items \cup {f}
        BY <3>3, SignsOver
      <3> QED
        BY <3>4
    <2> QED
      BY <2>1, <2>2
  <1> QED
    BY <1>1, <1>2 DEF Extends

LEMMA SignsLinked ==
    ASSUME NEW doc, WellFormed(doc), Parses(doc), Linked(doc), NEW rev, HasSlot(rev), GoodRevision(doc, rev),
           NEW f, NEW t, Signs(doc, rev.top, f, t)
    PROVE  Linked(Append(doc, rev))
  <1>1. PICK more : more = Append(doc, rev)
    OBVIOUS
  <1>2. FirstPage(more) = FirstPage(doc)
    BY <1>1, GoodRevisionKeeps DEF Parses
  <1>3. DOMAIN rev.packed = {}
    BY NothingGood DEF GoodRevision
  <1>4. Extends(doc, rev, {f})
    BY <1>3, SignsExtends
  <1>5. /\ \A id, type : Kind(doc, id, type) => Kind(more, id, type)
        /\ Kind(more, f, "field")
    BY <1>1, <1>4, KindGrows
  <1>6. \A b : LinkedBody(doc, b) => LinkedBody(more, b)
    BY <1>1, <1>4, BodyGrows
  <1>7. ASSUME NEW e, Entry(e), NEW type, Links(doc, e, type)
        PROVE  Links(more, e, type)
    BY <1>1, <1>4, <1>7, BodyGrows
  <1>8. /\ FormOf(doc) \in Nat /\ ArrayOf(doc) \in Nat
        /\ FormOf(doc) > 0 => Kind(doc, FormOf(doc), "form")
        /\ ArrayOf(doc) > 0 => Kind(doc, ArrayOf(doc), "array")
        /\ Kind(doc, FirstPage(doc), "page") /\ Kind(doc, RootId(doc), "catalog")
    BY TouchedIs
  <1>9. LinkedBody(more, rev.top[PlaceOf(doc)])
    <2>1. CASE ArrayOf(doc) > 0
      <3>1. SignerSees(doc, ArrayOf(doc)).type = "array" /\ PlaceOf(doc) = ArrayOf(doc)
        BY <1>8, <2>1, SeenAre DEF PlaceOf
      <3>2. rev.top[PlaceOf(doc)].type = "array" /\ "items" \in DOMAIN rev.top[PlaceOf(doc)]
        BY <2>1, <3>1, SignsOver
      <3> QED
        BY <3>2 DEF LinkedBody
    <2>2. CASE ArrayOf(doc) = 0
      <3> DEFINE old == SignerSees(doc, FirstPage(doc)).annots
      <3>1. SignerSees(doc, FirstPage(doc)).type = "page" /\ Entry(old) /\ Links(doc, old, "array")
        <4>1. /\ SignerSees(doc, FirstPage(doc)).type = "page" /\ Body(SignerSees(doc, FirstPage(doc)))
              /\ LinkedBody(doc, SignerSees(doc, FirstPage(doc)))
          BY <1>8, SeenAre
        <4> QED
          BY <4>1 DEF Body, LinkedBody
      <3>2. PlaceOf(doc) = FirstPage(doc)
        BY <2>2 DEF PlaceOf
      <3>3. rev.top[PlaceOf(doc)].type = "page" /\ rev.top[PlaceOf(doc)].annots = AddInline(old, f)
        BY <2>2, <3>1, <3>2, SignsOver
      <3>4. PICK e : e = AddInline(old, f)
        OBVIOUS
      <3> HIDE DEF old
      <3>5. Refs(e) = Refs(old) /\ (\A k \in Refs(old) : e[k].ref = old[k].ref) /\ Entry(e)
        BY <3>1, <3>4, InlineAddedIs DEF Gains
      <3>6. Links(more, old, "array")
        BY <1>7, <3>1
      <3>7. Links(more, e, "array")
        BY <3>1, <3>5, <3>6, EntryIs DEF Links
      <3> QED
        BY <3>3, <3>4, <3>7 DEF LinkedBody
    <2> QED
      BY <1>8, <2>1, <2>2
  <1>10. LinkedBody(more, rev.top[f])
    BY DEF Signs, Field, LinkedBody
  <1>11. LinkedBody(more, Other)
    BY DEF Other, LinkedBody
  <1>12. CASE FormOf(doc) > 0
    <2>1. LinkedBody(more, rev.top[RootId(doc)])
      <3>1. LinkedBody(doc, SignerSees(doc, RootId(doc)))
        BY <1>8, SeenAre
      <3>2. rev.top[RootId(doc)] = SignerSees(doc, RootId(doc))
        BY <1>12 DEF Signs
      <3> QED
        BY <1>6, <3>1, <3>2
    <2>2. LinkedBody(more, rev.top[FormOf(doc)])
      <3> DEFINE old == SignerSees(doc, FormOf(doc)).fields
      <3>1. SignerSees(doc, FormOf(doc)).type = "form" /\ Entry(old) /\ Links(doc, old, "array") /\ OnlyFields(doc, old)
        <4>1. /\ SignerSees(doc, FormOf(doc)).type = "form" /\ LinkedBody(doc, SignerSees(doc, FormOf(doc)))
          BY <1>8, <1>12, SeenAre
        <4> QED
          BY <4>1 DEF LinkedBody
      <3>2. /\ rev.top[FormOf(doc)].type = "form" /\ rev.top[FormOf(doc)].fields = AddInline(old, f)
            /\ "fields" \in DOMAIN rev.top[FormOf(doc)]
        BY <1>12, <3>1, SignsOver
      <3>3. PICK e : e = AddInline(old, f)
        OBVIOUS
      <3> HIDE DEF old
      <3>4. /\ Entry(e) /\ Refs(e) = Refs(old) /\ \A k \in Refs(old) : e[k].ref = old[k].ref
            /\ \A x : (\E k \in Inlines(e) : x \in e[k].items) <=> x = f \/ \E k \in Inlines(old) : x \in old[k].items
        <4>1. Gains(AddInline(old, f), old, f)
          BY <3>1, InlineAddedIs
        <4> QED
          BY <3>3, <4>1 DEF Gains
      <3>5. Links(more, old, "array") /\ OnlyFields(more, old)
        BY <1>1, <1>4, <3>1, BodyGrows
      <3>6. Links(more, e, "array")
        BY <3>4, <3>5, <3>1, EntryIs DEF Links
      <3>7. OnlyFields(more, e)
        <4>1. /\ \A k \in Inlines(old) : \A id \in old[k].items : Kind(more, id, "field")
              /\ \A k \in Refs(old) : \A b \in Definitions(more, old[k].ref) : \A id \in b.items : Kind(more, id, "field")
          BY <3>1, <3>5, OnlyFieldsAre
        <4>2. ASSUME NEW k \in Inlines(e), NEW id \in e[k].items
              PROVE  Kind(more, id, "field")
          <5>1. id = f \/ \E j \in Inlines(old) : id \in old[j].items
            BY <3>4
          <5> QED
            BY <1>5, <4>1, <5>1
        <4>3. \A k \in Refs(e) : \A b \in Definitions(more, e[k].ref) : \A id \in b.items : Kind(more, id, "field")
          BY <3>4, <4>1
        <4> QED
          BY <3>4, <4>2, <4>3, OnlyFieldsAre
      <3> QED
        BY <3>2, <3>3, <3>4, <3>6, <3>7 DEF LinkedBody
    <2>3. \A id \in DOMAIN rev.top : \/ id \in Touched(doc)
                                     \/ id = f
                                     \/ rev.top[id] = Other
      BY <1>12 DEF Signs
    <2>4. \A id \in DOMAIN rev.top : LinkedBody(more, rev.top[id])
      BY <1>9, <1>10, <1>11, <2>1, <2>2, <2>3, SignsOver
    <2> QED
      BY <1>1, <1>2, <1>4, <2>4, LinkedGrows
  <1>13. CASE FormOf(doc) = 0
    <2>1. PICK form \in DOMAIN rev.top \ Numbers(doc) :
             /\ form \in Nat /\ form > 0 /\ form # f
             /\ rev.top[form] = Form(<<Inline({f})>>)
             /\ rev.top[RootId(doc)] = [SignerSees(doc, RootId(doc)) EXCEPT !["form"] = Append(@, ByRef(form))]
             /\ \A id \in DOMAIN rev.top \ Numbers(doc) : id \in {f, form} \/ rev.top[id] = Other
      BY <1>13 DEF Signs
    <2>2. Kind(more, form, "form")
      <3>1. Definitions(doc, form) = {}
        BY <2>1, NumberIsDefined DEF Defined, Definitions
      <3>2. \A b \in Definitions(more, form) : b = rev.top[form]
        BY <1>1, <1>4, <3>1, KindGrows
      <3>3. form \in Numbers(more)
        BY <1>1, <2>1, OneMore DEF WellFormed
      <3> QED
        BY <2>1, <3>2, <3>3 DEF Kind, Form
    <2>3. LinkedBody(more, rev.top[form])
      <3>1. PICK e : e = <<Inline({f})>>
        OBVIOUS
      <3>2. /\ Entry(e) /\ Refs(e) = {} /\ Inlines(e) = {1} /\ e[1].items = {f}
        BY <3>1, SingleEntry
      <3>3. OnlyFields(more, e) /\ Links(more, e, "array")
        BY <1>5, <3>2, OnlyFieldsAre, EntryIs DEF Links
      <3>4. PICK b : b = rev.top[form]
        OBVIOUS
      <3>5. b = Form(e)
        BY <2>1, <3>1, <3>4
      <3>6. b.type = "form" /\ "fields" \in DOMAIN b /\ b.fields = e
        BY <3>5 DEF Form
      <3>7. LinkedBody(more, b)
        BY <3>2, <3>3, <3>6 DEF LinkedBody
      <3> QED
        BY <3>4, <3>7
    <2>4. LinkedBody(more, rev.top[RootId(doc)])
      <3> DEFINE cat == SignerSees(doc, RootId(doc))
      <3>1. cat.type = "catalog" /\ Body(cat) /\ LinkedBody(doc, cat)
        BY <1>8, SeenAre
      <3>2. /\ "type" \in DOMAIN cat /\ "form" \in DOMAIN cat /\ Entry(cat.form) /\ Links(doc, cat.form, "form")
            /\ \A k \in Inlines(cat.form) : \A id \in cat.form[k].items : Kind(doc, id, "field")
        BY <3>1 DEF Body, LinkedBody
      <3> HIDE DEF cat
      <3>3. PICK e : e = Append(cat.form, ByRef(form))
        OBVIOUS
      <3>4. rev.top[RootId(doc)].type = "catalog" /\ rev.top[RootId(doc)].form = e
        BY <2>1, <3>1, <3>2, <3>3 DEF cat
      <3>5. Refs(cat.form) = {}
        BY <1>13, <3>2, FirstRefIs DEF FormOf, cat
      <3>6. /\ Entry(e) /\ Refs(e) = {Len(cat.form) + 1} /\ e[Len(cat.form) + 1].ref = form
            /\ Inlines(e) = Inlines(cat.form) /\ \A k \in Inlines(cat.form) : e[k] = cat.form[k]
        <4>1. PICK old : old = cat.form
          OBVIOUS
        <4>2. Entry(old) /\ Refs(old) = {} /\ form \in Nat /\ form > 0
          BY <2>1, <3>2, <3>5, <4>1
        <4>3. LET v == Append(old, ByRef(form))
              IN  /\ Entry(v) /\ Refs(v) = {Len(old) + 1} /\ v[Len(old) + 1].ref = form
                  /\ Inlines(v) = Inlines(old) /\ \A k \in Inlines(old) : v[k] = old[k]
          BY <4>2, RefAddedIs
        <4> QED
          BY <3>3, <4>1, <4>3
      <3>7. Links(more, e, "form")
        BY <2>2, <3>6, EntryIs DEF Links
      <3>8. \A k \in Inlines(e) : \A id \in e[k].items : Kind(more, id, "field")
        BY <1>5, <3>2, <3>6
      <3> QED
        BY <3>4, <3>7, <3>8 DEF LinkedBody
    <2>5. \A id \in DOMAIN rev.top : \/ id \in Touched(doc)
                                     \/ id = f \/ id = form
                                     \/ rev.top[id] = Other
      BY <2>1 DEF Signs
    <2>6. \A id \in Touched(doc) : id = RootId(doc) \/ id = PlaceOf(doc)
      BY <1>13, SignsOver
    <2>7. \A id \in DOMAIN rev.top : LinkedBody(more, rev.top[id])
      BY <1>9, <1>10, <1>11, <2>3, <2>4, <2>5, <2>6
    <2> QED
      BY <1>1, <1>2, <1>4, <2>7, LinkedGrows
  <1> QED
    BY <1>8, <1>12, <1>13

-----------------------------------------------------------------------------
(* The file as the signer takes it.                                          *)

LEMMA TakenIs ==
    ASSUME NEW doc, WellFormed(doc), Parses(doc), Linked(doc)
    PROVE  LET taken == AsTaken(doc)
           IN  /\ RootId(taken) = RootId(doc) /\ FirstPage(taken) = FirstPage(doc)
               /\ \A id \in Touched(doc) : ReaderSees(taken, id) = SignerSees(doc, id)
               /\ \A id \in Numbers(doc) \ Touched(doc) : ReaderSees(taken, id) = ReaderSees(doc, id)
               /\ Reads(taken, doc)
  <1> DEFINE m == MaxId(doc)
  <1>1. PICK objects : objects = [id \in Touched(doc) |-> SignerSees(doc, id)]
    OBVIOUS
  <1>2. PICK rev : rev = Revision(doc, objects, m + 1, NoSlot, 0)
    OBVIOUS
  <1>3. AsTaken(doc) = Append(doc, rev)
    BY <1>1, <1>2 DEF AsTaken
  <1>4. m \in Nat /\ Numbers(doc) \subseteq 1..m /\ Document(doc)
    BY DEF MaxId, WellFormed
  <1>5. Touched(doc) \subseteq Numbers(doc) /\ RootId(doc) \in Touched(doc)
    BY TouchedIs
  <1>6. HasSlot(rev)
    BY <1>2 DEF Revision, HasSlot, NoSlot
  <1>7. GoodObjects(doc, objects)
    <2> SUFFICES ASSUME NEW id \in Touched(doc)
                 PROVE  Good(doc, id, SignerSees(doc, id))
      BY <1>1 DEF GoodObjects
    <2>1. id \in Numbers(doc) /\ id \in 1..(m + 5)
      BY <1>4, <1>5
    <2>2. Body(SignerSees(doc, id))
      BY <2>1, NumberIsDefined, SeenIsBody
    <2> QED
      BY <2>1, <2>2, UnchangedIsRewritten DEF Good
  <1>8. m + 1 \in 1..(m + 5) /\ m + 1 \notin Numbers(doc)
    BY <1>4
  <1>9. Good(doc, m + 1, Other)
    BY <1>8, NewAre DEF Good
  <1>10. PICK root : root = RootId(doc)
    OBVIOUS
  <1>11. root \in DOMAIN objects /\ objects[root] = SignerSees(doc, root) /\ m + 1 # root
    BY <1>1, <1>5, <1>8, <1>10
  <1>12. GoodRevision(doc, rev)
    <2>1. PICK next : next = m + 1
      OBVIOUS
    <2>2. objects[root].pages = SignerSees(doc, root).pages
      BY <1>11
    <2>3. FirstRef(objects[root].form) = FirstRef(SignerSees(doc, root).form)
      BY <1>11
    <2>4. Good(doc, next, Other) /\ next # root
      BY <1>9, <1>11, <2>1
    <2>5. objects[root].inlineDss = SignerSees(doc, root).inlineDss
      BY <1>11
    <2>6. GoodRevision(doc, Revision(doc, objects, next, NoSlot, 0))
      BY <1>4, <1>7, <1>10, <1>11, <2>2, <2>3, <2>4, <2>5, RevisionIs
    <2> QED
      BY <1>2, <2>1, <2>6
  <1>13. PICK taken : taken = Append(doc, rev)
    OBVIOUS
  <1>14. RootId(taken) = RootId(doc) /\ FirstPage(taken) = FirstPage(doc)
    BY <1>6, <1>12, <1>13, GoodRevisionKeeps DEF Parses
  <1>15. /\ DOMAIN rev.packed = {}
         /\ \A id \in Touched(doc) : id \in DOMAIN rev.top /\ rev.top[id] = SignerSees(doc, id)
         /\ \A id \in Numbers(doc) \ Touched(doc) : id \notin DOMAIN rev.top
    <2>1. rev.packed = NoObjects /\ (rev.top = Put(m + 1, Other, objects) \/ rev.top = objects)
      BY <1>2 DEF Revision
    <2> QED
      BY <1>1, <1>5, <1>8, <2>1, NothingGood DEF Put
  <1>16. \A id \in Touched(doc) : ReaderSees(taken, id) = SignerSees(doc, id)
    BY <1>4, <1>6, <1>13, <1>15, OneMoreSees
  <1>17. \A id \in Numbers(doc) \ Touched(doc) : ReaderSees(taken, id) = ReaderSees(doc, id)
    BY <1>4, <1>6, <1>13, <1>15, NumberIsDefined, OneMoreSees
  <1>18. \A id \in Numbers(doc) : ReaderSees(taken, id) \in Definitions(doc, id)
    BY <1>4, <1>16, <1>17, NumberIsDefined, SeenIsDefined
  <1> QED
    BY <1>3, <1>13, <1>14, <1>16, <1>17, <1>18 DEF Reads

-----------------------------------------------------------------------------
(* A signature revision, compared with the file as the signer takes it.      *)

Signed(doc, rev, f, t) ==
    /\ WellFormed(doc) /\ Parses(doc) /\ Linked(doc)
    /\ HasSlot(rev) /\ GoodRevision(doc, rev) /\ Signs(doc, rev.top, f, t)

\* What a reader finds in the file as taken (d) and as signed (e).
Shown(doc, rev, d, e) ==
    /\ RootId(d) = RootId(doc) /\ FirstPage(d) = FirstPage(doc) /\ Reads(d, doc)
    /\ RootId(e) = RootId(doc) /\ FirstPage(e) = FirstPage(doc)
    /\ \A id \in DOMAIN rev.top : ReaderSees(e, id) = rev.top[id] /\ SignerSees(e, id) = rev.top[id]
    /\ \A id \in Touched(doc) : ReaderSees(d, id) = SignerSees(doc, id)
    /\ \A id \in Numbers(doc) \ Touched(doc) :
          /\ ReaderSees(e, id) = ReaderSees(doc, id) /\ ReaderSees(d, id) = ReaderSees(doc, id)
          /\ SignerSees(e, id) = SignerSees(doc, id)
    /\ \A id, type : Kind(doc, id, type) /\ type \notin {"catalog", "form", "array", "page"} =>
                       id \notin Touched(doc)
    /\ \A id : Kind(doc, id, "form") /\ id # FormOf(doc) => id \notin Touched(doc)
    /\ \A id : Kind(doc, id, "array") /\ id # ArrayOf(doc) => id \notin Touched(doc)
    /\ ArrayOf(doc) > 0 => FirstPage(doc) \notin Touched(doc) /\ ArrayOf(doc) \in Touched(doc)

LEMMA SignedReads ==
    ASSUME NEW doc, NEW rev, NEW f, NEW t, Signed(doc, rev, f, t),
           NEW d, d = AsTaken(doc), NEW e, e = Append(doc, rev)
    PROVE  Shown(doc, rev, d, e)
  <1>1. /\ WellFormed(doc) /\ Parses(doc) /\ Structured(doc) /\ Linked(doc) /\ HasSlot(rev) /\ GoodRevision(doc, rev)
        /\ Signs(doc, rev.top, f, t) /\ Document(doc)
    BY DEF Signed, WellFormed, Parses
  <1>2. /\ RootId(d) = RootId(doc) /\ FirstPage(d) = FirstPage(doc) /\ Reads(d, doc)
        /\ \A id \in Touched(doc) : ReaderSees(d, id) = SignerSees(doc, id)
        /\ \A id \in Numbers(doc) \ Touched(doc) : ReaderSees(d, id) = ReaderSees(doc, id)
    BY <1>1, TakenIs
  <1>3. RootId(e) = RootId(doc) /\ FirstPage(e) = FirstPage(doc)
    BY <1>1, GoodRevisionKeeps
  <1>4. DOMAIN rev.packed = {} /\ DOMAIN rev.top \cap Numbers(doc) = Touched(doc)
    BY <1>1, NothingGood DEF GoodRevision, Signs
  <1>5. \A id \in DOMAIN rev.top : ReaderSees(e, id) = rev.top[id] /\ SignerSees(e, id) = rev.top[id]
    BY <1>1, OneMoreSees
  <1>6. \A id \in Numbers(doc) \ Touched(doc) :
           ReaderSees(e, id) = ReaderSees(doc, id) /\ SignerSees(e, id) = SignerSees(doc, id)
    BY <1>1, <1>4, NumberIsDefined, OneMoreSees
  <1>7. /\ Touched(doc) = {RootId(doc), PlaceOf(doc)} \cup (IF FormOf(doc) > 0 THEN {FormOf(doc)} ELSE {})
        /\ FormOf(doc) > 0 => Kind(doc, FormOf(doc), "form")
        /\ ArrayOf(doc) > 0 => Kind(doc, ArrayOf(doc), "array")
        /\ Kind(doc, FirstPage(doc), "page") /\ Kind(doc, RootId(doc), "catalog")
    BY <1>1, TouchedIs
  <1>8. ASSUME NEW id, NEW a, NEW b, Kind(doc, id, a), Kind(doc, id, b)
        PROVE  a = b
    <2>1. SignerSees(doc, id).type = a /\ SignerSees(doc, id).type = b
      BY <1>1, <1>8, SeenAre
    <2> QED
      BY <2>1
  <1>9. ASSUME NEW id \in Touched(doc), NEW type, Kind(doc, id, type)
        PROVE  \/ type = "catalog" \/ (type = "form" /\ id = FormOf(doc))
               \/ (type = "array" /\ id = ArrayOf(doc)) \/ (type = "page" /\ ~(ArrayOf(doc) > 0))
    <2>1. CASE id = RootId(doc)
      BY <1>7, <1>8, <1>9, <2>1
    <2>2. CASE id = FormOf(doc) /\ FormOf(doc) > 0
      BY <1>7, <1>8, <1>9, <2>2
    <2>3. CASE id = PlaceOf(doc) /\ ArrayOf(doc) > 0
      <3>1. id = ArrayOf(doc)
        BY <2>3 DEF PlaceOf
      <3> QED
        BY <1>7, <1>8, <1>9, <2>3, <3>1
    <2>4. CASE id = PlaceOf(doc) /\ ~(ArrayOf(doc) > 0)
      <3>1. id = FirstPage(doc)
        BY <2>4 DEF PlaceOf
      <3> QED
        BY <1>7, <1>8, <1>9, <2>4, <3>1
    <2> QED
      BY <1>7, <2>1, <2>2, <2>3, <2>4
  <1>10. \A id, type : Kind(doc, id, type) /\ type \notin {"catalog", "form", "array", "page"} =>
                         id \notin Touched(doc)
    BY <1>9
  <1>11. \A id : Kind(doc, id, "form") /\ id # FormOf(doc) => id \notin Touched(doc)
    BY <1>9
  <1>12. \A id : Kind(doc, id, "array") /\ id # ArrayOf(doc) => id \notin Touched(doc)
    BY <1>9
  <1>13. ArrayOf(doc) > 0 => FirstPage(doc) \notin Touched(doc) /\ ArrayOf(doc) \in Touched(doc)
    BY <1>7, <1>9 DEF PlaceOf
  <1> QED
    BY <1>2, <1>3, <1>5, <1>6, <1>10, <1>11, <1>12, <1>13 DEF Shown

\* An entry that both have: it gains the field if it refers to the array the signer adds to.
LEMMA SignedItems ==
    ASSUME NEW doc, NEW rev, NEW f, NEW t, Signed(doc, rev, f, t),
           NEW d, NEW e, Shown(doc, rev, d, e),
           NEW entry, Entry(entry), \A k \in Refs(entry) : Kind(doc, entry[k].ref, "array"), NEW y
    PROVE  y \in Items(e, entry) <=>
              y \in Items(d, entry) \/ (y = f /\ \E k \in Refs(entry) : entry[k].ref = ArrayOf(doc))
  <1>1. /\ y \in Items(e, entry) <=> \/ \E k \in Inlines(entry) : y \in entry[k].items
                                     \/ \E k \in Refs(entry) : y \in ReaderSees(e, entry[k].ref).items
        /\ y \in Items(d, entry) <=> \/ \E k \in Inlines(entry) : y \in entry[k].items
                                     \/ \E k \in Refs(entry) : y \in ReaderSees(d, entry[k].ref).items
    BY ItemsAre
  <1>2. /\ \A id \in DOMAIN rev.top : ReaderSees(e, id) = rev.top[id]
        /\ \A id \in Touched(doc) : ReaderSees(d, id) = SignerSees(doc, id)
        /\ \A id \in Numbers(doc) \ Touched(doc) : ReaderSees(e, id) = ReaderSees(doc, id)
        /\ \A id \in Numbers(doc) \ Touched(doc) : ReaderSees(d, id) = ReaderSees(doc, id)
        /\ \A id : Kind(doc, id, "array") /\ id # ArrayOf(doc) => id \notin Touched(doc)
        /\ ArrayOf(doc) > 0 => ArrayOf(doc) \in Touched(doc)
    BY DEF Shown
  <1>3. ASSUME NEW k \in Refs(entry)
        PROVE  y \in ReaderSees(e, entry[k].ref).items <=>
                  y \in ReaderSees(d, entry[k].ref).items \/ (y = f /\ entry[k].ref = ArrayOf(doc))
    <2> DEFINE arr == entry[k].ref
    <2>1. Kind(doc, arr, "array") /\ arr \in Numbers(doc) /\ arr > 0
      BY EntryIs DEF Kind
    <2>2. CASE arr = ArrayOf(doc)
      <3>1. arr \in Touched(doc)
        BY <1>2, <2>1, <2>2
      <3>2. ReaderSees(d, arr) = SignerSees(doc, arr)
        BY <1>2, <3>1
      <3>3. arr \in DOMAIN rev.top /\ rev.top[arr].items = SignerSees(doc, arr).items \cup {f}
        BY <2>1, <2>2, <3>1, SignsOver DEF Signed
      <3>4. ReaderSees(e, arr) = rev.top[arr]
        BY <1>2, <3>3
      <3> QED
        BY <2>2, <3>2, <3>3, <3>4
    <2>3. CASE arr # ArrayOf(doc)
      <3>1. arr \notin Touched(doc)
        BY <1>2, <2>1, <2>3
      <3>2. ReaderSees(e, arr) = ReaderSees(doc, arr) /\ ReaderSees(d, arr) = ReaderSees(doc, arr)
        BY <1>2, <2>1, <3>1
      <3> QED
        BY <2>3, <3>2
    <2> QED
      BY <2>2, <2>3
  <1> QED
    BY <1>1, <1>3

OnePlace(doc) ==
    /\ Len(FormEntry(doc)) <= 1
    /\ \A k \in Refs(FormEntry(doc)) : Len(ListAt(doc, k)) <= 1

FormGains(d, e, f) ==
    /\ \A y : y \in FieldsOf(e) <=> y \in FieldsOf(d) \/ y = f
    /\ OnePlace(e) <=> OnePlace(d) /\ Plain(d)
    /\ OnePlace(e) => Plain(e)

LEMMA SignedOldForm ==
    ASSUME NEW doc, NEW rev, NEW f, NEW t, Signed(doc, rev, f, t), NEW d, NEW e, Shown(doc, rev, d, e),
           FormOf(doc) > 0
    PROVE  FormGains(d, e, f)
  <1> DEFINE cat == SignerSees(doc, RootId(doc))
             old == FormOf(doc)
  <1>1. WellFormed(doc) /\ Parses(doc) /\ Linked(doc) /\ Signs(doc, rev.top, f, t)
    BY DEF Signed
  <1>2. /\ Entry(FormEntry(d))
        /\ \A k \in Refs(FormEntry(d)) : Kind(doc, FormEntry(d)[k].ref, "form") /\ Entry(ListAt(d, k))
        /\ \A k \in Refs(FormEntry(d)) : \A j \in Refs(ListAt(d, k)) : Kind(doc, ListAt(d, k)[j].ref, "array")
    BY <1>1, LinksRead DEF Shown
  <1>3. /\ RootId(doc) \in Touched(doc) /\ old \in Touched(doc)
        /\ RootId(doc) \in DOMAIN rev.top /\ old \in DOMAIN rev.top
        /\ rev.top[RootId(doc)] = cat /\ rev.top[old].fields = AddInline(SignerSees(doc, old).fields, f)
    BY <1>1, SignsOver DEF Signs
  <1>4. FormEntry(d) = cat.form /\ FormEntry(e) = cat.form
    BY <1>3 DEF Shown, FormEntry
  <1>5. PICK entry : entry = FormEntry(d)
    OBVIOUS
  <1>6. PICK k0 \in Refs(entry) : entry[k0].ref = old
    <2>1. entry = cat.form
      BY <1>4, <1>5
    <2>2. Refs(entry) # {} /\ Min(Refs(entry)) \in Refs(entry)
      BY <1>2, <1>5, <2>1, FirstRefIs DEF FormOf
    <2>3. old = entry[Min(Refs(entry))].ref
      BY <2>1, <2>2 DEF FormOf, FirstRef
    <2> QED
      BY <2>2, <2>3
  <1>7. ASSUME NEW k \in Refs(entry)
        PROVE  /\ entry[k].ref = old => ListAt(e, k) = AddInline(ListAt(d, k), f)
               /\ entry[k].ref # old => ListAt(e, k) = ListAt(d, k)
    <2>1. ListAt(e, k) = ReaderSees(e, entry[k].ref).fields /\ ListAt(d, k) = ReaderSees(d, entry[k].ref).fields
      BY <1>4, <1>5 DEF ListAt
    <2>2. ReaderSees(e, old) = rev.top[old] /\ ReaderSees(d, old) = SignerSees(doc, old)
      BY <1>3 DEF Shown
    <2>3. entry[k].ref # old => /\ ReaderSees(e, entry[k].ref) = ReaderSees(doc, entry[k].ref)
                                /\ ReaderSees(d, entry[k].ref) = ReaderSees(doc, entry[k].ref)
      <3>1. Kind(doc, entry[k].ref, "form") /\ entry[k].ref \in Numbers(doc)
        BY <1>2, <1>5 DEF Kind
      <3>2. entry[k].ref # old => entry[k].ref \in Numbers(doc) \ Touched(doc)
        BY <3>1 DEF Shown
      <3> QED
        BY <3>2 DEF Shown
    <2> QED
      BY <1>3, <2>1, <2>2, <2>3
  <1> HIDE DEF cat, old
  <1>8. ASSUME NEW k \in Refs(entry), NEW y
        PROVE  /\ entry[k].ref = old => (y \in Items(e, ListAt(e, k)) <=> y \in Items(d, ListAt(d, k)) \/ y = f)
               /\ entry[k].ref # old => /\ y \in Items(e, ListAt(e, k)) => y \in Items(d, ListAt(d, k)) \/ y = f
                                        /\ y \in Items(d, ListAt(d, k)) => y \in Items(e, ListAt(e, k))
    <2>1. PICK list : list = ListAt(d, k)
      OBVIOUS
    <2>2. Entry(list) /\ \A j \in Refs(list) : Kind(doc, list[j].ref, "array")
      BY <1>2, <1>5, <2>1
    <2>3. y \in Items(e, list) <=> y \in Items(d, list) \/ (y = f /\ \E j \in Refs(list) : list[j].ref = ArrayOf(doc))
      BY <2>2, SignedItems
    <2>4. ASSUME entry[k].ref = old
          PROVE  y \in Items(e, ListAt(e, k)) <=> y \in Items(d, list) \/ y = f
      <3>1. PICK more : more = AddInline(list, f)
        OBVIOUS
      <3>2. ListAt(e, k) = more
        BY <1>7, <2>1, <2>4, <3>1
      <3>3. Entry(list)
        BY <2>2
      <3>4. Entry(more) /\ Refs(more) = Refs(list) /\ (\A j \in Refs(list) : more[j].ref = list[j].ref)
            /\ ((\E j \in Inlines(more) : y \in more[j].items) <=> y = f \/ \E j \in Inlines(list) : y \in list[j].items)
        <4>1. Gains(AddInline(list, f), list, f)
          BY <3>3, InlineAddedIs
        <4> QED
          BY <3>1, <4>1 DEF Gains
      <3>5. y \in Items(e, more) <=> \/ \E j \in Inlines(more) : y \in more[j].items
                                    \/ \E j \in Refs(more) : y \in ReaderSees(e, more[j].ref).items
        BY <3>4, ItemsAre
      <3>6. y \in Items(e, list) <=> \/ \E j \in Inlines(list) : y \in list[j].items
                                    \/ \E j \in Refs(list) : y \in ReaderSees(e, list[j].ref).items
        BY <2>2, ItemsAre
      <3>7. y \in Items(e, more) <=> y = f \/ y \in Items(e, list)
        BY <3>4, <3>5, <3>6
      <3> QED
        BY <2>3, <3>2, <3>7
    <2>5. ASSUME entry[k].ref # old
          PROVE  ListAt(e, k) = list
      BY <1>7, <2>1, <2>5
    <2> QED
      BY <2>1, <2>3, <2>4, <2>5
  <1>9. ASSUME NEW y
        PROVE  y \in FieldsOf(e) <=> y \in FieldsOf(d) \/ y = f
    <2>1. y \in FieldsOf(d) <=> \/ \E k \in Inlines(entry) : y \in entry[k].items
                               \/ \E k \in Refs(entry) : y \in Items(d, ListAt(d, k))
      BY <1>5, FieldsAre
    <2>2. y \in FieldsOf(e) <=> \/ \E k \in Inlines(entry) : y \in entry[k].items
                               \/ \E k \in Refs(entry) : y \in Items(e, ListAt(e, k))
      BY <1>4, <1>5, FieldsAre
    <2>3. \A k \in Refs(entry) : /\ y \in Items(e, ListAt(e, k)) => y \in Items(d, ListAt(d, k)) \/ y = f
                                 /\ y \in Items(d, ListAt(d, k)) => y \in Items(e, ListAt(e, k))
      BY <1>8
    <2>4. y = f => y \in Items(e, ListAt(e, k0))
      BY <1>6, <1>8
    <2> QED
      BY <1>6, <2>1, <2>2, <2>3, <2>4
  <1>10. \A k \in Refs(entry) : entry[k].ref = old =>
            /\ Len(ListAt(e, k)) <= 1 <=> Len(ListAt(d, k)) <= 1 /\ Refs(ListAt(d, k)) = {}
            /\ Refs(ListAt(e, k)) = Refs(ListAt(d, k))
    <2> SUFFICES ASSUME NEW k \in Refs(entry), entry[k].ref = old
                 PROVE  /\ Len(ListAt(e, k)) <= 1 <=> Len(ListAt(d, k)) <= 1 /\ Refs(ListAt(d, k)) = {}
                        /\ Refs(ListAt(e, k)) = Refs(ListAt(d, k))
      OBVIOUS
    <2>1. PICK list : list = ListAt(d, k)
      OBVIOUS
    <2>2. Entry(list)
      BY <1>2, <1>5, <2>1
    <2>3. Gains(AddInline(list, f), list, f)
      BY <2>2, InlineAddedIs
    <2>4. ListAt(e, k) = AddInline(list, f)
      BY <1>7, <2>1
    <2> QED
      BY <2>1, <2>3, <2>4 DEF Gains
  <1>11. Len(entry) <= 1 => Refs(entry) = DOMAIN entry /\ \A k \in Refs(entry) : k = k0
    <2>1. DOMAIN entry = 1..Len(entry) /\ Len(entry) \in Nat /\ \A k \in Refs(entry) : k \in DOMAIN entry
      BY <1>2, <1>5, FirstRefIs DEF Refs
    <2>2. Len(entry) <= 1 => \A k \in DOMAIN entry : k = 1
      BY <2>1
    <2> QED
      BY <1>6, <2>1, <2>2 DEF Refs
  <1>12. /\ OnePlace(e) <=> Len(entry) <= 1 /\ \A k \in Refs(entry) : Len(ListAt(e, k)) <= 1
         /\ OnePlace(d) <=> Len(entry) <= 1 /\ \A k \in Refs(entry) : Len(ListAt(d, k)) <= 1
         /\ Plain(d) <=> Refs(entry) = DOMAIN entry /\ \A k \in Refs(entry) : Refs(ListAt(d, k)) = {}
         /\ Plain(e) <=> Refs(entry) = DOMAIN entry /\ \A k \in Refs(entry) : Refs(ListAt(e, k)) = {}
    BY <1>4, <1>5 DEF OnePlace, Plain
  <1>13. OnePlace(e) <=> OnePlace(d) /\ Plain(d)
    BY <1>6, <1>10, <1>11, <1>12
  <1>14. OnePlace(e) => Plain(e)
    BY <1>6, <1>10, <1>11, <1>12
  <1> QED
    BY <1>9, <1>13, <1>14 DEF FormGains

LEMMA SignedNewForm ==
    ASSUME NEW doc, NEW rev, NEW f, NEW t, Signed(doc, rev, f, t), NEW d, NEW e, Shown(doc, rev, d, e),
           FormOf(doc) = 0
    PROVE  FormGains(d, e, f)
  <1>1. WellFormed(doc) /\ Parses(doc) /\ Linked(doc) /\ Signs(doc, rev.top, f, t)
    BY DEF Signed
  <1>2. PICK cat : cat = SignerSees(doc, RootId(doc))
    OBVIOUS
  <1>3. PICK form : /\ form \in DOMAIN rev.top /\ form \in Nat /\ form > 0
                    /\ rev.top[form] = Form(<<Inline({f})>>)
                    /\ rev.top[RootId(doc)] = [cat EXCEPT !["form"] = Append(@, ByRef(form))]
    BY <1>1, <1>2 DEF Signs
  <1>4. /\ "form" \in DOMAIN cat /\ Entry(cat.form) /\ RootId(doc) \in Touched(doc) /\ RootId(doc) \in DOMAIN rev.top
    <2>1. Kind(doc, RootId(doc), "catalog")
      BY <1>1, TouchedIs
    <2>2. cat.type = "catalog" /\ Body(cat)
      BY <1>1, <1>2, <2>1, SeenAre
    <2> QED
      BY <1>1, <2>2, SignsOver DEF Body
  <1>5. PICK old : old = cat.form
    OBVIOUS
  <1>6. Entry(old) /\ Refs(old) = {}
    <2>1. FirstRef(old) = 0 /\ Entry(old)
      BY <1>2, <1>4, <1>5 DEF FormOf
    <2> QED
      BY <2>1, FirstRefIs
  <1>7. PICK more : more = Append(old, ByRef(form))
    OBVIOUS
  <1>8. rev.top[RootId(doc)].form = more
    BY <1>3, <1>4, <1>5, <1>7
  <1>9. FormEntry(d) = old /\ FormEntry(e) = more
    <2>1. ReaderSees(d, RootId(doc)) = cat /\ ReaderSees(e, RootId(doc)) = rev.top[RootId(doc)]
      BY <1>2, <1>4 DEF Shown
    <2> QED
      BY <1>5, <1>8, <2>1 DEF Shown, FormEntry
  <1>10. PICK n : n = Len(old)
    OBVIOUS
  <1>11. /\ Entry(more) /\ Refs(more) = {n + 1} /\ more[n + 1].ref = form
         /\ Inlines(more) = Inlines(old) /\ (\A k \in Inlines(old) : more[k] = old[k])
         /\ Len(more) = n + 1
    <2>1. /\ Entry(Append(old, ByRef(form))) /\ Refs(Append(old, ByRef(form))) = {Len(old) + 1}
          /\ Append(old, ByRef(form))[Len(old) + 1].ref = form
          /\ Inlines(Append(old, ByRef(form))) = Inlines(old)
          /\ \A k \in Inlines(old) : Append(old, ByRef(form))[k] = old[k]
          /\ Len(Append(old, ByRef(form))) = Len(old) + 1
      BY <1>3, <1>6, RefAddedIs
    <2> QED
      BY <1>7, <1>10, <2>1
  <1>12. DOMAIN old = 1..n /\ n \in Nat /\ DOMAIN more = 1..(n + 1)
    BY <1>6, <1>10, <1>11, FirstRefIs
  <1>13. PICK list : list = <<Inline({f})>>
    OBVIOUS
  <1>14. Entry(list) /\ Refs(list) = {} /\ Inlines(list) = {1} /\ list[1].items = {f} /\ Len(list) = 1
    BY <1>13, SingleEntry
  <1>15. ListAt(e, n + 1) = list
    <2>1. ReaderSees(e, form) = rev.top[form]
      BY <1>3 DEF Shown
    <2>2. rev.top[form].fields = list
      BY <1>3, <1>13 DEF Form
    <2> QED
      BY <1>9, <1>11, <2>1, <2>2 DEF ListAt
  <1>16. \A y : y \in Items(e, list) <=> y = f
    BY <1>14, ItemsAre
  <1>17. ASSUME NEW y
         PROVE  y \in FieldsOf(e) <=> y \in FieldsOf(d) \/ y = f
    <2>1. y \in FieldsOf(d) <=> \/ \E k \in Inlines(old) : y \in old[k].items
                               \/ \E k \in Refs(old) : y \in Items(d, ListAt(d, k))
      BY <1>9, FieldsAre
    <2>2. y \in FieldsOf(e) <=> \/ \E k \in Inlines(more) : y \in more[k].items
                               \/ \E k \in Refs(more) : y \in Items(e, ListAt(e, k))
      BY <1>9, FieldsAre
    <2> QED
      BY <1>6, <1>11, <1>15, <1>16, <2>1, <2>2
  <1>18. OnePlace(e) <=> n = 0
    <2>1. OnePlace(e) <=> Len(more) <= 1 /\ \A k \in Refs(more) : Len(ListAt(e, k)) <= 1
      BY <1>9 DEF OnePlace
    <2>2. \A k \in Refs(more) : Len(ListAt(e, k)) <= 1
      <3>1. \A k \in Refs(more) : ListAt(e, k) = list
        BY <1>11, <1>15
      <3>2. Len(list) <= 1
        BY <1>14
      <3> QED
        BY <3>1, <3>2
    <2>3. Len(more) <= 1 <=> n = 0
      BY <1>11, <1>12
    <2> QED
      BY <2>1, <2>2, <2>3
  <1>19. OnePlace(d) /\ Plain(d) <=> n = 0
    <2>1. DOMAIN old = {} <=> n = 0
      BY <1>12
    <2> QED
      <3>1. OnePlace(d) <=> n <= 1 /\ \A k \in Refs(old) : Len(ListAt(d, k)) <= 1
        BY <1>9, <1>10 DEF OnePlace
      <3>2. Plain(d) <=> Refs(old) = DOMAIN old /\ \A k \in Refs(old) : Refs(ListAt(d, k)) = {}
        BY <1>9 DEF Plain
      <3>3. n = 0 => n <= 1
        BY <1>12
      <3> QED
        BY <1>6, <2>1, <3>1, <3>2, <3>3
  <1>20. n = 0 => Plain(e)
    BY <1>9, <1>11, <1>12, <1>14, <1>15 DEF Plain
  <1> QED
    BY <1>17, <1>18, <1>19, <1>20 DEF FormGains

\* The first page: it gains the widget where the reader's page has the array the signer adds to.
PageGains(doc, d, e, f) ==
    /\ \A y : y \in AnnotsOf(e) <=> y \in AnnotsOf(d) \/ (y = f /\ SamePlace(doc))
    /\ Len(PageEntry(e)) <= 1 <=> Len(PageEntry(d)) <= 1

LEMMA SignedPage ==
    ASSUME NEW doc, NEW rev, NEW f, NEW t, Signed(doc, rev, f, t), NEW d, NEW e, Shown(doc, rev, d, e)
    PROVE  PageGains(doc, d, e, f)
  <1>1. WellFormed(doc) /\ Parses(doc) /\ Linked(doc) /\ Signs(doc, rev.top, f, t)
    BY DEF Signed
  <1>2. /\ Entry(PageEntry(d))
        /\ \A k \in Refs(PageEntry(d)) : Kind(doc, PageEntry(d)[k].ref, "array")
    BY <1>1, LinksRead DEF Shown
  <1>3. /\ FirstPage(d) = FirstPage(doc) /\ FirstPage(e) = FirstPage(doc)
        /\ PageEntry(d) = ReaderSees(d, FirstPage(doc)).annots /\ PageEntry(e) = ReaderSees(e, FirstPage(doc)).annots
        /\ AnnotsOf(d) = Items(d, PageEntry(d)) /\ AnnotsOf(e) = Items(e, PageEntry(e))
    BY DEF Shown, PageEntry, AnnotsOf
  <1>4. FirstPage(doc) \in Numbers(doc) /\ ArrayOf(doc) \in Nat
    BY <1>1, TouchedIs DEF Kind
  <1>5. PICK entry : entry = PageEntry(d)
    OBVIOUS
  <1>6. CASE ArrayOf(doc) > 0
    <2>1. FirstPage(doc) \in Numbers(doc) \ Touched(doc)
      BY <1>4, <1>6 DEF Shown
    <2>2. PageEntry(e) = entry /\ entry = ReaderSees(doc, FirstPage(doc)).annots
      BY <1>3, <1>5, <2>1 DEF Shown
    <2>3. SamePlace(doc) <=> \E k \in Refs(entry) : entry[k].ref = ArrayOf(doc)
      BY <1>6, <2>2 DEF SamePlace, ArrayOf
    <2>4. \A y : y \in Items(e, entry) <=>
                    y \in Items(d, entry) \/ (y = f /\ \E k \in Refs(entry) : entry[k].ref = ArrayOf(doc))
      BY <1>2, <1>5, SignedItems
    <2> QED
      BY <1>3, <1>5, <2>2, <2>3, <2>4 DEF PageGains
  <1>7. CASE ~(ArrayOf(doc) > 0)
    <2>1. PICK page : page = FirstPage(doc)
      OBVIOUS
    <2>2. page \in Touched(doc) /\ page \in DOMAIN rev.top /\ ArrayOf(doc) = 0 /\ PlaceOf(doc) = page
      BY <1>1, <1>4, <1>7, <2>1, SignsOver DEF PlaceOf
    <2>3. PageEntry(e) = AddInline(entry, f)
      <3>1. rev.top[page].annots = AddInline(SignerSees(doc, page).annots, f)
        BY <1>1, <2>1, <2>2, SignsOver
      <3>2. ReaderSees(e, page) = rev.top[page] /\ ReaderSees(d, page) = SignerSees(doc, page)
        BY <2>2 DEF Shown
      <3> QED
        BY <1>3, <1>5, <2>1, <3>1, <3>2
    <2>4. Refs(entry) = {}
      <3>1. entry = SignerSees(doc, page).annots
        BY <1>3, <1>5, <2>1, <2>2 DEF Shown
      <3>2. FirstRef(entry) = 0
        BY <2>1, <2>2, <3>1 DEF ArrayOf
      <3> QED
        BY <1>2, <1>5, <3>2, FirstRefIs
    <2>5. PICK more : more = AddInline(entry, f)
      OBVIOUS
    <2>6. Gains(AddInline(entry, f), entry, f)
      BY <1>2, <1>5, InlineAddedIs
    <2>7. /\ Entry(more) /\ Refs(more) = {} /\ (Len(more) <= 1 <=> Len(entry) <= 1)
          /\ \A x : (\E k \in Inlines(more) : x \in more[k].items) <=> x = f \/ \E k \in Inlines(entry) : x \in entry[k].items
      BY <2>4, <2>5, <2>6 DEF Gains
    <2>8. \A y : y \in Items(e, more) <=> \E k \in Inlines(more) : y \in more[k].items
      BY <2>7, ItemsAre
    <2>9. \A y : y \in Items(d, entry) <=> \E k \in Inlines(entry) : y \in entry[k].items
      BY <1>2, <1>5, <2>4, ItemsAre
    <2>10. SamePlace(doc)
      BY <1>7 DEF SamePlace, ArrayOf
    <2>11. \A y : y \in AnnotsOf(e) <=> y \in AnnotsOf(d) \/ y = f
      BY <1>3, <1>5, <2>3, <2>5, <2>7, <2>8, <2>9
    <2>12. Len(PageEntry(e)) <= 1 <=> Len(PageEntry(d)) <= 1
      BY <1>5, <2>3, <2>5, <2>7
    <2> QED
      BY <2>10, <2>11, <2>12 DEF PageGains
  <1> QED
    BY <1>6, <1>7

\* The whole of it, and the titles.
Adds(doc, d, e, f, t) ==
    /\ FieldsOf(e) = FieldsOf(d) \cup {f} /\ f \notin FieldsOf(d)
    /\ AnnotsOf(e) = AnnotsOf(d) \cup (IF SamePlace(doc) THEN {f} ELSE {})
    /\ Unambiguous(e) <=> Unambiguous(d) /\ Plain(d)
    /\ Unambiguous(e) => Plain(e)
    /\ \A id \in FieldsOf(d) : ReaderSees(e, id).title = ReaderSees(d, id).title
    /\ ReaderSees(e, f).title = t

LEMMA SignedAdds ==
    ASSUME NEW doc, NEW rev, NEW f, NEW t, Signed(doc, rev, f, t), NEW d, NEW e, Shown(doc, rev, d, e)
    PROVE  Adds(doc, d, e, f, t)
  <1>1. WellFormed(doc) /\ Parses(doc) /\ Linked(doc) /\ Signs(doc, rev.top, f, t)
    BY DEF Signed
  <1>2. FormGains(d, e, f)
    <2>1. FormOf(doc) \in Nat
      BY <1>1, TouchedIs
    <2>2. FormOf(doc) > 0 \/ FormOf(doc) = 0
      BY <2>1
    <2> QED
      BY <2>2, SignedOldForm, SignedNewForm
  <1>3. PageGains(doc, d, e, f)
    BY SignedPage
  <1>4. FieldsOf(e) = FieldsOf(d) \cup {f}
    <2>1. \A y : y \in FieldsOf(e) <=> y \in FieldsOf(d) \/ y = f
      BY <1>2 DEF FormGains
    <2> QED
      BY <2>1 DEF FieldsOf
  <1>5. AnnotsOf(e) = AnnotsOf(d) \cup (IF SamePlace(doc) THEN {f} ELSE {})
    <2>1. \A y : y \in AnnotsOf(e) <=> y \in AnnotsOf(d) \/ (y = f /\ SamePlace(doc))
      BY <1>3 DEF PageGains
    <2> QED
      BY <2>1 DEF AnnotsOf, Items
  <1>6. \A x \in {d, e} : Unambiguous(x) <=> OnePlace(x) /\ Len(PageEntry(x)) <= 1
    BY PlacesAre DEF OnePlace
  <1>7. Unambiguous(e) <=> Unambiguous(d) /\ Plain(d)
    BY <1>2, <1>3, <1>6 DEF FormGains, PageGains
  <1>8. Unambiguous(e) => Plain(e)
    BY <1>2, <1>6 DEF FormGains
  <1>9. \A id \in FieldsOf(d) : Kind(doc, id, "field")
    BY <1>1, LinksRead DEF Shown
  <1>10. \A id \in FieldsOf(d) : ReaderSees(e, id) = ReaderSees(d, id)
    <2>1. \A id \in FieldsOf(d) : id \in Numbers(doc) /\ id \notin Touched(doc)
      BY <1>9 DEF Shown, Kind
    <2> QED
      BY <2>1 DEF Shown
  <1>11. f \notin Numbers(doc) /\ f \in DOMAIN rev.top /\ rev.top[f].title = t
    BY <1>1 DEF Signs, Field
  <1>12. f \notin FieldsOf(d)
    BY <1>9, <1>11 DEF Kind
  <1>13. ReaderSees(e, f).title = t
    BY <1>11 DEF Shown
  <1> QED
    BY <1>4, <1>5, <1>7, <1>8, <1>10, <1>12, <1>13 DEF Adds

\* The numbers a file has gained that a reader takes for fields.
NewFields(doc, e) == {id \in Numbers(e) \ Numbers(doc) : ReaderSees(e, id).type = "field"}

\* A longer file: what the signer and a reader both see of what the first signature touched.
Follows(doc, e, new) ==
    /\ WellFormed(e) /\ Parses(e) /\ Linked(e) /\ RootId(e) = RootId(doc)
    /\ Touched(doc) \subseteq Numbers(doc) /\ Numbers(doc) \subseteq Numbers(e)
    /\ SamePlace(e) <=> SamePlace(doc)
    /\ \A id \in Touched(e) : SignerSees(e, id) = ReaderSees(e, id)
    /\ \A id \in Numbers(doc) \ Touched(doc) : id \notin Touched(e) /\ ReaderSees(e, id) = ReaderSees(doc, id)
    /\ \A id \in Touched(doc) : ReaderSees(doc, id).type # "field" /\ ReaderSees(e, id).type # "field"
    /\ NewFields(doc, e) = new

LEMMA SignedTouches ==
    ASSUME NEW doc, NEW rev, NEW f, NEW t, Signed(doc, rev, f, t), NEW d, NEW e, Shown(doc, rev, d, e)
    PROVE  /\ FormOf(e) = FormOf(doc) \/ (FormOf(e) \in DOMAIN rev.top /\ FormOf(e) \notin Numbers(doc))
           /\ ArrayOf(e) = ArrayOf(doc)
           /\ SamePlace(e) <=> SamePlace(doc)
  <1>1. WellFormed(doc) /\ Parses(doc) /\ Linked(doc) /\ Signs(doc, rev.top, f, t)
    BY DEF Signed
  <1>2. /\ FormOf(doc) \in Nat /\ ArrayOf(doc) \in Nat
        /\ Kind(doc, FirstPage(doc), "page") /\ Kind(doc, RootId(doc), "catalog")
    BY <1>1, TouchedIs
  <1>3. RootId(e) = RootId(doc) /\ FirstPage(e) = FirstPage(doc)
    BY DEF Shown
  <1>4. RootId(doc) \in DOMAIN rev.top /\ RootId(doc) \in Touched(doc)
    BY <1>1, SignsOver
  <1>5. SignerSees(e, RootId(doc)) = rev.top[RootId(doc)]
    BY <1>4 DEF Shown
  <1>6. PICK cat : cat = SignerSees(doc, RootId(doc))
    OBVIOUS
  <1>7. "form" \in DOMAIN cat /\ Entry(cat.form)
    BY <1>1, <1>2, <1>6, SeenAre DEF Body
  <1>8. FormOf(e) = FormOf(doc) \/ (FormOf(e) \in DOMAIN rev.top /\ FormOf(e) \notin Numbers(doc))
    <2>1. CASE FormOf(doc) > 0
      BY <1>1, <1>3, <1>5, <2>1 DEF Signs, FormOf
    <2>2. CASE FormOf(doc) = 0
      <3>1. PICK form : /\ form \in DOMAIN rev.top \ Numbers(doc) /\ form \in Nat /\ form > 0
                        /\ rev.top[RootId(doc)] = [cat EXCEPT !["form"] = Append(@, ByRef(form))]
        BY <1>1, <1>6, <2>2 DEF Signs
      <3>2. PICK old : old = cat.form
        OBVIOUS
      <3>3. Refs(old) = {} /\ Entry(old)
        BY <1>6, <1>7, <2>2, <3>2, FirstRefIs DEF FormOf
      <3>4. FirstRef(Append(old, ByRef(form))) = form
        BY <3>1, <3>3, RefAdded
      <3>5. rev.top[RootId(doc)].form = Append(old, ByRef(form))
        BY <1>7, <3>1, <3>2
      <3> QED
        BY <1>3, <1>5, <3>1, <3>4, <3>5 DEF FormOf
    <2> QED
      BY <1>2, <2>1, <2>2
  <1>9. PICK page : page = FirstPage(doc)
    OBVIOUS
  <1>10. page \in Numbers(doc)
    BY <1>2, <1>9 DEF Kind
  <1>11. CASE ArrayOf(doc) > 0
    <2>1. page \in Numbers(doc) \ Touched(doc)
      BY <1>9, <1>10, <1>11 DEF Shown
    <2>2. SignerSees(e, page) = SignerSees(doc, page) /\ ReaderSees(e, page) = ReaderSees(doc, page)
      BY <2>1 DEF Shown
    <2>3. ArrayOf(e) = ArrayOf(doc)
      BY <1>3, <1>9, <2>2 DEF ArrayOf
    <2>4. SamePlace(e) <=> SamePlace(doc)
      BY <1>3, <1>9, <2>2 DEF SamePlace
    <2> QED
      BY <1>8, <2>3, <2>4
  <1>12. CASE ~(ArrayOf(doc) > 0)
    <2>1. page \in DOMAIN rev.top /\ ArrayOf(doc) = 0
      BY <1>1, <1>2, <1>9, <1>12, SignsOver DEF PlaceOf
    <2>2. rev.top[page].annots = AddInline(SignerSees(doc, page).annots, f) /\ SignerSees(e, page) = rev.top[page]
      BY <1>1, <1>9, <2>1, SignsOver DEF Shown
    <2>3. Entry(SignerSees(doc, page).annots)
      BY <1>1, <1>2, <1>9, SeenAre DEF Body
    <2>4. FirstRef(AddInline(SignerSees(doc, page).annots, f)) = FirstRef(SignerSees(doc, page).annots)
      BY <2>3, InlineAdded
    <2>5. ArrayOf(e) = 0
      BY <1>3, <1>9, <2>1, <2>2, <2>4 DEF ArrayOf
    <2>6. SamePlace(e) /\ SamePlace(doc)
      BY <1>12, <2>1, <2>5 DEF SamePlace, ArrayOf
    <2> QED
      BY <1>8, <2>1, <2>5, <2>6
  <1> QED
    BY <1>11, <1>12

LEMMA SignedFollows ==
    ASSUME NEW doc, NEW rev, NEW f, NEW t, Signed(doc, rev, f, t), NEW d, NEW e, e = Append(doc, rev), Shown(doc, rev, d, e)
    PROVE  Follows(doc, e, {f})
  <1>1. /\ WellFormed(doc) /\ Parses(doc) /\ Structured(doc) /\ Linked(doc) /\ HasSlot(rev) /\ GoodRevision(doc, rev)
        /\ Signs(doc, rev.top, f, t) /\ Document(doc)
    BY DEF Signed, WellFormed, Parses
  <1>2. WellFormed(e) /\ Parses(e) /\ RootId(e) = RootId(doc) /\ Linked(e)
    BY <1>1, GoodRevisionKeeps, SignsLinked
  <1>3. DOMAIN rev.packed = {}
    BY <1>1, NothingGood DEF GoodRevision
  <1>4. Numbers(e) = Numbers(doc) \cup DOMAIN rev.top
    BY <1>1, <1>3, OneMore
  <1>5. /\ \A id \in DOMAIN rev.top : ReaderSees(e, id) = rev.top[id] /\ SignerSees(e, id) = rev.top[id]
        /\ \A id \in Numbers(doc) \ Touched(doc) : ReaderSees(e, id) = ReaderSees(doc, id)
        /\ FirstPage(e) = FirstPage(doc)
    BY DEF Shown
  <1>6. /\ DOMAIN rev.top \cap Numbers(doc) = Touched(doc) /\ f \in DOMAIN rev.top \ Numbers(doc)
        /\ rev.top[f].type = "field"
    BY <1>1 DEF Signs, Field
  <1>7. ASSUME NEW id \in Touched(e)
        PROVE  id \in DOMAIN rev.top /\ (id \in Numbers(doc) => id \in Touched(doc))
    <2>1. /\ Touched(e) = {RootId(e), PlaceOf(e)} \cup (IF FormOf(e) > 0 THEN {FormOf(e)} ELSE {})
      BY <1>2, TouchedIs
    <2>2. PlaceOf(e) = PlaceOf(doc)
      BY <1>5, SignedTouches DEF PlaceOf
    <2>3. RootId(doc) \in Touched(doc) /\ PlaceOf(doc) \in Touched(doc) /\ (FormOf(doc) > 0 => FormOf(doc) \in Touched(doc))
      BY <1>1, SignsOver
    <2>4. id = RootId(doc) \/ id = PlaceOf(doc) \/ (id = FormOf(e) /\ FormOf(e) > 0)
      BY <1>2, <2>1, <2>2
    <2>5. id \in Touched(doc) \/ (id \in DOMAIN rev.top /\ id \notin Numbers(doc))
      BY <2>3, <2>4, SignedTouches
    <2> QED
      BY <1>6, <2>5
  <1>8. \A id \in DOMAIN rev.top \ Numbers(doc) : rev.top[id].type = "field" <=> id = f
    <2>1. Other.type # "field" /\ \A x : Form(x).type # "field"
      BY DEF Other, Form
    <2>2. FormOf(doc) \in Nat
      BY <1>1, TouchedIs
    <2>3. CASE FormOf(doc) > 0
      BY <1>1, <1>6, <2>1, <2>3 DEF Signs
    <2>4. CASE FormOf(doc) = 0
      <3>1. PICK form : /\ rev.top[form] = Form(<<Inline({f})>>)
                        /\ \A id \in DOMAIN rev.top \ Numbers(doc) : id \in {f, form} \/ rev.top[id] = Other
        BY <1>1, <2>4 DEF Signs
      <3> QED
        BY <1>6, <2>1, <3>1
    <2> QED
      BY <2>2, <2>3, <2>4
  <1>9. NewFields(doc, e) = {f}
    <2>1. \A id : id \in Numbers(e) \ Numbers(doc) <=> id \in DOMAIN rev.top \ Numbers(doc)
      BY <1>4
    <2>2. \A id : id \in NewFields(doc, e) <=> id = f
      BY <1>5, <1>6, <1>8, <2>1 DEF NewFields
    <2> QED
      BY <2>2
  <1>10. ASSUME NEW id \in Touched(doc)
         PROVE  ReaderSees(doc, id).type # "field" /\ ReaderSees(e, id).type # "field"
    <2>1. \E type \in {"catalog", "page", "form", "array"} : Kind(doc, id, type)
      BY <1>1, TouchedIs, SignsOver DEF PlaceOf
    <2>2. ReaderSees(doc, id).type # "field" /\ SignerSees(doc, id).type # "field"
      BY <1>1, <2>1, SeenAre
    <2>3. id \in DOMAIN rev.top /\ rev.top[id].type = SignerSees(doc, id).type
      BY <1>1, SignsOver
    <2> QED
      BY <1>5, <2>2, <2>3
  <1> QED
    <2>1. Touched(doc) \subseteq Numbers(doc) /\ Numbers(doc) \subseteq Numbers(e)
      BY <1>4, <1>6
    <2> QED
      BY <1>2, <1>5, <1>7, <1>9, <1>10, <2>1, SignedTouches DEF Follows

LEMMA FollowsOn ==
    ASSUME NEW doc, NEW e, NEW new, Follows(doc, e, new), NEW g, NEW more, Follows(e, g, more)
    PROVE  Follows(doc, g, new \cup more)
  <1>1. \A id \in Numbers(doc) \ Touched(doc) :
           id \in Numbers(e) \ Touched(e) /\ id \notin Touched(g) /\ ReaderSees(g, id) = ReaderSees(doc, id)
    BY DEF Follows
  <1>2. \A id \in Numbers(e) : ReaderSees(g, id).type = "field" <=> ReaderSees(e, id).type = "field"
    BY DEF Follows
  <1>3. \A id \in Touched(doc) : id \in Numbers(doc) => ReaderSees(g, id).type # "field"
    BY <1>2 DEF Follows
  <1>4. NewFields(doc, g) = new \cup more
    <2>1. /\ \A id : id \in new <=> id \in Numbers(e) /\ id \notin Numbers(doc) /\ ReaderSees(e, id).type = "field"
          /\ \A id : id \in more <=> id \in Numbers(g) /\ id \notin Numbers(e) /\ ReaderSees(g, id).type = "field"
          /\ \A id : id \in NewFields(doc, g) <=>
                        id \in Numbers(g) /\ id \notin Numbers(doc) /\ ReaderSees(g, id).type = "field"
          /\ Numbers(doc) \subseteq Numbers(e) /\ Numbers(e) \subseteq Numbers(g)
      BY DEF Follows, NewFields
    <2>2. \A id : id \in NewFields(doc, g) <=> id \in new \/ id \in more
      BY <1>2, <2>1
    <2> QED
      BY <2>2
  <1>5. \A id \in Touched(doc) : ReaderSees(doc, id).type # "field" /\ ReaderSees(g, id).type # "field"
    <2>1. \A id \in Touched(doc) : id \in Numbers(e)
      BY DEF Follows
    <2> QED
      BY <1>2, <2>1 DEF Follows
  <1> QED
    BY <1>1, <1>4, <1>5 DEF Follows

-----------------------------------------------------------------------------
(* The revision with the DSS.                                                *)

\* A file whose signer and readers agree on what a signature would touch.
Agreed(doc) ==
    /\ WellFormed(doc) /\ Parses(doc) /\ Linked(doc)
    /\ \A id \in Touched(doc) : SignerSees(doc, id) = ReaderSees(doc, id)

LEMMA DssFollows ==
    ASSUME NEW doc, Agreed(doc), NEW op, NEW rev, ListsMaterial(doc, rev, op), NEW e, e = Append(doc, rev)
    PROVE  Follows(doc, e, {}) /\ Alike(doc, e, doc)
  <1>1. /\ WellFormed(doc) /\ Parses(doc) /\ Structured(doc) /\ Linked(doc) /\ Document(doc)
        /\ \A id \in Touched(doc) : SignerSees(doc, id) = ReaderSees(doc, id)
    BY DEF Agreed, WellFormed, Parses
  <1>2. PICK root : root = RootId(doc)
    OBVIOUS
  <1>3. PICK new : new = rev.top[root]
    OBVIOUS
  <1>4. /\ HasSlot(rev) /\ GoodRevision(doc, rev) /\ DOMAIN rev.top \cap Numbers(doc) = {root}
        /\ new.type = "catalog" /\ new.form = SignerSees(doc, root).form
        /\ \A id \in DOMAIN rev.top \ Numbers(doc) : rev.top[id] = Other \/ rev.top[id] = Dss(op)
    BY <1>2, <1>3 DEF ListsMaterial
  <1>5. DOMAIN rev.packed = {}
    BY <1>4, NothingGood DEF GoodRevision
  <1>6. /\ Kind(doc, FirstPage(doc), "page") /\ Kind(doc, root, "catalog")
        /\ Touched(doc) = {root, PlaceOf(doc)} \cup (IF FormOf(doc) > 0 THEN {FormOf(doc)} ELSE {})
        /\ FormOf(doc) > 0 => Kind(doc, FormOf(doc), "form")
        /\ ArrayOf(doc) > 0 => Kind(doc, ArrayOf(doc), "array")
        /\ root # PlaceOf(doc)
    BY <1>1, <1>2, TouchedIs
  <1>7. SignerSees(doc, root).type = "catalog" /\ LinkedBody(doc, SignerSees(doc, root)) /\ root \in Numbers(doc)
    BY <1>1, <1>6, SeenAre DEF Kind
  <1>8. Extends(doc, rev, {})
    BY <1>3, <1>4, <1>5, <1>7 DEF Extends
  <1>9. WellFormed(e) /\ Parses(e) /\ RootId(e) = root /\ FirstPage(e) = FirstPage(doc)
    BY <1>1, <1>2, <1>4, GoodRevisionKeeps
  <1>10. ASSUME NEW id \in DOMAIN rev.top
         PROVE  LinkedBody(e, rev.top[id])
    <2>1. CASE id = root
      <3>1. LinkedBody(e, SignerSees(doc, root))
        BY <1>1, <1>7, <1>8, BodyGrows
      <3> QED
        BY <1>3, <1>4, <1>7, <2>1, <3>1 DEF LinkedBody
    <2>2. CASE id # root
      <3>1. rev.top[id] = Other \/ rev.top[id] = Dss(op)
        BY <1>4, <2>2
      <3> QED
        BY <3>1 DEF LinkedBody, Other, Dss
    <2> QED
      BY <2>1, <2>2
  <1>11. Linked(e)
    BY <1>1, <1>8, <1>9, <1>10, LinkedGrows
  <1>12. Numbers(e) = Numbers(doc) \cup DOMAIN rev.top
    BY <1>1, <1>4, <1>5, OneMore
  <1>13. /\ \A id \in DOMAIN rev.top : ReaderSees(e, id) = rev.top[id] /\ SignerSees(e, id) = rev.top[id]
         /\ \A id \in Numbers(doc) : id # root =>
               ReaderSees(e, id) = ReaderSees(doc, id) /\ SignerSees(e, id) = SignerSees(doc, id)
    <2>1. \A id \in DOMAIN rev.top : ReaderSees(e, id) = rev.top[id] /\ SignerSees(e, id) = rev.top[id]
      BY <1>1, <1>4, OneMoreSees
    <2>2. \A id \in Numbers(doc) : id # root => Defined(doc, id) /\ id \notin DOMAIN rev.top \cup DOMAIN rev.packed
      BY <1>4, <1>5, NumberIsDefined
    <2> QED
      BY <1>1, <1>4, <2>1, <2>2, OneMoreSees
  <1>14. root \in DOMAIN rev.top /\ root \in Touched(doc)
    BY <1>4, <1>6
  <1>15. FirstPage(doc) \in Numbers(doc) /\ FirstPage(doc) # root
    <2>1. SignerSees(doc, FirstPage(doc)).type = "page"
      BY <1>1, <1>6, SeenAre
    <2> QED
      BY <1>6, <1>7, <2>1 DEF Kind
  <1>16. ArrayOf(e) = ArrayOf(doc) /\ PlaceOf(e) = PlaceOf(doc) /\ (SamePlace(e) <=> SamePlace(doc))
    <2>1. /\ SignerSees(e, FirstPage(doc)) = SignerSees(doc, FirstPage(doc))
          /\ ReaderSees(e, FirstPage(doc)) = ReaderSees(doc, FirstPage(doc))
      BY <1>13, <1>15
    <2> QED
      BY <1>9, <2>1 DEF ArrayOf, PlaceOf, SamePlace
  <1>17. FormOf(e) = FormOf(doc)
    BY <1>2, <1>3, <1>4, <1>9, <1>13, <1>14 DEF FormOf
  <1>18. Touched(e) = Touched(doc)
    <2>1. Touched(e) = {root, PlaceOf(e)} \cup (IF FormOf(e) > 0 THEN {FormOf(e)} ELSE {})
      BY <1>9, <1>11, TouchedIs
    <2> QED
      BY <1>6, <1>16, <1>17, <2>1
  <1>19. Touched(doc) \subseteq Numbers(doc)
    BY <1>6 DEF Kind, PlaceOf
  <1>20. \A id \in Touched(e) : SignerSees(e, id) = ReaderSees(e, id)
    BY <1>1, <1>13, <1>14, <1>18, <1>19
  <1>21. \A id \in Touched(doc) : ReaderSees(doc, id).type # "field" /\ ReaderSees(e, id).type # "field"
    <2> SUFFICES ASSUME NEW id \in Touched(doc)
                 PROVE  ReaderSees(doc, id).type # "field" /\ ReaderSees(e, id).type # "field"
      OBVIOUS
    <2>1. \E type \in {"catalog", "page", "form", "array"} : Kind(doc, id, type)
      BY <1>6 DEF PlaceOf
    <2>2. ReaderSees(doc, id).type # "field"
      BY <1>1, <2>1, SeenAre
    <2> QED
      BY <1>3, <1>4, <1>13, <1>14, <1>19, <2>2
  <1>22. NewFields(doc, e) = {}
    <2>1. \A id \in Numbers(e) \ Numbers(doc) : ReaderSees(e, id) = Other \/ ReaderSees(e, id) = Dss(op)
      BY <1>4, <1>12, <1>13
    <2>2. Other.type # "field" /\ Dss(op).type # "field"
      BY DEF Other, Dss
    <2> QED
      BY <2>1, <2>2 DEF NewFields
  <1>23. Follows(doc, e, {})
    <2>1. \A id \in Numbers(doc) \ Touched(doc) : id \notin Touched(e) /\ ReaderSees(e, id) = ReaderSees(doc, id)
      BY <1>13, <1>14, <1>18
    <2> QED
      BY <1>2, <1>9, <1>11, <1>12, <1>16, <1>19, <1>20, <1>21, <1>22, <2>1 DEF Follows
  <1>24. Alike(doc, e, doc)
    <2>1. ReaderSees(doc, root) = SignerSees(doc, root)
      BY <1>1, <1>14
    <2>2. FormEntry(e) = FormEntry(doc)
      BY <1>2, <1>3, <1>4, <1>9, <1>13, <1>14, <2>1 DEF FormEntry
    <2> QED
      BY <1>2, <1>9, <1>13, <2>2 DEF Alike
  <1> QED
    BY <1>23, <1>24

LEMMA TakenAlike ==
    ASSUME NEW doc, Agreed(doc), NEW d, d = AsTaken(doc)
    PROVE  Reads(doc, doc) /\ Alike(doc, d, doc)
  <1>1. /\ WellFormed(doc) /\ Parses(doc) /\ Linked(doc) /\ Document(doc)
        /\ \A id \in Touched(doc) : SignerSees(doc, id) = ReaderSees(doc, id)
    BY DEF Agreed, WellFormed
  <1>2. /\ RootId(d) = RootId(doc) /\ FirstPage(d) = FirstPage(doc)
        /\ \A id \in Touched(doc) : ReaderSees(d, id) = SignerSees(doc, id)
        /\ \A id \in Numbers(doc) \ Touched(doc) : ReaderSees(d, id) = ReaderSees(doc, id)
    BY <1>1, TakenIs
  <1>3. \A id \in Numbers(doc) : ReaderSees(d, id) = ReaderSees(doc, id)
    BY <1>1, <1>2
  <1>4. RootId(doc) \in Numbers(doc)
    BY <1>1 DEF WellFormed
  <1>5. Alike(doc, d, doc)
    BY <1>2, <1>3, <1>4 DEF Alike, FormEntry
  <1>6. Reads(doc, doc)
    BY <1>1, NumberIsDefined, SeenIsDefined DEF Reads
  <1> QED
    BY <1>5, <1>6

-----------------------------------------------------------------------------
(* One revision after the other: d is the source as the signer takes it, e   *)
(* the file so far, new its own fields.                                      *)

Kept(src, d, e, new) ==
    /\ FieldsOf(e) = FieldsOf(d) \cup new /\ new \cap FieldsOf(d) = {}
    /\ AnnotsOf(e) = AnnotsOf(d) \cup (IF SamePlace(src) THEN new ELSE {})
    /\ Unambiguous(e) <=> Unambiguous(d) /\ Plain(d)
    /\ Unambiguous(e) => Plain(e)
    /\ \A id \in FieldsOf(d) : ReaderSees(e, id).title = ReaderSees(d, id).title
    /\ Follows(src, e, new)

LEMMA FollowsAgrees ==
    ASSUME NEW doc, NEW e, NEW new, Follows(doc, e, new)
    PROVE  Agreed(e)
  BY DEF Follows, Agreed

LEMMA SealKept ==
    ASSUME NEW src, NEW rev, NEW f, NEW t, Signed(src, rev, f, t), NEW d, NEW e, Shown(src, rev, d, e),
           Follows(src, e, {f})
    PROVE  Kept(src, d, e, {f}) /\ ReaderSees(e, f).title = t
  <1>2. Adds(src, d, e, f, t)
    BY SignedAdds
  <1>4. {f} \cap FieldsOf(d) = {}
    BY <1>2 DEF Adds
  <1>5. AnnotsOf(e) = AnnotsOf(d) \cup (IF SamePlace(src) THEN {f} ELSE {})
    BY <1>2 DEF Adds
  <1> QED
    BY <1>2, <1>4, <1>5 DEF Adds, Kept

SameFields(e, g) == FieldsOf(g) = FieldsOf(e) /\ \A id \in FieldsOf(e) : ReaderSees(g, id) = ReaderSees(e, id)

OneFieldMore(e, g, f, t) ==
    /\ FieldsOf(g) = FieldsOf(e) \cup {f} /\ f \notin FieldsOf(e)
    /\ \A id \in FieldsOf(e) : ReaderSees(g, id).title = ReaderSees(e, id).title
    /\ ReaderSees(g, f).title = t

LEMMA DssKeeps ==
    ASSUME NEW src, NEW d, NEW e, NEW new, Kept(src, d, e, new), NEW rev, NEW op, ListsMaterial(e, rev, op),
           NEW g, g = Append(e, rev)
    PROVE  Kept(src, d, g, new) /\ SameFields(e, g)
  <1>1. Follows(src, e, new)
    BY DEF Kept
  <1>2. Agreed(e) /\ WellFormed(e) /\ Linked(e)
    BY <1>1, FollowsAgrees DEF Agreed
  <1>3. Follows(e, g, {}) /\ Alike(e, g, e)
    BY <1>2, DssFollows
  <1>4. Reads(e, e)
    <2>1. PICK x : x = AsTaken(e)
      OBVIOUS
    <2> QED
      BY <1>2, <2>1, TakenAlike
  <1>5. /\ FieldsOf(g) = FieldsOf(e) /\ AnnotsOf(g) = AnnotsOf(e)
        /\ Unambiguous(g) <=> Unambiguous(e)
        /\ Plain(g) <=> Plain(e)
        /\ \A id \in FieldsOf(e) : ReaderSees(g, id) = ReaderSees(e, id)
    BY <1>2, <1>3, <1>4, AlikeShow
  <1>6. Follows(src, g, new)
    <2>1. Follows(src, g, new \cup {})
      BY <1>1, <1>3, FollowsOn
    <2>2. new \cup {} = new
      OBVIOUS
    <2> QED
      BY <2>1, <2>2
  <1>7. \A id \in FieldsOf(d) : ReaderSees(g, id).title = ReaderSees(d, id).title
    BY <1>5 DEF Kept
  <1>8. /\ FieldsOf(g) = FieldsOf(d) \cup new /\ new \cap FieldsOf(d) = {}
        /\ AnnotsOf(g) = AnnotsOf(d) \cup (IF SamePlace(src) THEN new ELSE {})
        /\ Unambiguous(g) <=> Unambiguous(d) /\ Plain(d)
        /\ Unambiguous(g) => Plain(g)
    BY <1>5 DEF Kept
  <1>9. Kept(src, d, g, new)
    BY <1>6, <1>7, <1>8 DEF Kept
  <1> QED
    BY <1>5, <1>9 DEF SameFields

LEMMA StampKept ==
    ASSUME NEW src, NEW d, NEW e, NEW new, Kept(src, d, e, new), NEW rev, NEW f, NEW t, Signed(e, rev, f, t),
           NEW g, g = Append(e, rev)
    PROVE  Kept(src, d, g, new \cup {f}) /\ OneFieldMore(e, g, f, t)
  <1>1. Follows(src, e, new)
    BY DEF Kept
  <1>2. Agreed(e) /\ WellFormed(e) /\ Linked(e)
    BY <1>1, FollowsAgrees DEF Agreed
  <1>3. PICK x : x = AsTaken(e)
    OBVIOUS
  <1>4. Reads(e, e) /\ Alike(e, x, e)
    BY <1>2, <1>3, TakenAlike
  <1>5. /\ FieldsOf(x) = FieldsOf(e) /\ AnnotsOf(x) = AnnotsOf(e)
        /\ Unambiguous(x) <=> Unambiguous(e)
        /\ Plain(x) <=> Plain(e)
        /\ \A id \in FieldsOf(e) : ReaderSees(x, id) = ReaderSees(e, id)
    BY <1>2, <1>4, AlikeShow
  <1>6. Shown(e, rev, x, g)
    BY <1>3, SignedReads
  <1>7. Adds(e, x, g, f, t)
    BY <1>6, SignedAdds
  <1>8. Follows(e, g, {f})
    BY <1>6, SignedFollows
  <1>9. Follows(src, g, new \cup {f})
    BY <1>1, <1>8, FollowsOn
  <1>10. /\ FieldsOf(g) = FieldsOf(e) \cup {f} /\ f \notin FieldsOf(e)
         /\ \A id \in FieldsOf(e) : ReaderSees(g, id).title = ReaderSees(e, id).title
         /\ ReaderSees(g, f).title = t
         /\ Unambiguous(g) => Plain(g)
    BY <1>5, <1>7 DEF Adds
  <1>11. AnnotsOf(g) = AnnotsOf(e) \cup (IF SamePlace(e) THEN {f} ELSE {})
    BY <1>5, <1>7 DEF Adds
  <1>12. SamePlace(e) <=> SamePlace(src)
    BY <1>1 DEF Follows
  <1>13. /\ FieldsOf(e) = FieldsOf(d) \cup new /\ new \cap FieldsOf(d) = {}
         /\ AnnotsOf(e) = AnnotsOf(d) \cup (IF SamePlace(src) THEN new ELSE {})
         /\ \A id \in FieldsOf(d) : ReaderSees(e, id).title = ReaderSees(d, id).title
    BY DEF Kept
  <1>14. /\ Unambiguous(e) <=> Unambiguous(d) /\ Plain(d)
         /\ Unambiguous(e) => Plain(e)
    BY DEF Kept
  <1>15. Unambiguous(g) <=> Unambiguous(d) /\ Plain(d)
    <2>1. Unambiguous(g) <=> Unambiguous(x) /\ Plain(x)
      BY <1>7 DEF Adds
    <2> QED
      BY <1>5, <1>14, <2>1
  <1>16. AnnotsOf(g) = AnnotsOf(d) \cup (IF SamePlace(src) THEN new \cup {f} ELSE {})
    BY <1>11, <1>12, <1>13
  <1>17. FieldsOf(g) = FieldsOf(d) \cup (new \cup {f}) /\ (new \cup {f}) \cap FieldsOf(d) = {}
    BY <1>10, <1>13
  <1>18. \A id \in FieldsOf(d) : ReaderSees(g, id).title = ReaderSees(d, id).title
    BY <1>10, <1>13
  <1>19. Kept(src, d, g, new \cup {f})
    BY <1>9, <1>10, <1>15, <1>16, <1>17, <1>18 DEF Kept
  <1> QED
    BY <1>10, <1>19 DEF OneFieldMore

\* One field more: the titles differ if they did and the new one is not among them.
LEMMA OneTitleMore ==
    ASSUME NEW d, NEW e, NEW f, NEW t, OneFieldMore(d, e, f, t)
    PROVE  IsInjective(Titles(e)) <=> IsInjective(Titles(d)) /\ \A id \in FieldsOf(d) : ReaderSees(d, id).title # t
  <1>1. IsInjective(Titles(e)) <=>
           \A a, b \in FieldsOf(e) : ReaderSees(e, a).title = ReaderSees(e, b).title => a = b
    BY DEF IsInjective, Titles
  <1>2. IsInjective(Titles(d)) <=>
           \A a, b \in FieldsOf(d) : ReaderSees(d, a).title = ReaderSees(d, b).title => a = b
    BY DEF IsInjective, Titles
  <1> QED
    BY <1>1, <1>2 DEF OneFieldMore

-----------------------------------------------------------------------------
(* The three shapes of a result.                                             *)

LEMMA EmbedAppended ==
    ASSUME NEW doc, Document(doc), NEW rev, HasSlot(rev), NEW w
    PROVE  embed(Append(doc, rev), w) = Append(doc, Holding(rev, w))
  <1>1. PICK more : more = Append(doc, rev)
    OBVIOUS
  <1>2. PICK held : held = Append(doc, Holding(rev, w))
    OBVIOUS
  <1>3. HasSlot(Holding(rev, w))
    BY HoldingIs
  <1>4. /\ Document(more) /\ Len(more) = Len(doc) + 1 /\ more[Len(doc) + 1] = rev
        /\ \A i \in 1..Len(doc) : more[i] = doc[i]
    BY <1>1, OneMore
  <1>5. /\ Document(held) /\ Len(held) = Len(doc) + 1 /\ held[Len(doc) + 1] = Holding(rev, w)
        /\ \A i \in 1..Len(doc) : held[i] = doc[i]
    BY <1>2, <1>3, OneMore
  <1>6. PICK done : done = embed(more, w)
    OBVIOUS
  <1>7. /\ Document(done) /\ Len(done) = Len(more)
        /\ \A i \in 1..(Len(more) - 1) : done[i] = more[i]
        /\ done[Len(more)] = Holding(more[Len(more)], w)
    BY <1>4, <1>6, EmbedIs
  <1>8. Len(doc) \in Nat
    BY DocumentBasics
  <1>9. \A i \in 1..Len(done) : done[i] = held[i]
    <2>1. \A i \in 1..(Len(doc) + 1) : i \in 1..Len(doc) \/ i = Len(doc) + 1
      BY <1>8
    <2>2. Len(more) - 1 = Len(doc)
      BY <1>4, <1>8
    <2> QED
      BY <1>4, <1>5, <1>7, <2>1, <2>2
  <1>10. done = held
    BY <1>4, <1>5, <1>7, <1>9, SameSequence, DocumentBasics
  <1> QED
    BY <1>1, <1>2, <1>6, <1>10

LEMMA HeldIsSigned ==
    ASSUME NEW src, WellFormed(src), Parses(src), Linked(src), NEW for \in {"seal", "archive"}, NEW n, NEW w,
           NEW rev, rev = Holding(SignatureRevision(src, FieldTitle(for), for, n), w)
    PROVE  /\ Signed(src, rev, MaxId(src) + 2, FieldTitle(for))
           /\ rev.slot.for = for /\ rev.xref = Last(src).xref
  <1>1. PICK title : title = FieldTitle(for)
    OBVIOUS
  <1>2. PICK base : base = SignatureRevision(src, title, for, n)
    OBVIOUS
  <1>3. HasSlot(base) /\ base.slot = Slot(for)
    BY <1>2, RevisionsHaveSlots
  <1>4. GoodRevision(src, base)
    BY <1>2, SignatureRevisionIs
  <1>5. Signs(src, base.top, MaxId(src) + 2, title) /\ base.xref = Last(src).xref
    BY <1>2, SignatureSigns
  <1>6. rev = [base EXCEPT !.slot.holds = w]
    BY <1>1, <1>2 DEF Holding
  <1>7. DOMAIN rev = DOMAIN base /\ \A f \in DOMAIN base : f # "slot" => rev[f] = base[f]
    BY <1>6
  <1>8. {"top", "packed", "filter", "xref", "root"} \subseteq DOMAIN base
    BY <1>4 DEF GoodRevision
  <1>9. rev.top = base.top /\ rev.packed = base.packed /\ rev.filter = base.filter /\ rev.xref = base.xref
        /\ rev.root = base.root
    BY <1>7, <1>8
  <1>10. GoodRevision(src, rev)
    BY <1>4, <1>7, <1>9 DEF GoodRevision
  <1>11. HasSlot(rev) /\ rev.slot.for = base.slot.for
    BY <1>1, <1>2, <1>3, HoldingIs
  <1>12. base.slot.for = for
    BY <1>3 DEF Slot
  <1> QED
    BY <1>1, <1>5, <1>9, <1>10, <1>11, <1>12 DEF Signed

Own(pdf, k) == {i \in Slots(pdf) : i >= k}

TitlesTell(d, pdf, k) ==
    IsInjective(Titles(pdf)) <=>
       /\ IsInjective(Titles(d))
       /\ \A i \in Own(pdf, k) : \A id \in FieldsOf(d) : ReaderSees(d, id).title # FieldTitle(pdf[i].slot.for)
       /\ \A i, j \in Own(pdf, k) : pdf[i].slot.for = pdf[j].slot.for => i = j

\* A file written from src: src itself, then revisions that keep what it shows.
Writes(src, pdf) ==
    /\ Document(pdf) /\ Len(src) < Len(pdf) /\ \A i \in 1..Len(src) : pdf[i] = src[i]
    /\ \A i \in (Len(src) + 1)..Len(pdf) : pdf[i].xref = Last(src).xref
    /\ \E new : Kept(src, AsTaken(src), pdf, new)
    /\ TitlesTell(AsTaken(src), pdf, Len(src) + 1)

\* Where the signer reads what readers read, they find in the source as taken
\* what they find in the source, and the patcher looks where they look.
LEMMA ReadAlikeIs ==
    ASSUME NEW src, WellFormed(src), Parses(src), Linked(src), ReadAlike(src), NEW d, d = AsTaken(src)
    PROVE  /\ FieldsOf(d) = FieldsOf(src) /\ AnnotsOf(d) = AnnotsOf(src) /\ SamePlace(src)
           /\ Unambiguous(d) <=> Unambiguous(src)
           /\ Plain(d) <=> Plain(src)
           /\ Titles(d) = Titles(src)
           /\ \A id \in FieldsOf(src) : ReaderSees(d, id) = ReaderSees(src, id)
  <1>1. Agreed(src)
    BY DEF Agreed, ReadAlike
  <1>2. Reads(src, src) /\ Alike(src, d, src)
    BY <1>1, TakenAlike
  <1>3. /\ FieldsOf(d) = FieldsOf(src) /\ AnnotsOf(d) = AnnotsOf(src)
        /\ Unambiguous(d) <=> Unambiguous(src)
        /\ Plain(d) <=> Plain(src)
        /\ \A id \in FieldsOf(src) : ReaderSees(d, id) = ReaderSees(src, id)
    BY <1>2, AlikeShow
  <1>4. Titles(d) = Titles(src)
    BY <1>3 DEF Titles
  <1>5. SamePlace(src)
    <2>1. PICK e : e = SignerSees(src, FirstPage(src)).annots
      OBVIOUS
    <2>2. ReaderSees(src, FirstPage(src)).annots = e
      BY <2>1 DEF ReadAlike
    <2>3. Entry(e)
      <3>1. Kind(src, FirstPage(src), "page")
        BY TouchedIs
      <3>2. SignerSees(src, FirstPage(src)).type = "page" /\ Body(SignerSees(src, FirstPage(src)))
        BY <3>1, SeenAre
      <3> QED
        BY <2>1, <3>2 DEF Body
    <2>4. FirstRef(e) > 0 => Min(Refs(e)) \in Refs(e) /\ e[Min(Refs(e))].ref = FirstRef(e)
      BY <2>3, FirstRefIs DEF FirstRef
    <2> QED
      BY <2>1, <2>2, <2>4 DEF SamePlace
  <1> QED
    BY <1>3, <1>4, <1>5

LEMMA WrittenKeeps ==
    ASSUME NEW r, NEW src, WellFormed(src), Parses(src), Linked(src) => Writes(src, r.pdf), SealAt(r) = Len(src) + 1,
           Document(r.pdf), Len(src) < Len(r.pdf), \A i \in 1..Len(src) : r.pdf[i] = src[i]
    PROVE  KeepsDocument(r)
  <1>1. PICK pdf : pdf = r.pdf
    OBVIOUS
  <1>2. PICK n : n = Len(src)
    OBVIOUS
  <1>3. n \in Nat /\ n + 1 - 1 = n /\ IsSequence(src) /\ IsSequence(pdf) /\ Len(pdf) \in Nat /\ n \in 0..Len(pdf)
    BY <1>1, <1>2, DocumentBasics DEF WellFormed
  <1>4. SubSeq(pdf, 1, n) = src
    <2>1. PICK part : part = SubSeq(pdf, 1, n)
      OBVIOUS
    <2>2. IsSequence(part) /\ Len(part) = n /\ \A i \in 1..n : part[i] = pdf[i]
      BY <1>3, <2>1, SubSeqIs
    <2>3. part = src
      BY <1>1, <1>2, <1>3, <2>2, SameSequence
    <2> QED
      BY <2>1, <2>3
  <1>5. PICK k : k = n + 1
    OBVIOUS
  <1>6. SealAt(r) = k /\ SubSeq(r.pdf, 1, k - 1) = src
    BY <1>1, <1>2, <1>3, <1>4, <1>5
  <1>7. PICK d : d = AsTaken(src)
    OBVIOUS
  <1>8. FieldsSince(pdf, k) = NewFields(src, pdf)
    BY <1>1, <1>6 DEF FieldsSince, NewFields
  <1>9. ASSUME Linked(src)
        PROVE  /\ FieldsOf(pdf) = FieldsOf(d) \cup FieldsSince(pdf, k)
               /\ AnnotsOf(pdf) = AnnotsOf(d) \cup (IF SamePlace(src) THEN FieldsSince(pdf, k) ELSE {})
               /\ Unambiguous(pdf) <=>
                     /\ Unambiguous(d)
                     /\ Refs(FormEntry(d)) = DOMAIN FormEntry(d)
                     /\ \A entry \in FieldEntries(d) : Refs(entry) = {}
               /\ TitlesTell(d, pdf, k)
               /\ \A id \in Numbers(src) \ Touched(src) : ReaderSees(pdf, id) = ReaderSees(src, id)
               /\ Linked(pdf)
               /\ \A i \in k..Len(pdf) : pdf[i].xref = Last(src).xref
    <2>1. PICK new : Kept(src, d, pdf, new)
      BY <1>1, <1>7, <1>9 DEF Writes
    <2>2. Follows(src, pdf, new)
      BY <2>1 DEF Kept
    <2>3. FieldsSince(pdf, k) = new
      BY <1>8, <2>2 DEF Follows
    <2>4. Unambiguous(pdf) <=> Unambiguous(d) /\ Plain(d)
      BY <2>1 DEF Kept
    <2>5. Unambiguous(pdf) <=>
             /\ Unambiguous(d)
             /\ Refs(FormEntry(d)) = DOMAIN FormEntry(d)
             /\ \A entry \in FieldEntries(d) : Refs(entry) = {}
      BY <2>4, PlacesAre
    <2>6. Linked(pdf) /\ \A id \in Numbers(src) \ Touched(src) : ReaderSees(pdf, id) = ReaderSees(src, id)
      BY <2>2 DEF Follows
    <2>7. /\ FieldsOf(pdf) = FieldsOf(d) \cup FieldsSince(pdf, k)
          /\ AnnotsOf(pdf) = AnnotsOf(d) \cup (IF SamePlace(src) THEN FieldsSince(pdf, k) ELSE {})
      BY <2>1, <2>3 DEF Kept
    <2>8. TitlesTell(d, pdf, k) /\ \A i \in k..Len(pdf) : pdf[i].xref = Last(src).xref
      BY <1>1, <1>2, <1>5, <1>7, <1>9 DEF Writes
    <2> QED
      BY <2>5, <2>6, <2>7, <2>8
  <1>10. ASSUME Linked(src), ReadAlike(src)
         PROVE  /\ FieldsOf(pdf) = FieldsOf(src) \cup FieldsSince(pdf, k)
                /\ AnnotsOf(pdf) = AnnotsOf(src) \cup FieldsSince(pdf, k)
                /\ Unambiguous(pdf) <=>
                      /\ Unambiguous(src)
                      /\ Refs(FormEntry(src)) = DOMAIN FormEntry(src)
                      /\ \A entry \in FieldEntries(src) : Refs(entry) = {}
                /\ TitlesTell(src, pdf, k)
    <2>1. /\ FieldsOf(d) = FieldsOf(src) /\ AnnotsOf(d) = AnnotsOf(src) /\ SamePlace(src)
          /\ Unambiguous(d) <=> Unambiguous(src)
          /\ Plain(d) <=> Plain(src)
          /\ Titles(d) = Titles(src)
          /\ \A id \in FieldsOf(src) : ReaderSees(d, id) = ReaderSees(src, id)
      BY <1>7, <1>10, ReadAlikeIs
    <2>2. Unambiguous(pdf) <=>
             /\ Unambiguous(src)
             /\ Refs(FormEntry(src)) = DOMAIN FormEntry(src)
             /\ \A entry \in FieldEntries(src) : Refs(entry) = {}
      <3>1. Unambiguous(pdf) <=> Unambiguous(d) /\ Plain(d)
        BY <1>9, <1>10, PlacesAre
      <3>2. Unambiguous(pdf) <=> Unambiguous(src) /\ Plain(src)
        BY <2>1, <3>1
      <3> QED
        BY <3>2, PlacesAre
    <2>3. TitlesTell(src, pdf, k)
      BY <1>9, <1>10, <2>1 DEF TitlesTell
    <2> QED
      BY <1>9, <1>10, <2>1, <2>2, <2>3
  <1>11. Own(pdf, k) = {i \in Slots(r.pdf) : i >= k}
    BY <1>1 DEF Own
  <1> QED
    BY <1>1, <1>6, <1>9, <1>10, <1>11 DEF KeepsDocument, TitlesTell

LEMMA OneLonger ==
    ASSUME NEW a \in Nat, NEW b \in Nat
    PROVE  \A i \in (a + 1)..(b + 1) : (i \in (a + 1)..b /\ i \in 1..b) \/ i = b + 1
  OBVIOUS

\* One signature revision since src, and none with a slot behind it.
OneSeal(src, e, f, for) ==
    /\ Document(src) /\ Document(e) /\ Len(src) < Len(e) /\ \A i \in 1..Len(src) : e[i] = src[i]
    /\ for \in {"seal", "archive"} /\ e[Len(src) + 1].slot.for = for
    /\ \A i \in (Len(src) + 2)..Len(e) : e[i].slot.for = "none"
    /\ \A i \in (Len(src) + 1)..Len(e) : e[i].xref = Last(src).xref
    /\ Kept(src, AsTaken(src), e, {f}) /\ ReaderSees(e, f).title = FieldTitle(for)

LEMMA SealIsOne ==
    ASSUME NEW src, WellFormed(src), Parses(src), Linked(src), NEW for \in {"seal", "archive"}, NEW n, NEW w,
           NEW rev, rev = Holding(SignatureRevision(src, FieldTitle(for), for, n), w), NEW e, e = Append(src, rev)
    PROVE  OneSeal(src, e, MaxId(src) + 2, for)
  <1>1. PICK f : f = MaxId(src) + 2
    OBVIOUS
  <1>2. Signed(src, rev, f, FieldTitle(for)) /\ rev.slot.for = for /\ rev.xref = Last(src).xref
    BY <1>1, HeldIsSigned
  <1>3. Kept(src, AsTaken(src), e, {f}) /\ ReaderSees(e, f).title = FieldTitle(for)
    <2>1. PICK d : d = AsTaken(src)
      OBVIOUS
    <2>2. PICK t : t = FieldTitle(for)
      OBVIOUS
    <2>3. Signed(src, rev, f, t)
      BY <1>2, <2>2
    <2>4. Kept(src, d, e, {f}) /\ ReaderSees(e, f).title = t
      <3>1. Shown(src, rev, d, e)
        BY <2>1, <2>3, SignedReads
      <3>2. Follows(src, e, {f})
        BY <2>3, <3>1, SignedFollows
      <3> QED
        BY <2>3, <3>1, <3>2, SealKept
    <2> QED
      BY <2>1, <2>2, <2>4
  <1>4. Document(src) /\ HasSlot(rev) /\ Len(src) \in Nat
    BY <1>2, DocumentBasics DEF Signed, WellFormed
  <1>5. Document(e) /\ Len(e) = Len(src) + 1 /\ e[Len(src) + 1] = rev /\ \A i \in 1..Len(src) : e[i] = src[i]
    BY <1>4, OneMore
  <1>6. \A i \in (Len(src) + 1)..Len(e) : i = Len(src) + 1
    BY <1>4, <1>5
  <1>7. (Len(src) + 2)..Len(e) = {}
    BY <1>4, <1>5
  <1>8. Len(src) < Len(e)
    BY <1>4, <1>5
  <1> QED
    BY <1>1, <1>2, <1>3, <1>4, <1>5, <1>6, <1>7, <1>8 DEF OneSeal

LEMMA DssIsOne ==
    ASSUME NEW src, NEW e, NEW f, NEW for, OneSeal(src, e, f, for), NEW op, NEW g, g = append_dss(e, op)
    PROVE  OneSeal(src, g, f, for)
  <1>1. /\ Document(src) /\ Document(e) /\ Len(src) < Len(e) /\ \A i \in 1..Len(src) : e[i] = src[i]
        /\ for \in {"seal", "archive"} /\ e[Len(src) + 1].slot.for = for
        /\ \A i \in (Len(src) + 2)..Len(e) : e[i].slot.for = "none"
        /\ \A i \in (Len(src) + 1)..Len(e) : e[i].xref = Last(src).xref
        /\ Kept(src, AsTaken(src), e, {f}) /\ ReaderSees(e, f).title = FieldTitle(for)
    BY DEF OneSeal
  <1>2. WellFormed(e) /\ Parses(e)
    BY <1>1 DEF Kept, Follows
  <1>3. PICK rev : g = Append(e, rev) /\ ListsMaterial(e, rev, op)
    BY <1>2, DssRevisionIs DEF Parses
  <1>4. HasSlot(rev) /\ rev.slot.for = "none" /\ rev.xref = Last(e).xref
    BY <1>3 DEF ListsMaterial, NoSlot
  <1>5. PICK d : d = AsTaken(src)
    OBVIOUS
  <1>6. Kept(src, d, e, {f})
    BY <1>1, <1>5
  <1>7. Kept(src, d, g, {f}) /\ SameFields(e, g)
    BY <1>3, <1>6, DssKeeps
  <1>8. ReaderSees(g, f).title = FieldTitle(for)
    <2>1. f \in FieldsOf(e)
      BY <1>6 DEF Kept
    <2> QED
      BY <1>1, <1>7, <2>1 DEF SameFields
  <1>9. Len(src) \in Nat /\ Len(e) \in Nat /\ Len(src) >= 1 /\ Last(e) = e[Len(e)]
    BY <1>1, DocumentBasics
  <1>10. Document(g) /\ Len(g) = Len(e) + 1 /\ g[Len(e) + 1] = rev /\ \A i \in 1..Len(e) : g[i] = e[i]
    BY <1>1, <1>3, <1>4, OneMore
  <1>11. Len(src) < Len(g) /\ Len(src) + 1 \in 1..Len(e) /\ Len(e) \in (Len(src) + 1)..Len(e)
    BY <1>1, <1>9, <1>10
  <1>12. \A i \in 1..Len(src) : i \in 1..Len(e)
    BY <1>1, <1>9
  <1>13. \A i \in (Len(src) + 1)..Len(g) : (i \in (Len(src) + 1)..Len(e) /\ i \in 1..Len(e)) \/ i = Len(e) + 1
    BY <1>9, <1>10, OneLonger
  <1>14. \A i \in (Len(src) + 2)..Len(g) : (i \in (Len(src) + 2)..Len(e) /\ i \in 1..Len(e)) \/ i = Len(e) + 1
    <2>1. Len(src) + 1 \in Nat /\ Len(src) + 1 + 1 = Len(src) + 2
      BY <1>9
    <2>2. PICK n : n = Len(src) + 1
      OBVIOUS
    <2>3. \A i \in (n + 1)..Len(g) : (i \in (n + 1)..Len(e) /\ i \in 1..Len(e)) \/ i = Len(e) + 1
      BY <1>9, <1>10, <2>1, <2>2, OneLonger
    <2> QED
      BY <2>1, <2>2, <2>3
  <1>15. rev.xref = Last(src).xref
    BY <1>1, <1>4, <1>9, <1>11
  <1>16. \A i \in (Len(src) + 1)..Len(g) : g[i].xref = Last(src).xref
    BY <1>1, <1>10, <1>13, <1>15
  <1>17. \A i \in (Len(src) + 2)..Len(g) : g[i].slot.for = "none"
    BY <1>1, <1>4, <1>10, <1>14
  <1>18. g[Len(src) + 1].slot.for = for /\ \A i \in 1..Len(src) : g[i] = src[i]
    BY <1>1, <1>10, <1>11, <1>12
  <1> QED
    BY <1>1, <1>5, <1>7, <1>8, <1>10, <1>11, <1>16, <1>17, <1>18 DEF OneSeal

LEMMA OneSealWrites ==
    ASSUME NEW src, NEW e, NEW f, NEW for, OneSeal(src, e, f, for)
    PROVE  Writes(src, e)
  <1>1. /\ Document(src) /\ Document(e) /\ Len(src) < Len(e) /\ \A i \in 1..Len(src) : e[i] = src[i]
        /\ for \in {"seal", "archive"} /\ e[Len(src) + 1].slot.for = for
        /\ \A i \in (Len(src) + 2)..Len(e) : e[i].slot.for = "none"
        /\ \A i \in (Len(src) + 1)..Len(e) : e[i].xref = Last(src).xref
        /\ Kept(src, AsTaken(src), e, {f}) /\ ReaderSees(e, f).title = FieldTitle(for)
    BY DEF OneSeal
  <1>2. PICK k : k = Len(src) + 1
    OBVIOUS
  <1>3. PICK d : d = AsTaken(src)
    OBVIOUS
  <1>4. Own(e, k) = {k}
    <2>1. Len(src) \in Nat /\ Len(e) \in Nat /\ DOMAIN e = 1..Len(e)
      BY <1>1, DocumentBasics
    <2>2. k \in DOMAIN e /\ k >= k /\ \A i \in DOMAIN e : i >= k => i = k \/ i \in (Len(src) + 2)..Len(e)
      BY <1>1, <1>2, <2>1
    <2>3. e[k].slot.for # "none"
      BY <1>1, <1>2
    <2>4. \A i : i \in Own(e, k) <=> i = k
      BY <1>1, <2>2, <2>3 DEF Own, Slots
    <2> QED
      BY <2>4
  <1>5. IsInjective(Titles(e)) <=>
           /\ IsInjective(Titles(d))
           /\ \A id \in FieldsOf(d) : ReaderSees(d, id).title # FieldTitle(for)
    <2>1. PICK t : t = FieldTitle(for)
      OBVIOUS
    <2>2. OneFieldMore(d, e, f, t)
      BY <1>1, <1>3, <2>1 DEF Kept, OneFieldMore
    <2> QED
      BY <2>1, <2>2, OneTitleMore
  <1>6. TitlesTell(d, e, k)
    <2>1. \A i, j \in Own(e, k) : e[i].slot.for = e[j].slot.for => i = j
      BY <1>4
    <2>2. (\A i \in Own(e, k) : \A id \in FieldsOf(d) : ReaderSees(d, id).title # FieldTitle(e[i].slot.for))
            <=> \A id \in FieldsOf(d) : ReaderSees(d, id).title # FieldTitle(for)
      BY <1>1, <1>2, <1>4
    <2> QED
      BY <1>5, <2>1, <2>2 DEF TitlesTell
  <1> QED
    BY <1>1, <1>2, <1>3, <1>6 DEF Writes

LEMMA StampWrites ==
    ASSUME NEW src, NEW e, NEW f, NEW for, OneSeal(src, e, f, for), NEW n, NEW w,
           NEW rev, rev = Holding(SignatureRevision(e, FieldTitle("archive"), "archive", n), w),
           NEW g, g = Append(e, rev)
    PROVE  Writes(src, g)
  <1>1. /\ Document(src) /\ Document(e) /\ Len(src) < Len(e) /\ \A i \in 1..Len(src) : e[i] = src[i]
        /\ for \in {"seal", "archive"} /\ e[Len(src) + 1].slot.for = for
        /\ \A i \in (Len(src) + 2)..Len(e) : e[i].slot.for = "none"
        /\ \A i \in (Len(src) + 1)..Len(e) : e[i].xref = Last(src).xref
        /\ Kept(src, AsTaken(src), e, {f}) /\ ReaderSees(e, f).title = FieldTitle(for)
    BY DEF OneSeal
  <1>2. WellFormed(e) /\ Parses(e) /\ Linked(e)
    BY <1>1 DEF Kept, Follows
  <1>3. PICK h : h = MaxId(e) + 2
    OBVIOUS
  <1>4. PICK last : last = FieldTitle("archive")
    OBVIOUS
  <1>5. Signed(e, rev, h, last) /\ rev.slot.for = "archive" /\ rev.xref = Last(e).xref
    <2>1. /\ Signed(e, rev, MaxId(e) + 2, FieldTitle("archive"))
          /\ rev.slot.for = "archive" /\ rev.xref = Last(e).xref
      BY <1>2, HeldIsSigned
    <2> QED
      BY <1>3, <1>4, <2>1
  <1>6. PICK d : d = AsTaken(src)
    OBVIOUS
  <1>7. Kept(src, d, e, {f})
    BY <1>1, <1>6
  <1>8. Kept(src, d, g, {f} \cup {h}) /\ OneFieldMore(e, g, h, last)
    BY <1>5, <1>7, StampKept
  <1>9. HasSlot(rev)
    BY <1>5 DEF Signed
  <1>10. Document(g) /\ Len(g) = Len(e) + 1 /\ g[Len(e) + 1] = rev /\ \A i \in 1..Len(e) : g[i] = e[i]
    BY <1>1, <1>9, OneMore
  <1>11. Len(src) \in Nat /\ Len(e) \in Nat /\ Last(e) = e[Len(e)] /\ DOMAIN g = 1..Len(g)
    BY <1>1, <1>10, DocumentBasics
  <1>12. PICK k : k = Len(src) + 1
    OBVIOUS
  <1>13. PICK m : m = Len(e) + 1
    OBVIOUS
  <1>14. /\ Len(src) < Len(g) /\ k \in 1..Len(e) /\ Len(e) \in k..Len(e) /\ k \in Nat /\ m \in Nat /\ k < m /\ k # m
         /\ k \in DOMAIN g /\ m \in DOMAIN g
         /\ \A i \in 1..Len(src) : i \in 1..Len(e)
         /\ \A i \in k..Len(g) : (i \in k..Len(e) /\ i \in 1..Len(e)) \/ i = m
         /\ \A i \in DOMAIN g : i >= k => i = k \/ i = m \/ (i \in (Len(src) + 2)..Len(e) /\ i \in 1..Len(e))
         /\ k >= k /\ m >= k
    BY <1>1, <1>10, <1>11, <1>12, <1>13
  <1>15. g[m] = rev /\ g[m].slot.for = "archive" /\ g[k].slot.for = for /\ g[k] = e[k]
    BY <1>1, <1>5, <1>10, <1>12, <1>13, <1>14
  <1>16. Own(g, k) = {k, m}
    <2>1. \A i : i \in Own(g, k) <=> i = k \/ i = m
      BY <1>1, <1>10, <1>14, <1>15 DEF Own, Slots
    <2> QED
      BY <2>1
  <1>17. \A i \in k..Len(g) : g[i].xref = Last(src).xref
    <2>1. rev.xref = Last(src).xref
      BY <1>1, <1>5, <1>11, <1>12, <1>14
    <2> QED
      BY <1>1, <1>10, <1>12, <1>14, <1>15, <2>1
  <1>18. PICK first : first = FieldTitle(for) /\ OneFieldMore(d, e, f, first)
    BY <1>1, <1>7 DEF Kept, OneFieldMore
  <1>19. IsInjective(Titles(e)) <=>
            IsInjective(Titles(d)) /\ \A id \in FieldsOf(d) : ReaderSees(d, id).title # first
    BY <1>18, OneTitleMore
  <1>20. IsInjective(Titles(g)) <=>
            IsInjective(Titles(e)) /\ \A id \in FieldsOf(e) : ReaderSees(e, id).title # last
    BY <1>8, OneTitleMore
  <1>21. (\A id \in FieldsOf(e) : ReaderSees(e, id).title # last) <=>
            /\ \A id \in FieldsOf(d) : ReaderSees(d, id).title # last
            /\ first # last
    BY <1>18 DEF OneFieldMore
  <1>22. first = last <=> for = "archive"
    BY <1>1, <1>4, <1>18 DEF FieldTitle
  <1>23. TitlesTell(d, g, k)
    <2>1. (\A i, j \in Own(g, k) : g[i].slot.for = g[j].slot.for => i = j) <=> for # "archive"
      BY <1>14, <1>15, <1>16
    <2>2. (\A i \in Own(g, k) : \A id \in FieldsOf(d) : ReaderSees(d, id).title # FieldTitle(g[i].slot.for)) <=>
             /\ \A id \in FieldsOf(d) : ReaderSees(d, id).title # first
             /\ \A id \in FieldsOf(d) : ReaderSees(d, id).title # last
      BY <1>4, <1>15, <1>16, <1>18
    <2> QED
      BY <1>19, <1>20, <1>21, <1>22, <2>1, <2>2 DEF TitlesTell
  <1>24. \A i \in 1..Len(src) : g[i] = src[i]
    BY <1>1, <1>10, <1>14
  <1> QED
    BY <1>6, <1>8, <1>10, <1>12, <1>14, <1>17, <1>23, <1>24 DEF Writes

-----------------------------------------------------------------------------
(* Where a checkpoint comes from, and what results are made of.              *)

PreparedFrom(src, f, w) ==
    \E n : \E for \in {"seal", "archive"} :
        f = Append(src, Holding(SignatureRevision(src, FieldTitle(for), for, n), w))

Written(f)  == \E src, w : WellFormed(src) /\ Parses(src) /\ PreparedFrom(src, f, w)
Original(f) == \E s \in Sources : Recoverable(s) /\ ByteRanges(f, Len(f)) = ByteRanges(s, Len(s))
Known(f)    == Document(f) /\ Unsigned(f) /\ (Written(f) \/ Original(f))

\* The signed file e, and a file that goes on from it without another CMS of the operation.
GoesOn(e, pdf, op) ==
    /\ Document(pdf) /\ Len(e) <= Len(pdf) /\ \A i \in 1..Len(e) : pdf[i] = e[i]
    /\ \A i \in (Len(e) + 1)..Len(pdf) : pdf[i].slot.for = "none" \/ pdf[i].slot.holds # Cms(op)

LEMMA SealAtEnd ==
    ASSUME NEW r, NEW e, Document(e), Unsigned(e), e[Len(e)].slot.holds = Cms(r.op), GoesOn(e, r.pdf, r.op)
    PROVE  SealAt(r) = Len(e)
  <1> DEFINE doc == r.pdf
             k == Len(e)
             T == {i \in Slots(doc) : doc[i].slot.holds = Cms(r.op)}
  <1>1. Len(doc) \in Nat /\ DOMAIN doc = 1..Len(doc) /\ k \in Nat /\ k >= 1 /\ k <= Len(doc)
    BY DocumentBasics DEF GoesOn
  <1>2. k \in T
    <2>1. k \in 1..k /\ k \in DOMAIN doc
      BY <1>1
    <2>2. doc[k] = e[k]
      BY <2>1 DEF GoesOn
    <2> QED
      BY <2>1, <2>2 DEF Slots, Unsigned
  <1>3. ASSUME NEW i \in T
        PROVE  i <= k
    <2>1. i \in DOMAIN doc /\ doc[i].slot.for # "none" /\ doc[i].slot.holds = Cms(r.op)
      BY DEF Slots
    <2>2. i \notin (k + 1)..Len(doc)
      BY <2>1 DEF GoesOn
    <2> QED
      BY <1>1, <2>1, <2>2
  <1>4. T \in SUBSET Nat
    BY <1>1 DEF Slots
  <1> HIDE DEF T
  <1>5. Max(T) \in T /\ \A i \in T : i <= Max(T)
    BY <1>1, <1>2, <1>3, <1>4, MaxIs
  <1>6. Max(T) = k
    <2>1. Max(T) \in Nat /\ Max(T) <= k /\ k <= Max(T)
      BY <1>2, <1>3, <1>4, <1>5
    <2> QED
      BY <1>1, <2>1
  <1> QED
    BY <1>6 DEF SealAt, T

\* The three shapes of a result: sealed, with a DSS, and with a DSS and an archival timestamp.
Sealing(f, op)    == embed(f, Cms(op))
LongTerm(f, op)   == append_dss(embed(f, Cms(op)), op)
Archived(f, op, n) == embed(prepare_doc_timestamp(append_dss(embed(f, Cms(op)), op)), Token(n))

LEMMA ShapesGoOn ==
    ASSUME NEW f, Document(f), NEW op, NEW n
    PROVE  /\ GoesOn(Sealing(f, op), Sealing(f, op), op)
           /\ GoesOn(Sealing(f, op), LongTerm(f, op), op)
           /\ GoesOn(Sealing(f, op), Archived(f, op, n), op)
  <1>1. PICK e : e = Sealing(f, op)
    OBVIOUS
  <1>2. Document(e)
    BY <1>1, EmbedIs DEF Sealing
  <1>3. Len(e) \in Nat /\ (Len(e) + 1)..Len(e) = {}
    BY <1>2, DocumentBasics
  <1>4. GoesOn(e, e, op)
    BY <1>2, <1>3 DEF GoesOn
  <1>5. PICK more : more = append_dss(e, op)
    OBVIOUS
  <1>6. PICK rev : more = Append(e, rev) /\ HasSlot(rev) /\ rev.slot.for = "none"
    <2>1. \E rev : append_dss(e, op) = Append(e, rev) /\ HasSlot(rev) /\ rev.slot = NoSlot
      BY RevisionsHaveSlots
    <2> QED
      BY <1>5, <2>1 DEF NoSlot
  <1>7. Document(more) /\ Len(more) = Len(e) + 1 /\ more[Len(e) + 1] = rev /\ \A i \in 1..Len(e) : more[i] = e[i]
    BY <1>2, <1>6, OneMore
  <1>8. GoesOn(e, more, op)
    <2>1. Len(e) <= Len(more) /\ \A i \in (Len(e) + 1)..Len(more) : i = Len(e) + 1
      BY <1>3, <1>7
    <2> QED
      BY <1>6, <1>7, <2>1 DEF GoesOn
  <1>9. PICK ts : ts = prepare_doc_timestamp(more)
    OBVIOUS
  <1>10. Document(ts) /\ Len(ts) = Len(more) + 1 /\ \A i \in 1..Len(more) : ts[i] = more[i]
    BY <1>7, <1>9, TimestampIs
  <1>11. PICK done : done = embed(ts, Token(n))
    OBVIOUS
  <1>12. /\ Document(done) /\ Len(done) = Len(ts) /\ \A i \in 1..(Len(ts) - 1) : done[i] = ts[i]
         /\ done[Len(ts)] = Holding(ts[Len(ts)], Token(n))
    BY <1>10, <1>11, EmbedIs
  <1>13. done[Len(ts)].slot.holds # Cms(op)
    <2>1. Len(ts) \in 1..Len(ts) /\ HasSlot(ts[Len(ts)])
      BY <1>3, <1>7, <1>10, DocumentBasics
    <2>2. PICK rev3 : rev3 = ts[Len(ts)]
      OBVIOUS
    <2>3. Holding(rev3, Token(n)).slot.holds = Token(n)
      BY <2>1, <2>2, HoldingIs
    <2>4. done[Len(ts)].slot.holds = Token(n)
      BY <1>12, <2>2, <2>3
    <2> QED
      BY <2>4 DEF Token, Cms
  <1>14. GoesOn(e, done, op)
    <2>1. PICK m : m = Len(e)
      OBVIOUS
    <2>2. Len(done) = m + 2 /\ Len(ts) = m + 2 /\ Len(ts) - 1 = m + 1 /\ m \in Nat /\ Len(more) = m + 1
      BY <1>3, <1>7, <1>10, <1>12, <2>1
    <2>3. \A i \in 1..(m + 1) : done[i] = more[i]
      BY <1>10, <1>12, <2>2
    <2>4. \A i \in (m + 1)..(m + 2) : i = m + 1 \/ i = m + 2
      BY <2>2
    <2>5. m + 1 \in 1..(m + 1) /\ m <= m + 2 /\ \A i \in 1..m : i \in 1..(m + 1)
      BY <2>2
    <2>6. done[m + 1].slot.for = "none"
      BY <1>6, <1>7, <2>1, <2>3, <2>5
    <2>7. \A i \in 1..m : done[i] = e[i]
      BY <1>7, <2>1, <2>3, <2>5
    <2> QED
      BY <1>12, <1>13, <2>1, <2>2, <2>4, <2>5, <2>6, <2>7 DEF GoesOn
  <1> QED
    BY <1>1, <1>4, <1>5, <1>8, <1>9, <1>11, <1>14 DEF Sealing, LongTerm, Archived

LEMMA ShapesWrite ==
    ASSUME NEW src, WellFormed(src), Parses(src), Linked(src), NEW f, NEW w, PreparedFrom(src, f, w), NEW op, NEW n
    PROVE  /\ Writes(src, Sealing(f, op)) /\ Writes(src, LongTerm(f, op))
           /\ Writes(src, Archived(f, op, n))
  <1>1. Document(src)
    BY DEF WellFormed
  <1>2. PICK at0, for : /\ for \in {"seal", "archive"}
                         /\ f = Append(src, Holding(SignatureRevision(src, FieldTitle(for), for, at0), w))
    BY DEF PreparedFrom
  <1>3. PICK base : base = SignatureRevision(src, FieldTitle(for), for, at0)
    OBVIOUS
  <1>4. HasSlot(base)
    BY <1>2, <1>3, RevisionsHaveSlots
  <1>5. PICK rev : rev = Holding(base, Cms(op))
    OBVIOUS
  <1>6. Sealing(f, op) = Append(src, rev)
    <2>1. HasSlot(Holding(base, w)) /\ Holding(Holding(base, w), Cms(op)) = Holding(base, Cms(op))
      BY <1>4, HoldingIs
    <2>2. embed(Append(src, Holding(base, w)), Cms(op)) = Append(src, Holding(Holding(base, w), Cms(op)))
      BY <1>1, <2>1, EmbedAppended
    <2> QED
      BY <1>2, <1>3, <1>5, <2>1, <2>2 DEF Sealing
  <1>7. PICK e : e = Append(src, rev)
    OBVIOUS
  <1>8. PICK v : v = MaxId(src) + 2
    OBVIOUS
  <1>9. OneSeal(src, e, v, for)
    BY <1>2, <1>3, <1>5, <1>7, <1>8, SealIsOne
  <1>10. PICK g : g = append_dss(e, op)
    OBVIOUS
  <1>11. OneSeal(src, g, v, for)
    BY <1>9, <1>10, DssIsOne
  <1>12. Writes(src, e) /\ Writes(src, g)
    BY <1>9, <1>11, OneSealWrites
  <1>13. Document(g)
    BY <1>11 DEF OneSeal
  <1>14. PICK third : third = SignatureRevision(g, FieldTitle("archive"), "archive", 0)
    OBVIOUS
  <1>15. HasSlot(third)
    BY <1>14, RevisionsHaveSlots
  <1>16. PICK held : held = Holding(third, Token(n))
    OBVIOUS
  <1>17. embed(prepare_doc_timestamp(g), Token(n)) = Append(g, held)
    BY <1>13, <1>14, <1>15, <1>16, EmbedAppended DEF prepare_doc_timestamp
  <1>18. PICK h : h = Append(g, held)
    OBVIOUS
  <1>19. Writes(src, h)
    BY <1>11, <1>14, <1>16, <1>18, StampWrites
  <1>20. Sealing(f, op) = e /\ LongTerm(f, op) = g /\ Archived(f, op, n) = h
    BY <1>6, <1>7, <1>10, <1>17, <1>18 DEF Sealing, LongTerm, Archived
  <1> QED
    BY <1>12, <1>19, <1>20

LEMMA ResultKeeps ==
    ASSUME NEW f, Known(f), NEW r, NEW n,
           r.pdf = Sealing(f, r.op) \/ r.pdf = LongTerm(f, r.op) \/ r.pdf = Archived(f, r.op, n)
    PROVE  KeepsDocument(r)
  <1>1. PICK op : op = r.op
    OBVIOUS
  <1>2. PICK e : e = Sealing(f, op)
    OBVIOUS
  <1>3. Document(f) /\ Unsigned(f)
    BY DEF Known
  <1>4. PICK m : m = Len(f)
    OBVIOUS
  <1>5. m \in Nat /\ m >= 1 /\ m \in 1..m /\ HasSlot(f[m])
    BY <1>3, <1>4, DocumentBasics
  <1>6. /\ Document(e) /\ Len(e) = m /\ \A i \in 1..(m - 1) : e[i] = f[i]
        /\ e[m] = Holding(f[m], Cms(op))
    BY <1>2, <1>3, <1>4, EmbedIs DEF Sealing
  <1>7. /\ e[m].slot.for = f[m].slot.for /\ e[m].slot.holds = Cms(op)
        /\ Holding(e[m], Empty) = Holding(f[m], Empty)
    BY <1>5, <1>6, HoldingIs
  <1>8. Unsigned(e)
    BY <1>3, <1>4, <1>6, <1>7 DEF Unsigned
  <1>9. GoesOn(e, r.pdf, op)
    <2>1. GoesOn(Sealing(f, op), Sealing(f, op), op) /\ GoesOn(Sealing(f, op), LongTerm(f, op), op)
          /\ GoesOn(Sealing(f, op), Archived(f, op, n), op)
      BY <1>3, ShapesGoOn
    <2> QED
      BY <1>1, <1>2, <2>1
  <1>10. SealAt(r) = m
    BY <1>1, <1>6, <1>7, <1>8, <1>9, SealAtEnd
  <1>11. Document(r.pdf) /\ m <= Len(r.pdf) /\ Len(r.pdf) \in Nat /\ \A i \in 1..m : r.pdf[i] = e[i]
    BY <1>6, <1>9, DocumentBasics DEF GoesOn
  <1>12. CASE Original(f)
    <2>1. PICK s \in Sources : Recoverable(s) /\ ByteRanges(f, m) = ByteRanges(s, Len(s))
      BY <1>4, <1>12 DEF Original
    <2>2. PICK pdf : pdf = r.pdf
      OBVIOUS
    <2>3. ByteRanges(pdf, m) = ByteRanges(f, m)
      <3>1. m \in 1..Len(pdf) /\ m \in 1..Len(f) /\ \A i \in 1..(m - 1) : i \in 1..m
        BY <1>4, <1>5, <1>11, <2>2
      <3>2. \A i \in 1..(m - 1) : pdf[i] = f[i]
        BY <1>6, <1>11, <2>2, <3>1
      <3>3. pdf[m] = e[m]
        BY <1>5, <1>11, <2>2
      <3>4. Document(pdf) /\ Holding(pdf[m], Empty) = Holding(f[m], Empty)
        BY <1>7, <1>11, <2>2, <3>3
      <3> QED
        BY <1>3, <3>1, <3>2, <3>4, SameBytes
    <2>4. ~Checkpoint(r)
      BY <1>10, <2>1, <2>2, <2>3 DEF Checkpoint
    <2> QED
      BY <2>4 DEF KeepsDocument
  <1>13. CASE Written(f)
    <2>1. PICK src, w : WellFormed(src) /\ Parses(src) /\ PreparedFrom(src, f, w)
      BY <1>13 DEF Written
    <2>2. Document(src)
      BY <2>1 DEF WellFormed
    <2>3. PICK rev : f = Append(src, rev)
      BY <2>1 DEF PreparedFrom
    <2>4. IsSequence(src) /\ Len(src) \in Nat
      BY <2>2, DocumentBasics
    <2>5. Len(f) = Len(src) + 1 /\ \A i \in 1..Len(src) : f[i] = src[i]
      BY <2>3, <2>4, AppendIs
    <2>6. Linked(src) => Writes(src, r.pdf)
      <3>1. ASSUME Linked(src)
            PROVE  Writes(src, Sealing(f, op)) /\ Writes(src, LongTerm(f, op)) /\ Writes(src, Archived(f, op, n))
        BY <2>1, <3>1, ShapesWrite
      <3> QED
        BY <1>1, <3>1
    <2>7. m = Len(src) + 1 /\ Len(src) < Len(r.pdf) /\ m - 1 = Len(src) /\ \A i \in 1..Len(src) : i \in 1..m
      BY <1>4, <1>11, <2>4, <2>5
    <2>8. \A i \in 1..Len(src) : r.pdf[i] = src[i]
      BY <1>6, <1>11, <2>5, <2>7
    <2>9. SealAt(r) = Len(src) + 1
      BY <1>10, <2>7
    <2> QED
      BY <1>11, <2>1, <2>6, <2>7, <2>8, <2>9, WrittenKeeps
  <1> QED
    BY <1>12, <1>13 DEF Known

-----------------------------------------------------------------------------
(* What recover takes, and the file of a call, come from prepare or are the  *)
(* program's own.                                                            *)

CallKnown ==
    /\ call.step \in {"sign", "signed"} => Known(call.pdf)
    /\ call.step \in {"stamp", "stamped"} => \E f : Known(f) /\ call.pdf = LongTerm(f, call.op)

\* What SealKeepsDocument says of every new result, of all results so far.
ResultsKeepDocument == \A r \in sealed : KeepsDocument(r)

KeepInv ==
    /\ ContentsInv
    /\ \A f \in files : Recoverable(f) => Known(f)
    /\ CallKnown
    /\ ResultsKeepDocument

LEMMA KnownEmbedded ==
    ASSUME NEW f, Known(f), NEW w
    PROVE  Known(embed(f, w))
  <1>1. Document(f) /\ Unsigned(f)
    BY DEF Known
  <1>2. PICK m : m = Len(f)
    OBVIOUS
  <1>3. PICK e : e = embed(f, w)
    OBVIOUS
  <1>4. m \in Nat /\ m >= 1 /\ m \in 1..m /\ HasSlot(f[m])
    BY <1>1, <1>2, DocumentBasics
  <1>5. /\ Document(e) /\ Len(e) = m /\ \A i \in 1..(m - 1) : e[i] = f[i]
        /\ e[m] = Holding(f[m], w)
    BY <1>1, <1>2, <1>3, EmbedIs
  <1>6. e[m].slot.for = f[m].slot.for /\ Holding(e[m], Empty) = Holding(f[m], Empty)
    BY <1>4, <1>5, HoldingIs
  <1>7. Unsigned(e)
    BY <1>1, <1>2, <1>5, <1>6 DEF Unsigned
  <1>8. CASE Original(f)
    <2>1. ByteRanges(e, m) = ByteRanges(f, m)
      BY <1>1, <1>2, <1>4, <1>5, <1>6, SameBytes
    <2>2. Original(e)
      BY <1>2, <1>5, <1>8, <2>1 DEF Original
    <2> QED
      BY <1>3, <1>5, <1>7, <2>2 DEF Known
  <1>9. CASE Written(f)
    <2>1. PICK src, v : WellFormed(src) /\ Parses(src) /\ PreparedFrom(src, f, v)
      BY <1>9 DEF Written
    <2>2. Document(src)
      BY <2>1 DEF WellFormed
    <2>3. PICK n, for : /\ for \in {"seal", "archive"}
                        /\ f = Append(src, Holding(SignatureRevision(src, FieldTitle(for), for, n), v))
      BY <2>1 DEF PreparedFrom
    <2>4. PICK base : base = SignatureRevision(src, FieldTitle(for), for, n)
      OBVIOUS
    <2>5. HasSlot(base)
      BY <2>3, <2>4, RevisionsHaveSlots
    <2>6. HasSlot(Holding(base, v)) /\ Holding(Holding(base, v), w) = Holding(base, w)
      BY <2>5, HoldingIs
    <2>7. embed(Append(src, Holding(base, v)), w) = Append(src, Holding(Holding(base, v), w))
      BY <2>2, <2>6, EmbedAppended
    <2>8. e = Append(src, Holding(base, w))
      BY <1>3, <2>3, <2>4, <2>6, <2>7
    <2>9. PreparedFrom(src, e, w)
      BY <2>3, <2>4, <2>8 DEF PreparedFrom
    <2>10. Written(e)
      BY <2>1, <2>9 DEF Written
    <2> QED
      BY <1>3, <1>5, <1>7, <2>10 DEF Known
  <1> QED
    BY <1>8, <1>9 DEF Known

LEMMA KnownPrepared ==
    ASSUME NEW src, WellFormed(src), Parses(src), NEW for \in {"seal", "archive"}, NEW n
    PROVE  Known(Append(src, SignatureRevision(src, FieldTitle(for), for, n)))
  <1>1. PICK base : base = SignatureRevision(src, FieldTitle(for), for, n)
    OBVIOUS
  <1>2. HasSlot(base) /\ base.slot = Slot(for)
    BY <1>1, RevisionsHaveSlots
  <1>3. Holding(base, Empty) = base
    <2>1. \E top, next, slot : base = Revision(src, top, next, slot, n)
      BY <1>1, Zenon DEF SignatureRevision
    <2>2. base = [x \in DOMAIN base |-> base[x]]
      BY <2>1 DEF Revision
    <2>3. [base.slot EXCEPT !.holds = Empty] = base.slot
      BY <1>2 DEF Slot
    <2>4. Holding(base, Empty) = [base EXCEPT !.slot = [base.slot EXCEPT !.holds = Empty]]
      BY DEF Holding
    <2> QED
      BY <2>2, <2>3, <2>4
  <1>4. PICK f : f = Append(src, base)
    OBVIOUS
  <1>5. Document(src)
    BY DEF WellFormed
  <1>6. Document(f) /\ Len(f) = Len(src) + 1 /\ f[Len(src) + 1] = base
    BY <1>2, <1>4, <1>5, OneMore
  <1>7. Unsigned(f)
    BY <1>2, <1>6 DEF Unsigned, Slot
  <1>8. PreparedFrom(src, f, Empty)
    BY <1>1, <1>3, <1>4 DEF PreparedFrom
  <1>9. Written(f)
    BY <1>8 DEF Written
  <1> QED
    BY <1>1, <1>4, <1>6, <1>7, <1>9 DEF Known

LEMMA KeepStep ==
    ASSUME KeepInv, [Next]_vars,
           \A f \in files' : f \in files \/ (Recoverable(f) => Known(f)),
           CallKnown',
           \A r \in sealed' : r \in sealed \/ KeepsDocument(r)
    PROVE  KeepInv'
  <1>1. ContentsInv'
    BY ContentsNext DEF KeepInv
  <1>2. \A f \in files' : Recoverable(f) => Known(f)
    BY DEF KeepInv
  <1>3. \A r \in sealed' : KeepsDocument(r)
    BY DEF KeepInv, ResultsKeepDocument
  <1>4. ResultsKeepDocument'
    BY <1>3 DEF ResultsKeepDocument
  <1> QED
    BY <1>1, <1>2, <1>4 DEF KeepInv

LEMMA NoCallKnown ==
    ASSUME call' = NoCall
    PROVE  CallKnown'
  BY DEF NoCall, CallKnown

LEMMA SameCallKnown ==
    ASSUME CallKnown, UNCHANGED call
    PROVE  CallKnown'
  BY DEF CallKnown

LEMMA ReturnKeepsKnown ==
    ASSUME KeepInv, [Next]_vars, NEW pdf, NEW format, Returns(pdf, format), Recoverable(pdf) => Known(pdf),
           KeepsDocument(Result(pdf, call.op, format))
    PROVE  KeepInv'
  <1>1. PICK r : r = Result(pdf, call.op, format)
    OBVIOUS
  <1>2. sealed' = sealed \cup {r} /\ files' = files \cup {pdf} /\ call' = NoCall
    BY <1>1, Zenon DEF Returns
  <1>3. CallKnown'
    BY <1>2, NoCallKnown
  <1>4. \A f \in files' : f \in files \/ (Recoverable(f) => Known(f))
    BY <1>2
  <1>5. \A x \in sealed' : x \in sealed \/ KeepsDocument(x)
    BY <1>1, <1>2
  <1> QED
    BY <1>3, <1>4, <1>5, KeepStep

LEMMA PrepareKeepsKnown ==
    ASSUME KeepInv, NEW pdf \in files, Prepare(pdf)
    PROVE  KeepInv'
  <1>1. files' = files \cup {prepare(pdf, at + 1)} /\ Parses(pdf) /\ UNCHANGED <<call, sealed>>
    BY DEF Prepare
  <1>2. WellFormed(pdf)
    BY DEF KeepInv, ContentsInv, Holds
  <1>3. Known(prepare(pdf, at + 1))
    BY <1>1, <1>2, KnownPrepared DEF prepare
  <1>4. CallKnown'
    BY <1>1, SameCallKnown DEF KeepInv
  <1>5. [Next]_vars
    BY DEF Next
  <1>6. \A f \in files' : f \in files \/ (Recoverable(f) => Known(f))
    BY <1>1, <1>3
  <1> QED
    BY <1>1, <1>4, <1>5, <1>6, KeepStep

LEMMA SealKeepsKnown ==
    ASSUME KeepInv, NEW pdf \in files, NEW ltv \in BOOLEAN, Seal(pdf, ltv) \/ SealPrepared(pdf, ltv)
    PROVE  KeepInv'
  <1>1. WellFormed(pdf) /\ (Recoverable(pdf) => Known(pdf))
    BY DEF KeepInv, ContentsInv, Holds
  <1>2. PICK doc : call' = [NoCall EXCEPT !.step = "sign", !.pdf = doc, !.ltv = ltv] /\ Known(doc)
    <2>1. CASE Seal(pdf, ltv)
      <3>1. /\ call' = [NoCall EXCEPT !.step = "sign", !.pdf = prepare(pdf, at + 1), !.ltv = ltv]
            /\ Parses(pdf)
        BY <2>1 DEF Seal
      <3>2. Known(prepare(pdf, at + 1))
        BY <1>1, <3>1, KnownPrepared DEF prepare
      <3> QED
        BY <3>1, <3>2
    <2>2. CASE SealPrepared(pdf, ltv)
      BY <1>1, <2>2 DEF SealPrepared
    <2> QED
      BY <2>1, <2>2
  <1>3. UNCHANGED <<files, sealed>>
    BY DEF Seal, SealPrepared
  <1>4. call'.step = "sign" /\ call'.pdf = doc
    BY <1>2 DEF NoCall
  <1>5. CallKnown'
    BY <1>2, <1>4 DEF CallKnown
  <1>6. [Next]_vars
    BY DEF Next
  <1> QED
    BY <1>3, <1>5, <1>6, KeepStep

LEMMA ServiceKeepsKnown ==
    ASSUME KeepInv, (\E answer \in Answers : ServiceSigns(answer)) \/ ServiceStamps
    PROVE  KeepInv'
  <1>1. CallShape
    BY DEF KeepInv, ContentsInv, PadesInv, CallInv
  <1>2. UNCHANGED <<files, sealed>>
    BY DEF ServiceSigns, ServiceStamps
  <1>3. [Next]_vars
    BY DEF Next
  <1>4. CASE \E answer \in Answers : ServiceSigns(answer)
    <2>1. call.step = "sign" /\ call' = [call EXCEPT !.step = "signed", !.op = Len(ops')]
      BY <1>4 DEF ServiceSigns
    <2>2. call'.step = "signed" /\ call'.pdf = call.pdf
      BY <1>1, <2>1 DEF CallShape
    <2>3. CallKnown'
      BY <2>1, <2>2 DEF KeepInv, CallKnown
    <2> QED
      BY <1>2, <1>3, <2>3, KeepStep
  <1>5. CASE ServiceStamps
    <2>1. call.step = "stamp" /\ call' = [call EXCEPT !.step = "stamped", !.token = Len(tokens')]
      BY <1>5 DEF ServiceStamps
    <2>2. call'.step = "stamped" /\ call'.pdf = call.pdf /\ call'.op = call.op
      BY <1>1, <2>1 DEF CallShape
    <2>3. CallKnown'
      BY <2>1, <2>2 DEF KeepInv, CallKnown
    <2> QED
      BY <1>2, <1>3, <2>3, KeepStep
  <1> QED
    BY <1>4, <1>5

LEMMA EmbedCmsKeepsKnown ==
    ASSUME KeepInv, EmbedCms
    PROVE  KeepInv'
  <1>1. PICK f, op : f = call.pdf /\ op = call.op
    OBVIOUS
  <1>2. PICK signed, format : signed = embed(f, Cms(op)) /\ format = Format(ops[op], FALSE, FALSE)
    OBVIOUS
  <1>3. call.step = "signed" /\ CallShape
    BY DEF EmbedCms, KeepInv, ContentsInv, PadesInv, CallInv
  <1>4. Known(f)
    BY <1>1, <1>3 DEF KeepInv, CallKnown
  <1>5. [Next]_vars
    BY DEF Next
  <1>6. \/ Returns(signed, format)
        \/ /\ call' = [call EXCEPT !.step = "stamp", !.pdf = append_dss(signed, op)]
           /\ UNCHANGED <<files, sealed>>
    BY <1>1, <1>2, Zenon DEF EmbedCms
  <1>7. CASE Returns(signed, format)
    <2>1. Known(signed)
      BY <1>2, <1>4, KnownEmbedded
    <2>2. PICK r : r = Result(signed, op, format)
      OBVIOUS
    <2>3. r.pdf = Sealing(f, r.op)
      BY <1>2, <2>2 DEF Result, Sealing
    <2>4. PICK n : n = 0
      OBVIOUS
    <2>5. KeepsDocument(r)
      BY <1>4, <2>3, ResultKeeps
    <2> QED
      BY <1>1, <1>5, <1>7, <2>1, <2>2, <2>5, ReturnKeepsKnown
  <1>8. CASE /\ call' = [call EXCEPT !.step = "stamp", !.pdf = append_dss(signed, op)]
             /\ UNCHANGED <<files, sealed>>
    <2>1. call'.step = "stamp" /\ call'.pdf = append_dss(signed, op) /\ call'.op = op
      BY <1>1, <1>3, <1>8 DEF CallShape
    <2>2. call'.pdf = LongTerm(f, call'.op)
      BY <1>2, <2>1 DEF LongTerm
    <2>3. CallKnown'
      BY <1>4, <2>1, <2>2 DEF CallKnown
    <2> QED
      BY <1>5, <1>8, <2>3, KeepStep
  <1> QED
    BY <1>6, <1>7, <1>8

LEMMA StampArrivesKeepsKnown ==
    ASSUME KeepInv, NEW size \in 1..2, StampArrives(size)
    PROVE  KeepInv'
  <1>1. PICK doc, op, n : doc = call.pdf /\ op = call.op /\ n = call.token
    OBVIOUS
  <1>2. PICK ts : ts = prepare_doc_timestamp(doc)
    OBVIOUS
  <1>3. PICK done, format : done = embed(ts, Token(n)) /\ format = Format(ops[op], TRUE, TRUE)
    OBVIOUS
  <1>4. call.step = "stamped" /\ Returns(done, format)
    BY <1>1, <1>2, <1>3, Zenon DEF StampArrives
  <1>5. PICK f : Known(f) /\ doc = LongTerm(f, op)
    BY <1>1, <1>4 DEF KeepInv, CallKnown
  <1>6. WellFormed(doc) /\ Parses(doc)
    BY <1>1, <1>4 DEF KeepInv, ContentsInv, CallContents
  <1>7. Known(done)
    <2>1. Known(ts)
      BY <1>2, <1>6, KnownPrepared DEF prepare_doc_timestamp
    <2> QED
      BY <1>3, <2>1, KnownEmbedded
  <1>8. PICK r : r = Result(done, op, format)
    OBVIOUS
  <1>9. r.pdf = Archived(f, r.op, n)
    BY <1>2, <1>3, <1>5, <1>8 DEF Result, Archived, LongTerm
  <1>10. KeepsDocument(r)
    BY <1>5, <1>9, ResultKeeps
  <1>11. [Next]_vars
    BY DEF Next
  <1> QED
    BY <1>1, <1>4, <1>7, <1>8, <1>10, <1>11, ReturnKeepsKnown

LEMMA StampFailsKeepsKnown ==
    ASSUME KeepInv, StampFails
    PROVE  KeepInv'
  <1>1. PICK doc, op, format : doc = call.pdf /\ op = call.op /\ format = Format(ops[op], TRUE, FALSE)
    OBVIOUS
  <1>2. call.step \in {"stamp", "stamped"} /\ Returns(doc, format)
    BY <1>1, Zenon DEF StampFails
  <1>3. PICK f : Known(f) /\ doc = LongTerm(f, op)
    BY <1>1, <1>2 DEF KeepInv, CallKnown
  <1>4. Document(doc) /\ Last(doc).slot.for = "none"
    BY <1>1, <1>2 DEF KeepInv, ContentsInv, CallContents, WellFormed
  <1>5. ~Recoverable(doc)
    BY <1>4, DocumentBasics, RecoverableIs DEF Unsigned
  <1>6. PICK r : r = Result(doc, op, format)
    OBVIOUS
  <1>7. r.pdf = LongTerm(f, r.op)
    BY <1>3, <1>6 DEF Result
  <1>8. KeepsDocument(r)
    BY <1>3, <1>7, ResultKeeps
  <1>9. [Next]_vars
    BY DEF Next
  <1> QED
    BY <1>1, <1>2, <1>5, <1>6, <1>8, <1>9, ReturnKeepsKnown

LEMMA CompleteKeepsKnown ==
    ASSUME KeepInv, NEW pdf \in files, NEW op \in DOMAIN ops, Complete(pdf, op)
    PROVE  KeepInv'
  <1>1. PICK done : done = embed(pdf, Cms(op))
    OBVIOUS
  <1>2. PICK r : r = Result(done, op, "completed")
    OBVIOUS
  <1>3. /\ Recoverable(pdf) /\ sealed' = sealed \cup {r} /\ files' = files \cup {done}
        /\ UNCHANGED call
    BY <1>1, <1>2, Zenon DEF Complete
  <1>4. Known(pdf)
    BY <1>3 DEF KeepInv
  <1>5. Known(done)
    BY <1>1, <1>4, KnownEmbedded
  <1>6. r.pdf = Sealing(pdf, r.op)
    BY <1>1, <1>2 DEF Result, Sealing
  <1>7. KeepsDocument(r)
    BY <1>4, <1>6, ResultKeeps
  <1>8. CallKnown'
    BY <1>3, SameCallKnown DEF KeepInv
  <1>9. [Next]_vars
    BY DEF Next
  <1>10. \A f \in files' : f \in files \/ (Recoverable(f) => Known(f))
    BY <1>3, <1>5
  <1>11. \A x \in sealed' : x \in sealed \/ KeepsDocument(x)
    BY <1>3, <1>7
  <1> QED
    BY <1>8, <1>9, <1>10, <1>11, KeepStep

LEMMA EditKeepsKnown ==
    ASSUME KeepInv, NEW pdf \in files, NEW packing \in BOOLEAN, Edit(pdf, packing)
    PROVE  KeepInv'
  <1>1. PICK objects \in EditsOf(pdf) :
           files' = files \cup {Append(pdf, EditRevision(pdf, objects, packing))}
    BY DEF Edit
  <1>2. Parses(pdf) /\ Finds(pdf) /\ UNCHANGED <<call, sealed>>
    BY DEF Edit
  <1>3. PICK more : more = Append(pdf, EditRevision(pdf, objects, packing))
    OBVIOUS
  <1>4. WellFormed(pdf) /\ DssUpTo(pdf, Len(ops))
    BY DEF KeepInv, ContentsInv, Holds
  <1>5. WellFormed(more) /\ Last(more).slot.for = "none"
    BY <1>2, <1>3, <1>4, EditKeeps
  <1>6. ~Recoverable(more)
    <2>1. Document(more)
      BY <1>5 DEF WellFormed
    <2> QED
      BY <1>5, <2>1, DocumentBasics, RecoverableIs DEF Unsigned
  <1>7. CallKnown'
    BY <1>2, SameCallKnown DEF KeepInv
  <1>8. [Next]_vars
    BY DEF Next
  <1>9. \A f \in files' : f \in files \/ (Recoverable(f) => Known(f))
    BY <1>1, <1>3, <1>6
  <1> QED
    BY <1>2, <1>7, <1>8, <1>9, KeepStep

LEMMA KeepInit == Init => KeepInv
  <1> SUFFICES ASSUME Init
               PROVE  KeepInv
    OBVIOUS
  <1>1. PICK pdf \in Sources : files = {pdf}
    BY DEF Init
  <1>2. Document(pdf)
    BY SealAssumption DEF WellFormed
  <1>3. Recoverable(pdf) => Known(pdf)
    BY <1>2, RecoverableIs DEF Known, Original
  <1>4. CallKnown
    BY DEF Init, NoCall, CallKnown
  <1>5. ResultsKeepDocument
    BY DEF Init, ResultsKeepDocument
  <1> QED
    BY <1>1, <1>3, <1>4, <1>5, ContentsInit DEF KeepInv

LEMMA KeepNext == KeepInv /\ [Next]_vars => KeepInv'
  <1> SUFFICES ASSUME KeepInv, [Next]_vars
               PROVE  KeepInv'
    OBVIOUS
  <1>1. CASE \E pdf \in files : Prepare(pdf)
    BY <1>1, PrepareKeepsKnown
  <1>2. CASE \E pdf \in files, ltv \in BOOLEAN : Seal(pdf, ltv) \/ SealPrepared(pdf, ltv)
    BY <1>2, SealKeepsKnown
  <1>3. CASE (\E answer \in Answers : ServiceSigns(answer)) \/ ServiceStamps
    BY <1>3, ServiceKeepsKnown
  <1>4. CASE EmbedCms
    BY <1>4, EmbedCmsKeepsKnown
  <1>5. CASE \E size \in 1..2 : StampArrives(size)
    BY <1>5, StampArrivesKeepsKnown
  <1>6. CASE StampFails
    BY <1>6, StampFailsKeepsKnown
  <1>7. CASE CallLost
    <2>1. call' = NoCall /\ UNCHANGED <<files, sealed>>
      BY <1>7 DEF CallLost
    <2> QED
      BY <2>1, NoCallKnown, KeepStep
  <1>8. CASE \E pdf \in files, op \in DOMAIN ops : Complete(pdf, op)
    BY <1>8, CompleteKeepsKnown
  <1>9. CASE \E pdf \in files, packing \in BOOLEAN : Edit(pdf, packing)
    BY <1>9, EditKeepsKnown
  <1>10. CASE UNCHANGED vars
    <2>1. UNCHANGED <<files, call, sealed>>
      BY <1>10 DEF vars
    <2>2. CallKnown'
      BY <2>1, SameCallKnown DEF KeepInv
    <2> QED
      BY <2>1, <2>2, KeepStep
  <1> QED
    BY <1>1, <1>2, <1>3, <1>4, <1>5, <1>6, <1>7, <1>8, <1>9, <1>10 DEF Next

\* SealKeepsDocument, for every set of PDFs, whatever the service answers and
\* other tools append: what a signature does not rewrite is as it was, and where
\* the signer reads what readers read nothing of the form or the first page is
\* lost and the seal adds its own fields and no more.  It is not inductive: that
\* a result's source was one prepare could read is kept for every file recover
\* takes and for the file of the call.
THEOREM SealsKeepDocuments == Spec => SealKeepsDocument
  <1>1. Init => KeepInv
    BY KeepInit
  <1>2. KeepInv /\ [Next]_vars => KeepInv'
    BY KeepNext
  <1>3. KeepInv' => [\A r \in sealed' \ sealed : KeepsDocument(r)]_vars
    BY DEF KeepInv, ResultsKeepDocument
  <1> QED
    BY <1>1, <1>2, <1>3, PTL DEF Spec, SealKeepsDocument

\* The same of all results at every time.
THEOREM ResultsKeepDocuments == Spec => []ResultsKeepDocument
  <1>1. Init => KeepInv
    BY KeepInit
  <1>2. KeepInv /\ [Next]_vars => KeepInv'
    BY KeepNext
  <1>3. KeepInv => ResultsKeepDocument
    BY DEF KeepInv
  <1> QED
    BY <1>1, <1>2, <1>3, PTL DEF Spec

===============================================================================

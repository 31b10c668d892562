----------------------------- MODULE RunCopiesProofs -----------------------------
(***************************************************************************)
(* Theorems about verify_agent_run, for any number of runs, of any length,  *)
(* under any timestamp policy, and for copies any number of things happened *)
(* to.  The argument: RecordedAs says what stands at each position of a     *)
(* run; CopyInv, what a copy is made of, whatever happened to it.  The      *)
(* verifier sorts the items; from the links, and from run_start being the   *)
(* only event at position 0, the k-th of a passing copy is the run's k-th,  *)
(* so the walk of the coverage rule is the recorder's.                      *)
(***************************************************************************)
EXTENDS RunCopies, Orders, SequenceTheorems

Sigs == {NoSig} \cup (Runs \X Int)

Objects == {<<Uri, Original>>}

Artifacts == [run : Runs, seq : Nat, type : {"run_start", "event", "run_end"}, link : Sigs,
              sig : Sigs, signer : STRING, declared : BOOLEAN, consequential : BOOLEAN,
              time : Nat, binds : Sigs, finalSeq : Int, finalPrev : Sigs,
              objects : SUBSET Objects]

\* The k-th event of run r names the run, its position, its predecessor.
RecordedAs(r, k) ==
    LET a == sealed[r][k]
    IN  /\ a.run = r /\ a.seq = k - 1 /\ a.sig = SigOf(r, k - 1) /\ a.signer = SignerOf[r]
        /\ a.link = IF k = 1 THEN NoSig ELSE SigOf(r, k - 2)
        /\ a.binds = IF k = 1 THEN SigOf(r, -1) ELSE NoSig
        /\ a.objects = IF k <= 2 THEN Objects ELSE {}
        /\ a.type = "run_start" <=> k = 1
        /\ a.type = "run_end" => /\ k = Len(sealed[r])
                                 /\ a.finalSeq = a.seq /\ a.finalPrev = a.link

\* The recorder's walk of the coverage rule over the events of r, cov[k] after
\* the k-th: an event is declared timestamped exactly when the rule asks for it.
Walks == [since : Nat, last : Nat \cup {NoTime}]

WalkedAs(r, cov) ==
    /\ cov \in [0..Len(sealed[r]) -> Walks]
    /\ cov[0] = Fresh
    /\ \A k \in 1..Len(sealed[r]) :
          /\ cov[k] = Walked(cov[k - 1], TRUE, sealed[r][k])
          /\ sealed[r][k].declared <=> Required(cov[k - 1], TRUE, sealed[r][k])
    /\ coverage[r] = cov[Len(sealed[r])]

RunInv ==
    /\ plan \in Plans
    /\ sealed \in [Runs -> Seq(Artifacts)]
    /\ coverage \in [Runs -> Walks]
    /\ \A r \in Runs : /\ Len(sealed[r]) <= plan.events[r]
                       /\ \A k \in 1..Len(sealed[r]) : RecordedAs(r, k)
                       /\ \E cov \in [0..Len(sealed[r]) -> Walks] : WalkedAs(r, cov)

\* What a copy is made of: events of the runs, perhaps damaged; a timestamp is
\* there only where the envelope declares one.
Items ==
    {s \in [art : UNION {{sealed[r][k] : k \in 1..Len(sealed[r])} : r \in Runs},
            state : States \ {"absent"}, stamp : Stamps, digests : SUBSET Objects] :
        /\ s.digests \in {{}, s.art.objects}
        /\ s.stamp = "valid" => s.art.declared}

CopyInv ==
    /\ copy = [control |-> copy.control, events |-> copy.events, payloads |-> copy.payloads]
    /\ copy.events \in Seq(Items)
    /\ \/ copy = NoCopy
       \/ \E r \in Runs, state \in States :
             copy.control = [art |-> ControlArtifact(r), state |-> state, stamp |-> "valid",
                             digests |-> {}]
    /\ damage \in 0..plan.damage

CopiesInv == RunInv /\ CopyInv
---------------------------------------------------------------------------------
(* The runs.                                                                   *)

\* The walk goes from a state of the walk to another.
LEMMA WalkedType ==
    ASSUME NEW cov \in Walks, NEW e, e.time \in Nat
    PROVE  Walked(cov, TRUE, e) \in Walks
  <1>1. cov.since \in Nat /\ cov.since + 1 \in Nat /\ cov.last \in Nat \cup {NoTime}
    BY DEF Walks
  <1>2. CASE Required(cov, TRUE, e)
    BY <1>1, <1>2 DEF Walked, Walks
  <1>3. CASE ~Required(cov, TRUE, e)
    BY <1>1, <1>3 DEF Walked, Walks
  <1> QED
    BY <1>2, <1>3

\* The envelope of the next event, and what it declares.
NextOf(r, type, a) ==
    /\ a \in Artifacts
    /\ a.run = r /\ a.seq = Len(sealed[r]) /\ a.sig = SigOf(r, a.seq)
    /\ a.signer = SignerOf[r] /\ a.type = type
    /\ a.link = IF a.seq = 0 THEN NoSig ELSE SigOf(r, a.seq - 1)
    /\ a.binds = IF a.seq = 0 THEN SigOf(r, -1) ELSE NoSig
    /\ a.objects = IF a.seq <= 1 THEN Objects ELSE {}
    /\ a.type = "run_end" => a.finalSeq = a.seq /\ a.finalPrev = a.link
    /\ a.declared <=> Required(coverage[r], TRUE, a)

LEMMA EnvelopeSays ==
    ASSUME RunInv, NEW r \in Runs, NEW type \in {"run_start", "event", "run_end"},
           NEW consequential \in BOOLEAN, NEW asked \in BOOLEAN, NEW t \in plan.times,
           NEW a, a = Envelope(r, type, consequential, asked, t)
    PROVE  NextOf(r, type, a)
  <1> DEFINE e == [type |-> type, seq |-> Len(sealed[r]), consequential |-> consequential,
                   declared |-> asked, time |-> t]
  <1>1. Len(sealed[r]) \in Nat /\ SignerOf[r] \in STRING /\ t \in Nat
    BY LenProperties, CopiesAssumption DEF RunInv
  <1>2. Required(coverage[r], TRUE, e) \in BOOLEAN
    BY DEF Required
  <1>3. /\ a.run = r /\ a.seq = Len(sealed[r]) /\ a.sig = SigOf(r, a.seq)
        /\ a.signer = SignerOf[r] /\ a.type = type /\ a.consequential = consequential
        /\ a.time = t /\ a.declared = Required(coverage[r], TRUE, e)
        /\ a.link = IF a.seq = 0 THEN NoSig ELSE SigOf(r, a.seq - 1)
        /\ a.binds = IF a.seq = 0 THEN SigOf(r, -1) ELSE NoSig
        /\ a.objects = IF a.seq <= 1 THEN Objects ELSE {}
        /\ a.type = "run_end" => a.finalSeq = a.seq /\ a.finalPrev = a.link
    BY DEF Envelope, Objects
  <1>4. a.declared <=> Required(coverage[r], TRUE, a)
    BY <1>3 DEF Required
  <1>5. a \in Artifacts
    <2>1. \A k \in Int : SigOf(r, k) \in Sigs
      BY DEF SigOf, Sigs
    <2>2. /\ a.link \in Sigs /\ a.sig \in Sigs /\ a.binds \in Sigs /\ NoSig \in Sigs
      BY <1>1, <1>3, <2>1 DEF Sigs
    <2>3. a.objects \in SUBSET Objects
      BY <1>3
    <2>4. a = [run |-> a.run, seq |-> a.seq, type |-> a.type, link |-> a.link, sig |-> a.sig,
               signer |-> a.signer, declared |-> a.declared, consequential |-> a.consequential,
               time |-> a.time, binds |-> a.binds, finalSeq |-> a.finalSeq,
               finalPrev |-> a.finalPrev, objects |-> a.objects]
      BY DEF Envelope
    <2>5. a.finalSeq \in Int /\ a.finalPrev \in Sigs
      BY <1>1, <2>1, <2>2 DEF Envelope
    <2> QED
      BY <1>1, <1>2, <1>3, <2>2, <2>3, <2>4, <2>5 DEF Artifacts
  <1> QED
    BY <1>3, <1>4, <1>5 DEF NextOf

\* An event at the next position of a run that has not ended.
LEMMA SealKeepsRuns ==
    ASSUME RunInv, NEW r \in Runs, Recording(r),
           NEW type \in {"run_start", "event", "run_end"},
           NEW consequential \in BOOLEAN, NEW asked \in BOOLEAN, NEW t \in plan.times,
           type = "run_start" <=> sealed[r] = <<>>,
           NEW a, a = Envelope(r, type, consequential, asked, t), Append1(r, a)
    PROVE  RunInv'
  <1> DEFINE n == Len(sealed[r])
  <1>1. /\ a \in Artifacts
        /\ a.run = r /\ a.seq = n /\ a.sig = SigOf(r, a.seq)
        /\ a.signer = SignerOf[r] /\ a.type = type
        /\ a.link = IF a.seq = 0 THEN NoSig ELSE SigOf(r, a.seq - 1)
        /\ a.binds = IF a.seq = 0 THEN SigOf(r, -1) ELSE NoSig
        /\ a.objects = IF a.seq <= 1 THEN Objects ELSE {}
        /\ a.type = "run_end" => a.finalSeq = a.seq /\ a.finalPrev = a.link
        /\ a.declared <=> Required(coverage[r], TRUE, a)
    <2>1. NextOf(r, type, a)
      BY EnvelopeSays
    <2> QED
      BY <2>1 DEF NextOf
  <1>2. /\ sealed' = [sealed EXCEPT ![r] = Append(@, a)]
        /\ coverage' = [coverage EXCEPT ![r] = Walked(@, TRUE, a)]
        /\ plan' = plan /\ plan \in Plans
    BY DEF Append1, RunInv
  <1>3. /\ sealed[r] \in Seq(Artifacts) /\ n \in Nat /\ n < plan.events[r]
        /\ plan.events[r] \in Nat /\ ~Ended(r) /\ DOMAIN sealed[r] = 1..n
    BY LenProperties, CopiesAssumption DEF RunInv, Recording
  <1>4. /\ Append(sealed[r], a) \in Seq(Artifacts) /\ Len(Append(sealed[r], a)) = n + 1
        /\ \A k \in 1..n : Append(sealed[r], a)[k] = sealed[r][k]
        /\ Append(sealed[r], a)[n + 1] = a
    BY <1>1, <1>3, AppendProperties
  <1> HIDE DEF n
  <1>5. /\ sealed' \in [Runs -> Seq(Artifacts)] /\ coverage' \in [Runs -> Walks]
        /\ \A q \in Runs \ {r} : sealed'[q] = sealed[q] /\ coverage'[q] = coverage[q]
        /\ sealed'[r] = Append(sealed[r], a) /\ coverage'[r] = Walked(coverage[r], TRUE, a)
    <2>1. Walked(coverage[r], TRUE, a) \in Walks
      BY <1>1, WalkedType DEF RunInv, Artifacts
    <2> QED
      BY <1>2, <1>4, <2>1 DEF RunInv
  <1>6. /\ Len(sealed'[r]) = n + 1 /\ \A k \in 1..n : sealed'[r][k] = sealed[r][k]
        /\ sealed'[r][n + 1] = a
    BY <1>4, <1>5
  <1>7. \A k \in 1..n : RecordedAs(r, k) /\ sealed[r][k].type # "run_end"
    <2>1. \A k \in 1..n : RecordedAs(r, k)
      BY DEF RunInv, n
    <2>2. ASSUME NEW k \in 1..n, sealed[r][k].type = "run_end"
          PROVE  FALSE
      <3>1. k = n
        BY <2>1, <2>2 DEF RecordedAs, n
      <3>2. sealed[r] # <<>>
        BY <1>3, <3>1, EmptySeq DEF n
      <3> QED
        BY <1>3, <2>2, <3>1, <3>2 DEF Ended, n
    <2> QED
      BY <2>1, <2>2
  <1>8. ASSUME NEW k \in 1..(n + 1)
        PROVE  RecordedAs(r, k)'
    <2>1. CASE k \in 1..n
      BY <1>6, <1>7, <2>1 DEF RecordedAs
    <2>2. CASE k = n + 1
      <3>1. n = 0 <=> type = "run_start"
        BY <1>3, EmptySeq DEF n
      <3>2. k = 1 <=> n = 0
        BY <1>3, <2>2
      <3>3. k - 1 = n /\ k - 2 = n - 1 /\ (k <= 2 <=> n <= 1)
        BY <1>3, <2>2
      <3> QED
        BY <1>1, <1>6, <2>2, <3>1, <3>2, <3>3 DEF RecordedAs
    <2> QED
      BY <1>3, <2>1, <2>2
  <1>9. \E cov \in [0..(n + 1) -> Walks] : WalkedAs(r, cov)'
    <2>1. PICK cov \in [0..n -> Walks] : WalkedAs(r, cov)
      BY DEF RunInv, n
    <2>2. PICK next \in [0..(n + 1) -> Walks] :
             (\A k \in 0..n : next[k] = cov[k]) /\ next[n + 1] = coverage'[r]
      <3> DEFINE new == coverage'[r]
                 next == [k \in 0..(n + 1) |-> IF k = n + 1 THEN new ELSE cov[k]]
      <3>1. new \in Walks
        BY <1>5
      <3> HIDE DEF new
      <3>2. next \in [0..(n + 1) -> Walks]
        BY <1>3, <3>1
      <3>3. (\A k \in 0..n : next[k] = cov[k]) /\ next[n + 1] = new
        BY <1>3
      <3> QED
        BY <3>2, <3>3 DEF new
    <2>3. cov[n] = coverage[r] /\ cov[0] = Fresh
      BY <2>1 DEF WalkedAs, n
    <2>4. \A k \in 1..n : /\ cov[k] = Walked(cov[k - 1], TRUE, sealed[r][k])
                          /\ sealed[r][k].declared <=> Required(cov[k - 1], TRUE, sealed[r][k])
      BY <2>1 DEF WalkedAs, n
    <2>5. \A k \in 1..n : /\ next[k] = Walked(next[k - 1], TRUE, sealed'[r][k])
                          /\ sealed'[r][k].declared <=> Required(next[k - 1], TRUE, sealed'[r][k])
      <3>1. \A k \in 1..n : next[k] = cov[k] /\ next[k - 1] = cov[k - 1]
        BY <1>3, <2>2
      <3> QED
        BY <1>6, <2>4, <3>1
    <2>6. /\ next[n + 1] = Walked(next[n], TRUE, sealed'[r][n + 1])
          /\ sealed'[r][n + 1].declared <=> Required(next[n], TRUE, sealed'[r][n + 1])
      <3>1. sealed'[r][n + 1] = a /\ next[n] = coverage[r] /\ next[n + 1] = coverage'[r]
        BY <1>3, <1>6, <2>2, <2>3
      <3>2. coverage'[r] = Walked(coverage[r], TRUE, a)
        BY <1>5
      <3>3. a.declared <=> Required(coverage[r], TRUE, a)
        BY <1>1
      <3> QED
        BY <3>1, <3>2, <3>3, Zenon
    <2>7. \A k \in 1..(n + 1) : k \in 1..n \/ (k = n + 1 /\ k - 1 = n)
      BY <1>3
    <2>8. ASSUME NEW k \in 1..(n + 1)
          PROVE  /\ next[k] = Walked(next[k - 1], TRUE, sealed'[r][k])
                 /\ sealed'[r][k].declared <=> Required(next[k - 1], TRUE, sealed'[r][k])
      <3>1. CASE k \in 1..n
        BY <2>5, <3>1
      <3>2. CASE k = n + 1 /\ k - 1 = n
        BY <2>6, <3>2
      <3> QED
        BY <2>7, <3>1, <3>2
    <2>9. next[0] = Fresh /\ next[n + 1] = coverage'[r]
      BY <1>3, <2>2, <2>3
    <2>10. WalkedAs(r, next)'
      BY <1>6, <2>8, <2>9 DEF WalkedAs
    <2> QED
      BY <2>10
  <1>10. ASSUME NEW q \in Runs, q # r
         PROVE  /\ Len(sealed'[q]) <= plan.events[q]
                /\ \A k \in 1..Len(sealed'[q]) : RecordedAs(q, k)'
                /\ \E cov \in [0..Len(sealed'[q]) -> Walks] : WalkedAs(q, cov)'
    <2>1. sealed'[q] = sealed[q] /\ coverage'[q] = coverage[q]
      BY <1>5, <1>10
    <2>2. /\ Len(sealed[q]) <= plan.events[q] /\ \A k \in 1..Len(sealed[q]) : RecordedAs(q, k)
          /\ \E cov \in [0..Len(sealed[q]) -> Walks] : WalkedAs(q, cov)
      BY DEF RunInv
    <2>3. \A k \in 1..Len(sealed'[q]) : RecordedAs(q, k)'
      BY <2>1, <2>2 DEF RecordedAs
    <2>4. \E cov \in [0..Len(sealed'[q]) -> Walks] : WalkedAs(q, cov)'
      BY <2>1, <2>2 DEF WalkedAs
    <2> QED
      BY <2>1, <2>2, <2>3, <2>4
  <1>11. Len(sealed'[r]) <= plan.events[r]
    BY <1>3, <1>6
  <1>12. ASSUME NEW q \in Runs
         PROVE  /\ Len(sealed'[q]) <= plan.events[q]
                /\ \A k \in 1..Len(sealed'[q]) : RecordedAs(q, k)'
                /\ \E cov \in [0..Len(sealed'[q]) -> Walks] : WalkedAs(q, cov)'
    <2>1. CASE q = r
      BY <1>6, <1>8, <1>9, <1>11, <2>1
    <2> QED
      BY <1>10, <2>1
  <1>13. plan' \in Plans /\ plan' = plan
    BY <1>2
  <1> QED
    BY <1>5, <1>12, <1>13 DEF RunInv

\* Nothing is recorded.
LEMMA RunsKept ==
    ASSUME RunInv, UNCHANGED <<plan, sealed, coverage>>
    PROVE  RunInv' /\ Items' = Items
  <1>1. sealed' \in [Runs -> Seq(Artifacts)] /\ coverage' \in [Runs -> Walks]
    BY DEF RunInv
  <1>2. ASSUME NEW r \in Runs
        PROVE  /\ Len(sealed'[r]) <= plan.events[r]
               /\ \A k \in 1..Len(sealed'[r]) : RecordedAs(r, k)'
               /\ \E cov \in [0..Len(sealed'[r]) -> Walks] : WalkedAs(r, cov)'
    <2>1. /\ Len(sealed[r]) <= plan.events[r] /\ \A k \in 1..Len(sealed[r]) : RecordedAs(r, k)
          /\ \E cov \in [0..Len(sealed[r]) -> Walks] : WalkedAs(r, cov)
      BY DEF RunInv
    <2>2. \A k \in 1..Len(sealed'[r]) : RecordedAs(r, k)'
      BY <2>1 DEF RecordedAs
    <2>3. \E cov \in [0..Len(sealed'[r]) -> Walks] : WalkedAs(r, cov)'
      BY <2>1 DEF WalkedAs
    <2> QED
      BY <2>1, <2>2, <2>3
  <1>3. Items' = Items
    BY DEF Items
  <1> QED
    BY <1>1, <1>2, <1>3 DEF RunInv

LEMMA InitRuns == Init => RunInv
  <1> SUFFICES ASSUME Init
               PROVE  RunInv
    OBVIOUS
  <1>1. <<>> \in Seq(Artifacts) /\ Len(<<>>) = 0
    BY EmptySeq
  <1>2. Fresh \in Walks
    BY DEF Fresh, Walks
  <1>3. /\ plan \in Plans
        /\ sealed \in [Runs -> Seq(Artifacts)] /\ coverage \in [Runs -> Walks]
    BY <1>1, <1>2 DEF Init
  <1>4. ASSUME NEW r \in Runs
        PROVE  /\ Len(sealed[r]) <= plan.events[r]
               /\ \A k \in 1..Len(sealed[r]) : RecordedAs(r, k)
               /\ \E cov \in [0..Len(sealed[r]) -> Walks] : WalkedAs(r, cov)
    <2>1. sealed[r] = <<>> /\ Len(sealed[r]) = 0 /\ coverage[r] = Fresh /\ plan.events[r] \in Nat
      BY <1>1, CopiesAssumption DEF Init
    <2>2. [k \in 0..0 |-> Fresh] \in [0..0 -> Walks]
      BY <1>2
    <2>3. WalkedAs(r, [k \in 0..0 |-> Fresh])
      BY <2>1, <2>2 DEF WalkedAs
    <2> QED
      BY <2>1, <2>2, <2>3
  <1> QED
    BY <1>3, <1>4 DEF RunInv
---------------------------------------------------------------------------------
(* The copies.                                                                 *)

\* What a copy is made of, said of any bundle.
Made(c) ==
    /\ c = [control |-> c.control, events |-> c.events, payloads |-> c.payloads]
    /\ c.events \in Seq(Items)
    /\ \E r \in Runs, state \in States :
          c.control = [art |-> ControlArtifact(r), state |-> state, stamp |-> "valid",
                       digests |-> {}]

\* An undamaged event is an item.
LEMMA EventItemType ==
    ASSUME RunInv, NEW r \in Runs, NEW k \in 1..Len(sealed[r])
    PROVE  EventItem(sealed[r][k]) \in Items
  <1> DEFINE a == sealed[r][k]
  <1>1. a \in Artifacts /\ a.objects \in SUBSET Objects /\ a.declared \in BOOLEAN
    <2>1. sealed[r] \in Seq(Artifacts)
      BY DEF RunInv
    <2>2. a \in Artifacts
      BY <2>1, ElementOfSeq
    <2> QED
      BY <2>2 DEF Artifacts
  <1>2. a \in UNION {{sealed[q][j] : j \in 1..Len(sealed[q])} : q \in Runs}
    OBVIOUS
  <1> HIDE DEF a
  <1>3. EventItem(a) = [art |-> a, state |-> "intact",
                        stamp |-> IF a.declared THEN "valid" ELSE "none", digests |-> a.objects]
    BY DEF EventItem, Item
  <1> QED
    BY <1>1, <1>2, <1>3 DEF Items, States, Stamps, a

\* Something happens to a copy and leaves one of the same make.
LEMMA DamagedIsMade ==
    ASSUME CopiesInv, NEW c, Damaged(c), Made(copy) => Made(c)
    PROVE  CopiesInv'
  <1>1. /\ copy' = c /\ sealed' = sealed /\ coverage' = coverage /\ plan' = plan
        /\ copy # NoCopy /\ damage < plan.damage /\ damage' = damage + 1
    BY DEF Damaged
  <1>2. Made(c)
    BY <1>1 DEF CopiesInv, CopyInv, Made
  <1>3. RunInv' /\ Items' = Items
    BY <1>1, RunsKept DEF CopiesInv
  <1>5. damage' \in 0..plan.damage
    <2>1. plan \in Plans /\ plan.damage \in Nat /\ damage \in 0..plan.damage
      BY CopiesAssumption DEF CopiesInv, CopyInv, RunInv
    <2> QED
      BY <1>1, <2>1
  <1>6. \A r \in Runs : ControlArtifact(r)' = ControlArtifact(r)
    BY DEF ControlArtifact, SigOf
  <1> QED
    BY <1>1, <1>2, <1>3, <1>5, <1>6 DEF CopiesInv, CopyInv, Made

\* One item less.
LEMMA WithoutType ==
    ASSUME NEW S, NEW s \in Seq(S), NEW k \in DOMAIN s
    PROVE  Without(s, k) \in Seq(S)
  <1>1. Len(s) \in Nat /\ k \in 1..Len(s) /\ \A i \in 1..Len(s) : s[i] \in S
    BY LenProperties, ElementOfSeq
  <1>2. SubSeq(s, 1, k - 1) \in Seq(S)
    BY <1>1, SubSeqProperties
  <1>3. SubSeq(s, k + 1, Len(s)) \in Seq(S)
    BY <1>1, SubSeqProperties
  <1> QED
    BY <1>2, <1>3, ConcatProperties DEF Without

LEMMA DamageKeepsInv ==
    ASSUME CopiesInv,
           \/ Withhold \/ Repeat \/ Reorder \/ MixIn
           \/ DamageEvent \/ LoseStamp \/ LoseDigest \/ SupplyPayload
           \/ DamageControl \/ SwapControl
    PROVE  CopiesInv'
  <1> DEFINE events == copy.events
  <1>1. /\ events \in Seq(Items) /\ DOMAIN events = 1..Len(events)
        /\ copy = [control |-> copy.control, events |-> events, payloads |-> copy.payloads]
        /\ \A k \in DOMAIN events : events[k] \in Items
    BY LenProperties, ElementOfSeq DEF CopiesInv, CopyInv
  <1> HIDE DEF events
  <1>2. ASSUME NEW es \in Seq(Items)
        PROVE  Made(copy) => Made([copy EXCEPT !.events = es])
    BY <1>1, <1>2 DEF Made
  <1>3. ASSUME NEW k \in DOMAIN events, NEW s \in Items
        PROVE  [events EXCEPT ![k] = s] \in Seq(Items)
    BY <1>1, <1>3, ExceptSeq
  <1>4. CASE Withhold
    <2>1. PICK k \in DOMAIN events : Damaged([copy EXCEPT !.events = Without(events, k)])
      BY <1>4 DEF Withhold, events
    <2>2. Without(events, k) \in Seq(Items)
      BY <1>1, WithoutType
    <2> QED
      BY <1>2, <2>1, <2>2, DamagedIsMade
  <1>5. CASE Repeat
    <2>1. PICK k \in DOMAIN events : Damaged([copy EXCEPT !.events = Append(events, events[k])])
      BY <1>5 DEF Repeat, events
    <2>2. Append(events, events[k]) \in Seq(Items)
      BY <1>1, AppendProperties
    <2> QED
      BY <1>2, <2>1, <2>2, DamagedIsMade
  <1>6. CASE Reorder
    <2>1. PICK k \in DOMAIN events :
             Damaged([copy EXCEPT !.events = <<events[k]>> \o Without(events, k)])
      BY <1>6 DEF Reorder, events
    <2>2. <<events[k]>> \in Seq(Items)
      BY <1>1
    <2>3. <<events[k]>> \o Without(events, k) \in Seq(Items)
      BY <1>1, <2>2, WithoutType, ConcatProperties
    <2> QED
      BY <1>2, <2>1, <2>3, DamagedIsMade
  <1>7. CASE MixIn
    <2>1. PICK r \in Runs : \E k \in DOMAIN sealed[r] :
             Damaged([copy EXCEPT !.events = Append(events, EventItem(sealed[r][k]))])
      BY <1>7 DEF MixIn, events
    <2>2. PICK k \in DOMAIN sealed[r] :
             Damaged([copy EXCEPT !.events = Append(events, EventItem(sealed[r][k]))])
      BY <2>1
    <2>3. k \in 1..Len(sealed[r])
      BY LenProperties DEF CopiesInv, RunInv
    <2>4. Append(events, EventItem(sealed[r][k])) \in Seq(Items)
      BY <1>1, <2>3, EventItemType, AppendProperties DEF CopiesInv
    <2> QED
      BY <1>2, <2>2, <2>4, DamagedIsMade
  <1>8. CASE DamageEvent
    <2>1. PICK k \in DOMAIN events, state \in States \ {"intact", "absent"} :
             Damaged([copy EXCEPT !.events[k].state = state])
      BY <1>8 DEF DamageEvent, events
    <2> DEFINE s == [events[k] EXCEPT !.state = state]
    <2>2. s \in Items
      BY <1>1 DEF Items
    <2>3. [copy EXCEPT !.events[k].state = state] = [copy EXCEPT !.events = [events EXCEPT ![k] = s]]
      BY DEF events
    <2> HIDE DEF s
    <2>4. Made(copy) => Made([copy EXCEPT !.events[k].state = state])
      BY <1>2, <1>3, <2>2, <2>3
    <2> QED
      BY <2>1, <2>4, DamagedIsMade
  <1>9. CASE LoseStamp
    <2>1. PICK k \in DOMAIN events, stamp \in {"none", "invalid"} :
             Damaged([copy EXCEPT !.events[k].stamp = stamp])
      BY <1>9 DEF LoseStamp, events
    <2> DEFINE s == [events[k] EXCEPT !.stamp = stamp]
    <2>2. s \in Items
      BY <1>1 DEF Items, Stamps
    <2>3. [copy EXCEPT !.events[k].stamp = stamp] = [copy EXCEPT !.events = [events EXCEPT ![k] = s]]
      BY DEF events
    <2> HIDE DEF s
    <2>4. Made(copy) => Made([copy EXCEPT !.events[k].stamp = stamp])
      BY <1>2, <1>3, <2>2, <2>3
    <2> QED
      BY <2>1, <2>4, DamagedIsMade
  <1>10. CASE LoseDigest
    <2>1. PICK k \in DOMAIN events : Damaged([copy EXCEPT !.events[k].digests = {}])
      BY <1>10 DEF LoseDigest, events
    <2> DEFINE s == [events[k] EXCEPT !.digests = {}]
    <2>2. s \in Items
      BY <1>1 DEF Items
    <2>3. [copy EXCEPT !.events[k].digests = {}] = [copy EXCEPT !.events = [events EXCEPT ![k] = s]]
      BY DEF events
    <2> HIDE DEF s
    <2>4. Made(copy) => Made([copy EXCEPT !.events[k].digests = {}])
      BY <1>2, <1>3, <2>2, <2>3
    <2> QED
      BY <2>1, <2>4, DamagedIsMade
  <1>11. CASE SupplyPayload
    <2>1. PICK o : Damaged([copy EXCEPT !.payloads = {o}])
      BY <1>11 DEF SupplyPayload
    <2>2. [copy EXCEPT !.payloads = {o}] =
             [control |-> copy.control, events |-> events, payloads |-> {o}]
      <3>1. copy = [control |-> copy.control, events |-> events, payloads |-> copy.payloads]
        BY <1>1
      <3> DEFINE given == {o}
      <3> HIDE DEF given
      <3>2. [copy EXCEPT !.payloads = given] =
               [control |-> copy.control, events |-> events, payloads |-> given]
        BY <3>1
      <3> QED
        BY <3>2 DEF given
    <2>3. Made(copy) => Made([copy EXCEPT !.payloads = {o}])
      BY <1>1, <2>2 DEF Made
    <2> QED
      BY <2>1, <2>3, DamagedIsMade
  <1>12. CASE DamageControl
    <2>1. PICK state \in States : Damaged([copy EXCEPT !.control.state = state])
      BY <1>12 DEF DamageControl
    <2>2. [copy EXCEPT !.control.state = state] =
             [control |-> [copy.control EXCEPT !.state = state], events |-> events,
              payloads |-> copy.payloads]
      BY <1>1
    <2>3. Made(copy) => Made([copy EXCEPT !.control.state = state])
      <3>1. SUFFICES ASSUME NEW r \in Runs, NEW old \in States,
                            copy.control = [art |-> ControlArtifact(r), state |-> old,
                                            stamp |-> "valid", digests |-> {}]
                     PROVE  Made([copy EXCEPT !.control.state = state])
        BY DEF Made
      <3>2. [copy.control EXCEPT !.state = state] =
               [art |-> ControlArtifact(r), state |-> state, stamp |-> "valid", digests |-> {}]
        BY <3>1
      <3> QED
        BY <1>1, <2>2, <3>2 DEF Made
    <2> QED
      BY <2>1, <2>3, DamagedIsMade
  <1>13. CASE SwapControl
    <2>1. PICK r \in Runs : Damaged([copy EXCEPT !.control = ControlItem(r)])
      BY <1>13 DEF SwapControl
    <2>2. ControlItem(r) = [art |-> ControlArtifact(r), state |-> "intact", stamp |-> "valid",
                            digests |-> {}]
      BY DEF ControlItem, Item, ControlArtifact
    <2>3. [copy EXCEPT !.control = ControlItem(r)] =
             [control |-> ControlItem(r), events |-> events, payloads |-> copy.payloads]
      BY <1>1
    <2>4. Made(copy) => Made([copy EXCEPT !.control = ControlItem(r)])
      BY <1>1, <2>2, <2>3 DEF Made, States
    <2> QED
      BY <2>1, <2>4, DamagedIsMade
  <1> QED
    BY <1>4, <1>5, <1>6, <1>7, <1>8, <1>9, <1>10, <1>11, <1>12, <1>13

\* A run is recorded as long as there is no copy.
LEMMA RecordingKeepsInv ==
    ASSUME CopiesInv, NEW r \in Runs, SealStart(r) \/ SealEvent(r) \/ SealEnd(r)
    PROVE  CopiesInv'
  <1>1. copy = NoCopy /\ UNCHANGED <<plan, copy, damage>>
    BY DEF SealStart, SealEvent, SealEnd, Recording, Append1
  <1>2. RunInv'
    <2>1. CASE SealStart(r)
      <3>1. PICK t \in plan.times : Append1(r, Envelope(r, "run_start", FALSE, FALSE, t))
        BY <2>1 DEF SealStart
      <3> QED
        BY <2>1, <3>1, SealKeepsRuns DEF SealStart, CopiesInv
    <2>2. CASE SealEvent(r)
      <3>1. PICK t \in plan.times, consequential \in BOOLEAN, asked \in BOOLEAN :
               Append1(r, Envelope(r, "event", consequential, asked, t))
        BY <2>2 DEF SealEvent
      <3> QED
        BY <2>2, <3>1, SealKeepsRuns DEF SealEvent, CopiesInv
    <2>3. CASE SealEnd(r)
      <3>1. PICK t \in plan.times : Append1(r, Envelope(r, "run_end", FALSE, FALSE, t))
        BY <2>3 DEF SealEnd
      <3> QED
        BY <2>3, <3>1, SealKeepsRuns DEF SealEnd, CopiesInv
    <2> QED
      BY <2>1, <2>2, <2>3
  <1>3. copy.events = <<>> /\ <<>> \in Seq(Items')
    BY <1>1, EmptySeq DEF NoCopy
  <1> QED
    BY <1>1, <1>2, <1>3 DEF CopiesInv, CopyInv, NoCopy, NoControl

\* A copy as it is handed out.
LEMMA HandOutKeepsInv ==
    ASSUME CopiesInv, NEW r \in Runs, HandOut(r)
    PROVE  CopiesInv'
  <1>1. copy' = Bundle(r) /\ UNCHANGED <<plan, sealed, coverage, damage>>
    BY DEF HandOut
  <1>2. RunInv' /\ Items' = Items
    BY <1>1, RunsKept DEF CopiesInv
  <1>4. Bundle(r).events \in Seq(Items)
    <2> DEFINE n == Len(sealed[r])
    <2>1. n \in Nat /\ DOMAIN sealed[r] = 1..n
      BY LenProperties DEF CopiesInv, RunInv
    <2>2. \A k \in 1..n : EventItem(sealed[r][k]) \in Items
      BY EventItemType DEF CopiesInv
    <2>3. Bundle(r).events = [k \in 1..n |-> EventItem(sealed[r][k])]
      BY <2>1 DEF Bundle
    <2> HIDE DEF n
    <2>4. Bundle(r).events \in [1..n -> Items]
      BY <2>2, <2>3
    <2> QED
      BY <2>1, <2>4
  <1>5. ControlItem(r) = [art |-> ControlArtifact(r), state |-> "intact", stamp |-> "valid",
                          digests |-> {}]
    BY DEF ControlItem, Item, ControlArtifact
  <1>6. /\ copy'.control = ControlItem(r) /\ copy'.events = Bundle(r).events
        /\ copy' = [control |-> copy'.control, events |-> copy'.events, payloads |-> copy'.payloads]
    BY <1>1 DEF Bundle
  <1>7. \A q \in Runs : ControlArtifact(q)' = ControlArtifact(q)
    BY DEF ControlArtifact, SigOf
  <1> QED
    BY <1>1, <1>2, <1>4, <1>5, <1>6, <1>7 DEF CopiesInv, CopyInv, States

(* The inductive invariant holds of every behaviour.                          *)
THEOREM CopiesInvariant == Spec => []CopiesInv
  <1>1. Init => CopiesInv
    <2> SUFFICES ASSUME Init
                 PROVE  CopiesInv
      OBVIOUS
    <2>1. copy = NoCopy /\ copy.events = <<>> /\ damage = 0 /\ plan.damage \in Nat
      BY CopiesAssumption DEF Init, NoCopy
    <2>2. copy = [control |-> copy.control, events |-> copy.events, payloads |-> copy.payloads]
      BY <2>1 DEF NoCopy
    <2> QED
      BY <2>1, <2>2, InitRuns, EmptySeq, CopiesAssumption DEF CopiesInv, CopyInv
  <1>2. CopiesInv /\ [Next]_vars => CopiesInv'
    <2> SUFFICES ASSUME CopiesInv, [Next]_vars
                 PROVE  CopiesInv'
      OBVIOUS
    <2>1. CASE \E r \in Runs : SealStart(r) \/ SealEvent(r) \/ SealEnd(r)
      BY <2>1, RecordingKeepsInv
    <2>2. CASE \E r \in Runs : HandOut(r)
      BY <2>2, HandOutKeepsInv
    <2>3. CASE UNCHANGED vars
      <3>1. UNCHANGED <<plan, sealed, coverage, copy, damage>>
        BY <2>3 DEF vars
      <3>2. RunInv' /\ Items' = Items
        BY <3>1, RunsKept DEF CopiesInv
      <3> QED
        BY <3>1, <3>2 DEF CopiesInv, CopyInv, NoCopy, NoControl, ControlArtifact, Item, SigOf
    <2>4. CASE \E r \in Runs : Refuse(r)
      BY <2>3, <2>4 DEF Refuse
    <2>5. CASE \/ Withhold \/ Repeat \/ Reorder \/ MixIn
               \/ DamageEvent \/ LoseStamp \/ LoseDigest \/ SupplyPayload
               \/ DamageControl \/ SwapControl
      BY <2>5, DamageKeepsInv
    <2> QED
      BY <2>1, <2>2, <2>3, <2>4, <2>5 DEF Next
  <1> QED
    BY <1>1, <1>2, PTL DEF Spec
---------------------------------------------------------------------------------
(* The verifier's order.                                                       *)

LEMMA ItemType ==
    ASSUME RunInv, NEW s \in Items
    PROVE  /\ s.art \in Artifacts /\ s.state \in States \ {"absent"} /\ s.stamp \in Stamps
           /\ s.digests \in {{}, s.art.objects}
           /\ s.stamp = "valid" => s.art.declared
           /\ \E r \in Runs : \E k \in 1..Len(sealed[r]) : s.art = sealed[r][k]
  <1>1. PICK r \in Runs : \E k \in 1..Len(sealed[r]) : s.art = sealed[r][k]
    BY DEF Items
  <1>2. PICK k \in 1..Len(sealed[r]) : s.art = sealed[r][k]
    BY <1>1
  <1>3. s.art \in Artifacts
    BY <1>2, ElementOfSeq DEF RunInv
  <1> QED
    BY <1>2, <1>3 DEF Items

\* sorted's order is total: by the seq that is signed, unreadable items last.
LEMMA BeforeIsTotal ==
    ASSUME RunInv, NEW events \in Seq(Items),
           NEW i \in 1..Len(events), NEW j \in 1..Len(events)
    PROVE  /\ ~Before(events, i, i)
           /\ i # j => Before(events, i, j) \/ Before(events, j, i)
           /\ \A k \in 1..Len(events) :
                 Before(events, i, j) /\ Before(events, j, k) => Before(events, i, k)
  <1>1. \A k \in 1..Len(events) : events[k].art.seq \in Nat
    BY ElementOfSeq, ItemType DEF Artifacts
  <1>2. Len(events) \in Nat
    BY LenProperties
  <1>3. \A k \in 1..Len(events) : Readable(events[k]) \in BOOLEAN
    BY DEF Readable
  <1> QED
    BY <1>1, <1>2, <1>3 DEF Before

\* So every item has a place of its own, and every place an item.
LEMMA PlacesAreTaken ==
    ASSUME RunInv, NEW events \in Seq(Items)
    PROVE  /\ \A i \in 1..Len(events) : Place(events, i) \in 1..Len(events)
           /\ \A i, j \in 1..Len(events) :
                 Before(events, i, j) => Place(events, i) < Place(events, j)
           /\ \A k \in 1..Len(events) : \E i \in 1..Len(events) : Place(events, i) = k
  <1> DEFINE n == Len(events)
             before(i) == {j \in 1..n : Before(events, j, i)}
             places == [i \in 1..n |-> Place(events, i)]
  <1>1. n \in Nat /\ DOMAIN events = 1..n /\ IsFiniteSet(1..n) /\ Cardinality(1..n) = n
    <2>1. n \in Nat /\ DOMAIN events = 1..n
      BY LenProperties
    <2> QED
      BY <2>1, CountTo
  <1>2. \A i \in 1..n : Place(events, i) = Cardinality(before(i)) + 1
    BY <1>1 DEF Place
  <1>3. ASSUME NEW i \in 1..n, NEW j \in 1..n
        PROVE  /\ i \notin before(i)
               /\ i # j => i \in before(j) \/ j \in before(i)
               /\ i \in before(j) => before(i) \subseteq before(j)
    BY BeforeIsTotal
  <1>4. \A i \in 1..n : before(i) \subseteq 1..n
    OBVIOUS
  <1> HIDE DEF before, n
  <1>5. ASSUME NEW i \in 1..n
        PROVE  /\ IsFiniteSet(before(i)) /\ Cardinality(before(i)) \in 0..(n - 1)
               /\ Place(events, i) \in 1..n
    <2>1. before(i) \subseteq (1..n) \ {i}
      BY <1>3, <1>4
    <2>2. IsFiniteSet((1..n) \ {i}) /\ Cardinality((1..n) \ {i}) = n - 1
      BY <1>1, FS_RemoveElement
    <2>3. IsFiniteSet(before(i)) /\ Cardinality(before(i)) <= n - 1
      BY <2>1, <2>2, FS_Subset
    <2>4. Cardinality(before(i)) \in Nat
      BY <2>3, FS_CardinalityType
    <2> QED
      BY <1>1, <1>2, <2>3, <2>4
  <1>6. ASSUME NEW i \in 1..n, NEW j \in 1..n, i \in before(j)
        PROVE  Place(events, i) < Place(events, j)
    <2>1. before(i) \subseteq before(j) \ {i}
      BY <1>3, <1>6
    <2>2. IsFiniteSet(before(j) \ {i}) /\ Cardinality(before(j) \ {i}) = Cardinality(before(j)) - 1
      BY <1>5, <1>6, FS_RemoveElement
    <2>3. Cardinality(before(i)) <= Cardinality(before(j)) - 1
      BY <2>1, <2>2, FS_Subset
    <2> QED
      BY <1>2, <1>5, <2>3
  <1>7. places \in Injection(1..n, 1..n)
    <2>1. places \in [1..n -> 1..n]
      BY <1>5
    <2>2. ASSUME NEW i \in 1..n, NEW j \in 1..n, i # j
          PROVE  places[i] # places[j]
      <3>1. i \in before(j) \/ j \in before(i)
        BY <1>3, <2>2
      <3>2. Place(events, i) < Place(events, j) \/ Place(events, j) < Place(events, i)
        BY <1>6, <3>1
      <3>3. Place(events, i) \in Int /\ Place(events, j) \in Int
        BY <1>1, <1>5
      <3> QED
        BY <3>2, <3>3
    <2> QED
      BY <2>1, <2>2 DEF Injection, IsInjective
  <1>8. places \in Surjection(1..n, 1..n)
    BY <1>1, <1>7, FS_Injection
  <1>9. \A k \in 1..n : \E i \in 1..n : Place(events, i) = k
    <2> HIDE DEF places
    <2>1. \A k \in 1..n : \E i \in 1..n : places[i] = k
      BY <1>8 DEF Surjection
    <2> QED
      BY <2>1 DEF places
  <1>10. \A i, j \in 1..n : Before(events, i, j) => Place(events, i) < Place(events, j)
    BY <1>6 DEF before
  <1> QED
    BY <1>5, <1>9, <1>10 DEF n

\* Arts is the copy's items, each once, in that order.
Sorting(events, p) ==
    LET n == Len(events)
    IN  /\ p \in [1..n -> 1..n]
        /\ \A i \in 1..n : \E k \in 1..n : p[k] = i
        /\ \A k, l \in 1..n : k < l => Before(events, p[k], p[l])

LEMMA ArtsAreSorted ==
    ASSUME RunInv, NEW c, c.events \in Seq(Items)
    PROVE  /\ Arts(c) \in Seq(Items) /\ Len(Arts(c)) = Len(c.events)
           /\ \E p \in [1..Len(c.events) -> 1..Len(c.events)] :
                 /\ Sorting(c.events, p)
                 /\ \A k \in 1..Len(c.events) : Arts(c)[k] = c.events[p[k]]
  <1> DEFINE n == Len(c.events)
             p == [k \in 1..n |-> CHOOSE i \in DOMAIN c.events : Place(c.events, i) = k]
  <1>1. n \in Nat /\ DOMAIN c.events = 1..n /\ \A i \in 1..n : c.events[i] \in Items
    BY LenProperties, ElementOfSeq
  <1>2. ASSUME NEW k \in 1..n
        PROVE  p[k] \in 1..n /\ Place(c.events, p[k]) = k
    BY <1>1, PlacesAreTaken
  <1>3. p \in [1..n -> 1..n]
    BY <1>2
  <1>4. Arts(c) = [k \in 1..n |-> c.events[p[k]]]
    BY <1>1 DEF Arts
  <1> HIDE DEF p
  <1>5. ASSUME NEW i \in 1..n
        PROVE  \E k \in 1..n : p[k] = i
    <2> DEFINE k == Place(c.events, i)
    <2>1. k \in 1..n /\ \A j \in 1..n : Place(c.events, j) = k => j = i
      <3>1. \A j \in 1..n : Place(c.events, j) \in 1..n
        BY PlacesAreTaken
      <3>2. \A j, l \in 1..n : Before(c.events, j, l) => Place(c.events, j) < Place(c.events, l)
        BY PlacesAreTaken
      <3>3. \A j \in 1..n : i # j => Before(c.events, i, j) \/ Before(c.events, j, i)
        BY BeforeIsTotal
      <3> HIDE DEF n
      <3>4. ASSUME NEW j \in 1..n, Place(c.events, j) = k, j # i
            PROVE  FALSE
        <4>1. Before(c.events, i, j) \/ Before(c.events, j, i)
          BY <3>3, <3>4
        <4>2. Place(c.events, i) < Place(c.events, j) \/ Place(c.events, j) < Place(c.events, i)
          BY <3>2, <4>1
        <4>3. Place(c.events, i) \in Int /\ Place(c.events, j) = Place(c.events, i)
          BY <1>1, <3>1, <3>4
        <4> QED
          BY <4>2, <4>3
      <3> QED
        BY <3>1, <3>4
    <2>2. p[k] = i
      BY <1>2, <2>1
    <2> QED
      BY <2>1, <2>2
  <1>6. ASSUME NEW k \in 1..n, NEW l \in 1..n, k < l
        PROVE  Before(c.events, p[k], p[l])
    <2>1. p[k] # p[l]
      BY <1>2, <1>6
    <2>2. ~Before(c.events, p[l], p[k])
      <3>1. Before(c.events, p[l], p[k]) => Place(c.events, p[l]) < Place(c.events, p[k])
        BY <1>2, PlacesAreTaken
      <3> QED
        BY <1>2, <1>6, <3>1
    <2> QED
      BY <1>2, <2>1, <2>2, BeforeIsTotal
  <1>7. Arts(c) \in [1..n -> Items]
    BY <1>1, <1>2, <1>4
  <1>8. Arts(c) \in Seq(Items) /\ Len(Arts(c)) = n
    BY <1>1, <1>7, LenProperties
  <1>9. Sorting(c.events, p)
    BY <1>3, <1>5, <1>6 DEF Sorting
  <1> QED
    BY <1>3, <1>4, <1>8, <1>9
---------------------------------------------------------------------------------
(* Copies that pass.                                                           *)

\* In the verifier's order the copy is the first events of r, undamaged.
Undamaged(r, s) ==
    /\ s.state = "intact" /\ ObjectsComplete(s, copy.payloads)
    /\ s.stamp \in IF s.art.declared THEN {"valid"} ELSE {"none", "valid"}

Matches(r) ==
    /\ Len(copy.events) <= Len(sealed[r])
    /\ copy.control = ControlItem(r)
    /\ \A k \in 1..Len(copy.events) : /\ Arts(copy)[k].art = sealed[r][k]
                                      /\ Undamaged(r, Arts(copy)[k])
    /\ \A p \in copy.payloads :
          \E k \in 1..Len(copy.events) : \E o \in sealed[r][k].objects : o[1] = p[1]

LEMMA AllGood ==
    ASSUME NEW S, NEW arts \in Seq(S), \A k \in 1..Len(arts) : Readable(arts[k])
    PROVE  Good(arts) = arts
  <1>1. Len(arts) \in Nat /\ DOMAIN arts = 1..Len(arts)
    BY LenProperties
  <1>2. {k \in DOMAIN arts : Readable(arts[k])} = 1..Len(arts)
    BY <1>1
  <1>3. Good(arts) = SubSeq(arts, 1, Len(arts))
    BY <1>1, <1>2, CountTo DEF Good
  <1> QED
    BY <1>3, SubSeqFull

\* What holds of the copy's items holds of them in the verifier's order, and back.
LEMMA ArtsAreTheEvents ==
    ASSUME CopiesInv
    PROVE  LET n == Len(copy.events)
           IN  /\ n \in Nat /\ DOMAIN copy.events = 1..n /\ DOMAIN Arts(copy) = 1..n
               /\ Arts(copy) \in Seq(Items) /\ Len(Arts(copy)) = n
               /\ \A k \in 1..n : Arts(copy)[k] \in Items
               /\ \A k \in 1..n : \E i \in 1..n : Arts(copy)[k] = copy.events[i]
               /\ \A i \in 1..n : \E k \in 1..n : copy.events[i] = Arts(copy)[k]
  <1> DEFINE n == Len(copy.events)
  <1>1. RunInv /\ copy.events \in Seq(Items)
    BY DEF CopiesInv, CopyInv
  <1>2. n \in Nat /\ DOMAIN copy.events = 1..n
    BY <1>1, LenProperties
  <1>3. Arts(copy) \in Seq(Items) /\ Len(Arts(copy)) = n
    BY <1>1, ArtsAreSorted
  <1>4. PICK p \in [1..n -> 1..n] : /\ Sorting(copy.events, p)
                                    /\ \A k \in 1..n : Arts(copy)[k] = copy.events[p[k]]
    BY <1>1, ArtsAreSorted
  <1>5. \A i \in 1..n : \E k \in 1..n : p[k] = i
    BY <1>4 DEF Sorting
  <1>6. DOMAIN Arts(copy) = 1..n /\ \A k \in 1..n : Arts(copy)[k] \in Items
    BY <1>3, LenProperties, ElementOfSeq
  <1> HIDE DEF n
  <1>7. \A k \in 1..n : \E i \in 1..n : Arts(copy)[k] = copy.events[i]
    BY <1>4
  <1>8. ASSUME NEW i \in 1..n
        PROVE  \E k \in 1..n : copy.events[i] = Arts(copy)[k]
    <2>1. PICK k \in 1..n : p[k] = i
      BY <1>5
    <2>2. Arts(copy)[k] = copy.events[p[k]]
      BY <1>4
    <2> QED
      BY <2>1, <2>2
  <1> QED
    BY <1>2, <1>3, <1>6, <1>7, <1>8 DEF n

\* A copy that passes has the Control Artifact of the run its events are from.
LEMMA PassingControl ==
    ASSUME CopiesInv, ControlOk(copy, Arts(copy))
    PROVE  \E r \in Runs : copy.control = ControlItem(r)
  <1>1. /\ copy.control.state \notin {"unreadable", "absent"}
        /\ copy.control.state # "envelope_changed" /\ copy.control.state # "signature_broken"
    BY DEF ControlOk, Readable, ObjectsComplete, SignatureValid
  <1>2. copy # NoCopy
    BY <1>1 DEF NoCopy, NoControl, Item
  <1>3. PICK r \in Runs, state \in States :
           copy.control = [art |-> ControlArtifact(r), state |-> state, stamp |-> "valid",
                           digests |-> {}]
    BY <1>2 DEF CopiesInv, CopyInv
  <1>4. state = "intact"
    BY <1>1, <1>3 DEF States
  <1> QED
    BY <1>3, <1>4 DEF ControlItem, Item, ControlArtifact

\* Each event of a copy that passes is undamaged, and where it says it is.
LEMMA PassingItems ==
    ASSUME CopiesInv, NEW r \in Runs, copy.control = ControlItem(r),
           RunVerdict(copy) # "run_invalid", NEW k \in 1..Len(copy.events)
    PROVE  LET s == Arts(copy)[k]
           IN  /\ Undamaged(r, s) /\ s.art.run = r /\ s.art.seq + 1 \in 1..Len(sealed[r])
               /\ s.art = sealed[r][s.art.seq + 1] /\ RecordedAs(r, s.art.seq + 1)
  <1> DEFINE arts == Arts(copy)
             n == Len(copy.events)
             s == arts[k]
  <1>1. /\ CorrelationOk(arts) /\ SequenceOk(arts) /\ ChainOk(arts)
        /\ SignaturesOk(copy, arts) /\ ObjectsOk(copy, arts) /\ ControlOk(copy, arts)
        /\ TimestampsOk(copy, arts)
    BY DEF RunVerdict
  <1>2. /\ n \in Nat /\ DOMAIN arts = 1..n /\ arts \in Seq(Items) /\ Len(arts) = n
        /\ \A i \in 1..n : arts[i] \in Items
    BY ArtsAreTheEvents
  <1> HIDE DEF arts, n
  <1>3. \A i \in 1..n : Readable(arts[i])
    BY <1>1, <1>2 DEF ChainOk
  <1>4. Good(arts) = arts
    BY <1>2, <1>3, AllGood
  <1>5. k \in 1..n
    BY DEF n
  <1>6. s \in Items /\ RunInv
    BY <1>2, <1>5 DEF CopiesInv
  <1>7. Undamaged(r, s)
    <2>1. s \in {arts[i] : i \in DOMAIN arts}
      BY <1>2, <1>5
    <2>2. ObjectsComplete(s, copy.payloads)
      BY <1>1, <2>1 DEF ObjectsOk
    <2>3. SignatureValid(s) /\ Readable(s)
      BY <1>1, <2>1 DEF SignaturesOk
    <2>4. s.state \in States \ {"absent"} /\ s.stamp \in Stamps
      BY <1>6, ItemType
    <2>5. s.state = "intact"
      BY <2>2, <2>3, <2>4 DEF States, ObjectsComplete, SignatureValid, Readable
    <2>6. s.stamp # "invalid"
      BY <1>1, <1>2, <1>5 DEF TimestampsOk
    <2>7. s.art.declared => s.stamp = "valid"
      BY <1>1, <1>2, <1>5 DEF TimestampsOk, RequiredAt, Required, StampValid
    <2> QED
      BY <2>2, <2>4, <2>5, <2>6, <2>7 DEF Undamaged, Stamps
  <1>8. s.art.run = r
    <2>1. HasReference(arts)
      <3>1. arts # <<>> /\ 1 \in 1..n
        BY <1>2, <1>5, EmptySeq
      <3> QED
        BY <1>3, <3>1 DEF HasReference
    <2>2. Reference(arts).run = r
      BY <1>1, <2>1 DEF ControlOk, ControlItem, Item, ControlArtifact
    <2>3. PICK i \in 1..n : OfType(arts, "run_start") = {i}
      BY <1>1, <1>2, <2>1 DEF SequenceOk, HasReference
    <2>4. Cardinality(OfType(arts, "run_start")) = 1
      BY <2>3, FS_Singleton
    <2>5. Reference(arts) = arts[i].art
      BY <2>3, <2>4 DEF Reference
    <2> QED
      BY <1>1, <1>2, <1>4, <1>5, <2>2, <2>3, <2>5 DEF CorrelationOk
  <1>9. /\ s.art.seq + 1 \in 1..Len(sealed[r]) /\ s.art = sealed[r][s.art.seq + 1]
        /\ RecordedAs(r, s.art.seq + 1)
    <2>1. PICK q \in Runs : \E m \in 1..Len(sealed[q]) : s.art = sealed[q][m]
      BY <1>6, ItemType
    <2>2. PICK m \in 1..Len(sealed[q]) : s.art = sealed[q][m]
      BY <2>1
    <2>3. RecordedAs(q, m)
      BY <1>6 DEF RunInv
    <2>4. q = r /\ m = s.art.seq + 1
      <3>1. s.art.run = q /\ s.art.seq = m - 1
        BY <2>2, <2>3 DEF RecordedAs
      <3>2. Len(sealed[q]) \in Nat
        BY <1>6, LenProperties DEF RunInv
      <3> QED
        BY <1>8, <3>1, <3>2
    <2> QED
      BY <2>2, <2>3, <2>4
  <1> QED
    BY <1>7, <1>8, <1>9 DEF arts

\* The links and run_start put the k-th event of the copy at position k.
LEMMA PassingPlaces ==
    ASSUME CopiesInv, NEW r \in Runs, copy.control = ControlItem(r),
           RunVerdict(copy) # "run_invalid"
    PROVE  \A k \in 1..Len(copy.events) : Arts(copy)[k].art.seq = k - 1
  <1> DEFINE arts == Arts(copy)
             n == Len(copy.events)
             S == {k \in 0..n : k = 0 \/ arts[k].art.seq = k - 1}
  <1>1. SequenceOk(arts) /\ ChainOk(arts)
    BY DEF RunVerdict
  <1>2. n \in Nat /\ DOMAIN arts = 1..n /\ \A i \in 1..n : arts[i] \in Items
    BY ArtsAreTheEvents
  <1>3. \A k \in 1..n : arts[k].art.seq \in Nat /\ (arts[k].art.seq = 0 => arts[k].art.type = "run_start")
    <2>1. ASSUME NEW k \in 1..n
          PROVE  /\ arts[k].art \in Artifacts
                 /\ arts[k].art = sealed[r][arts[k].art.seq + 1] /\ RecordedAs(r, arts[k].art.seq + 1)
      BY <1>2, PassingItems, ItemType DEF CopiesInv
    <2>2. ASSUME NEW k \in 1..n
          PROVE  arts[k].art.seq \in Nat
      BY <2>1 DEF Artifacts
    <2>3. ASSUME NEW k \in 1..n, arts[k].art.seq = 0
          PROVE  arts[k].art.type = "run_start"
      <3>1. arts[k].art = sealed[r][1] /\ RecordedAs(r, 1)
        BY <2>1, <2>3
      <3> QED
        BY <3>1 DEF RecordedAs
    <2> QED
      BY <2>2, <2>3
  <1>4. \A k \in 1..n : LinkOk(arts, k) /\ Readable(arts[k])
    BY <1>1, <1>2 DEF ChainOk
  <1>5. n > 0 => \E i \in 1..n : OfType(arts, "run_start") = {i}
    <2>1. n > 0 => arts # <<>>
      BY <1>2, EmptySeq, ArtsAreTheEvents
    <2> QED
      BY <1>1, <1>2, <2>1 DEF SequenceOk
  <1> HIDE DEF arts, n
  <1>6. ASSUME NEW k \in 0..(n - 1), k \in S
        PROVE  k + 1 \in S
    <2>1. k + 1 \in 1..n
      BY <1>2
    <2>2. arts[k + 1].art.seq \in Nat /\ LinkOk(arts, k + 1)
      BY <1>3, <1>4, <2>1
    <2>3. CASE k = 0
      BY <2>1, <2>2, <2>3 DEF LinkOk
    <2>4. CASE k # 0
      <3>1. k \in 1..n /\ arts[k].art.seq = k - 1 /\ 1 \in 1..n
        BY <1>2, <1>6, <2>4
      <3>2. arts[k + 1].art.seq # 0
        <4>1. SUFFICES ASSUME arts[k + 1].art.seq = 0
                       PROVE  FALSE
          OBVIOUS
        <4>2. k + 1 \in OfType(arts, "run_start")
          BY <1>2, <1>3, <1>4, <2>1, <4>1 DEF OfType
        <4>3. arts[1].art.seq = 0
          BY <1>3, <1>4, <3>1 DEF LinkOk
        <4>4. 1 \in OfType(arts, "run_start")
          BY <1>2, <1>3, <1>4, <3>1, <4>3 DEF OfType
        <4> QED
          BY <1>2, <1>5, <2>1, <2>4, <4>2, <4>4
      <3>3. arts[k].art.seq = arts[k + 1].art.seq - 1
        BY <2>1, <2>2, <3>2 DEF LinkOk
      <3> QED
        BY <2>1, <2>2, <3>1, <3>3
    <2> QED
      BY <2>3, <2>4
  <1>7. 0 \in S
    BY <1>2
  <1>8. 0..n \subseteq S
    <2> HIDE DEF S
    <2> QED
      BY <1>2, <1>6, <1>7, UpTo
  <1>9. \A k \in 1..n : arts[k].art.seq = k - 1
    BY <1>2, <1>8
  <1> QED
    BY <1>9 DEF arts, n

LEMMA PassingMatches ==
    ASSUME CopiesInv, RunVerdict(copy) # "run_invalid"
    PROVE  \E r \in Runs : Matches(r)
  <1> DEFINE arts == Arts(copy)
             n == Len(copy.events)
  <1>1. ObjectsOk(copy, arts) /\ ControlOk(copy, arts)
    BY DEF RunVerdict
  <1>2. PICK r \in Runs : copy.control = ControlItem(r)
    BY <1>1, PassingControl
  <1>3. n \in Nat /\ DOMAIN arts = 1..n
    BY ArtsAreTheEvents
  <1>4. ASSUME NEW k \in 1..n
        PROVE  arts[k].art = sealed[r][k] /\ Undamaged(r, arts[k]) /\ k \in 1..Len(sealed[r])
    <2>1. arts[k].art.seq = k - 1 /\ k \in Int
      BY <1>2, <1>3, PassingPlaces
    <2>2. /\ Undamaged(r, arts[k]) /\ arts[k].art.seq + 1 \in 1..Len(sealed[r])
          /\ arts[k].art = sealed[r][arts[k].art.seq + 1]
      BY <1>2, PassingItems
    <2>3. arts[k].art.seq + 1 = k
      BY <2>1
    <2> QED
      BY <2>2, <2>3
  <1> HIDE DEF arts, n
  <1>5. Len(sealed[r]) \in Nat
    BY LenProperties DEF CopiesInv, RunInv
  <1>6. n <= Len(sealed[r])
    BY <1>3, <1>4, <1>5
  <1>7. ASSUME NEW p \in copy.payloads
        PROVE  \E k \in 1..n : \E o \in sealed[r][k].objects : o[1] = p[1]
    <2>1. Readable(copy.control) /\ copy.control.art.objects = {}
      BY <1>2 DEF ControlItem, ControlArtifact, Item, Readable
    <2>2. PICK s \in {arts[k] : k \in DOMAIN arts} \cup {copy.control} :
             \E o \in s.art.objects : o[1] = p[1]
      BY <1>1, <2>1 DEF ObjectsOk
    <2>3. PICK k \in 1..n : s = arts[k]
      BY <1>3, <2>1, <2>2
    <2> QED
      BY <1>4, <2>2, <2>3
  <1> QED
    BY <1>2, <1>4, <1>6, <1>7 DEF Matches, arts, n

\* Matching copies are prefixes.
LEMMA MatchingIsPrefix ==
    ASSUME CopiesInv, NEW r \in Runs, Matches(r)
    PROVE  Len(copy.events) \in 0..Len(sealed[r]) /\ IsPrefix(copy, r, Len(copy.events))
  <1> DEFINE arts == Arts(copy)
             n == Len(copy.events)
  <1>1. /\ n \in Nat /\ DOMAIN copy.events = 1..n
        /\ \A k \in 1..n : \E i \in 1..n : arts[k] = copy.events[i]
        /\ \A i \in 1..n : \E k \in 1..n : copy.events[i] = arts[k]
    BY ArtsAreTheEvents
  <1>2. /\ n <= Len(sealed[r])
        /\ \A k \in 1..n : arts[k].art = sealed[r][k] /\ Undamaged(r, arts[k])
        /\ copy.control = ControlItem(r)
        /\ \A p \in copy.payloads : \E k \in 1..n : \E o \in sealed[r][k].objects : o[1] = p[1]
    BY DEF Matches
  <1> HIDE DEF arts, n
  <1>3. n \in 0..Len(sealed[r])
    <2>1. Len(sealed[r]) \in Nat
      BY LenProperties DEF CopiesInv, RunInv
    <2> QED
      BY <1>1, <1>2, <2>1
  <1>4. \A i \in 1..n : Undamaged(r, copy.events[i])
    BY <1>1, <1>2
  <1>5. \A i \in 1..n : /\ IntactItem(copy.events[i], copy.payloads)
                        /\ copy.events[i].stamp \in IF copy.events[i].art.declared
                                                    THEN {"valid"} ELSE {"none", "valid"}
    BY <1>4 DEF Undamaged, IntactItem, ObjectsComplete
  <1>6. copy.control.state = "intact" /\ copy.control.art.run = r
    BY <1>2 DEF ControlItem, Item, ControlArtifact
  <1>7. ASSUME NEW k \in 1..n
        PROVE  \E i \in 1..n : copy.events[i].art = sealed[r][k]
    <2>1. PICK i \in 1..n : arts[k] = copy.events[i]
      BY <1>1
    <2> QED
      BY <1>2, <2>1
  <1>8. IsPrefix(copy, r, n)
    BY <1>1, <1>2, <1>5, <1>6, <1>7 DEF IsPrefix, n
  <1> QED
    BY <1>3, <1>8 DEF n

LEMMA MatchingIs ==
    ASSUME CopiesInv, NEW r \in Runs, Matches(r)
    PROVE  LET n == Len(copy.events)
           IN  IF n > 0 /\ sealed[r][n].type = "run_end" THEN Is(copy, "whole")
                                                         ELSE Is(copy, "prefix")
  BY MatchingIsPrefix DEF Is

(* A copy passes only if it is an undamaged prefix of one run, with that run's *)
(* Control Artifact (verify_agent_run), whatever was lost, repeated, reordered, *)
(* mixed in or damaged on the way.                                             *)
THEOREM PassingCopiesArePrefixes == Spec => []OnlyPrefixesPass
  <1>1. CopiesInv => OnlyPrefixesPass
    BY PassingMatches, MatchingIs DEF OnlyPrefixesPass
  <1> QED
    BY <1>1, CopiesInvariant, PTL
---------------------------------------------------------------------------------
(* Copies of prefixes.                                                         *)

LEMMA RecordedSeqs ==
    ASSUME RunInv, NEW r \in Runs, NEW n \in 0..Len(sealed[r])
    PROVE  n \in Nat /\ \A k \in 1..n : sealed[r][k].seq = k - 1
  <1>1. Len(sealed[r]) \in Nat
    BY LenProperties DEF RunInv
  <1>2. ASSUME NEW k \in 1..n
        PROVE  sealed[r][k].seq = k - 1
    <2>1. k \in 1..Len(sealed[r])
      BY <1>1
    <2>2. RecordedAs(r, k)
      BY <2>1 DEF RunInv
    <2> QED
      BY <2>2 DEF RecordedAs
  <1> QED
    BY <1>1, <1>2

\* A bundle that has each event of a prefix once, and nothing else: the
\* verifier's order is the run's.
LEMMA PrefixItems ==
    ASSUME CopiesInv, NEW r \in Runs, NEW n \in 0..Len(sealed[r]), IsPrefix(copy, r, n)
    PROVE  \A i \in 1..n : /\ \E m \in 1..n : copy.events[i].art = sealed[r][m]
                           /\ \A j \in 1..n : copy.events[i].art.seq = copy.events[j].art.seq => i = j
                           /\ Undamaged(r, copy.events[i])
  <1> DEFINE events == copy.events
  <1>1. n = Len(events)
    BY DEF IsPrefix
  <1>2. RunInv /\ events \in Seq(Items) /\ Len(sealed[r]) \in Nat /\ DOMAIN events = 1..n
    BY <1>1, LenProperties DEF CopiesInv, CopyInv, RunInv
  <1>3. /\ \A k \in 1..n : \E i \in 1..n : events[i].art = sealed[r][k]
        /\ \A k, i \in 1..n : events[i].art = sealed[r][k] =>
              /\ IntactItem(events[i], copy.payloads)
              /\ events[i].stamp \in IF sealed[r][k].declared THEN {"valid"} ELSE {"none", "valid"}
    BY <1>2 DEF IsPrefix
  <1>4. \A k \in 1..n : sealed[r][k].seq = k - 1
    BY <1>2, RecordedSeqs
  <1>5. \A i \in 1..n : events[i] \in Items
    BY <1>1, <1>2, ElementOfSeq
  <1> HIDE DEF events
  <1> DEFINE f == [k \in 1..n |-> CHOOSE i \in 1..n : events[i].art = sealed[r][k]]
  <1>6. \A k \in 1..n : f[k] \in 1..n /\ events[f[k]].art = sealed[r][k]
    BY <1>3
  <1>7. f \in [1..n -> 1..n]
    BY <1>6
  <1> HIDE DEF f
  <1>8. f \in Surjection(1..n, 1..n)
    <2>1. ASSUME NEW k \in 1..n, NEW l \in 1..n, k # l
          PROVE  f[k] # f[l]
      <3>1. sealed[r][k].seq # sealed[r][l].seq
        BY <1>4, <2>1
      <3> QED
        BY <1>6, <3>1
    <2>2. f \in Injection(1..n, 1..n)
      BY <1>7, <2>1 DEF Injection, IsInjective
    <2> QED
      BY <2>2, CountTo, FS_Injection
  <1>9. \A i \in 1..n : \E m \in 1..n : f[m] = i
    BY <1>8 DEF Surjection
  <1>10. ASSUME NEW i \in 1..n
         PROVE  /\ \E m \in 1..n : events[i].art = sealed[r][m]
                /\ \A j \in 1..n : events[i].art.seq = events[j].art.seq => i = j
                /\ Undamaged(r, events[i])
    <2>1. PICK m \in 1..n : f[m] = i
      BY <1>9
    <2>2. events[i].art = sealed[r][m] /\ events[i].art.seq = m - 1
      BY <1>4, <1>6, <2>1
    <2>3. ASSUME NEW j \in 1..n, events[i].art.seq = events[j].art.seq
          PROVE  i = j
      <3>1. PICK l \in 1..n : f[l] = j
        BY <1>9
      <3>2. events[j].art.seq = l - 1
        BY <1>4, <1>6, <3>1
      <3> QED
        BY <2>1, <2>2, <2>3, <3>1, <3>2
    <2>4. /\ IntactItem(events[i], copy.payloads)
          /\ events[i].stamp \in IF events[i].art.declared THEN {"valid"} ELSE {"none", "valid"}
      BY <1>3, <2>2
    <2>5. events[i].digests \in {{}, events[i].art.objects}
      BY <1>2, <1>5, ItemType
    <2>6. ObjectsComplete(events[i], copy.payloads)
      BY <2>4, <2>5 DEF ObjectsComplete, IntactItem
    <2> QED
      BY <2>2, <2>3, <2>4, <2>6 DEF Undamaged, IntactItem
  <1> QED
    BY <1>10 DEF events

LEMMA PrefixPlaces ==
    ASSUME CopiesInv, NEW r \in Runs, NEW n \in 0..Len(sealed[r]), IsPrefix(copy, r, n)
    PROVE  \A k \in 1..n : Arts(copy)[k].art = sealed[r][k] /\ Undamaged(r, Arts(copy)[k])
  <1> DEFINE arts == Arts(copy)
             events == copy.events
  <1>1. n = Len(events)
    BY DEF IsPrefix
  <1>2. RunInv /\ events \in Seq(Items) /\ n \in Nat
    BY <1>1, LenProperties DEF CopiesInv, CopyInv
  <1>3. PICK p \in [1..n -> 1..n] : /\ Sorting(events, p)
                                    /\ \A k \in 1..n : arts[k] = events[p[k]]
    BY <1>1, <1>2, ArtsAreSorted
  <1>4. \A k, l \in 1..n : k < l => Before(events, p[k], p[l])
    BY <1>1, <1>3 DEF Sorting
  <1>5. ASSUME NEW i \in 1..n
        PROVE  /\ \E m \in 1..n : events[i].art = sealed[r][m]
               /\ \A j \in 1..n : events[i].art.seq = events[j].art.seq => i = j
               /\ Undamaged(r, events[i])
    BY PrefixItems
  <1>6. \A i \in 1..n : Readable(events[i])
    BY <1>5 DEF Undamaged, Readable
  <1>7. \A k \in 1..n : sealed[r][k].seq = k - 1
    BY <1>2, RecordedSeqs
  <1> DEFINE q == [k \in 1..n |-> arts[k].art.seq + 1]
  <1>8. \A k \in 1..n : q[k] = arts[k].art.seq + 1
    OBVIOUS
  <1> HIDE DEF arts, events, q
  <1>9. ASSUME NEW k \in 1..n
        PROVE  /\ q[k] \in 1..n /\ arts[k].art = sealed[r][q[k]] /\ arts[k].art.seq \in Int
               /\ p[k] \in 1..n /\ Undamaged(r, arts[k])
    <2>1. p[k] \in 1..n /\ arts[k] = events[p[k]]
      BY <1>3
    <2>2. PICK m \in 1..n : arts[k].art = sealed[r][m]
      <3>1. \E m \in 1..n : events[p[k]].art = sealed[r][m]
        BY <1>5, <2>1
      <3> QED
        BY <2>1, <3>1
    <2>3. arts[k].art.seq = m - 1
      BY <1>7, <2>2
    <2>4. q[k] = m /\ arts[k].art.seq \in Int
      <3>1. m - 1 + 1 = m /\ m - 1 \in Int
        BY <1>2
      <3>2. arts[k].art.seq + 1 = m /\ arts[k].art.seq \in Int
        BY <2>3, <3>1, Zenon
      <3> QED
        BY <1>8, <3>2
    <2>5. Undamaged(r, arts[k])
      BY <1>5, <2>1
    <2> QED
      BY <2>1, <2>2, <2>4, <2>5
  <1>10. ASSUME NEW k \in 1..n, NEW l \in 1..n, k < l
         PROVE  q[k] < q[l]
    <2>1. /\ Before(events, p[k], p[l]) /\ p[k] \in 1..n /\ p[l] \in 1..n
          /\ arts[k] = events[p[k]] /\ arts[l] = events[p[l]]
      BY <1>3, <1>4, <1>9, <1>10
    <2>2. Readable(events[p[k]]) /\ Readable(events[p[l]])
      BY <1>6, <2>1
    <2>3. \/ arts[k].art.seq < arts[l].art.seq
          \/ arts[k].art.seq = arts[l].art.seq /\ p[k] < p[l]
      BY <2>1, <2>2 DEF Before
    <2>4. arts[k].art.seq = arts[l].art.seq => p[k] = p[l]
      <3>1. events[p[k]].art.seq = events[p[l]].art.seq => p[k] = p[l]
        BY <1>5, <2>1
      <3> QED
        BY <2>1, <3>1
    <2>5. arts[k].art.seq < arts[l].art.seq
      BY <2>1, <2>3, <2>4
    <2>6. arts[k].art.seq \in Int /\ arts[l].art.seq \in Int
      BY <1>9
    <2>7. arts[k].art.seq + 1 < arts[l].art.seq + 1
      <3>1. \A a, b \in Int : a < b => a + 1 < b + 1
        OBVIOUS
      <3> QED
        BY <2>5, <2>6, <3>1, Zenon
    <2> QED
      BY <1>8, <2>7
  <1>11. \A k \in 1..n : q[k] = k
    <2>1. q \in [1..n -> 1..n]
      BY <1>9 DEF q
    <2> QED
      BY <1>2, <1>10, <2>1, IncreasingIsIdentity
  <1>12. \A k \in 1..n : arts[k].art = sealed[r][k] /\ Undamaged(r, arts[k])
    BY <1>9, <1>11
  <1> QED
    BY <1>12 DEF arts

LEMMA PrefixMatches ==
    ASSUME CopiesInv, NEW r \in Runs, NEW n \in 0..Len(sealed[r]), IsPrefix(copy, r, n)
    PROVE  Matches(r) /\ n = Len(copy.events)
  <1>1. /\ n = Len(copy.events)
        /\ copy.control.state = "intact" /\ copy.control.art.run = r
        /\ \A p \in copy.payloads : \E k \in 1..n : \E o \in sealed[r][k].objects : o[1] = p[1]
    BY DEF IsPrefix
  <1>2. copy # NoCopy
    BY <1>1 DEF NoCopy, NoControl, Item
  <1>3. PICK q \in Runs, state \in States :
           copy.control = [art |-> ControlArtifact(q), state |-> state, stamp |-> "valid",
                           digests |-> {}]
    BY <1>2 DEF CopiesInv, CopyInv
  <1>4. copy.control = ControlItem(r)
    <2>1. state = "intact" /\ q = r
      BY <1>1, <1>3 DEF ControlArtifact
    <2> QED
      BY <1>3, <2>1 DEF ControlItem, Item, ControlArtifact
  <1>5. n <= Len(sealed[r])
    <2>1. Len(sealed[r]) \in Nat
      BY LenProperties DEF CopiesInv, RunInv
    <2> QED
      BY <2>1
  <1> QED
    BY <1>1, <1>4, <1>5, PrefixPlaces DEF Matches
---------------------------------------------------------------------------------
(* The checks of a matching copy.                                              *)

LEMMA MatchedItems ==
    ASSUME CopiesInv, NEW r \in Runs, Matches(r)
    PROVE  LET arts == Arts(copy)
               n    == Len(copy.events)
           IN  /\ n \in Nat /\ DOMAIN arts = 1..n /\ Good(arts) = arts /\ Len(arts) = n
               /\ n > 0 => arts # <<>>
               /\ \A k \in 1..n : /\ arts[k].art = sealed[r][k] /\ RecordedAs(r, k)
                                  /\ k \in 1..Len(sealed[r]) /\ arts[k] \in Items
                                  /\ Undamaged(r, arts[k])
                                  /\ Readable(arts[k]) /\ SignatureValid(arts[k])
               /\ \A p \in copy.payloads :
                     \E k \in 1..n : \E o \in sealed[r][k].objects : o[1] = p[1]
  <1> DEFINE arts == Arts(copy)
             n    == Len(copy.events)
  <1>1. /\ n \in Nat /\ DOMAIN arts = 1..n /\ arts \in Seq(Items) /\ Len(arts) = n
        /\ \A k \in 1..n : arts[k] \in Items
    BY ArtsAreTheEvents
  <1>2. n <= Len(sealed[r]) /\ Len(sealed[r]) \in Nat
    BY LenProperties DEF Matches, CopiesInv, RunInv
  <1>3. /\ \A k \in 1..n : arts[k].art = sealed[r][k] /\ Undamaged(r, arts[k])
        /\ \A p \in copy.payloads : \E k \in 1..n : \E o \in sealed[r][k].objects : o[1] = p[1]
    BY DEF Matches
  <1> HIDE DEF arts, n
  <1>4. ASSUME NEW k \in 1..n
        PROVE  k \in 1..Len(sealed[r]) /\ RecordedAs(r, k)
    BY <1>1, <1>2 DEF CopiesInv, RunInv
  <1>5. \A k \in 1..n : Readable(arts[k]) /\ SignatureValid(arts[k])
    BY <1>3 DEF Undamaged, Readable, SignatureValid
  <1>6. Good(arts) = arts
    BY <1>1, <1>5, AllGood
  <1>7. n > 0 => arts # <<>>
    BY <1>1, EmptySeq
  <1> QED
    BY <1>1, <1>3, <1>4, <1>5, <1>6, <1>7 DEF arts, n

\* The walk over the sequence numbers, in ascending order: what it has found
\* after k events.
Next1(good, p, k) ==
    LET seq == good[k].art.seq
    IN  IF seq < p.expected
        THEN [p EXCEPT !.ok = FALSE]
        ELSE [expected |-> seq + 1,
              missing  |-> p.missing \cup Listed(p.missing, p.expected, seq),
              ok       |-> p.ok /\ p.expected = seq]

SeqsOf(good, k) == {good[j].art.seq : j \in 1..k}

Absent(seqs) == (UNION {0..(s - 1) : s \in seqs}) \ seqs

Found(good, k) ==
    [expected |-> IF k = 0 THEN 0 ELSE good[k].art.seq + 1,
     missing  |-> Lowest(Absent(SeqsOf(good, k)), MaxMissingListed),
     ok       |-> \A j \in 1..k : good[j].art.seq = j - 1]

Ascending(good) ==
    /\ \A k \in 1..Len(good) : good[k].art.seq \in Nat
    /\ \A j, k \in 1..Len(good) : j < k => good[j].art.seq <= good[k].art.seq

LEMMA AbsentIs ==
    ASSUME NEW seqs, NEW x
    PROVE  x \in Absent(seqs) <=> x \notin seqs /\ \E s \in seqs : x \in 0..(s - 1)
  <1> DEFINE below == UNION {0..(s - 1) : s \in seqs}
  <1>1. x \in below <=> \E s \in seqs : x \in 0..(s - 1)
    OBVIOUS
  <1>2. Absent(seqs) = below \ seqs
    BY DEF Absent
  <1> HIDE DEF below
  <1> QED
    BY <1>1, <1>2

LEMMA FindingGoesOn ==
    ASSUME NEW good, Len(good) \in Nat, Ascending(good), NEW k \in 1..Len(good)
    PROVE  Next1(good, Found(good, k - 1), k) = Found(good, k)
  <1> DEFINE seq == good[k].art.seq
             before == SeqsOf(good, k - 1)
             e == Found(good, k - 1).expected
             allowed == \A j \in 1..(k - 1) : good[j].art.seq = j - 1
  <1>1. \A j \in 1..k : good[j].art.seq \in Nat /\ (j < k => good[j].art.seq <= good[k].art.seq)
    BY DEF Ascending
  <1>2. k # 1 => /\ k - 1 \in 1..(k - 1) /\ k - 1 # 0 /\ e = good[k - 1].art.seq + 1
                 /\ \A j \in 1..(k - 1) : good[j].art.seq <= good[k - 1].art.seq
    <2>1. SUFFICES ASSUME k # 1
                   PROVE  /\ k - 1 \in 1..(k - 1) /\ k - 1 # 0 /\ e = good[k - 1].art.seq + 1
                          /\ \A j \in 1..(k - 1) : good[j].art.seq <= good[k - 1].art.seq
      OBVIOUS
    <2>2. k - 1 \in 1..(k - 1) /\ k - 1 # 0 /\ k - 1 \in 1..Len(good)
      BY <2>1
    <2>3. e = good[k - 1].art.seq + 1
      BY <2>2 DEF Found
    <2>4. ASSUME NEW j \in 1..(k - 1)
          PROVE  good[j].art.seq <= good[k - 1].art.seq
      <3>1. CASE j = k - 1
        BY <1>1, <2>2, <3>1
      <3>2. CASE j # k - 1
        <4>1. j \in 1..Len(good) /\ j < k - 1
          BY <3>2
        <4> QED
          BY <2>2, <4>1 DEF Ascending
      <3> QED
        BY <3>1, <3>2
    <2> QED
      BY <2>2, <2>3, <2>4
  <1>3. k = 1 => e = 0 /\ before = {}
    BY DEF Found, SeqsOf
  <1>4. seq \in Nat /\ e \in Nat /\ before \in SUBSET Nat
    BY <1>1, <1>2, <1>3 DEF SeqsOf
  <1>5. SeqsOf(good, k) = before \cup {seq}
    <2>1. 1..k = 1..(k - 1) \cup {k}
      OBVIOUS
    <2> QED
      BY <2>1 DEF SeqsOf
  <1>6. (\A s \in before : s < e) /\ (k # 1 => e - 1 \in before)
    <2>1. ASSUME NEW s \in before
          PROVE  s < e
      <3>1. PICK j \in 1..(k - 1) : s = good[j].art.seq
        BY DEF SeqsOf
      <3>2. k # 1 /\ good[j].art.seq \in Nat
        BY <1>1
      <3>3. e = good[k - 1].art.seq + 1 /\ good[j].art.seq <= good[k - 1].art.seq
        BY <1>2, <3>2
      <3>4. good[k - 1].art.seq \in Nat
        BY <1>1, <1>2, <3>2
      <3> QED
        BY <3>1, <3>2, <3>3, <3>4
    <2>2. ASSUME k # 1
          PROVE  e - 1 \in before
      <3>1. e - 1 = good[k - 1].art.seq
        BY <1>1, <1>2, <2>2
      <3> QED
        BY <1>2, <2>2, <3>1 DEF SeqsOf
    <2> QED
      BY <2>1, <2>2
  <1>7. Absent(before) = (0..(e - 1)) \ before
    <2>1. CASE k = 1
      BY <1>3, <2>1 DEF Absent
    <2>2. CASE k # 1
      <3>1. ASSUME NEW s \in before, NEW x \in 0..(s - 1)
            PROVE  x \in 0..(e - 1)
        BY <1>4, <1>6
      <3>2. ASSUME NEW x \in (0..(e - 1)) \ before
            PROVE  \E s \in before : x \in 0..(s - 1)
        <4>1. e - 1 \in before /\ x # e - 1
          BY <1>6, <2>2, <3>2
        <4>2. x \in 0..(e - 1 - 1)
          BY <1>4, <3>2, <4>1
        <4> QED
          BY <4>1, <4>2
      <3> HIDE DEF before, e
      <3>3. ASSUME NEW x
            PROVE  x \in Absent(before) <=> x \in (0..(e - 1)) \ before
        BY <3>1, <3>2, AbsentIs
      <3> QED
        BY <3>3
    <2> QED
      BY <2>1, <2>2
  <1>8. (\A j \in 1..k : good[j].art.seq = j - 1) <=> allowed /\ seq = k - 1
    <2>1. 1..k = 1..(k - 1) \cup {k}
      OBVIOUS
    <2> QED
      BY <2>1
  <1>9. allowed => e = k - 1
    BY <1>2, <1>3
  <1> DEFINE missing == Lowest(Absent(before), MaxMissingListed)
  <1>10. Found(good, k - 1) = [expected |-> e, missing |-> missing, ok |-> allowed]
    BY DEF Found
  <1>11. k # 0
    OBVIOUS
  <1>12. Found(good, k) = [expected |-> seq + 1,
                           missing |-> Lowest(Absent(before \cup {seq}), MaxMissingListed),
                           ok |-> allowed /\ seq = k - 1]
    BY <1>5, <1>8, <1>11 DEF Found
  <1> DEFINE p == Found(good, k - 1)
  <1> HIDE DEF seq, before, e, allowed, missing, p
  <1>13. /\ p.expected = e /\ p.missing = missing /\ p.ok = allowed
         /\ p = [expected |-> e, missing |-> missing, ok |-> allowed]
    BY <1>10 DEF p
  <1>14. CASE seq < e
    <2>1. k # 1 /\ seq = e - 1
      BY <1>1, <1>2, <1>3, <1>4, <1>14 DEF seq
    <2>2. before \cup {seq} = before
      BY <1>6, <2>1
    <2>3. ~(allowed /\ seq = k - 1)
      BY <1>4, <1>9, <2>1
    <2>4. seq + 1 = e
      BY <1>4, <2>1
    <2>5. Next1(good, Found(good, k - 1), k) = [expected |-> e, missing |-> missing, ok |-> FALSE]
      <3>1. Next1(good, p, k) = [p EXCEPT !.ok = FALSE]
        BY <1>14, <1>13 DEF Next1, seq
      <3>2. [p EXCEPT !.ok = FALSE] = [expected |-> e, missing |-> missing, ok |-> FALSE]
        <4>1. PICK a : p = [expected |-> e, missing |-> missing, ok |-> a]
          BY <1>13
        <4>2. \A b : [p EXCEPT !.ok = b] = [expected |-> e, missing |-> missing, ok |-> b]
          BY <4>1
        <4> QED
          BY <4>2, Zenon
      <3> QED
        BY <3>1, <3>2 DEF p
    <2> QED
      BY <1>12, <2>2, <2>3, <2>4, <2>5 DEF missing
  <1>15. CASE ~(seq < e)
    <2>1. Absent(before \cup {seq}) = Absent(before) \cup (e..(seq - 1))
      <3>1. ASSUME NEW x \in Absent(before \cup {seq})
            PROVE  x \in Absent(before) \cup (e..(seq - 1))
        <4>1. PICK s \in before \cup {seq} : x \in 0..(s - 1)
          BY <3>1, AbsentIs
        <4>2. x \notin before
          BY <3>1, AbsentIs
        <4>3. CASE s \in before
          BY <4>1, <4>2, <4>3, AbsentIs
        <4>4. CASE s = seq
          <5>1. x \in 0..(seq - 1)
            BY <4>1, <4>4
          <5>2. x \in 0..(e - 1) \/ x \in e..(seq - 1)
            BY <1>4, <5>1
          <5> QED
            BY <1>7, <4>2, <5>2
        <4> QED
          BY <4>1, <4>3, <4>4
      <3>2. ASSUME NEW x \in Absent(before)
            PROVE  x \in Absent(before \cup {seq})
        <4>1. x \in 0..(e - 1) /\ x \notin before
          BY <1>7, <3>2
        <4>2. x # seq
          BY <1>4, <1>15, <4>1
        <4>3. x \in 0..(seq - 1)
          BY <1>4, <1>15, <4>1
        <4> QED
          BY <4>1, <4>2, <4>3, AbsentIs
      <3>3. ASSUME NEW x \in e..(seq - 1)
            PROVE  x \in Absent(before \cup {seq})
        <4>1. x \in 0..(seq - 1) /\ x # seq /\ ~(x < e)
          BY <1>4, <3>3
        <4>2. x \notin before
          BY <1>6, <4>1
        <4> QED
          BY <4>1, <4>2, AbsentIs
      <3> QED
        BY <3>1, <3>2, <3>3
    <2>2. Lowest(Absent(before \cup {seq}), MaxMissingListed) =
             missing \cup Listed(missing, e, seq)
      <3>1. e <= seq /\ Absent(before) \in SUBSET (0..(e - 1))
        BY <1>4, <1>7, <1>15
      <3>2. Lowest(Absent(before) \cup (e..(seq - 1)), MaxMissingListed) =
               missing \cup {n \in e..(seq - 1) : n - e < MaxMissingListed - Cardinality(missing)}
        <4>1. PICK A : A = Absent(before)
          OBVIOUS
        <4>2. PICK limit : limit = MaxMissingListed
          OBVIOUS
        <4>3. limit \in Nat /\ A \in SUBSET (0..(e - 1)) /\ e <= seq /\ e \in Nat /\ seq \in Nat
          BY <1>4, <3>1, <4>1, <4>2, MissingAssumption
        <4>4. PICK first, last : first = e /\ last = seq
          OBVIOUS
        <4>5. /\ first \in Nat /\ last \in Nat /\ first <= last
              /\ A \in SUBSET (0..(first - 1)) /\ limit \in Nat
          BY <4>3, <4>4
        <4>6. LowestGrow(A, first, last, limit)
          BY <4>5, LowestExtends
        <4>7. LowestGrow(Absent(before), e, seq, MaxMissingListed)
          BY <4>1, <4>2, <4>4, <4>6, Zenon
        <4> QED
          BY <4>7 DEF LowestGrow, missing, Further
      <3> QED
        BY <2>1, <3>2 DEF Listed
    <2>3. (allowed /\ e = seq) <=> (allowed /\ seq = k - 1)
      BY <1>9
    <2>4. Next1(good, Found(good, k - 1), k) =
             [expected |-> seq + 1, missing |-> missing \cup Listed(missing, e, seq),
              ok |-> allowed /\ e = seq]
      BY <1>15, <1>13 DEF Next1, seq, p
    <2> QED
      BY <1>12, <2>2, <2>3, <2>4
  <1> QED
    BY <1>14, <1>15

Scanned(good, f) ==
    f = [k \in 0..Len(good) |->
            IF k = 0 THEN [expected |-> 0, missing |-> {}, ok |-> TRUE]
                     ELSE Next1(good, f[k-1], k)]

LEMMA ScanFinds ==
    ASSUME NEW arts, Len(Good(arts)) \in Nat, Ascending(Good(arts))
    PROVE  Scan(arts) = Found(Good(arts), Len(Good(arts)))
  <1> DEFINE good == Good(arts)
             n == Len(good)
             f == [k \in 0..n |-> Found(good, k)]
             step == CHOOSE g : Scanned(good, g)
             S == {k \in 0..n : step[k] = Found(good, k)}
  <1>1. Scan(arts) = step[n]
    BY DEF Scan, Scanned, Next1
  <1>2. n \in Nat
    OBVIOUS
  <1>3. \A k \in 1..n : Next1(good, Found(good, k - 1), k) = Found(good, k)
    BY FindingGoesOn
  <1> HIDE DEF good, n
  <1>4. Found(good, 0) = [expected |-> 0, missing |-> {}, ok |-> TRUE]
    <2>1. SeqsOf(good, 0) = {} /\ \A j \in 1..0 : good[j].art.seq = j - 1
      BY DEF SeqsOf
    <2>2. Lowest(Absent({}), MaxMissingListed) = {}
      BY DEF Lowest, Absent
    <2> QED
      BY <2>1, <2>2 DEF Found
  <1>5. \A k \in 0..n : k # 0 => k \in 1..n /\ k - 1 \in 0..n
    BY <1>2
  <1>6. Scanned(good, f)
    <2>1. \A k \in 0..n : f[k] = Found(good, k)
      OBVIOUS
    <2>2. ASSUME NEW k \in 0..n
          PROVE  f[k] = IF k = 0 THEN [expected |-> 0, missing |-> {}, ok |-> TRUE]
                                 ELSE Next1(good, f[k-1], k)
      BY <1>3, <1>4, <1>5, <2>1
    <2>3. f = [k \in 0..n |-> f[k]]
      OBVIOUS
    <2> HIDE DEF f
    <2> QED
      BY <2>2, <2>3 DEF Scanned, n
  <1>7. Scanned(good, step)
    BY <1>6
  <1> HIDE DEF step
  <1>8. 0 \in S
    BY <1>2, <1>4, <1>7 DEF Scanned, n
  <1>9. ASSUME NEW k \in 0..(n - 1), k \in S
        PROVE  k + 1 \in S
    <2>1. k + 1 \in 1..n /\ k + 1 \in 0..n /\ k + 1 # 0 /\ k + 1 - 1 = k
      BY <1>2
    <2>2. PICK j \in 1..n : j = k + 1 /\ j - 1 = k /\ j \in 0..n /\ j # 0
      BY <2>1
    <2>3. step[j] = Next1(good, step[j - 1], j)
      BY <1>7, <2>2 DEF Scanned, n
    <2>4. step[k] = Found(good, k)
      BY <1>9
    <2> QED
      BY <1>3, <2>2, <2>3, <2>4
  <1>10. 0..n \subseteq S
    <2> HIDE DEF S
    <2> QED
      BY <1>2, <1>8, <1>9, UpTo
  <1>11. step[n] = Found(good, n)
    BY <1>2, <1>10
  <1> QED
    BY <1>1, <1>11 DEF good, n

LEMMA ScanOk ==
    ASSUME NEW arts, Len(arts) \in Nat, Good(arts) = arts,
           \A k \in 1..Len(arts) : arts[k].art.seq = k - 1
    PROVE  Scan(arts).ok
  <1>1. Ascending(arts)
    BY DEF Ascending
  <1>2. Scan(arts) = Found(arts, Len(arts))
    BY <1>1, ScanFinds
  <1> QED
    BY <1>2 DEF Found

\* The verifier's walk of the coverage rule is the recorder's.
Steps(c, arts, f) ==
    f = [k \in 0..Len(arts) |->
            IF k = 0 THEN Fresh ELSE Walked(f[k-1], Readable(c.control), arts[k].art)]

RecordersWalk(arts, cov) ==
    /\ cov[0] = Fresh
    /\ \A k \in 1..Len(arts) : cov[k] = Walked(cov[k - 1], TRUE, arts[k].art)

SameWalk(c, arts, cov) == \A k \in 0..Len(arts) : Walk(c, arts)[k] = cov[k]

LEMMA WalkIsTheRecorders ==
    ASSUME NEW c, NEW arts, NEW cov, Len(arts) \in Nat, Readable(c.control),
           RecordersWalk(arts, cov)
    PROVE  SameWalk(c, arts, cov)
  <1> DEFINE n == Len(arts)
             f == [k \in 0..n |-> cov[k]]
             step == CHOOSE g : Steps(c, arts, g)
             S == {k \in 0..n : step[k] = cov[k]}
  <1> n \in Nat
    OBVIOUS
  <1> HIDE DEF n
  <1>0. \A p, e : Walked(p, Readable(c.control), e) = Walked(p, TRUE, e)
    BY DEF Walked, Required
  <1>1. \A k \in 0..n : k # 0 => k \in 1..n /\ k - 1 \in 0..n
    OBVIOUS
  <1>2. Steps(c, arts, f)
    <2>1. \A k \in 0..n : f[k] = cov[k]
      OBVIOUS
    <2>2. ASSUME NEW k \in 0..n
          PROVE  f[k] = IF k = 0 THEN Fresh
                                 ELSE Walked(f[k-1], Readable(c.control), arts[k].art)
      BY <1>0, <1>1, <2>1 DEF RecordersWalk, n
    <2>3. f = [k \in 0..n |-> f[k]]
      OBVIOUS
    <2> HIDE DEF f
    <2> QED
      BY <2>2, <2>3 DEF Steps, n
  <1>3. Steps(c, arts, step)
    BY <1>2
  <1>4. Walk(c, arts) = step
    BY DEF Walk, Steps
  <1> HIDE DEF step
  <1>5. 0 \in S
    BY <1>3 DEF Steps, RecordersWalk, n
  <1>6. ASSUME NEW k \in 0..(n - 1), k \in S
        PROVE  k + 1 \in S
    <2>1. k + 1 \in 1..n /\ k + 1 \in 0..n /\ k + 1 # 0 /\ k + 1 - 1 = k
      OBVIOUS
    <2>2. PICK j \in 1..n : j = k + 1 /\ j - 1 = k /\ j \in 0..n /\ j # 0
      BY <2>1
    <2>3. step[j] = Walked(step[j - 1], TRUE, arts[j].art)
      BY <1>0, <1>3, <2>2 DEF Steps, n
    <2>4. cov[j] = Walked(cov[j - 1], TRUE, arts[j].art)
      BY DEF RecordersWalk, n
    <2>5. step[k] = cov[k]
      BY <1>6
    <2> QED
      BY <2>2, <2>3, <2>4, <2>5
  <1>7. 0..n \subseteq S
    <2> HIDE DEF S
    <2> QED
      BY <1>5, <1>6, UpTo
  <1> QED
    BY <1>4, <1>7 DEF SameWalk, n

\* The checks that read the events only.
LEMMA MatchedChain ==
    ASSUME CopiesInv, NEW r \in Runs, Matches(r)
    PROVE  LET arts == Arts(copy)
           IN  /\ CorrelationOk(arts) /\ SequenceOk(arts) /\ ChainOk(arts)
               /\ FinalizationOk(arts)
               /\ OfType(arts, "run_end") = {} <=>
                     ~(Len(copy.events) > 0 /\ sealed[r][Len(copy.events)].type = "run_end")
  <1> DEFINE arts == Arts(copy)
             n == Len(copy.events)
  <1>1. /\ n \in Nat /\ DOMAIN arts = 1..n /\ Good(arts) = arts /\ Len(arts) = n
        /\ n > 0 => arts # <<>>
        /\ \A k \in 1..n : /\ arts[k].art = sealed[r][k] /\ RecordedAs(r, k)
                           /\ k \in 1..Len(sealed[r]) /\ arts[k] \in Items
                           /\ Undamaged(r, arts[k])
                           /\ Readable(arts[k]) /\ SignatureValid(arts[k])
    BY MatchedItems
  <1>2. n <= Len(sealed[r]) /\ Len(sealed[r]) \in Nat
    BY LenProperties DEF Matches, CopiesInv, RunInv
  <1> HIDE DEF arts, n
  <1>3. ASSUME NEW k \in 1..n
        PROVE  /\ arts[k].art.run = r /\ arts[k].art.seq = k - 1
               /\ arts[k].art.sig = SigOf(r, k - 1)
               /\ arts[k].art.link = IF k = 1 THEN NoSig ELSE SigOf(r, k - 2)
               /\ arts[k].art.type = "run_start" <=> k = 1
               /\ arts[k].art.type = "run_end" =>
                     /\ k = Len(sealed[r])
                     /\ arts[k].art.finalSeq = arts[k].art.seq
                     /\ arts[k].art.finalPrev = arts[k].art.link
    <2>1. arts[k].art = sealed[r][k] /\ RecordedAs(r, k)
      BY <1>1
    <2> QED
      BY <2>1, Zenon DEF RecordedAs
  <1>4. CorrelationOk(arts)
    BY <1>1, <1>3 DEF CorrelationOk
  <1>5. SequenceOk(arts)
    <2>1. Scan(arts).ok
      BY <1>1, <1>3, ScanOk
    <2>2. ASSUME arts # <<>>
          PROVE  \E k \in DOMAIN arts : OfType(arts, "run_start") = {k} /\ arts[k].art.seq = 0
      <3>1. 1 \in 1..n
        <4>1. n # 0
          BY <2>2, ArtsAreTheEvents, EmptySeq DEF arts, n
        <4> QED
          BY <1>1, <4>1
      <3>2. OfType(arts, "run_start") = {1} /\ arts[1].art.seq = 0
        BY <1>1, <1>3, <3>1 DEF OfType
      <3> QED
        BY <1>1, <3>1, <3>2
    <2> QED
      BY <1>1, <2>1, <2>2 DEF SequenceOk
  <1>6. ChainOk(arts)
    <2>1. ASSUME NEW k \in 1..n
          PROVE  LinkOk(arts, k)
      <3>1. CASE k = 1
        BY <1>3, <3>1 DEF LinkOk
      <3>2. CASE k # 1
        <4>1. k - 1 \in 1..n /\ k > 1 /\ k - 1 - 1 = k - 2 /\ k - 1 # 0
          BY <1>1, <3>2
        <4>2. arts[k - 1].art.seq = k - 2 /\ arts[k - 1].art.sig = SigOf(r, k - 2)
          BY <1>3, <4>1
        <4>3. arts[k].art.seq = k - 1 /\ arts[k].art.link = SigOf(r, k - 2)
          BY <1>3, <3>2
        <4> QED
          BY <4>1, <4>2, <4>3 DEF LinkOk
      <3> QED
        BY <3>1, <3>2
    <2> QED
      BY <1>1, <2>1 DEF ChainOk
  <1>7. \A k \in OfType(arts, "run_end") : k = n /\ n \in 1..n /\ sealed[r][n].type = "run_end"
    BY <1>1, <1>2, <1>3 DEF OfType
  <1>8. FinalizationOk(arts)
    <2>1. SUFFICES ASSUME NEW k \in OfType(arts, "run_end")
                   PROVE  /\ OfType(arts, "run_end") = {n}
                          /\ arts[n].art.finalSeq = arts[n].art.seq
                          /\ arts[n].art.finalPrev = arts[n].art.link
                          /\ StampValid(arts[n]) /\ SignatureValid(arts[n])
      <3>1. Len(Good(arts)) = n
        BY <1>1
      <3> QED
        BY <1>7, <3>1 DEF FinalizationOk, Anchored
    <2>2. k = n /\ n \in 1..n /\ OfType(arts, "run_end") = {n} /\ arts[n].art.type = "run_end"
      BY <1>1, <1>7 DEF OfType
    <2>3. arts[n].art.declared
      <3>1. PICK cov \in [0..Len(sealed[r]) -> Walks] : WalkedAs(r, cov)
        BY DEF CopiesInv, RunInv
      <3>2. sealed[r][n].declared <=> Required(cov[n - 1], TRUE, sealed[r][n])
        BY <1>1, <2>2, <3>1 DEF WalkedAs
      <3> QED
        BY <1>1, <2>2, <3>2 DEF Required
    <2>4. StampValid(arts[n])
      BY <1>1, <2>2, <2>3 DEF Undamaged, StampValid
    <2> QED
      BY <1>1, <1>3, <2>2, <2>4
  <1>9. OfType(arts, "run_end") = {} <=> ~(n > 0 /\ sealed[r][n].type = "run_end")
    <2>1. n > 0 /\ sealed[r][n].type = "run_end" => n \in OfType(arts, "run_end")
      BY <1>1 DEF OfType
    <2> QED
      BY <1>1, <1>7, <2>1
  <1> QED
    BY <1>4, <1>5, <1>6, <1>8, <1>9 DEF arts, n

\* The coverage rule asks for the timestamps the envelopes declare.
LEMMA MatchedTimestamps ==
    ASSUME CopiesInv, NEW r \in Runs, Matches(r)
    PROVE  TimestampsOk(copy, Arts(copy))
  <1> DEFINE arts == Arts(copy)
             n == Len(copy.events)
  <1>1. /\ n \in Nat /\ DOMAIN arts = 1..n /\ Len(arts) = n
        /\ \A k \in 1..n : /\ arts[k].art = sealed[r][k] /\ Undamaged(r, arts[k])
                           /\ k \in 1..Len(sealed[r])
    BY MatchedItems
  <1>2. n <= Len(sealed[r]) /\ Len(sealed[r]) \in Nat /\ copy.control = ControlItem(r)
    BY LenProperties DEF Matches, CopiesInv, RunInv
  <1> HIDE DEF arts, n
  <1>3. PICK cov \in [0..Len(sealed[r]) -> Walks] : WalkedAs(r, cov)
    BY DEF CopiesInv, RunInv
  <1>4. Readable(copy.control)
    BY <1>2 DEF Readable, ControlItem, Item
  <1>5. /\ cov[0] = Fresh
        /\ \A k \in 1..n : /\ cov[k] = Walked(cov[k - 1], TRUE, arts[k].art)
                           /\ arts[k].art.declared <=> Required(cov[k - 1], TRUE, arts[k].art)
    BY <1>1, <1>3, Zenon DEF WalkedAs
  <1>6. \A k \in 0..n : Walk(copy, arts)[k] = cov[k]
    <2>1. RecordersWalk(arts, cov) /\ Len(arts) \in Nat
      BY <1>1, <1>5 DEF RecordersWalk
    <2>2. SameWalk(copy, arts, cov)
      BY <1>4, <2>1, WalkIsTheRecorders
    <2> QED
      BY <1>1, <2>2 DEF SameWalk
  <1>7. ASSUME NEW k \in 1..n
        PROVE  (RequiredAt(copy, arts, k) => StampValid(arts[k])) /\ arts[k].stamp # "invalid"
    <2>1. k - 1 \in 0..n
      BY <1>1
    <2>2. RequiredAt(copy, arts, k) => Required(cov[k - 1], TRUE, arts[k].art)
      BY <1>6, <2>1 DEF RequiredAt, Required
    <2>3. RequiredAt(copy, arts, k) => arts[k].art.declared
      BY <1>5, <2>2
    <2> QED
      BY <1>1, <2>3 DEF Undamaged, StampValid
  <1> QED
    BY <1>1, <1>7 DEF TimestampsOk, arts

\* The checks of the signatures and of the signed objects.
LEMMA MatchedArtifacts ==
    ASSUME CopiesInv, NEW r \in Runs, Matches(r)
    PROVE  LET arts == Arts(copy)
           IN  EnvelopeOk(copy, arts) /\ SignaturesOk(copy, arts) /\ ControlOk(copy, arts)
  <1> DEFINE arts == Arts(copy)
             n == Len(copy.events)
  <1>1. /\ n \in Nat /\ DOMAIN arts = 1..n
        /\ \A k \in 1..n : /\ arts[k].art = sealed[r][k] /\ RecordedAs(r, k)
                           /\ Readable(arts[k]) /\ SignatureValid(arts[k])
    BY MatchedItems
  <1>2. /\ copy.control.state = "intact" /\ copy.control.stamp = "valid"
        /\ copy.control.digests = {} /\ copy.control.art.objects = {}
        /\ copy.control.art.run = r /\ copy.control.art.sig = SigOf(r, -1)
        /\ copy.control.art.signer = SignerOf[r]
    BY DEF Matches, ControlItem, Item, ControlArtifact
  <1> HIDE DEF arts, n
  <1>3. EnvelopeOk(copy, arts)
    BY <1>1, <1>2 DEF EnvelopeOk
  <1>4. ASSUME NEW k \in 1..n
        PROVE  /\ arts[k].art.run = r /\ arts[k].art.signer = SignerOf[r]
               /\ arts[k].art.binds = IF k = 1 THEN SigOf(r, -1) ELSE NoSig
               /\ arts[k].art.type = "run_start" <=> k = 1
    <2>1. arts[k].art = sealed[r][k] /\ RecordedAs(r, k)
      BY <1>1
    <2> QED
      BY <2>1, Zenon DEF RecordedAs
  <1>5. SignaturesOk(copy, arts)
    <2>1. \A s \in {arts[k] : k \in DOMAIN arts} \cup {copy.control} :
             Readable(s) /\ SignatureValid(s) /\ s.art.signer = SignerOf[r]
      BY <1>1, <1>2, <1>4 DEF Readable, SignatureValid
    <2> QED
      BY <2>1 DEF SignaturesOk
  <1>6. ControlOk(copy, arts)
    <2>1. ObjectsComplete(copy.control, copy.payloads)
      BY <1>2 DEF ObjectsComplete
    <2>2. Readable(copy.control) /\ SignatureValid(copy.control) /\ StampValid(copy.control)
      BY <1>2 DEF Readable, SignatureValid, StampValid
    <2>3. ASSUME HasReference(arts)
          PROVE  /\ Reference(arts).run = r /\ Reference(arts).binds = SigOf(r, -1)
                 /\ \A k \in DOMAIN arts : arts[k].art.binds \in {NoSig, SigOf(r, -1)}
      <3>1. 1 \in 1..n
        <4>1. n # 0
          BY <2>3, ArtsAreTheEvents, EmptySeq DEF arts, n, HasReference
        <4> QED
          BY <1>1, <4>1
      <3>2. OfType(arts, "run_start") = {1}
        BY <1>1, <1>4, <3>1 DEF OfType
      <3>3. Reference(arts) = arts[1].art
        BY <3>2, FS_Singleton DEF Reference
      <3> QED
        BY <1>1, <1>4, <3>1, <3>3
    <2> QED
      BY <1>2, <2>1, <2>2, <2>3 DEF ControlOk
  <1> QED
    BY <1>3, <1>5, <1>6 DEF arts

LEMMA MatchedObjects ==
    ASSUME CopiesInv, NEW r \in Runs, Matches(r)
    PROVE  ObjectsOk(copy, Arts(copy))
  <1> DEFINE arts == Arts(copy)
             n == Len(copy.events)
             items == {arts[k] : k \in DOMAIN arts} \cup
                      (IF Readable(copy.control) THEN {copy.control} ELSE {})
  <1>1. /\ n \in Nat /\ DOMAIN arts = 1..n
        /\ \A k \in 1..n : /\ arts[k].art = sealed[r][k] /\ RecordedAs(r, k)
                           /\ arts[k] \in Items /\ Undamaged(r, arts[k]) /\ Readable(arts[k])
        /\ \A p \in copy.payloads : \E k \in 1..n : \E o \in sealed[r][k].objects : o[1] = p[1]
    BY MatchedItems
  <1>2. /\ copy.control.state = "intact" /\ copy.control.digests = {}
        /\ copy.control.art.objects = {}
    BY DEF Matches, ControlItem, Item, ControlArtifact
  <1> HIDE DEF arts, n
  <1>3. ASSUME NEW k \in 1..n
        PROVE  /\ arts[k].art.objects \in {{}, Objects}
               /\ arts[k].digests \in {{}, arts[k].art.objects}
               /\ ObjectsComplete(arts[k], copy.payloads)
    <2>1. arts[k].art = sealed[r][k] /\ RecordedAs(r, k)
      BY <1>1
    <2>2. arts[k].art.objects \in {{}, Objects}
      BY <2>1 DEF RecordedAs
    <2>3. arts[k].digests \in {{}, arts[k].art.objects}
      BY <1>1, ItemType DEF CopiesInv
    <2> QED
      BY <1>1, <2>2, <2>3 DEF Undamaged
  <1>4. items = {arts[k] : k \in 1..n} \cup {copy.control}
    BY <1>1, <1>2 DEF Readable
  <1> HIDE DEF items
  <1>5. ASSUME NEW s \in items
        PROVE  /\ s.art.objects \in {{}, Objects} /\ s.digests \in {{}, s.art.objects}
               /\ ObjectsComplete(s, copy.payloads) /\ Readable(s)
    <2>1. CASE s = copy.control
      BY <1>2, <2>1 DEF ObjectsComplete, Readable
    <2>2. CASE s \in {arts[k] : k \in 1..n}
      <3>1. PICK k \in 1..n : s = arts[k]
        BY <2>2
      <3> QED
        BY <1>1, <1>3, <3>1
    <2> QED
      BY <1>4, <2>1, <2>2
  <1>6. ASSUME NEW s \in items, NEW o \in Taken(s, copy.payloads)
        PROVE  o[2] = Original
    <2>1. CASE o \in copy.payloads /\ o[1] \in {u[1] : u \in s.art.objects}
      <3>1. <<Uri, Original>> \in s.art.objects /\ o[1] = Uri
        BY <1>5, <2>1 DEF Objects
      <3>2. Given(s, copy.payloads, Uri) = {Original}
        BY <1>5, <3>1 DEF ObjectsComplete
      <3>3. o[2] \in Given(s, copy.payloads, Uri)
        BY <2>1, <3>1 DEF Given
      <3> QED
        BY <3>2, <3>3
    <2>2. CASE o \in s.digests
      <3>1. o \in Objects
        BY <1>5, <2>2
      <3> QED
        BY <3>1 DEF Objects
    <2> QED
      BY <2>1, <2>2 DEF Taken
  <1>7. ASSUME NEW p \in copy.payloads
        PROVE  \E s \in items : Readable(s) /\ \E o \in s.art.objects : o[1] = p[1]
    <2>1. PICK k \in 1..n : \E o \in sealed[r][k].objects : o[1] = p[1]
      BY <1>1
    <2>2. arts[k] \in items /\ Readable(arts[k]) /\ arts[k].art = sealed[r][k]
      BY <1>1, <1>4
    <2> QED
      BY <2>1, <2>2
  <1> QED
    BY <1>5, <1>6, <1>7 DEF ObjectsOk, items, arts

\* What is said of a matching copy.
LEMMA MatchedVerdict ==
    ASSUME CopiesInv, NEW r \in Runs, Matches(r)
    PROVE  RunVerdict(copy) =
              IF Len(copy.events) > 0 /\ sealed[r][Len(copy.events)].type = "run_end"
              THEN "run_finalized" ELSE "run_open"
  <1>1. /\ CorrelationOk(Arts(copy)) /\ SequenceOk(Arts(copy)) /\ ChainOk(Arts(copy))
        /\ FinalizationOk(Arts(copy))
    BY MatchedChain
  <1>2. /\ EnvelopeOk(copy, Arts(copy)) /\ SignaturesOk(copy, Arts(copy))
        /\ ControlOk(copy, Arts(copy))
    BY MatchedArtifacts
  <1>3. OfType(Arts(copy), "run_end") = {} <=>
           ~(Len(copy.events) > 0 /\ sealed[r][Len(copy.events)].type = "run_end")
    BY MatchedChain
  <1> QED
    BY <1>1, <1>2, <1>3, MatchedObjects, MatchedTimestamps DEF RunVerdict

(* Every prefix of a run verifies, whatever happened to the rest of the run:   *)
(* verify_agent_run finds it open.                                             *)
THEOREM PrefixesOfRunsPass == Spec => []PrefixesPass
  <1>1. ASSUME CopiesInv, Is(copy, "prefix")
        PROVE  RunVerdict(copy) = "run_open"
    <2>1. PICK r \in Runs : \E n \in 0..Len(sealed[r]) :
             IsPrefix(copy, r, n) /\ ~(n > 0 /\ sealed[r][n].type = "run_end")
      BY <1>1 DEF Is
    <2>2. PICK n \in 0..Len(sealed[r]) :
             IsPrefix(copy, r, n) /\ ~(n > 0 /\ sealed[r][n].type = "run_end")
      BY <2>1
    <2>3. Matches(r) /\ n = Len(copy.events)
      BY <1>1, <2>2, PrefixMatches
    <2> QED
      BY <1>1, <2>2, <2>3, MatchedVerdict
  <1>2. CopiesInv => PrefixesPass
    BY <1>1 DEF PrefixesPass
  <1> QED
    BY <1>2, CopiesInvariant, PTL

(* verify_agent_run finds a copy finalized exactly when it is a whole run, up  *)
(* to its run_end.                                                             *)
THEOREM FinalizedIsWhole == Spec => []FinalizedMeansWhole
  <1>1. ASSUME CopiesInv, RunVerdict(copy) = "run_finalized"
        PROVE  Is(copy, "whole")
    <2>1. PICK r \in Runs : Matches(r)
      BY <1>1, PassingMatches
    <2>2. Len(copy.events) > 0 /\ sealed[r][Len(copy.events)].type = "run_end"
      BY <1>1, <2>1, MatchedVerdict
    <2> QED
      BY <1>1, <2>1, <2>2, MatchingIs
  <1>2. ASSUME CopiesInv, Is(copy, "whole")
        PROVE  RunVerdict(copy) = "run_finalized"
    <2>1. PICK r \in Runs : \E n \in 0..Len(sealed[r]) :
             IsPrefix(copy, r, n) /\ n > 0 /\ sealed[r][n].type = "run_end"
      BY <1>2 DEF Is
    <2>2. PICK n \in 0..Len(sealed[r]) :
             IsPrefix(copy, r, n) /\ n > 0 /\ sealed[r][n].type = "run_end"
      BY <2>1
    <2>3. Matches(r) /\ n = Len(copy.events)
      BY <1>2, <2>2, PrefixMatches
    <2> QED
      BY <1>2, <2>2, <2>3, MatchedVerdict
  <1>3. CopiesInv => FinalizedMeansWhole
    BY <1>1, <1>2 DEF FinalizedMeansWhole
  <1> QED
    BY <1>3, CopiesInvariant, PTL
---------------------------------------------------------------------------------
(* How long a run goes unanchored.                                             *)

\* Event i + d is the d-th after event i, and none after i is timestamped: the
\* walk has counted them all, and remembers the time of event i if i is the
\* first event or timestamped.
Counted(cov, a, i, d) ==
    /\ ~a.declared => cov[i + d].since >= d + 1
    /\ i = 1 \/ a.declared => cov[i + d].last = a.time

LEMMA WalkCounts ==
    ASSUME RunInv, NEW r \in Runs, NEW cov \in [0..Len(sealed[r]) -> Walks], WalkedAs(r, cov),
           NEW i \in 1..Len(sealed[r]), NEW k \in 1..Len(sealed[r]), i < k,
           \A j \in (i + 1)..k : ~sealed[r][j].declared
    PROVE  Counted(cov, sealed[r][i], i, k - 1 - i)
  <1> DEFINE len == Len(sealed[r])
             a == sealed[r][i]
             n == k - 1 - i
             S == {d \in 0..n : Counted(cov, a, i, d)}
  <1>1. len \in Nat /\ n \in Nat /\ \A j \in 1..len : sealed[r][j] \in Artifacts /\ RecordedAs(r, j)
    BY LenProperties, ElementOfSeq DEF RunInv
  <1>2. /\ cov[0] = Fresh
        /\ \A j \in 1..len : /\ cov[j] = Walked(cov[j - 1], TRUE, sealed[r][j])
                             /\ sealed[r][j].declared <=> Required(cov[j - 1], TRUE, sealed[r][j])
                             /\ cov[j - 1] \in Walks /\ cov[j] \in Walks
    <2>1. cov[0] = Fresh
      BY DEF WalkedAs
    <2>2. ASSUME NEW j \in 1..len
          PROVE  /\ cov[j] = Walked(cov[j - 1], TRUE, sealed[r][j])
                 /\ sealed[r][j].declared <=> Required(cov[j - 1], TRUE, sealed[r][j])
                 /\ cov[j - 1] \in Walks /\ cov[j] \in Walks
      <3>1. j - 1 \in 0..len /\ j \in 0..len
        BY <1>1
      <3>2. /\ cov[j] = Walked(cov[j - 1], TRUE, sealed[r][j])
            /\ sealed[r][j].declared <=> Required(cov[j - 1], TRUE, sealed[r][j])
        BY DEF WalkedAs
      <3> QED
        BY <3>1, <3>2
    <2> QED
      BY <2>1, <2>2
  <1> HIDE DEF len, n
  <1>3. 0 \in S
    <2>1. /\ cov[i] = Walked(cov[i - 1], TRUE, a)
          /\ a.declared <=> Required(cov[i - 1], TRUE, a)
          /\ cov[i - 1].since \in Nat
      BY <1>2 DEF len, Walks
    <2>2. i = 1 \/ a.declared => cov[i].last = a.time
      <3>1. CASE a.declared
        BY <2>1, <3>1 DEF Walked
      <3>2. CASE i = 1
        <4>1. a.seq = 0 /\ cov[i - 1].last = NoTime
          BY <1>1, <1>2, <3>2 DEF RecordedAs, Fresh, len
        <4> QED
          BY <2>1, <4>1 DEF Walked
      <3> QED
        BY <3>1, <3>2
    <2>3. i + 0 = i /\ 0 \in 0..n /\ 0 + 1 = 1
      BY <1>1
    <2>4. ~a.declared => cov[i].since >= 1
      <3> DEFINE since == cov[i - 1].since + 1
      <3>1. ~a.declared => cov[i].since = cov[i - 1].since + 1
        <4>1. ~a.declared => cov[i] = [since |-> since, last |-> Walked(cov[i - 1], TRUE, a).last]
          BY <2>1 DEF Walked
        <4> HIDE DEF since
        <4>2. ~a.declared => cov[i].since = since
          BY <4>1
        <4> QED
          BY <4>2 DEF since
      <3>2. \A x \in Nat : x + 1 >= 1
        OBVIOUS
      <3> QED
        BY <2>1, <3>1, <3>2, Zenon
    <2> QED
      BY <2>2, <2>3, <2>4 DEF Counted
  <1>4. ASSUME NEW d \in 0..(n - 1), d \in S
        PROVE  d + 1 \in S
    <2>1. PICK j \in 1..len : j = i + (d + 1) /\ j - 1 = i + d /\ j \in (i + 1)..k /\ j - 1 > 0
      <3>1. i + (d + 1) \in Int /\ i + (d + 1) - 1 = i + d /\ i + d > 0
        OBVIOUS
      <3>2. i + (d + 1) >= i + 1 /\ i + (d + 1) <= k
        BY <1>1 DEF n
      <3>3. i + (d + 1) \in 1..len /\ i + (d + 1) \in (i + 1)..k
        BY <3>1, <3>2 DEF len
      <3> QED
        BY <3>1, <3>3
    <2>2. /\ cov[j] = Walked(cov[j - 1], TRUE, sealed[r][j])
          /\ ~Required(cov[j - 1], TRUE, sealed[r][j])
          /\ cov[j - 1].since \in Nat
      BY <1>2, <2>1 DEF Walks
    <2>3. sealed[r][j].seq # 0
      <3>1. RecordedAs(r, j)
        BY <1>1
      <3>2. sealed[r][j].seq = j - 1
        BY <3>1 DEF RecordedAs
      <3> QED
        BY <2>1, <3>2
    <2>4. cov[j].since = cov[j - 1].since + 1 /\ cov[j].last = cov[j - 1].last
      <3>1. Walked(cov[j - 1], TRUE, sealed[r][j]) =
               [since |-> cov[j - 1].since + 1, last |-> cov[j - 1].last]
        BY <2>2, <2>3 DEF Walked
      <3>2. cov[j] = [since |-> cov[j - 1].since + 1, last |-> cov[j - 1].last]
        BY <2>2, <3>1, Zenon
      <3> DEFINE since == cov[j - 1].since + 1
                 last == cov[j - 1].last
      <3> HIDE DEF since, last
      <3>3. cov[j] = [since |-> since, last |-> last]
        BY <3>2 DEF since, last
      <3>4. cov[j].since = since /\ cov[j].last = last
        BY <3>3
      <3> QED
        BY <3>4 DEF since, last
    <2>5. Counted(cov, a, i, d)
      BY <1>4
    <2>6. ~a.declared => cov[j].since >= (d + 1) + 1
      <3>1. \A x \in Nat : x >= d + 1 => x + 1 >= (d + 1) + 1
        OBVIOUS
      <3>2. ~a.declared => cov[j - 1].since >= d + 1
        BY <2>1, <2>5 DEF Counted
      <3> QED
        BY <2>2, <2>4, <3>1, <3>2, Zenon
    <2>7. i = 1 \/ a.declared => cov[j].last = a.time
      BY <2>1, <2>4, <2>5 DEF Counted
    <2>8. Counted(cov, a, i, d + 1)
      BY <2>1, <2>6, <2>7 DEF Counted
    <2>9. d + 1 \in 0..n
      BY <1>1
    <2> QED
      BY <2>8, <2>9
  <1>5. 0..n \subseteq S
    <2> HIDE DEF S
    <2> QED
      BY <1>1, <1>3, <1>4, UpTo
  <1>6. Counted(cov, a, i, n)
    BY <1>1, <1>5
  <1> QED
    BY <1>6 DEF n

(* No passing copy goes longer without a timestamp than the run's signed policy *)
(* allows, in events or in seconds (_TimestampCoverage, the recorder's walk and *)
(* the verifier's).                                                             *)
THEOREM PassingCopiesAreAnchored == Spec => []UnanchoredBounded
  <1>1. ASSUME CopiesInv, RunVerdict(copy) # "run_invalid",
               NEW i \in DOMAIN Arts(copy), NEW k \in DOMAIN Arts(copy), i <= k,
               \A j \in (i + 1)..k : ~Arts(copy)[j].art.declared
        PROVE  /\ EveryEvents > 0 /\ ~Arts(copy)[i].art.declared => k - i + 1 < EveryEvents
               /\ EverySeconds > 0 /\ i < k /\ (i = 1 \/ Arts(copy)[i].art.declared) =>
                     Arts(copy)[k].art.time - Arts(copy)[i].art.time < EverySeconds
    <2> DEFINE arts == Arts(copy)
               n == Len(copy.events)
    <2>1. PICK r \in Runs : Matches(r)
      BY <1>1, PassingMatches
    <2>2. /\ n \in Nat /\ DOMAIN arts = 1..n
          /\ \A j \in 1..n : arts[j].art = sealed[r][j] /\ j \in 1..Len(sealed[r]) /\ RecordedAs(r, j)
      BY <1>1, <2>1, MatchedItems
    <2> HIDE DEF arts, n
    <2>3. i \in 1..n /\ k \in 1..n
      BY <1>1, <2>2 DEF arts
    <2>4. /\ i \in 1..Len(sealed[r]) /\ k \in 1..Len(sealed[r])
          /\ arts[i].art = sealed[r][i] /\ arts[k].art = sealed[r][k]
          /\ \A j \in (i + 1)..k : ~sealed[r][j].declared
      <3>1. \A j \in (i + 1)..k : j \in 1..n
        BY <2>2, <2>3
      <3> QED
        BY <1>1, <2>2, <2>3, <3>1 DEF arts
    <2>5. RunInv
      BY <1>1 DEF CopiesInv
    <2>6. PICK cov \in [0..Len(sealed[r]) -> Walks] : WalkedAs(r, cov)
      BY <2>5 DEF RunInv
    <2>7. /\ sealed[r][i].time \in Nat /\ sealed[r][k].time \in Nat /\ sealed[r][k].seq = k - 1
          /\ k - 1 \in 0..Len(sealed[r]) /\ cov[k - 1].since \in Nat
          /\ sealed[r][k].declared <=> Required(cov[k - 1], TRUE, sealed[r][k])
      <3>1. sealed[r] \in Seq(Artifacts) /\ Len(sealed[r]) \in Nat
        BY <2>5, LenProperties DEF RunInv
      <3>2. sealed[r][i] \in Artifacts /\ sealed[r][k] \in Artifacts
        BY <2>4, <3>1, ElementOfSeq
      <3>3. k - 1 \in 0..Len(sealed[r])
        BY <2>4, <3>1
      <3>4. cov[k - 1] \in Walks
        BY <3>3
      <3>5. sealed[r][k].declared <=> Required(cov[k - 1], TRUE, sealed[r][k])
        BY <2>4, <2>6 DEF WalkedAs
      <3> QED
        BY <2>2, <2>3, <3>2, <3>3, <3>4, <3>5 DEF Artifacts, Walks, RecordedAs
    <2>8. ASSUME i < k
          PROVE  Counted(cov, sealed[r][i], i, k - 1 - i) /\ i + (k - 1 - i) = k - 1
                 /\ ~Required(cov[k - 1], TRUE, sealed[r][k]) /\ (k - 1 - i) + 1 = k - i
      <3>1. Counted(cov, sealed[r][i], i, k - 1 - i)
        BY <2>4, <2>5, <2>6, <2>8, WalkCounts
      <3>2. k \in (i + 1)..k
        BY <2>2, <2>3, <2>8
      <3>3. ~Required(cov[k - 1], TRUE, sealed[r][k])
        BY <2>4, <2>7, <3>2
      <3>4. i + (k - 1 - i) = k - 1 /\ (k - 1 - i) + 1 = k - i
        BY <2>2, <2>3
      <3> QED
        BY <3>1, <3>3, <3>4
    <2>9. ASSUME EveryEvents > 0, ~sealed[r][i].declared
          PROVE  k - i + 1 < EveryEvents
      <3>1. ~Required(cov[k - 1], TRUE, sealed[r][k])
        <4>1. CASE i = k
          BY <2>7, <2>9, <4>1
        <4>2. CASE i < k
          BY <2>8, <4>2
        <4>3. i = k \/ i < k
          BY <1>1, <2>2, <2>3
        <4> QED
          BY <4>1, <4>2, <4>3, Zenon
      <3>2. ~(cov[k - 1].since + 1 >= EveryEvents)
        BY <2>9, <3>1 DEF Required
      <3>3. cov[k - 1].since >= k - i
        <4>1. CASE i = k
          BY <2>2, <2>3, <2>7, <4>1
        <4>2. CASE i < k
          <5>1. /\ Counted(cov, sealed[r][i], i, k - 1 - i)
                /\ i + (k - 1 - i) = k - 1 /\ (k - 1 - i) + 1 = k - i
            BY <2>8, <4>2
          <5>2. cov[i + (k - 1 - i)].since >= (k - 1 - i) + 1
            BY <2>9, <5>1 DEF Counted
          <5> QED
            BY <5>1, <5>2, Zenon
        <4>3. i = k \/ i < k
          BY <1>1, <2>2, <2>3
        <4> QED
          BY <4>1, <4>2, <4>3, Zenon
      <3> QED
        BY <2>2, <2>3, <2>7, <3>2, <3>3, PolicyAssumption
    <2>10. ASSUME EverySeconds > 0, i < k, i = 1 \/ sealed[r][i].declared
           PROVE  sealed[r][k].time - sealed[r][i].time < EverySeconds
      <3>1. cov[k - 1].last = sealed[r][i].time
        BY <2>8, <2>10 DEF Counted
      <3>2. cov[k - 1].last # NoTime
        BY <2>7, <3>1 DEF NoTime
      <3>3. sealed[r][k].seq > 0
        BY <2>2, <2>3, <2>7, <2>10
      <3>4. ~(sealed[r][k].time - sealed[r][i].time >= EverySeconds)
        BY <2>8, <2>10, <3>1, <3>2, <3>3 DEF Required
      <3> QED
        BY <2>7, <3>4, PolicyAssumption
    <2> QED
      BY <2>4, <2>9, <2>10 DEF arts
  <1>2. CopiesInv => UnanchoredBounded
    BY <1>1 DEF UnanchoredBounded
  <1> QED
    BY <1>2, CopiesInvariant, PTL

(* The variables keep their types, and nothing is recorded after run_end.      *)
THEOREM CopiesTyped == Spec => []TypeOK
  <1>1. ASSUME CopiesInv
        PROVE  TypeOK
    <2>1. RunInv /\ CopyInv
      BY <1>1 DEF CopiesInv
    <2>2. ASSUME NEW r \in Runs
          PROVE  /\ Len(sealed[r]) <= plan.events[r]
                 /\ \A k \in 1..Len(sealed[r])-1 : sealed[r][k].type # "run_end"
                 /\ coverage[r].since \in Nat /\ coverage[r].last \in Nat \cup {NoTime}
      <3>1. Len(sealed[r]) \in Nat
        BY <2>1, LenProperties DEF RunInv
      <3>2. ASSUME NEW k \in 1..Len(sealed[r])-1
            PROVE  sealed[r][k].type # "run_end"
        <4>1. k \in 1..Len(sealed[r]) /\ k # Len(sealed[r])
          BY <3>1
        <4>2. RecordedAs(r, k)
          BY <2>1, <4>1 DEF RunInv
        <4> QED
          BY <4>1, <4>2 DEF RecordedAs
      <3> QED
        BY <2>1, <3>2 DEF RunInv, Walks
    <2>3. copy.control.state \in States
      BY <2>1 DEF CopyInv, NoCopy, NoControl, Item, States
    <2>4. ASSUME NEW k \in DOMAIN copy.events
          PROVE  copy.events[k].state \in States /\ copy.events[k].stamp \in Stamps
      BY <2>1, LenProperties, ElementOfSeq DEF CopyInv, Items
    <2> QED
      BY <2>1, <2>2, <2>3, <2>4 DEF TypeOK, RunInv, CopyInv
  <1> QED
    BY <1>1, CopiesInvariant, PTL
---------------------------------------------------------------------------------
(* The positions a result lists as missing.                                    *)

\* The items that can be read come first, in ascending order.
LEMMA GoodItems ==
    ASSUME CopiesInv
    PROVE  LET arts == Arts(copy)
               good == Good(arts)
           IN  /\ Len(good) \in Nat /\ Ascending(good)
               /\ SeqsOf(good, Len(good)) =
                     {copy.events[k].art.seq :
                         k \in {i \in DOMAIN copy.events : Readable(copy.events[i])}}
  <1> DEFINE arts == Arts(copy)
             good == Good(arts)
             n == Len(copy.events)
             events == copy.events
             R == {k \in 1..n : Readable(arts[k])}
             c == Cardinality(R)
  <1>1. RunInv /\ events \in Seq(Items)
    BY DEF CopiesInv, CopyInv
  <1>2. /\ n \in Nat /\ DOMAIN events = 1..n /\ DOMAIN arts = 1..n /\ arts \in Seq(Items)
        /\ \A k \in 1..n : arts[k] \in Items
        /\ \A k \in 1..n : \E i \in 1..n : arts[k] = events[i]
        /\ \A i \in 1..n : \E k \in 1..n : events[i] = arts[k]
    BY ArtsAreTheEvents
  <1>3. PICK p \in [1..n -> 1..n] : /\ Sorting(events, p)
                                    /\ \A k \in 1..n : arts[k] = events[p[k]]
    BY <1>1, ArtsAreSorted
  <1>4. \A k, l \in 1..n : k < l => Before(events, p[k], p[l])
    BY <1>3 DEF Sorting
  <1> HIDE DEF n, events
  <1>5. good = SubSeq(arts, 1, c)
    BY <1>2 DEF Good
  <1>6. \A k \in 1..n : arts[k].art.seq \in Nat
    BY <1>1, <1>2, ItemType DEF Artifacts
  <1> HIDE DEF arts, good
  <1>7. ASSUME NEW k \in 1..n, NEW l \in 1..n, k < l
        PROVE  /\ Readable(arts[l]) => Readable(arts[k])
               /\ Readable(arts[l]) => arts[k].art.seq <= arts[l].art.seq
    <2>1. /\ Before(events, p[k], p[l])
          /\ arts[k] = events[p[k]] /\ arts[l] = events[p[l]]
      BY <1>3, <1>4, <1>7
    <2>2. Readable(arts[l]) => Readable(arts[k])
      BY <2>1 DEF Before
    <2>3. Readable(arts[l]) => \/ arts[k].art.seq < arts[l].art.seq
                               \/ arts[k].art.seq = arts[l].art.seq
      BY <2>1, <2>2 DEF Before
    <2> QED
      BY <1>6, <2>2, <2>3
  <1>8. R = 1..c /\ c \in 0..n
    <2>1. ASSUME NEW k \in R, NEW j \in 1..k
          PROVE  j \in R
      <3>1. k \in 1..n
        OBVIOUS
      <3>2. j \in 1..n /\ (j = k \/ j < k)
        <4>1. n \in Nat /\ k \in Int /\ k <= n
          BY <1>2, <3>1
        <4>2. j \in Int /\ 1 <= j /\ j <= k
          BY <4>1
        <4> HIDE DEF R
        <4> QED
          BY <4>1, <4>2
      <3> QED
        BY <1>7, <3>1, <3>2
    <2>2. R \in SUBSET (1..n)
      OBVIOUS
    <2> HIDE DEF R
    <2> QED
      BY <1>2, <2>1, <2>2, InitialSegment
  <1>9. \A k \in 1..c : k \in 1..n /\ Readable(arts[k])
    BY <1>8
  <1>10. \A k \in 1..n : Readable(arts[k]) => k \in 1..c
    BY <1>8
  <1> HIDE DEF R, c
  <1>11. Len(good) = c /\ \A k \in 1..c : good[k] = arts[k]
    <2>1. \A k \in 1..c : arts[k] \in Items
      BY <1>2, <1>9
    <2>2. 1 \in Int /\ c \in Int /\ c >= 0
      BY <1>2, <1>8
    <2>3. /\ Len(good) = IF 1 <= c THEN c - 1 + 1 ELSE 0
          /\ \A k \in 1..(c - 1 + 1) : good[k] = arts[1 + k - 1]
      BY <1>5, <2>1, <2>2, SubSeqProperties
    <2>4. \A k \in 1..c : k \in 1..(c - 1 + 1) /\ 1 + k - 1 = k
      BY <2>2
    <2>5. Len(good) = c
      BY <2>2, <2>3
    <2> QED
      BY <2>3, <2>4, <2>5
  <1>12. Ascending(good)
    <2>1. ASSUME NEW k \in 1..c
          PROVE  good[k].art.seq \in Nat
      BY <1>6, <1>9, <1>11
    <2>2. ASSUME NEW j \in 1..c, NEW k \in 1..c, j < k
          PROVE  good[j].art.seq <= good[k].art.seq
      BY <1>7, <1>9, <1>11, <2>2
    <2> QED
      BY <1>11, <2>1, <2>2 DEF Ascending
  <1>13. SeqsOf(good, c) = {events[k].art.seq : k \in {i \in 1..n : Readable(events[i])}}
    <2>1. ASSUME NEW k \in 1..c
          PROVE  \E i \in 1..n : Readable(events[i]) /\ good[k].art.seq = events[i].art.seq
      <3>1. PICK i \in 1..n : arts[k] = events[i]
        BY <1>2, <1>9
      <3> QED
        BY <1>9, <1>11, <3>1
    <2>2. ASSUME NEW i \in 1..n, Readable(events[i])
          PROVE  \E k \in 1..c : good[k].art.seq = events[i].art.seq
      <3>1. PICK k \in 1..n : events[i] = arts[k]
        BY <1>2
      <3>2. k \in 1..c
        BY <1>10, <2>2, <3>1
      <3> QED
        BY <1>11, <3>1, <3>2
    <2> DEFINE received == {events[k].art.seq : k \in {i \in 1..n : Readable(events[i])}}
    <2>3. ASSUME NEW x \in SeqsOf(good, c)
          PROVE  x \in received
      <3>1. PICK k \in 1..c : x = good[k].art.seq
        BY DEF SeqsOf
      <3>2. PICK i \in 1..n : Readable(events[i]) /\ x = events[i].art.seq
        BY <2>1, <3>1
      <3> QED
        BY <3>2
    <2>4. ASSUME NEW x \in received
          PROVE  x \in SeqsOf(good, c)
      <3>1. PICK i \in 1..n : Readable(events[i]) /\ x = events[i].art.seq
        OBVIOUS
      <3>2. PICK k \in 1..c : good[k].art.seq = x
        BY <2>2, <3>1
      <3> QED
        BY <3>2 DEF SeqsOf
    <2> HIDE DEF received
    <2>5. SeqsOf(good, c) = received
      BY <2>3, <2>4
    <2> QED
      BY <2>5 DEF received
  <1>14. c \in Nat
    BY <1>2, <1>8
  <1> QED
    BY <1>2, <1>11, <1>12, <1>13, <1>14 DEF arts, good, events

(* The positions listed as missing are the first ones missing below the        *)
(* highest position received, as many as the limit of the list admits          *)
(* (missing_seqs in verify_agent_run), whatever happened to the copy.          *)
THEOREM MissingPositionsListed == Spec => []MissingSeqsExact
  <1>1. ASSUME CopiesInv
        PROVE  MissingSeqsExact
    <2> DEFINE good == Good(Arts(copy))
               seqs == {copy.events[k].art.seq :
                           k \in {i \in DOMAIN copy.events : Readable(copy.events[i])}}
    <2>1. Len(good) \in Nat /\ Ascending(good) /\ SeqsOf(good, Len(good)) = seqs
      BY <1>1, GoodItems
    <2>2. Scan(Arts(copy)) = Found(good, Len(good))
      BY <2>1, ScanFinds
    <2>3. MissingSeqs(copy) = Lowest(Absent(seqs), MaxMissingListed)
      BY <2>1, <2>2 DEF MissingSeqs, Found
    <2>4. MissingSeqsExact <=>
             MissingSeqs(copy) = {n \in Absent(seqs) :
                                     Cardinality({m \in Absent(seqs) : m < n}) < MaxMissingListed}
      BY Zenon DEF MissingSeqsExact, Absent
    <2> HIDE DEF seqs
    <2>5. \A n : Below(Absent(seqs), n) = {m \in Absent(seqs) : m < n}
      BY DEF Below
    <2>6. Lowest(Absent(seqs), MaxMissingListed) =
             {n \in Absent(seqs) :
                 Cardinality({m \in Absent(seqs) : m < n}) < MaxMissingListed}
      BY <2>5 DEF Lowest
    <2> QED
      BY <2>3, <2>4, <2>6
  <1> QED
    BY <1>1, CopiesInvariant, PTL
=================================================================================

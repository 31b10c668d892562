----------------------------- MODULE AgentRunProofs -----------------------------
(***************************************************************************)
(* Theorems about the recorder, for every value of its constants.  The     *)
(* argument: RunInv, a strengthening of the chain, budget and delegation   *)
(* invariants about the log, the books and the request in flight, is       *)
(* inductive by itself; the callback machinery neither reads nor writes    *)
(* what it is about, except through the guard of BeginSeal.                *)
(***************************************************************************)
EXTENDS AgentRun, TLAPS, SequenceTheorems, FiniteSetTheorems

\* At most one thread awaits a seal: _lock is held throughout.
OneRequest ==
    \A t, u \in Threads : sealing[t] # NoEvent /\ sealing[u] # NoEvent => t = u

\* Before the run is handed over it has no caller, and start seals in order.
StartInOrder ==
    /\ stage # "open" =>
          /\ ~broken /\ ~finished /\ outstanding = {}
          /\ \A t \in Threads : sealing[t] = NoEvent
    /\ stage \in {"new", "control_sealed", "failed"} => log = <<>> /\ resolved = {}
    /\ stage \in {"start_sealed", "control_notified"} => Len(log) = 1
    /\ stage \in {"control_sealed", "start_sealed", "control_notified", "open"} /\ ~broken =>
          prevSig = ControlSig + Len(log)

\* Position, signature and link of every event are those of its place.
Chained ==
    \A i \in 1..Len(log) : /\ log[i].seq = i - 1
                           /\ log[i].sig = ControlSig + i
                           /\ log[i].link = ControlSig + i - 1

\* An event names a child exactly when it is about a delegation.
ChildNamed ==
    \A i \in 1..Len(log) :
       log[i].child # NoChild <=> log[i].type \in {"delegation", "delegation_result"}

\* What the log binds is what _sealed_digests holds, and that is a function.
DigestsCover ==
    /\ \A i \in 1..Len(log) : log[i].objects \subseteq digests
    /\ \A o, p \in digests : o[1] = p[1] => o[2] = p[2]

RunInv == /\ RunTypeOK
          /\ RequestsStayCurrent
          /\ OneRequest
          /\ StartInOrder
          /\ Chained
          /\ ChildNamed
          /\ DigestsCover
          /\ AlwaysRoomToClose
          /\ DelegationsAccounted
          /\ CompletedMeansAnswered
---------------------------------------------------------------------------------
\* The sets of children are finite: their cardinalities are numbers.
LEMMA FiniteBooks ==
    ASSUME NEW S, S \subseteq Children
    PROVE  IsFiniteSet(S) /\ Cardinality(S) \in Nat
  BY FS_Subset, FS_CardinalityType, ConstantsAssumption

\* NoEvent is no event, and a current request is one.
LEMMA CurrentIsEvent ==
    ASSUME NEW e, RequestCurrent(e)
    PROVE  e # NoEvent /\ e.type \in EventTypes \ {"run_start"}
  BY DEF RequestCurrent, NoEvent, EventTypes

\* What the append does to the log: one artifact more, the others untouched.
LEMMA ExtendAppends ==
    ASSUME RunTypeOK, NEW e \in Requests, e.type \in EventTypes, Extend(e)
    PROVE  /\ log' \in Seq(Artifacts)
           /\ Len(log) \in Nat
           /\ Len(log') = Len(log) + 1
           /\ \A i \in 1..Len(log) : log'[i] = log[i]
           /\ LET a == log'[Len(log) + 1] IN
                /\ a.type = e.type /\ a.seq = e.seq /\ a.link = e.link
                /\ a.sig = ControlSig + Len(log) + 1
                /\ a.child = e.child /\ a.disposition = e.disposition
                /\ a.objects = e.objects
  <1> DEFINE a == [e EXCEPT !.sig = ControlSig + Len(log) + 1]
  <1>1. log \in Seq(Artifacts) /\ Len(log) \in Nat
    BY DEF RunTypeOK
  <1>2. a \in Artifacts
    <2>1. ControlSig + Len(log) + 1 \in Nat
      BY <1>1 DEF ControlSig
    <2>2. e \in [type : EventTypes, seq : Positions, link : Nat, sig : {0},
                 child : Children \cup {NoChild}, disposition : Dispositions \cup {"none"},
                 objects : SUBSET (Uris \X Contents)]
      BY DEF Requests
    <2> QED
      BY <2>1, <2>2 DEF Artifacts
  <1>3. log' = Append(log, a)
    BY DEF Extend
  <1>4. a.type = e.type /\ a.seq = e.seq /\ a.link = e.link /\ a.sig = ControlSig + Len(log) + 1
        /\ a.child = e.child /\ a.disposition = e.disposition /\ a.objects = e.objects
    BY DEF Requests
  <1> HIDE DEF a
  <1>5. QED
    BY <1>1, <1>2, <1>3, <1>4, AppendProperties

\* What the append does to the sets the delegations are counted with.
LEMMA ExtendCounts ==
    ASSUME RunTypeOK, NEW e \in Requests, e.type \in EventTypes, Extend(e)
    PROVE  /\ Delegated' = IF e.type = "delegation" THEN Delegated \cup {e.child} ELSE Delegated
           /\ Answered' = IF e.type = "delegation_result" THEN Answered \cup {e.child}
                                                          ELSE Answered
  <1>1. DOMAIN log = 1..Len(log) /\ DOMAIN log' = 1..Len(log)+1
    BY ExtendAppends, LenProperties DEF RunTypeOK
  <1> QED
    BY <1>1, ExtendAppends DEF Delegated, Answered, EventsOf

\* The answer to a request, accepted or interrupted after the append, keeps
\* RunInv: everything the request was built from is still true.
LEMMA CommitKeepsRunInv ==
    ASSUME RunInv, NEW t \in Threads, sealing[t] # NoEvent,
           Link(sealing[t]), Extend(sealing[t]), Without(t), UNCHANGED stage,
           payloads' \subseteq Uris,
           \/ NoteDelegation(sealing[t]) /\ Ends(sealing[t]) /\ UNCHANGED broken
           \/ /\ Ends(sealing[t]) \/ UNCHANGED finished
              /\ broken' = TRUE /\ UNCHANGED <<outstanding, resolved>>
    PROVE  RunInv'
  <1> DEFINE e == sealing[t]
             n == Len(log) + 1
  <1> USE ConstantsAssumption
  <1>1. RunTypeOK /\ RequestCurrent(e) /\ e \in Requests /\ e.type \in EventTypes \ {"run_start"}
    BY CurrentIsEvent DEF RunInv, RequestsStayCurrent, RunTypeOK
  <1>2. /\ stage = "open" /\ ~broken /\ ~finished
        /\ e.seq = Len(log) /\ e.link = prevSig
        /\ NoUriConflict(e.objects)
    BY <1>1 DEF RequestCurrent, EnsureOpen
  <1>3. /\ log' \in Seq(Artifacts) /\ Len(log) \in Nat /\ Len(log') = n
        /\ \A i \in 1..Len(log) : log'[i] = log[i]
        /\ log'[n].type = e.type /\ log'[n].seq = e.seq /\ log'[n].link = e.link
        /\ log'[n].sig = ControlSig + Len(log) + 1
        /\ log'[n].child = e.child /\ log'[n].disposition = e.disposition
        /\ log'[n].objects = e.objects
    BY <1>1, ExtendAppends
  <1>4. /\ Delegated' = IF e.type = "delegation" THEN Delegated \cup {e.child} ELSE Delegated
        /\ Answered' = IF e.type = "delegation_result" THEN Answered \cup {e.child} ELSE Answered
    BY <1>1, ExtendCounts
  <1>5. \A u \in Threads : sealing'[u] = NoEvent
    BY DEF RunInv, OneRequest, Without, RunTypeOK
  <1>6. /\ prevSig' = ControlSig + Len(log) + 1
        /\ digests' = digests \cup e.objects
        /\ \/ finished' = (e.type = "run_end")
           \/ broken' /\ finished' = finished
    BY <1>2 DEF Link, Ends
  <1>7. DOMAIN log = 1..Len(log) /\ DOMAIN log' = 1..n
    BY <1>1, <1>3, LenProperties DEF RunTypeOK
  <1>12. \A i \in 1..Len(log) : log[i].type # "run_end"
    BY <1>2, <1>7 DEF RunInv, CompletedMeansAnswered, EventsOf, EnsureOpen
  <1>13. ~Closed /\ Closed' = (e.type = "run_end")
    BY <1>3, <1>7, <1>12 DEF Closed, EventsOf, n
  <1>8. outstanding = Delegated \ Answered /\ resolved = Answered /\ Answered \subseteq Delegated
    BY <1>2 DEF RunInv, DelegationsAccounted
  <1>9. /\ outstanding \subseteq Children
        /\ IsFiniteSet(outstanding) /\ Cardinality(outstanding) \in Nat
    BY <1>1, FiniteBooks DEF RunTypeOK
  <1>10. /\ e.type = "event" => e.child = NoChild /\ CanRecord
         /\ e.type = "delegation" => e.child \in Children /\ CanDelegate(e.child)
         /\ e.type = "delegation_result" => CanComplete(e.child)
         /\ e.type = "run_end" => e.child = NoChild /\ CanFinish(e.disposition)
    BY <1>1 DEF RequestCurrent
  <1> HIDE DEF e, n
  <1>11. e.type \in {"event", "delegation", "delegation_result", "run_end"}
    BY <1>1 DEF EventTypes
  <1>a. RunTypeOK'
    <2>1. e.objects \subseteq Uris \X Contents /\ e.child \in Children \cup {NoChild}
      BY <1>1 DEF Requests
    <2>2. prevSig' \in Nat /\ digests' \subseteq Uris \X Contents
      BY <1>1, <1>3, <1>6, <2>1 DEF ControlSig, RunTypeOK
    <2>5. finished' \in BOOLEAN
      BY <1>1, <1>6 DEF RunTypeOK
    <2>3. outstanding' \subseteq Children /\ resolved' \subseteq Children /\ broken' \in BOOLEAN
      BY <1>1, <1>10, <2>1 DEF NoteDelegation, RunTypeOK, CanComplete, e
    <2>4. sealing' \in [Threads -> Requests]
      BY <1>1, <1>2, <1>3 DEF Without, RunTypeOK, NoEvent, Requests, Positions
    <2> QED
      BY <1>1, <1>3, <2>2, <2>3, <2>4, <2>5 DEF RunTypeOK
  <1>b. RequestsStayCurrent' /\ OneRequest'
    BY <1>5 DEF RequestsStayCurrent, OneRequest, NoEvent
  <1>c. StartInOrder'
    BY <1>2, <1>3, <1>6 DEF StartInOrder, ControlSig, n
  <1>d. Chained'
    <2>1. prevSig = ControlSig + Len(log)
      BY <1>2 DEF RunInv, StartInOrder
    <2> QED
      <3>1. ASSUME NEW i \in 1..Len(log)
            PROVE  /\ log'[i].seq = i - 1 /\ log'[i].sig = ControlSig + i
                   /\ log'[i].link = ControlSig + i - 1
        BY <1>3, <3>1 DEF RunInv, Chained
      <3>2. /\ log'[n].seq = n - 1 /\ log'[n].sig = ControlSig + n
            /\ log'[n].link = ControlSig + n - 1
        BY <1>2, <1>3, <2>1 DEF ControlSig, n
      <3>3. \A i \in 1..n : i \in 1..Len(log) \/ i = n
        BY <1>1, LenProperties DEF RunTypeOK, n
      <3> QED
        BY <1>3, <3>1, <3>2, <3>3 DEF Chained
  <1>e. ChildNamed'
    BY <1>3, <1>8, <1>9, <1>10, <1>11 DEF RunInv, ChildNamed, CanComplete, n
  <1>f. DigestsCover'
    BY <1>2, <1>3, <1>6 DEF RunInv, DigestsCover, NoUriConflict, n
  <1>g. AlwaysRoomToClose'
    <2>1. Len(log) + Cardinality(outstanding) + 1 <= MaxArtifacts
      BY <1>8, <1>13 DEF RunInv, AlwaysRoomToClose
    <2>6. Len(log) \in Nat /\ Len(log') = Len(log) + 1 /\ MaxArtifacts \in Nat
      BY <1>3, <1>7, ConstantsAssumption DEF n
    <2>2. CASE e.type = "event"
      <3>1. Delegated' \ Answered' = outstanding /\ Len(log) < MaxArtifacts - 1 - Cardinality(outstanding)
        BY <1>4, <1>8, <1>10, <2>2 DEF CanRecord
      <3>2. Cardinality(Delegated' \ Answered') = Cardinality(outstanding)
        BY <3>1
      <3> QED
        BY <1>3, <1>9, <1>13, <2>2, <3>1, <3>2 DEF AlwaysRoomToClose, n
    <2>3. CASE e.type = "delegation"
      <3>1. /\ Delegated' \ Answered' = outstanding \cup {e.child}
            /\ e.child \notin outstanding
            /\ Len(log) + 1 + Cardinality(outstanding) + 1 + 1 <= MaxArtifacts
        BY <1>4, <1>8, <1>10, <2>3 DEF CanDelegate
      <3>2. Cardinality(Delegated' \ Answered') = Cardinality(outstanding) + 1
        BY <1>9, <3>1, FS_AddElement
      <3> QED
        BY <1>3, <1>9, <1>13, <2>3, <3>1, <3>2 DEF AlwaysRoomToClose, n
    <2>4. CASE e.type = "delegation_result"
      <3>1. Delegated' \ Answered' = outstanding \ {e.child} /\ e.child \in outstanding
        BY <1>4, <1>8, <1>10, <2>4 DEF CanComplete
      <3>2. Cardinality(Delegated' \ Answered') = Cardinality(outstanding) - 1
        <4>1. Cardinality(outstanding \ {e.child}) = Cardinality(outstanding) - 1
          BY <1>9, <3>1, FS_RemoveElement, Zenon
        <4> QED
          BY <3>1, <4>1, Zenon
      <3> QED
        <4>1. Len(log') + Cardinality(Delegated' \ Answered') + 1 <= MaxArtifacts
          BY <1>9, <2>1, <2>6, <3>2
        <4>2. ~Closed'
          BY <1>13, <2>4
        <4> QED
          BY <4>1, <4>2 DEF AlwaysRoomToClose
    <2>5. CASE e.type = "run_end"
      <3>1. Delegated' \ Answered' = outstanding /\ Closed'
        BY <1>4, <1>8, <1>13, <2>5
      <3>2. Cardinality(Delegated' \ Answered') = Cardinality(outstanding)
        BY <3>1
      <3> QED
        BY <1>3, <1>9, <2>1, <3>1, <3>2 DEF AlwaysRoomToClose, n
    <2> QED
      BY <1>11, <2>2, <2>3, <2>4, <2>5
  <1>h. DelegationsAccounted'
    <2>1. ~broken' => outstanding' = Delegated' \ Answered' /\ resolved' = Answered'
      BY <1>4, <1>8, <1>10, <1>11 DEF NoteDelegation, CanComplete, CanDelegate, e
    <2>2. Answered' \subseteq Delegated'
      BY <1>4, <1>8, <1>10, <1>11 DEF CanComplete
    <2>3. ASSUME NEW i \in 1..n, NEW j \in 1..n,
                 log'[i].child = log'[j].child, log'[i].child # NoChild, i < j
          PROVE  log'[i].type = "delegation" /\ log'[j].type = "delegation_result"
      <3>1. CASE j \in 1..Len(log)
        <4>1. i \in 1..Len(log) /\ log'[i] = log[i] /\ log'[j] = log[j]
          BY <1>3, <2>3, <3>1 DEF n
        <4> QED
          BY <1>7, <2>3, <3>1, <4>1 DEF RunInv, DelegationsAccounted
      <3>2. CASE j = n
        <4>1. i \in 1..Len(log) /\ log'[i] = log[i] /\ log[i].child = e.child /\ e.child # NoChild
          BY <1>3, <2>3, <3>2 DEF n
        <4>2. log[i].type \in {"delegation", "delegation_result"}
          BY <4>1 DEF RunInv, ChildNamed
        <4>3. log[i].type = "delegation" => e.child \in Delegated
          BY <1>7, <4>1 DEF Delegated, EventsOf
        <4>4. log[i].type = "delegation_result" => e.child \in Answered
          BY <1>7, <4>1 DEF Answered, EventsOf
        <4>5. CASE e.type = "delegation"
          BY <1>8, <1>10, <4>2, <4>3, <4>4, <4>5 DEF CanDelegate
        <4>6. CASE e.type = "delegation_result"
          BY <1>3, <1>8, <1>10, <3>2, <4>1, <4>2, <4>4, <4>6 DEF CanComplete
        <4> QED
          BY <1>10, <1>11, <4>1, <4>5, <4>6
      <3> QED
        BY <1>3, <3>1, <3>2 DEF n
    <2> QED
      BY <1>7, <2>1, <2>2, <2>3 DEF DelegationsAccounted
  <1>i. CompletedMeansAnswered'
    <2>1. e.type = "run_end" => ~EnsureOpen'
      BY <1>6 DEF EnsureOpen
    <2>2. ASSUME NEW i \in 1..n, log'[i].type = "run_end"
          PROVE  i = n /\ e.type = "run_end"
      BY <1>3, <1>12, <2>2 DEF n
    <2>3. e.type = "run_end" /\ e.disposition = "completed" => Delegated' \subseteq Answered'
      BY <1>4, <1>8, <1>10 DEF CanFinish
    <2> QED
      BY <1>3, <1>7, <2>1, <2>2, <2>3 DEF CompletedMeansAnswered, EventsOf
  <1> QED
    BY <1>a, <1>b, <1>c, <1>d, <1>e, <1>f, <1>g, <1>h, <1>i DEF RunInv
---------------------------------------------------------------------------------
\* What RunInv says of the log and the books depends on nothing but them.
LEMMA BooksUnchanged ==
    ASSUME RunInv, UNCHANGED runVars
    PROVE  /\ Chained' /\ ChildNamed' /\ DigestsCover'
           /\ AlwaysRoomToClose' /\ DelegationsAccounted' /\ CompletedMeansAnswered'
  <1>1. /\ log' = log /\ digests' = digests /\ broken' = broken /\ finished' = finished
        /\ outstanding' = outstanding /\ resolved' = resolved
    BY DEF runVars
  <1>2. Delegated' = Delegated /\ Answered' = Answered /\ Closed' = Closed
    BY <1>1 DEF Delegated, Answered, Closed, EventsOf
  <1>3. Chained' /\ ChildNamed' /\ DigestsCover'
    BY <1>1 DEF RunInv, Chained, ChildNamed, DigestsCover
  <1>4. AlwaysRoomToClose'
    BY <1>1, <1>2 DEF RunInv, AlwaysRoomToClose
  <1>5. DelegationsAccounted'
    BY <1>1, <1>2 DEF RunInv, DelegationsAccounted
  <1>6. CompletedMeansAnswered'
    BY <1>1, <1>2 DEF RunInv, CompletedMeansAnswered, EventsOf, EnsureOpen
  <1> QED
    BY <1>3, <1>4, <1>5, <1>6

\* A step that leaves the run and its request alone keeps RunInv.
LEMMA RunUnchanged ==
    ASSUME RunInv, UNCHANGED <<stage, runVars, sealing>>
    PROVE  RunInv'
  <1>1. RunTypeOK' /\ OneRequest' /\ StartInOrder'
    BY DEF RunInv, RunTypeOK, OneRequest, StartInOrder, runVars
  <1>2. RequestsStayCurrent'
    BY DEF RunInv, RequestsStayCurrent, RequestCurrent, EnsureOpen, NoUriConflict,
           CanRecord, CanDelegate, CanComplete, CanFinish, runVars
  <1> QED
    BY <1>1, <1>2, BooksUnchanged DEF RunInv

\* A method that takes the lock sends a request that is current.
LEMMA BeginSealKeepsRunInv ==
    ASSUME RunInv, NEW t \in Threads, NEW e \in Requests, BeginSeal(t, e), RequestCurrent(e)
    PROVE  RunInv'
  <1>1. /\ sealing' = [sealing EXCEPT ![t] = e] /\ sealing \in [Threads -> Requests]
        /\ UNCHANGED <<stage, runVars>> /\ stage = "open"
        /\ \A u \in Threads : sealing[u] = NoEvent
    BY DEF BeginSeal, LockFree, RunInv, RunTypeOK
  <1>2. \A u \in Threads : sealing'[u] = IF u = t THEN e ELSE NoEvent
    BY <1>1
  <1>3. RunTypeOK' /\ OneRequest' /\ StartInOrder'
    BY <1>1, <1>2 DEF RunInv, RunTypeOK, OneRequest, StartInOrder, runVars
  <1>4. RequestsStayCurrent'
    <2>1. SUFFICES RequestCurrent(e)'
      BY <1>2 DEF RequestsStayCurrent
    <2> QED
      BY <1>1 DEF RequestCurrent, EnsureOpen, NoUriConflict,
                  CanRecord, CanDelegate, CanComplete, CanFinish, runVars
  <1> QED
    BY <1>1, <1>3, <1>4, BooksUnchanged DEF RunInv

\* While the run is open the next position is one of the bundle's.
LEMMA OpenHasPosition ==
    ASSUME RunInv, EnsureOpen
    PROVE  Len(log) \in Positions
  <1>1. Len(log) + Cardinality(outstanding) + 1 <= MaxArtifacts
    BY DEF RunInv, EnsureOpen, AlwaysRoomToClose, DelegationsAccounted, CompletedMeansAnswered,
           Closed
  <1>2. Cardinality(outstanding) \in Nat /\ Len(log) \in Nat /\ MaxArtifacts \in Nat
    BY FiniteBooks, ConstantsAssumption DEF RunInv, RunTypeOK
  <1> QED
    BY <1>1, <1>2 DEF Positions

\* The calls: what each of them sends is a request, and a current one.
LEMMA CallKeepsRunInv ==
    ASSUME RunInv, NEW t \in Threads, Call(t)
    PROVE  RunInv'
  <1>1. /\ \A os \in Objects : os \in SUBSET (Uris \X Contents)
        /\ {} \in SUBSET (Uris \X Contents)
        /\ prevSig \in Nat
    BY DEF Objects, RunInv, RunTypeOK
  <1>2. CASE \E os \in Objects : Record(t, os)
    <2> PICK os \in Objects : Record(t, os)
      BY <1>2
    <2> DEFINE e == Event("event", NoChild, "none", os)
    <2>1. BeginSeal(t, e) /\ CanRecord /\ stage = "open" /\ EnsureOpen /\ NoUriConflict(os)
      BY DEF Record, BeginSeal, Event
    <2>2. e \in Requests
      BY <1>1, <2>1, OpenHasPosition DEF Event, Requests, EventTypes
    <2>3. RequestCurrent(e)
      BY <2>1 DEF RequestCurrent, Event
    <2> QED
      BY <2>1, <2>2, <2>3, BeginSealKeepsRunInv
  <1>3. CASE \E os \in Objects, c \in Children : Delegate(t, c, os)
    <2> PICK os \in Objects, c \in Children : Delegate(t, c, os)
      BY <1>3
    <2> DEFINE e == Event("delegation", c, "none", os)
    <2>1. BeginSeal(t, e) /\ CanDelegate(c) /\ stage = "open" /\ EnsureOpen /\ NoUriConflict(os)
      BY DEF Delegate, BeginSeal, Event
    <2>2. e \in Requests
      BY <1>1, <2>1, OpenHasPosition DEF Event, Requests, EventTypes
    <2>3. RequestCurrent(e)
      BY <2>1 DEF RequestCurrent, Event
    <2> QED
      BY <2>1, <2>2, <2>3, BeginSealKeepsRunInv
  <1>4. CASE \E c \in Children, d \in Dispositions : CompleteDelegation(t, c, d)
    <2> PICK c \in Children, d \in Dispositions : CompleteDelegation(t, c, d)
      BY <1>4
    <2> DEFINE e == Event("delegation_result", c, d, {})
    <2>1. BeginSeal(t, e) /\ CanComplete(c) /\ stage = "open" /\ EnsureOpen /\ NoUriConflict({})
      BY DEF CompleteDelegation, BeginSeal, Event
    <2>2. e \in Requests
      BY <1>1, <2>1, OpenHasPosition DEF Event, Requests, EventTypes
    <2>3. RequestCurrent(e)
      BY <2>1 DEF RequestCurrent, Event
    <2> QED
      BY <2>1, <2>2, <2>3, BeginSealKeepsRunInv
  <1>5. CASE \E d \in Dispositions : Finish(t, d)
    <2> PICK d \in Dispositions : Finish(t, d)
      BY <1>5
    <2> DEFINE e == Event("run_end", NoChild, d, {})
    <2>1. BeginSeal(t, e) /\ CanFinish(d) /\ stage = "open" /\ EnsureOpen /\ NoUriConflict({})
      BY DEF Finish, BeginSeal, Event
    <2>2. e \in Requests
      BY <1>1, <2>1, OpenHasPosition DEF Event, Requests, EventTypes
    <2>3. RequestCurrent(e)
      BY <2>1 DEF RequestCurrent, Event
    <2> QED
      BY <2>1, <2>2, <2>3, BeginSealKeepsRunInv
  <1> QED
    BY <1>2, <1>3, <1>4, <1>5 DEF Call

\* A request refused, or interrupted before its event is appended, breaks the
\* chain and leaves the log and the books alone.
LEMMA BreakKeepsRunInv ==
    ASSUME RunInv, NEW t \in Threads, sealing[t] # NoEvent, broken' = TRUE, Without(t),
           digests' \in {digests, digests \cup sealing[t].objects}, prevSig' \in Nat,
           UNCHANGED <<stage, log, payloads, finished, outstanding, resolved>>
    PROVE  RunInv'
  <1> DEFINE e == sealing[t]
  <1>2. RequestCurrent(e) /\ e \in Requests /\ stage = "open" /\ NoUriConflict(e.objects)
    BY DEF RunInv, RequestsStayCurrent, RequestCurrent, RunTypeOK
  <1>3. \A u \in Threads : sealing'[u] = NoEvent
    BY DEF Without, RunInv, OneRequest, RunTypeOK
  <1>4. Delegated' = Delegated /\ Answered' = Answered /\ Closed' = Closed
    BY DEF Delegated, Answered, Closed, EventsOf
  <1>5. RunTypeOK'
    <2>1. digests' \subseteq Uris \X Contents
      BY <1>2 DEF RunInv, RunTypeOK, Requests
    <2>2. NoEvent \in Requests
      BY ConstantsAssumption DEF NoEvent, Requests, Positions
    <2>3. sealing' \in [Threads -> Requests]
      BY <2>2 DEF Without, RunInv, RunTypeOK
    <2> QED
      BY <2>1, <2>3 DEF RunInv, RunTypeOK
  <1>6. RequestsStayCurrent' /\ OneRequest' /\ StartInOrder'
    BY <1>2, <1>3 DEF RequestsStayCurrent, OneRequest, StartInOrder, NoEvent
  <1>7. Chained' /\ ChildNamed' /\ DigestsCover'
    BY <1>2 DEF RunInv, Chained, ChildNamed, DigestsCover, NoUriConflict
  <1>8. AlwaysRoomToClose' /\ DelegationsAccounted'
    BY <1>4 DEF RunInv, AlwaysRoomToClose, DelegationsAccounted
  <1>9. CompletedMeansAnswered'
    BY <1>4 DEF RunInv, CompletedMeansAnswered, EventsOf, EnsureOpen
  <1> QED
    BY <1>5, <1>6, <1>7, <1>8, <1>9 DEF RunInv

\* The steps of start: run_start is the only event, and nobody calls yet.
LEMMA StartKeepsRunInv ==
    ASSUME RunInv, Start
    PROVE  RunInv'
  <1> USE ConstantsAssumption
  <1>1. CASE \E os \in Objects : SealControlArtifact(os)
    <2> PICK os \in Objects : SealControlArtifact(os)
      BY <1>1
    <2>1. /\ stage = "new" /\ stage' = "control_sealed" /\ log = <<>> /\ log' = log
          /\ digests' = os /\ NoUriConflict(os) /\ os \subseteq Uris \X Contents
          /\ payloads' = Retained(os) /\ prevSig' = ControlSig
          /\ broken' = broken /\ finished' = finished /\ outstanding' = outstanding
          /\ resolved' = resolved /\ sealing' = sealing
      BY DEF SealControlArtifact, RunInv, StartInOrder, Objects
    <2>2. \A t \in Threads : sealing[t] = NoEvent
      BY <2>1 DEF RunInv, StartInOrder
    <2>3. Delegated' = Delegated /\ Answered' = Answered /\ Closed' = Closed
      BY <2>1 DEF Delegated, Answered, Closed, EventsOf
    <2>4. RunTypeOK'
      <3>1. payloads' \subseteq Uris
        BY <2>1 DEF Retained, UrisOf
      <3> QED
        BY <2>1, <3>1 DEF RunInv, RunTypeOK, ControlSig
    <2>5. RequestsStayCurrent' /\ OneRequest'
      BY <2>1, <2>2 DEF RequestsStayCurrent, OneRequest
    <2>6. StartInOrder'
      BY <2>1, <2>2 DEF RunInv, StartInOrder, ControlSig
    <2>7. Chained' /\ ChildNamed' /\ DigestsCover'
      BY <2>1 DEF Chained, ChildNamed, DigestsCover, NoUriConflict
    <2>8. AlwaysRoomToClose' /\ DelegationsAccounted'
      BY <2>1, <2>3 DEF RunInv, AlwaysRoomToClose, DelegationsAccounted
    <2>9. CompletedMeansAnswered'
      BY <2>1 DEF CompletedMeansAnswered, EventsOf
    <2> QED
      BY <2>4, <2>5, <2>6, <2>7, <2>8, <2>9 DEF RunInv
  <1>2. CASE \E os \in Objects : SealRunStart(os)
    <2> PICK os \in Objects : SealRunStart(os)
      BY <1>2
    <2> DEFINE a == [Event("run_start", NoChild, "none", os) EXCEPT !.sig = ControlSig + 1]
    <2>1. /\ stage = "control_sealed" /\ stage' = "start_sealed" /\ log = <<>> /\ log' = <<a>>
          /\ digests' = digests \cup os /\ NoUriConflict(os) /\ os \subseteq Uris \X Contents
          /\ payloads' = payloads \cup Retained(os) /\ prevSig' = ControlSig + 1
          /\ broken' = broken /\ finished' = finished /\ outstanding' = outstanding
          /\ resolved' = resolved /\ sealing' = sealing
      BY DEF SealRunStart, RunInv, StartInOrder, Objects
    <2>2. /\ \A t \in Threads : sealing[t] = NoEvent
          /\ ~finished /\ outstanding = {} /\ resolved = {} /\ prevSig = ControlSig
      BY <2>1 DEF RunInv, StartInOrder, ControlSig
    <2>3. /\ a.type = "run_start" /\ a.seq = 0 /\ a.link = ControlSig /\ a.sig = ControlSig + 1
          /\ a.child = NoChild /\ a.objects = os /\ a \in Artifacts
      BY <2>1, <2>2 DEF Event, Artifacts, EventTypes, ControlSig, Positions
    <2> HIDE DEF a
    <2>4. Len(log') = 1 /\ DOMAIN log' = 1..1 /\ log'[1] = a /\ log' \in Seq(Artifacts)
      BY <2>1, <2>3
    <2>5. Delegated' = {} /\ Answered' = {} /\ ~Closed'
      BY <2>3, <2>4 DEF Delegated, Answered, Closed, EventsOf
    <2>6. RunTypeOK'
      <3>1. payloads' \subseteq Uris
        BY <2>1 DEF Retained, UrisOf, RunInv, RunTypeOK
      <3> QED
        BY <2>1, <2>4, <3>1 DEF RunInv, RunTypeOK, ControlSig
    <2>7. RequestsStayCurrent' /\ OneRequest'
      BY <2>1, <2>2 DEF RequestsStayCurrent, OneRequest
    <2>8. StartInOrder'
      BY <2>1, <2>2, <2>4 DEF RunInv, StartInOrder, ControlSig
    <2>9. Chained' /\ ChildNamed' /\ DigestsCover'
      BY <2>1, <2>3, <2>4 DEF RunInv, Chained, ChildNamed, DigestsCover, NoUriConflict, ControlSig
    <2>10. AlwaysRoomToClose'
      <3>1. Cardinality(Delegated' \ Answered') = 0
        BY <2>5, FS_EmptySet
      <3> QED
        BY <2>4, <2>5, <3>1 DEF AlwaysRoomToClose
    <2>11. DelegationsAccounted'
      BY <2>1, <2>2, <2>4, <2>5 DEF DelegationsAccounted
    <2>12. CompletedMeansAnswered'
      BY <2>3, <2>4 DEF CompletedMeansAnswered, EventsOf
    <2> QED
      BY <2>6, <2>7, <2>8, <2>9, <2>10, <2>11, <2>12 DEF RunInv
  <1>3. CASE StartFails \/ NotifyControlArtifact \/ NotifyRunStart
    <2>1. UNCHANGED <<runVars, sealing>> /\ stage # "open"
      BY <1>3 DEF StartFails, NotifyControlArtifact, NotifyRunStart
    <2>2. \A t \in Threads : sealing[t] = NoEvent
      BY <2>1 DEF RunInv, StartInOrder
    <2>3. RunTypeOK' /\ RequestsStayCurrent' /\ OneRequest'
      BY <1>3, <2>1, <2>2 DEF StartFails, NotifyControlArtifact, NotifyRunStart, runVars,
                              RunInv, RunTypeOK, RequestsStayCurrent, OneRequest
    <2>4. StartInOrder'
      BY <1>3, <2>1, <2>2 DEF StartFails, NotifyControlArtifact, NotifyRunStart, runVars,
                              RunInv, StartInOrder
    <2> QED
      BY <2>1, <2>3, <2>4, BooksUnchanged DEF RunInv
  <1> QED
    BY <1>1, <1>2, <1>3 DEF Start

\* An answer, whatever it is.
LEMMA AnswerKeepsRunInv ==
    ASSUME RunInv, NEW t \in Threads, Answer(t)
    PROVE  RunInv'
  <1> DEFINE e == sealing[t]
  <1>1. payloads \subseteq Uris /\ e \in Requests
    BY DEF RunInv, RunTypeOK
  <1>2. CASE Sealed(t)
    <2>1. payloads' \subseteq Uris
      BY <1>1, <1>2 DEF Sealed, Retained, UrisOf, Requests
    <2> QED
      BY <1>2, <2>1, CommitKeepsRunInv DEF Sealed
  <1>3. CASE SealInterrupted(t)
    <2>1. /\ e # NoEvent /\ Link(e) /\ Without(t) /\ broken' = TRUE
          /\ UNCHANGED <<stage, outstanding, resolved>>
      BY <1>3 DEF SealInterrupted
    <2>2. CASE UNCHANGED <<log, finished, payloads>>
      <3>1. prevSig' \in Nat /\ digests' = digests \cup e.objects
        BY <2>1 DEF Link, ControlSig, RunInv, RunTypeOK
      <3> QED
        BY <2>1, <2>2, <3>1, BreakKeepsRunInv
    <2>3. CASE Extend(e) /\ (Ends(e) \/ UNCHANGED finished) /\ payloads' \in {payloads, payloads \cup Retained(e.objects)}
      <3>1. payloads' \subseteq Uris
        BY <1>1, <2>3 DEF Retained, UrisOf, Requests
      <3> QED
        BY <2>1, <2>3, <3>1, CommitKeepsRunInv
    <2> QED
      BY <1>3, <2>2, <2>3 DEF SealInterrupted
  <1>4. CASE SealFails(t)
    <2>1. prevSig' \in Nat
      BY <1>4 DEF SealFails, RunInv, RunTypeOK
    <2> QED
      BY <1>4, <2>1, BreakKeepsRunInv DEF SealFails
  <1> QED
    BY <1>2, <1>3, <1>4 DEF Answer

LEMMA NotifyKeepsRunInv ==
    ASSUME RunInv, NEW t \in Threads, Notify(t)
    PROVE  RunInv'
  BY RunUnchanged DEF Notify, Deliver, CallbackReturns, WaitInterrupted

LEMMA InitRunInv ==
    ASSUME Init
    PROVE  RunInv
  <1> USE ConstantsAssumption DEF Init
  <1>1. DOMAIN log = {} /\ Len(log) = 0
    OBVIOUS
  <1>2. Delegated = {} /\ Answered = {} /\ ~Closed /\ Cardinality(Delegated \ Answered) = 0
    BY <1>1, FS_EmptySet DEF Delegated, Answered, Closed, EventsOf
  <1>3. RunTypeOK
    <2>1. NoEvent \in Requests
      BY DEF NoEvent, Requests, Positions
    <2>2. sealing \in [Threads -> Requests] /\ log \in Seq(Artifacts)
      BY <2>1
    <2> QED
      BY <2>2 DEF RunTypeOK
  <1>4. RequestsStayCurrent /\ OneRequest /\ StartInOrder
    BY DEF RequestsStayCurrent, OneRequest, StartInOrder
  <1>5. Chained /\ ChildNamed /\ DigestsCover
    BY <1>1 DEF Chained, ChildNamed, DigestsCover
  <1>6. AlwaysRoomToClose /\ DelegationsAccounted /\ CompletedMeansAnswered
    BY <1>1, <1>2 DEF AlwaysRoomToClose, DelegationsAccounted, CompletedMeansAnswered, EventsOf
  <1> QED
    BY <1>3, <1>4, <1>5, <1>6 DEF RunInv

\* RunInv is an invariant: it holds when the run is created, and every step of
\* every thread keeps it.
THEOREM RunInvariant == Spec => []RunInv
  <1>1. Init => RunInv
    BY InitRunInv
  <1>2. RunInv /\ [Next]_vars => RunInv'
    <2> SUFFICES ASSUME RunInv, [Next]_vars
                 PROVE  RunInv'
      OBVIOUS
    <2>1. CASE Start
      BY <2>1, StartKeepsRunInv
    <2>2. ASSUME NEW t \in Threads, Call(t)
          PROVE  RunInv'
      BY <2>2, CallKeepsRunInv
    <2>3. ASSUME NEW t \in Threads, Answer(t)
          PROVE  RunInv'
      BY <2>3, AnswerKeepsRunInv
    <2>4. ASSUME NEW t \in Threads, Notify(t)
          PROVE  RunInv'
      BY <2>4, NotifyKeepsRunInv
    <2>5. CASE UNCHANGED vars
      BY <2>5, RunUnchanged DEF vars
    <2> QED
      BY <2>1, <2>2, <2>3, <2>4, <2>5 DEF Next
  <1> QED
    BY <1>1, <1>2, PTL DEF Spec
---------------------------------------------------------------------------------
\* A thread that waits, waits for an event of its own.
NotifyInv == /\ NotifyTypeOK
             /\ \A t \in waiting : notifying[t] # <<>>

\* The innermost event of a thread's stack, and the stack below it.
LEMMA StackTop ==
    ASSUME NotifyTypeOK, NEW t \in Threads, notifying[t] # <<>>
    PROVE  Current(t) \in Positions /\ Caller(t) \in Seq(Positions)
  <1>1. notifying[t] \in Seq(Positions) /\ Len(notifying[t]) \in Nat \ {0}
    BY EmptySeq, LenProperties DEF NotifyTypeOK
  <1>2. \A i \in 1..Len(notifying[t])-1 : notifying[t][i] \in Positions
    BY <1>1
  <1> QED
    BY <1>1, <1>2, SubSeqProperties DEF Current, Caller

LEMMA NotifyInvKept ==
    ASSUME RunInv, NotifyInv, [Next]_vars
    PROVE  NotifyInv'
  <1> USE ConstantsAssumption DEF NotifyInv
  <1>1. Positions \subseteq -1..MaxArtifacts-1 /\ 0 \in Positions /\ 1 \in -1..MaxArtifacts
    BY DEF Positions
  <1>2. CASE Start \/ UNCHANGED vars \/ \E t \in Threads : Call(t)
    <2>1. UNCHANGED <<waiting, notifying, nested>>
      BY <1>2 DEF Start, SealControlArtifact, SealRunStart, StartFails, NotifyControlArtifact,
                  NotifyRunStart, vars, notifyVars, Call, Record, Delegate,
                  CompleteDelegation, Finish, BeginSeal
    <2>2. /\ nextNotify' \in {nextNotify, 0, 1}
          /\ delivered' \in {delivered, delivered \cup {-1}, delivered \cup {0}}
      BY <1>2 DEF Start, SealControlArtifact, SealRunStart, StartFails, NotifyControlArtifact,
                  NotifyRunStart, vars, notifyVars, Call, Record, Delegate,
                  CompleteDelegation, Finish, BeginSeal
    <2>3. nextNotify' \in -1..MaxArtifacts /\ delivered' \subseteq -1..MaxArtifacts-1
      BY <2>2 DEF NotifyTypeOK
    <2> QED
      BY <2>1, <2>3 DEF NotifyTypeOK
  <1>3. ASSUME NEW t \in Threads, Answer(t)
        PROVE  NotifyInv'
    <2> DEFINE e == sealing[t]
    <2>1. e.seq \in Positions
      BY DEF RunInv, RunTypeOK, Requests
    <2>2. CASE waiting' = waiting /\ notifying' = notifying
      <3>1. nested' \subseteq nested \cup {e.seq} /\ UNCHANGED <<nextNotify, delivered>>
        BY <1>3 DEF Answer, Sealed, SealFails, SealInterrupted, notifyVars
      <3> QED
        BY <2>1, <2>2, <3>1 DEF NotifyTypeOK
    <2>3. CASE /\ waiting' = waiting \cup {t}
               /\ notifying' = [notifying EXCEPT ![t] = Append(@, e.seq)]
      <3>1. nested' \subseteq nested \cup {e.seq} /\ UNCHANGED <<nextNotify, delivered>>
        BY <1>3 DEF Answer, Sealed, SealFails, SealInterrupted, notifyVars
      <3>2. notifying[t] \in Seq(Positions)
        BY DEF NotifyTypeOK
      <3>3. Append(notifying[t], e.seq) \in Seq(Positions) /\ Append(notifying[t], e.seq) # <<>>
        BY <2>1, <3>2, AppendProperties
      <3>4. notifying' \in [Threads -> Seq(Positions)]
        BY <2>3, <3>3 DEF NotifyTypeOK
      <3>5. \A u \in waiting' : notifying'[u] # <<>>
        BY <2>3, <3>3 DEF NotifyTypeOK
      <3> QED
        BY <2>1, <2>3, <3>1, <3>4, <3>5 DEF NotifyTypeOK
    <2> QED
      BY <1>3, <2>2, <2>3 DEF Answer, Sealed, SealFails, SealInterrupted, notifyVars
  <1>4. ASSUME NEW t \in Threads, Deliver(t)
        PROVE  NotifyInv'
    <2>1. /\ Current(t) \in Positions
          /\ waiting' = waiting \ {t} /\ delivered' = delivered \cup {Current(t)}
          /\ UNCHANGED <<notifying, nextNotify, nested>>
      BY <1>4, StackTop DEF Deliver
    <2> QED
      BY <1>1, <2>1 DEF NotifyTypeOK
  <1>5. ASSUME NEW t \in Threads, CallbackReturns(t)
        PROVE  NotifyInv'
    <2>1. /\ Current(t) \in Positions /\ Caller(t) \in Seq(Positions) /\ t \notin waiting
          /\ notifying' = [notifying EXCEPT ![t] = Caller(t)]
          /\ nextNotify' \in {nextNotify, Current(t) + 1}
          /\ UNCHANGED <<waiting, delivered, nested>>
      BY <1>5, StackTop DEF CallbackReturns, Idle, Advance
    <2>2. nextNotify' \in -1..MaxArtifacts
      BY <2>1 DEF NotifyTypeOK, Positions
    <2> QED
      BY <2>1, <2>2 DEF NotifyTypeOK
  <1>6. ASSUME NEW t \in Threads, WaitInterrupted(t)
        PROVE  NotifyInv'
    <2>1. /\ Caller(t) \in Seq(Positions) /\ waiting' = waiting \ {t}
          /\ notifying' = [notifying EXCEPT ![t] = Caller(t)]
          /\ UNCHANGED <<nextNotify, delivered, nested>>
      BY <1>6, StackTop DEF WaitInterrupted
    <2> QED
      BY <2>1 DEF NotifyTypeOK
  <1> QED
    BY <1>2, <1>3, <1>4, <1>5, <1>6 DEF Next, Notify

\* Every variable keeps its type; every position in use fits in the bundle.
THEOREM TypeCorrect == Spec => []TypeOK
  <1>1. Init => NotifyInv
    BY ConstantsAssumption DEF Init, NotifyInv, NotifyTypeOK, Positions
  <1>2. RunInv /\ NotifyInv /\ [Next]_vars => NotifyInv'
    BY NotifyInvKept
  <1>3. RunInv /\ NotifyInv => TypeOK
    BY DEF RunInv, NotifyInv, TypeOK
  <1> QED
    BY <1>1, <1>2, <1>3, RunInvariant, PTL DEF Spec
---------------------------------------------------------------------------------
\* Whatever the threads do between a check and the seal it allowed, the check
\* still holds when the answer comes (the lock of AgentRun is enough).
THEOREM ChecksHoldAtAnswer == Spec => []RequestsStayCurrent
  <1>1. RunInv => RequestsStayCurrent
    BY DEF RunInv
  <1> QED
    BY <1>1, RunInvariant, PTL

\* The log is one chain, for any number of threads and events.
THEOREM ChainIsLinked == Spec => []ChainLinked
  <1>1. RunInv => ChainLinked
    <2> SUFFICES ASSUME RunInv
                 PROVE  ChainLinked
      OBVIOUS
    <2>1. DOMAIN log = 1..Len(log) /\ Len(log) \in Nat
      BY LenProperties DEF RunInv, RunTypeOK
    <2>2. \A i \in 1..Len(log) : /\ log[i].seq = i - 1 /\ log[i].sig = ControlSig + i
                                 /\ log[i].link = ControlSig + i - 1
      BY DEF RunInv, Chained
    <2> QED
      BY <2>1, <2>2 DEF ChainLinked, ControlSig
  <1> QED
    BY <1>1, RunInvariant, PTL

\* No run can outgrow its bundle or be left without room for the results of
\* its children and for run_end.
THEOREM RunCanBeClosed == Spec => []AlwaysRoomToClose
  <1>1. RunInv => AlwaysRoomToClose
    BY DEF RunInv
  <1> QED
    BY <1>1, RunInvariant, PTL

\* The books of delegations agree with the delegations and results in the log.
THEOREM DelegationsAreAccounted == Spec => []DelegationsAccounted
  <1>1. RunInv => DelegationsAccounted
    BY DEF RunInv
  <1> QED
    BY <1>1, RunInvariant, PTL

\* A run closed "completed" has a result for each of its delegations: finish
\* refuses while one is open, and nothing opens one before the answer comes.
THEOREM CompletedIsAnswered == Spec => []CompletedMeansAnswered
  <1>1. RunInv => CompletedMeansAnswered
    BY DEF RunInv
  <1> QED
    BY <1>1, RunInvariant, PTL

\* A URI names one content in the whole run.
THEOREM UrisAreConsistent == Spec => []UriNamesOneContent
  <1>1. RunInv => UriNamesOneContent
    <2> SUFFICES ASSUME RunInv
                 PROVE  UriNamesOneContent
      OBVIOUS
    <2>1. DOMAIN log = 1..Len(log)
      BY LenProperties DEF RunInv, RunTypeOK
    <2>2. digests \cup UNION {log[i].objects : i \in DOMAIN log} \subseteq digests
      BY <2>1 DEF RunInv, DigestsCover
    <2> QED
      BY <2>2 DEF RunInv, DigestsCover, UriNamesOneContent
  <1> QED
    BY <1>1, RunInvariant, PTL
---------------------------------------------------------------------------------
\* What a step other than an answer or a start leaves alone.
LEMMA OtherStepsKeepLog ==
    ASSUME \/ StartFails \/ NotifyControlArtifact \/ NotifyRunStart
           \/ \E os \in Objects : SealControlArtifact(os)
           \/ \E t \in Threads : Call(t) \/ Notify(t)
           \/ UNCHANGED vars
    PROVE  UNCHANGED <<log, broken, finished>>
  BY DEF StartFails, NotifyControlArtifact, NotifyRunStart, SealControlArtifact, vars, runVars,
         Call, Record, Delegate, CompleteDelegation, Finish, BeginSeal,
         Notify, Deliver, CallbackReturns, WaitInterrupted

\* Without interrupts a broken chain has no run_end: the bundle of a run whose
\* seal failed is never a finalized one.
THEOREM BrokenIsNeverFinalized == Spec => []BrokenNeverFinalized
  <1>1. Init => BrokenNeverFinalized
    BY DEF Init, BrokenNeverFinalized
  <1>2. RunInv /\ BrokenNeverFinalized /\ [Next]_vars => BrokenNeverFinalized'
    <2> SUFFICES ASSUME RunInv, BrokenNeverFinalized, [Next]_vars, Interruptible = {}
                 PROVE  broken' => EventsOf("run_end")' = {} /\ ~finished'
      BY DEF BrokenNeverFinalized
    <2>1. CASE UNCHANGED <<log, broken, finished>>
      BY <2>1 DEF BrokenNeverFinalized, EventsOf
    <2>2. CASE \E os \in Objects : SealRunStart(os)
      BY <2>2 DEF SealRunStart, RunInv, StartInOrder
    <2>3. ASSUME NEW t \in Threads, Answer(t)
          PROVE  broken' => EventsOf("run_end")' = {} /\ ~finished'
      <3>1. ~broken /\ ~finished
        BY <2>3 DEF Answer, Sealed, SealFails, SealInterrupted,
                    RunInv, RequestsStayCurrent, RequestCurrent, EnsureOpen
      <3>2. EventsOf("run_end") = {}
        BY <3>1 DEF RunInv, CompletedMeansAnswered, EnsureOpen
      <3> QED
        BY <2>3, <3>1, <3>2, ConstantsAssumption DEF Answer, Sealed, SealFails, SealInterrupted, EventsOf
    <2> QED
      BY <2>1, <2>2, <2>3, OtherStepsKeepLog DEF Next, Start
  <1> QED
    BY <1>1, <1>2, RunInvariant, PTL DEF Spec

\* The append of an accepted event is a step of the abstract log.
LEMMA AppendGrowsEvidence ==
    ASSUME RunInv, Status = "open",
           NEW a, a.seq = Len(log), a.sig = ControlSig + Len(log) + 1,
           a.link = ControlSig + Len(log),
           log' = Append(log, a), log' \in Seq(Artifacts),
           Status' \in IF a.type = "run_end" THEN {"closed"} ELSE {"open", "stopped"}
    PROVE  Evidence!Grow
  <1>1. log \in Seq(Artifacts) /\ Len(log) \in Nat /\ DOMAIN log = 1..Len(log)
    BY LenProperties DEF RunInv, RunTypeOK
  <1>2. a \in {log'[i] : i \in DOMAIN log'}
    <2>1. Len(log') = Len(log) + 1 /\ log'[Len(log) + 1] = a
      BY <1>1
    <2>2. Len(log) + 1 \in DOMAIN log'
      BY <1>1, <2>1, LenProperties
    <2> QED
      BY <2>1, <2>2
  <1>3. a.link = Evidence!HeadSig
    <2>1. CASE log = <<>>
      BY <1>1, <2>1 DEF Evidence!HeadSig, Evidence!ControlSig, ControlSig
    <2>2. CASE log # <<>>
      <3>1. Len(log) \in 1..Len(log)
        BY <1>1, <2>2, EmptySeq
      <3>2. log[Len(log)].sig = ControlSig + Len(log)
        BY <3>1 DEF RunInv, Chained
      <3> QED
        BY <2>2, <3>2 DEF Evidence!HeadSig
    <2> QED
      BY <2>1, <2>2
  <1>4. a.sig \notin Evidence!Signatures
    BY <1>1 DEF Evidence!Signatures, Evidence!ControlSig, ControlSig, RunInv, Chained
  <1>5. Evidence!Continues(a)
    BY <1>3, <1>4 DEF Evidence!Continues
  <1> QED
    BY <1>2, <1>5 DEF Evidence!Grow

\* The recorder implements the append-only chained log: every step of any
\* thread appends one artifact that continues the chain, stops the log, or
\* changes nothing of it.
THEOREM Refinement == Spec => ImplementsEvidenceLog
  <1>1. Init => Evidence!Init
    BY DEF Init, Evidence!Init, Status, Closed, EventsOf
  <1>2. RunInv /\ RunInv' /\ [Next]_vars => [Evidence!Next]_(Evidence!vars)
    <2> SUFFICES ASSUME RunInv, RunInv', [Next]_vars
                 PROVE  Evidence!Next \/ UNCHANGED <<log, Status>>
      BY DEF Evidence!vars
    <2>1. CASE UNCHANGED <<log, broken, finished>>
      BY <2>1 DEF Status, Closed, EventsOf
    <2>2. ASSUME NEW os \in Objects, SealRunStart(os)
          PROVE  Evidence!Next
      <3> DEFINE a == [Event("run_start", NoChild, "none", os) EXCEPT !.sig = ControlSig + 1]
      <3>1. /\ log = <<>> /\ log' = <<a>> /\ prevSig = ControlSig
            /\ Status = "open" /\ Status' = "open"
        BY <2>2 DEF SealRunStart, RunInv, StartInOrder, Status, Closed, EventsOf, Event, ControlSig
      <3>2. a.type = "run_start" /\ a.seq = 0 /\ a.sig = ControlSig + 1 /\ a.link = ControlSig
        BY <3>1 DEF Event
      <3> HIDE DEF a
      <3>3. Len(log) = 0 /\ log' = Append(log, a) /\ log' \in Seq(Artifacts)
        BY <3>1 DEF RunInv, RunTypeOK
      <3>4. Evidence!Grow
        BY <3>1, <3>2, <3>3, AppendGrowsEvidence DEF ControlSig
      <3> QED
        BY <3>4 DEF Evidence!Next
    <2>3. ASSUME NEW t \in Threads, Answer(t)
          PROVE  Evidence!Next
      <3> DEFINE e == sealing[t]
                 a == [e EXCEPT !.sig = ControlSig + Len(log) + 1]
      <3>1. /\ stage = "open" /\ ~broken /\ ~finished /\ e \in Requests
            /\ e.seq = Len(log) /\ e.link = prevSig /\ prevSig = ControlSig + Len(log)
            /\ EventsOf("run_end") = {}
        BY <2>3 DEF Answer, Sealed, SealFails, SealInterrupted, RunInv, RunTypeOK,
                    RequestsStayCurrent, RequestCurrent, EnsureOpen, StartInOrder,
                    CompletedMeansAnswered
      <3>2. Status = "open"
        BY <3>1 DEF Status, Closed
      <3>3. CASE log' = log /\ broken'
        BY <3>1, <3>2, <3>3 DEF Status, Closed, EventsOf, Evidence!Next, Evidence!Stop
      <3>4. CASE Extend(e)
        <4>1. log' = Append(log, a)
          BY <3>4 DEF Extend
        <4>6. /\ log \in Seq(Artifacts) /\ DOMAIN log = 1..Len(log) /\ Len(log') = Len(log) + 1
              /\ DOMAIN log' = 1..Len(log)+1 /\ log'[Len(log)+1].type = e.type
              /\ \A i \in 1..Len(log) : log'[i] = log[i]
          <5>1. e.type \in EventTypes
            BY <2>3, CurrentIsEvent DEF Answer, Sealed, SealFails, SealInterrupted, RunInv,
                                        RequestsStayCurrent
          <5> QED
            BY <3>1, <3>4, <5>1, ExtendAppends, LenProperties DEF RunInv, RunTypeOK
        <4>2. /\ a.seq = Len(log) /\ a.sig = ControlSig + Len(log) + 1
              /\ a.link = ControlSig + Len(log) /\ a.type = e.type
          BY <3>1 DEF Requests
        <4>3. Status' \in IF a.type = "run_end" THEN {"closed"} ELSE {"open", "stopped"}
          BY <3>1, <4>2, <4>6 DEF Status, Closed, EventsOf
        <4>4. log' \in Seq(Artifacts)
          BY DEF RunInv, RunTypeOK
        <4> HIDE DEF a
        <4>5. Evidence!Grow
          BY <3>2, <4>1, <4>2, <4>3, <4>4, AppendGrowsEvidence
        <4> QED
          BY <4>5 DEF Evidence!Next
      <3> QED
        BY <2>3, <3>3, <3>4 DEF Answer, Sealed, SealFails, SealInterrupted
    <2> QED
      BY <2>1, <2>2, <2>3, OtherStepsKeepLog DEF Next, Start
  <1> QED
    BY <1>1, <1>2, RunInvariant, PTL DEF Spec, ImplementsEvidenceLog, Evidence!Spec
=================================================================================

-------------------------------- MODULE AgentRun --------------------------------
(***************************************************************************)
(* The recorder of one agent run (AgentRun in _agent_run.py): a chain of   *)
(* signed events that several threads extend, one seal at a time under a   *)
(* lock, with a callback (on_artifact_sealed) run after the lock is        *)
(* released, in chain order, which may itself record into the run.         *)
(*                                                                         *)
(* A call of record, delegate, complete_delegation or finish is three or   *)
(* more steps of its thread:                                               *)
(*   Begin...    the lock is free, every check of the method passes, and   *)
(*               the seal request leaves for the service (lock held);      *)
(*   Sealed      the service's answer is accepted, the event is appended   *)
(*               and the method's bookkeeping done, the lock is released;  *)
(*     or SealFails / SealInterrupted;                                     *)
(*   Deliver     the thread's turn has come and the callback starts;       *)
(*   CallbackReturns   normally or by raising: the effect is the same.     *)
(* A call whose checks fail raises and changes nothing, so it is no step.  *)
(*                                                                         *)
(* Abstractions: an object is a pair <<uri, content>>; a signature is a    *)
(* number no other artifact of the run has; event fields, timestamps and   *)
(* schema validation are left out (module TimestampCoverage has the        *)
(* timestamp decision).  An interrupt (KeyboardInterrupt) reaches a thread *)
(* while it waits for its turn or anywhere inside the sealing try block,   *)
(* not in the few bytecodes between the two.                               *)
(***************************************************************************)
EXTENDS Integers, Sequences, FiniteSets

CONSTANTS Threads,         \* the threads that call into the run
          Interruptible,   \* those an interrupt can reach: the main thread, or none
          Children,        \* correlation ids of runs this one may delegate to
          NoChild,         \* no child: an event that is not about a delegation
          Uris, Contents,  \* object URIs and what they may name
          MaxObjects,      \* objects in one event
          MaxArtifacts,    \* MAX_ARTIFACTS: events in one bundle
          MaxPayloads,     \* MAX_PAYLOADS: payloads in one bundle
          MaxNesting,      \* bound: callbacks that record, inside one another
          Retain           \* retain_payloads

ASSUME ConstantsAssumption ==
    /\ Interruptible \subseteq Threads
    /\ IsFiniteSet(Children)
    /\ NoChild \notin Children
    /\ MaxObjects \in Nat
    /\ MaxArtifacts \in Nat /\ MaxArtifacts >= 2
    /\ MaxPayloads \in Nat
    /\ MaxNesting \in Nat
    /\ Retain \in BOOLEAN

VARIABLES
    stage,        \* how far AgentRun.start has come
    log,          \* _artifacts
    digests,      \* _sealed_digests
    payloads,     \* the keys of _payloads
    prevSig,      \* _prev_signature_sha256
    broken,       \* _broken
    finished,     \* _finished
    outstanding,  \* the keys of _outstanding
    resolved,     \* _resolved
    sealing,      \* sealing[t]: the event whose seal t awaits, holding _lock
    waiting,      \* the threads in _notify that have not started their callback
    notifying,    \* notifying[t]: the seqs whose _notify is on t's stack, outermost first
    nextNotify,   \* _next_notify
    delivered,    \* history: the seqs whose callback has started
    nested        \* history: the seqs recorded from inside a callback

runVars    == <<log, digests, payloads, prevSig, broken, finished, outstanding, resolved>>
notifyVars == <<waiting, notifying, nextNotify, delivered>>
vars       == <<stage, runVars, sealing, notifyVars, nested>>
---------------------------------------------------------------------------------
Dispositions == {"completed", "failed", "aborted"}
EventTypes   == {"run_start", "event", "delegation", "delegation_result", "run_end"}
Objects      == {os \in SUBSET (Uris \X Contents) : Cardinality(os) <= MaxObjects}
ControlSig   == 1

Event(type, child, disposition, objects) ==
    [type |-> type, seq |-> Len(log), link |-> prevSig, sig |-> 0,
     child |-> child, disposition |-> disposition, objects |-> objects]

NoEvent == [type |-> "none", seq |-> 0, link |-> 0, sig |-> 0,
            child |-> NoChild, disposition |-> "none", objects |-> {}]

UrisOf(os) == {o[1] : o \in os}

\* Mutant: only the event itself is checked, not what the run sealed before.
NoUriConflict_WithinEvent(os) == \A o, p \in os : o[1] = p[1] => o[2] = p[2]

\* No URI of the event, taken with the sealed ones, names two contents:
\* _digests refuses it within the event, _check_uri_reuse across the run.
NoUriConflict(os) ==
    \A o \in os, p \in os \cup digests : o[1] = p[1] => o[2] = p[2]

BundleFits(artifactCount, payloadUris) ==
    /\ artifactCount <= MaxArtifacts
    /\ Cardinality(payloadUris) <= MaxPayloads

Retained(os) == IF Retain THEN UrisOf(os) ELSE {}

Idle(t) == sealing[t] = NoEvent /\ t \notin waiting

\* Mutant: events are sealed without the lock.
LockFree_None == TRUE

LockFree == \A t \in Threads : sealing[t] = NoEvent
---------------------------------------------------------------------------------
Init ==
    /\ stage = "new"
    /\ log = <<>> /\ digests = {} /\ payloads = {} /\ prevSig = 0
    /\ broken = FALSE /\ finished = FALSE
    /\ outstanding = {} /\ resolved = {}
    /\ sealing = [t \in Threads |-> NoEvent]
    /\ waiting = {} /\ notifying = [t \in Threads |-> <<>>]
    /\ nextNotify = -1 /\ delivered = {} /\ nested = {}

\* AgentRun.start runs in one thread and nothing else holds the run until it
\* returns (or until AgentRunCallbackError hands it over).
SealControlArtifact(os) ==
    /\ stage = "new"
    /\ NoUriConflict(os)
    /\ stage' = "control_sealed"
    /\ digests' = os
    /\ payloads' = Retained(os)
    /\ prevSig' = ControlSig
    /\ UNCHANGED <<log, broken, finished, outstanding, resolved, sealing, notifyVars, nested>>

\* run_start has no predecessor; it binds the Control Artifact's signature.
SealRunStart(os) ==
    /\ stage = "control_sealed"
    /\ NoUriConflict(os)
    /\ stage' = "start_sealed"
    /\ log' = <<[Event("run_start", NoChild, "none", os) EXCEPT !.sig = ControlSig + 1]>>
    /\ prevSig' = ControlSig + 1
    /\ digests' = digests \cup os
    /\ payloads' = payloads \cup Retained(os)
    /\ UNCHANGED <<broken, finished, outstanding, resolved, sealing, notifyVars, nested>>

\* A seal of start fails, or run_start reuses a URI: start raises and the run
\* is never handed to anyone.
StartFails ==
    /\ stage \in {"new", "control_sealed"}
    /\ stage' = "failed"
    /\ UNCHANGED <<runVars, sealing, notifyVars, nested>>

\* The two callbacks of start, whatever the first one raises.
NotifyControlArtifact ==
    /\ stage = "start_sealed"
    /\ stage' = "control_notified"
    /\ delivered' = delivered \cup {-1}
    /\ nextNotify' = 0
    /\ UNCHANGED <<runVars, sealing, waiting, notifying, nested>>

NotifyRunStart ==
    /\ stage = "control_notified"
    /\ stage' = "open"
    /\ delivered' = delivered \cup {0}
    /\ nextNotify' = 1
    /\ UNCHANGED <<runVars, sealing, waiting, notifying, nested>>

Start == \/ \E os \in Objects : SealControlArtifact(os) \/ SealRunStart(os)
         \/ StartFails
         \/ NotifyControlArtifact
         \/ NotifyRunStart
---------------------------------------------------------------------------------
\* Mutant: a broken chain is forgotten.
EnsureOpen_Finished == ~finished

EnsureOpen == ~broken /\ ~finished

\* t, outside the library or inside a callback, takes the lock and sends e.
BeginSeal(t, e) ==
    /\ stage = "open"
    /\ Idle(t)
    /\ Len(notifying[t]) <= MaxNesting
    /\ LockFree
    /\ EnsureOpen
    /\ NoUriConflict(e.objects)
    /\ sealing' = [sealing EXCEPT ![t] = e]
    /\ UNCHANGED <<stage, runVars, notifyVars, nested>>

\* Mutant: only run_end keeps its slot.
CanRecord_KeepsOneSlot == Len(log) < MaxArtifacts - 1

\* record and its typed variants, checkpoint included: the last slots are kept
\* for run_end and the results of the open delegations.
CanRecord == Len(log) < MaxArtifacts - 1 - Cardinality(outstanding)

Record(t, os) ==
    /\ CanRecord
    /\ BeginSeal(t, Event("event", NoChild, "none", os))

\* Mutant: the new delegation's own result is not counted.
CanDelegate_NoResultSlot(c) ==
    /\ c \notin outstanding \cup resolved
    /\ Len(log) + 1 + Cardinality(outstanding) + 1 <= MaxArtifacts

\* This event, a result for every open delegation including this one, and run_end.
CanDelegate(c) ==
    /\ c \notin outstanding \cup resolved
    /\ Len(log) + 1 + Cardinality(outstanding) + 1 + 1 <= MaxArtifacts

Delegate(t, c, os) ==
    /\ CanDelegate(c)
    /\ BeginSeal(t, Event("delegation", c, "none", os))

\* Mutant: a resolved delegation may be answered again.
CanComplete_Again(c) == c \in outstanding \cup resolved

CanComplete(c) == c \in outstanding

CompleteDelegation(t, c, disposition) ==
    /\ CanComplete(c)
    /\ BeginSeal(t, Event("delegation_result", c, disposition, {}))

\* Mutant: completed is not checked against the open delegations.
CanFinish_Unchecked(disposition) == disposition \in Dispositions

CanFinish(disposition) == disposition = "completed" => outstanding = {}

Finish(t, disposition) ==
    /\ CanFinish(disposition)
    /\ BeginSeal(t, Event("run_end", NoChild, disposition, {}))
---------------------------------------------------------------------------------
Without(t) == sealing' = [sealing EXCEPT ![t] = NoEvent]

\* The tail of _seal_event, in its order: the digests and the link of the next
\* event, the append, and _finished.
Link(e) ==
    /\ digests' = digests \cup e.objects
    /\ prevSig' = ControlSig + Len(log) + 1

Extend(e) == log' = Append(log, [e EXCEPT !.sig = ControlSig + Len(log) + 1])

Ends(e) == finished' = (finished \/ e.type = "run_end")

\* What delegate and complete_delegation note before they release the lock.
NoteDelegation(e) ==
    /\ outstanding' = CASE e.type = "delegation"        -> outstanding \cup {e.child}
                        [] e.type = "delegation_result" -> outstanding \ {e.child}
                        [] OTHER                        -> outstanding
    /\ resolved' = IF e.type = "delegation_result" THEN resolved \cup {e.child} ELSE resolved

\* finish builds the bundle before it notifies: too many payloads and it raises
\* there, with run_end sealed and its callback never run.
BundleRaises(e) ==
    e.type = "run_end" /\ ~BundleFits(Len(log) + 1, payloads)

Sealed(t) ==
    LET e == sealing[t] IN
    /\ e # NoEvent
    /\ Link(e) /\ Extend(e) /\ Ends(e)
    /\ NoteDelegation(e)
    /\ payloads' = payloads \cup Retained(e.objects)
    /\ IF BundleRaises(e)
       THEN UNCHANGED <<waiting, notifying>>
       ELSE /\ waiting' = waiting \cup {t}
            /\ notifying' = [notifying EXCEPT ![t] = Append(@, e.seq)]
    /\ nested' = IF notifying[t] # <<>> THEN nested \cup {e.seq} ELSE nested
    /\ Without(t)
    /\ UNCHANGED <<stage, broken, nextNotify, delivered>>

\* The service refuses or cannot be reached, the answer lacks the timestamp or
\* was signed by another certificate; an interrupt reaches the thread during the
\* request; or, found last, the answer has no signature to chain to, when the
\* digests are noted already.  Whatever it was, the chain is broken.
SealFails(t) ==
    /\ sealing[t] # NoEvent
    /\ broken' = TRUE
    /\ digests' \in {digests, digests \cup sealing[t].objects}
    /\ Without(t)
    /\ UNCHANGED <<stage, log, payloads, prevSig, finished, outstanding, resolved,
                   notifyVars, nested>>

\* Mutant: the handler is "except Exception": an interrupt breaks nothing.
SealInterrupted_Unbroken(t) ==
    LET e == sealing[t] IN
    /\ t \in Interruptible
    /\ e # NoEvent
    /\ Link(e)
    /\ Extend(e)
    /\ Without(t)
    /\ UNCHANGED <<stage, payloads, broken, finished, outstanding, resolved, notifyVars, nested>>

\* An interrupt reaches the thread between two statements of that tail: before
\* the append, before _finished is set, before the payloads are kept, or at the
\* end of the try block.  The chain is broken and nobody is notified; run_end
\* may be in the log of a run that never became finished.
SealInterrupted(t) ==
    LET e == sealing[t] IN
    /\ t \in Interruptible
    /\ e # NoEvent
    /\ Link(e)
    /\ \/ UNCHANGED <<log, finished, payloads>>
       \/ Extend(e) /\ UNCHANGED <<finished, payloads>>
       \/ Extend(e) /\ Ends(e) /\ payloads' \in {payloads, payloads \cup Retained(e.objects)}
    /\ broken' = TRUE
    /\ Without(t)
    /\ UNCHANGED <<stage, outstanding, resolved, notifyVars, nested>>
---------------------------------------------------------------------------------
Current(t) == notifying[t][Len(notifying[t])]
Caller(t)  == SubSeq(notifying[t], 1, Len(notifying[t]) - 1)

\* A callback recorded into the run: its event does not wait.
IsNested(t) == Caller(t) # <<>>

\* Mutants: off by one; and nested events wait like the others.
MyTurn_OneEarly(t) == IsNested(t) \/ nextNotify >= Current(t) - 1
MyTurn_NestedWaits(t) == nextNotify >= Current(t)

MyTurn(t) == IsNested(t) \/ nextNotify >= Current(t)

\* Mutant: the turn is passed on before the callback, not after it.
Deliver_PassesTurnFirst(t) ==
    /\ t \in waiting
    /\ MyTurn(t)
    /\ waiting' = waiting \ {t}
    /\ delivered' = delivered \cup {Current(t)}
    /\ nextNotify' = IF nextNotify > Current(t) THEN nextNotify ELSE Current(t) + 1
    /\ UNCHANGED <<stage, runVars, sealing, notifying, nested>>

Deliver(t) ==
    /\ t \in waiting
    /\ MyTurn(t)
    /\ waiting' = waiting \ {t}
    /\ delivered' = delivered \cup {Current(t)}
    /\ UNCHANGED <<stage, runVars, sealing, notifying, nextNotify, nested>>

\* Mutant: the counter is set, not raised: a nested delivery is undone.
Advance_Overwrites(seq) == nextNotify' = seq + 1

Advance(seq) == nextNotify' = IF nextNotify > seq THEN nextNotify ELSE seq + 1

CallbackReturns(t) ==
    /\ Idle(t)
    /\ notifying[t] # <<>>
    /\ Advance(Current(t))
    /\ notifying' = [notifying EXCEPT ![t] = Caller(t)]
    /\ UNCHANGED <<stage, runVars, sealing, waiting, delivered, nested>>

\* An interrupt reaches a thread blocked in wait_for, outside the try block
\* whose finally advances nextNotify: the call raises, its turn is never taken.
WaitInterrupted(t) ==
    /\ t \in Interruptible
    /\ t \in waiting
    /\ ~MyTurn(t)
    /\ waiting' = waiting \ {t}
    /\ notifying' = [notifying EXCEPT ![t] = Caller(t)]
    /\ UNCHANGED <<stage, runVars, sealing, nextNotify, delivered, nested>>
---------------------------------------------------------------------------------
Call(t) == \/ \E os \in Objects : Record(t, os)
           \/ \E os \in Objects, c \in Children : Delegate(t, c, os)
           \/ \E c \in Children, d \in Dispositions : CompleteDelegation(t, c, d)
           \/ \E d \in Dispositions : Finish(t, d)

Answer(t) == Sealed(t) \/ SealFails(t) \/ SealInterrupted(t)

Notify(t) == Deliver(t) \/ CallbackReturns(t) \/ WaitInterrupted(t)

Next == Start \/ \E t \in Threads : Call(t) \/ Answer(t) \/ Notify(t)

Spec == Init /\ [][Next]_vars

\* The sealing request ends (the transport has timeouts), a callback returns,
\* and a thread whose turn has come runs: notify_all wakes every waiter and the
\* condition, once true, stays true.  Calls and interrupts need never happen.
Fairness ==
    /\ WF_vars(NotifyControlArtifact) /\ WF_vars(NotifyRunStart)
    /\ \A t \in Threads : /\ WF_vars(Sealed(t) \/ SealFails(t))
                          /\ WF_vars(Deliver(t))
                          /\ WF_vars(CallbackReturns(t))

FairSpec == Spec /\ Fairness
---------------------------------------------------------------------------------
(* What the log says of the delegations, whatever the bookkeeping believes. *)

EventsOf(type) == {i \in DOMAIN log : log[i].type = type}
Delegated      == {log[i].child : i \in EventsOf("delegation")}
Answered       == {log[i].child : i \in EventsOf("delegation_result")}

\* A verifier sees a closed run: its chain has a run_end.
Closed == EventsOf("run_end") # {}

Positions == 0..MaxArtifacts-1

Requests == [type : EventTypes \cup {"none"}, seq : Positions, link : Nat, sig : {0},
             child : Children \cup {NoChild}, disposition : Dispositions \cup {"none"},
             objects : SUBSET (Uris \X Contents)]

Artifacts == [type : EventTypes, seq : Positions, link : Nat, sig : Nat,
              child : Children \cup {NoChild}, disposition : Dispositions \cup {"none"},
              objects : SUBSET (Uris \X Contents)]

RunTypeOK ==
    /\ stage \in {"new", "control_sealed", "start_sealed", "control_notified", "open", "failed"}
    /\ log \in Seq(Artifacts)
    /\ digests \subseteq Uris \X Contents
    /\ payloads \subseteq Uris
    /\ prevSig \in Nat
    /\ broken \in BOOLEAN /\ finished \in BOOLEAN
    /\ outstanding \subseteq Children /\ resolved \subseteq Children
    /\ sealing \in [Threads -> Requests]

NotifyTypeOK ==
    /\ waiting \subseteq Threads
    /\ notifying \in [Threads -> Seq(Positions)]
    /\ nextNotify \in -1..MaxArtifacts
    /\ delivered \subseteq -1..MaxArtifacts-1
    /\ nested \subseteq Positions

\* The types of all variables; every position in use fits in the bundle.
TypeOK == RunTypeOK /\ NotifyTypeOK

\* What a request in flight was built from still holds when its answer comes:
\* the run is open, the event's position and link are the next ones, no URI
\* changed its meaning, and the check of its method would pass again.  record,
\* delegate, complete_delegation and finish check first and seal afterwards.
RequestCurrent(e) ==
    /\ stage = "open" /\ EnsureOpen
    /\ e.seq = Len(log) /\ e.link = prevSig
    /\ NoUriConflict(e.objects)
    /\ \/ e.type = "event" /\ e.child = NoChild /\ CanRecord
       \/ e.type = "delegation" /\ e.child \in Children /\ CanDelegate(e.child)
       \/ e.type = "delegation_result" /\ CanComplete(e.child)
       \/ e.type = "run_end" /\ e.child = NoChild /\ CanFinish(e.disposition)

RequestsStayCurrent ==
    \A t \in Threads : sealing[t] # NoEvent => RequestCurrent(sealing[t])

\* However the threads interleave, the log is one chain: each event names its
\* position and the signature of the one before it (the first one binds the
\* Control Artifact), and no two carry the same signature.  The position and
\* the link are read before the request and used after it (_seal_event).
ChainLinked ==
    /\ \A i \in DOMAIN log :
          /\ log[i].seq = i - 1
          /\ log[i].link = IF i = 1 THEN ControlSig ELSE log[i-1].sig
    /\ \A i, j \in DOMAIN log : i # j => log[i].sig # log[j].sig

\* In every state the bundle has room left for the result of every delegation
\* the log leaves unanswered and, until it is sealed, for run_end: a run that
\* did not break can always be closed with every child accounted for (the
\* budget checks of record and delegate, delegation rule 6).
AlwaysRoomToClose ==
    Len(log) + Cardinality(Delegated \ Answered) + (IF Closed THEN 0 ELSE 1) <= MaxArtifacts

\* While the chain is intact the recorder's books agree with the log: each
\* child is delegated once, answered at most once and only afterwards, and
\* outstanding and resolved are what the log says (delegation rules 3, 4, 10).
DelegationsAccounted ==
    /\ ~broken => outstanding = Delegated \ Answered /\ resolved = Answered
    /\ \A i, j \in DOMAIN log :
          log[i].child = log[j].child /\ log[i].child # NoChild /\ i < j =>
             log[i].type = "delegation" /\ log[j].type = "delegation_result"
    /\ Answered \subseteq Delegated

\* run_end is the last event, no event can follow it even if an interrupt came
\* between its append and _finished, and it says completed only when every
\* delegation has its result (finish, delegation rule 5).
CompletedMeansAnswered ==
    \A i \in EventsOf("run_end") :
       /\ i = Len(log) /\ ~EnsureOpen
       /\ log[i].disposition = "completed" => Delegated \subseteq Answered

\* Over the whole run, Control Artifact included, a URI names one content.
\* The check reads the sealed digests before the request and they are extended
\* after it (_check_uri_reuse, _seal_event).
UriNamesOneContent ==
    LET sealed == digests \cup UNION {log[i].objects : i \in DOMAIN log}
    IN  \A o, p \in sealed : o[1] = p[1] => o[2] = p[2]

\* The callbacks deliver the chain without a hole, unless an event recorded
\* from inside a callback jumped ahead: an undelivered event has a delivered
\* one after it only if a nested event after it was delivered too (_notify).
HolesOnlyBehindNested ==
    \A j \in delivered : \A i \in -1..j-1 :
       i \in delivered \/ \E n \in nested \cap delivered : i < n

\* The threads in a callback, and the event whose callback each of them entered
\* from outside; the events whose callback, or whose wait for it, is not over.
InCallback == {t \in Threads : notifying[t] # <<>> /\ (t \in waiting => Len(notifying[t]) > 1)}
Outer(t)   == notifying[t][1]
OnStack    == UNION {{notifying[t][k] : k \in 1..Len(notifying[t])} : t \in Threads}

\* One callback runs at a time, so persistence code that only persists needs no
\* lock of its own (_notify advances next_notify after the callback, not before
\* it).  The one exception: a thread enters the callback of a later event while
\* another is still in that of an earlier one only after the callback of an
\* event recorded inside a callback, later than the earlier one, has returned.
CallbacksSerialised ==
    \A t, u \in InCallback :
       Outer(t) < Outer(u) => \E n \in (nested \cap delivered) \ OnStack : Outer(t) < n

\* After a failed seal the bundle is never a finalized one: the chain has no
\* run_end (class docstring of AgentRun).  Without interrupts.
BrokenNeverFinalized ==
    Interruptible = {} /\ broken => EventsOf("run_end") = {} /\ ~finished

\* The run implements the append-only log it promises to whoever verifies it.
Status == IF Closed THEN "closed" ELSE IF broken THEN "stopped" ELSE "open"
Evidence == INSTANCE EvidenceLog WITH entries <- log, status <- Status
ImplementsEvidenceLog == Evidence!Spec

\* Every sealed event reaches the callback, run_end included, however threads
\* and nested calls interleave (_notify's turn-taking loses no wake-up).
SealedEventsDelivered ==
    \A s \in 0..MaxArtifacts-1 : s < Len(log) ~> s \in delivered

\* A call that waits for its turn gets it and returns, for every thread that
\* no interrupt can reach: nobody waits on a turn that never comes.
UninterruptedCallsReturn ==
    \A t \in Threads \ Interruptible : notifying[t] # <<>> ~> notifying[t] = <<>>

\* What the documentation of on_artifact_sealed allows: only an event recorded
\* from inside the callback arrives ahead of an earlier one.
OnlyNestedOvertakes ==
    \A j \in delivered \ nested : \A i \in -1..j-1 : i \in delivered

\* What to_bundle promises: the run as a bundle is available at any point.
BundleAvailable == BundleFits(Len(log), payloads)
=================================================================================

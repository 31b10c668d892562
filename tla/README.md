# A TLA+ verification of the Sigill Python SDK

The Sigill Python SDK (`src/src/sigill_sdk`) lets an AI agent record what it does as a
chain of signed, partly timestamped artifacts, and lets anyone verify such a record
later; it also seals PDF files with a service that never sees them.  This directory
models the parts of it in which an error would be hard to see and expensive: a record
that forks, that cannot be closed, that verifies although something is missing, or that
does not verify although nothing is; an evaluation nobody can tell the current version
of; a model call that fails because it was recorded; a PDF whose earlier signatures
break, or whose signature was made, billed and lost.

Paths below are relative to the repository; `run` is `src/sigill_sdk/_agent_run.py`,
`verify` is `_agent_verify.py`, `tree` is `_agent_tree.py`, `profiles` is
`_agent_profiles.py`, `types` is `_agent_types.py`, `policy` is `_agent_policy.py`,
`calls` is `_model_calls.py`, `client` is `_client.py`, `pdf` is `_pdf.py`.

## 1. The system

| Component | State | Operations | Interacts with | What is hard |
|---|---|---|---|---|
| Run recorder (`run`) | chain of artifacts, chain head, digests per URI, books of delegations, coverage walk, `_broken`/`_finished`, callback turn | `start`, `start_child`, `record` and its variants, `delegate`, `complete_delegation`, `finish`, `to_bundle` | the sealing service under the run's lock; the application's `on_artifact_sealed` outside it | threads, callbacks that record, failing and interrupted seals, the event budget |
| Timestamp policy (`profiles`) | events since the last required timestamp, and its time | one step per event | walked by the recorder and again by the verifier | boundaries, clocks that go back, refused events |
| Run verifier (`verify`) | none: a function of a bundle | `verify_agent_run` | bundles, a blind signature verifier | lost, repeated, mixed, damaged items |
| Bundles (`types`) | artifacts, evaluations, payloads | `to_bundle`, `parse`, `with_payloads` | recorder, verifier, storage | limits of a bundle against what was recorded |
| Delegation and trees (`run`, `tree`) | one chain per run, references between them | `delegate`, `start_child`, `complete_delegation`; `verify_agent_run_tree` | several recorders, their callbacks | persistence of several runs, crashes, snapshots taken at different moments |
| Control evaluations (`run`, `verify`) | evaluations in a bundle, corrections | `ControlEvaluation.prepare_*`, `seal`, `complete` | recorder's artifacts, verifier | which evaluation is current; retries |
| Policy requirements (`policy`) | none | `build_facts` over a run with gaps, structure of policy documents | evaluations | events that come late, calls and results that share an id |
| Model call transports (`calls`) | none of their own | one HTTP call each | an HTTP stack, the recorder, a worker thread | failures of the recording, streams, cancelled tasks, deadlock with a callback |
| Sealing client (`client`) | none between calls | `seal*`, `sign_object_hashes`, two-phase PAdES, evidence API | the service | partial failure, retries that bill again |
| PDF signer (`pdf`) | the PDF file | `prepare`, `recover`, `embed`, DSS, DocTimeStamp | client, other PDF tools | rewriting objects by appended revisions: which definition is the newest, what an earlier signature covers |
| Envelopes, schemas, canonical JSON, TSR, signature verification | none | conversions and cryptography | everything | data, not control |

How they meet: a recorder seals through the client while it holds its lock, so the
service's answer is the linearisation point of an event.  After the lock is released
the sealing thread waits for its turn and calls the application's callback, which is
where an application persists evidence; a crash leaves what the callbacks have been
given.  A verifier later gets a bundle (or a tree of bundles), never the recorder.

### What makes each part correct

* Recorder: one chain, no fork, no gap, whatever the threads do; a run that did not
  break can always be closed; its books agree with its log; a failed seal stops the
  run for good; every sealed event is delivered, in order as far as promised.
* Timestamp policy: recorder and verifier reach the same decision for every event.
* Verifier: whatever happened to a bundle, it passes only if it is an intact prefix of
  one run, and is finalized only if it is a whole run; every honest prefix passes.
* Tree: the verdict tells consistent, whole and inconsistent selections of runs apart;
  what a crash leaves is consistent, except in cases that are known exactly.
* Evaluations: what an evaluator prepares verifies; the facts it evaluates on a part of
  the run stay true of the whole; of corrections made one after another the last is
  current, whichever of them a verifier has.
* Transports: recording never fails a call, nothing a caller got goes unrecorded or
  unreported, no connection leaks, everything comes to an end.
* PDF sealing: every signature in a result verifies, those of the source included; the
  format reported is that of the bytes; a signature made is never lost when the service
  keeps it; the document keeps what it had.

## 2. The modules

| Module | Models | Uses |
|---|---|---|
| `EvidenceLog` | the abstract specification: an append-only linked log that is open, stopped or closed | - |
| `AgentRun` | the recorder of one run: threads, lock, seals, books, callbacks | instantiates `EvidenceLog` |
| `AgentRunProofs` | theorems about the books and the log of `AgentRun` | extends `AgentRun` |
| `AgentRunDeliveryProofs` | theorems about its callbacks | extends `AgentRunProofs` |
| `TimestampCoverage` | `_TimestampCoverage` of `profiles` | - |
| `RunVerifier` | `verify_agent_run` as a function of a copy | extends `TimestampCoverage` |
| `RunCopies` | recording of runs with their timestamps, and what can happen to a copy | extends `RunVerifier` |
| `RunTree` | several runs that delegate, their persistence, and `verify_agent_run_tree` | - |
| `PolicyFacts` | `build_facts` of `policy` as a function of the events received | - |
| `ControlEvaluations` | an evaluator that prepares, seals and corrects, and the verifier's part for it | extends `PolicyFacts` |
| `ModelCallTransport` | both transports around one run with callbacks | - |
| `Orders` | facts about sets of naturals (least and greatest element, counting, listing in order, iterating) that the proofs share | - |
| `RunCopiesProofs`, `RunTreeProofs`, `ControlEvaluationsProofs`, `PadesSealProofs` | theorems about the module named | extend it and `Orders` |
| `ModelCallTransportProofs` | theorems about `ModelCallTransport` | extends it |
| `PdfRevisions` | a PDF as a sequence of revisions, and what `pdf` reads and appends | - |
| `PadesSeal` | the PAdES calls of `client` over files of `PdfRevisions`, with failures and crashes | extends `PdfRevisions` |
| `MCAgentRun`, `MCRunCopies`, `MCRunTree`, `MCControlEvaluations`, `MCModelCallTransport`, `MCPadesSeal` | constants and symmetry for TLC | the module named |

### `AgentRun`

A call (`Record`, `Delegate`, `CompleteDelegation`, `Finish`) passes its checks and
sends its request in one step, since the lock is held from the first check to the
answer (`run` 395-645); the thread's `sealing` is the request in flight and its
presence is the lock.  The answer is a second step: `Sealed` (704-715 with the
method's bookkeeping), `SealFails` (an exception of the service or a refused answer,
716-718), `SealInterrupted` (a `KeyboardInterrupt` in the middle of 705-715).  The
first and the last share their statements: `Link` (the head of the chain and the
digests), `Extend` (the append), `Ends` (`_finished`), `Retained` (the payloads), and
an interrupt comes between any two of them.  So `run_end` may be in the log of a run
that is broken and was never finished: `Closed` asks the log, not the flag, and it is
`Closed` that the budget, `CompletedMeansAnswered` and the refinement speak of.
`_notify` is `Deliver`
(its turn: the callback starts) and `CallbackReturns`; `notifying[t]` is the thread's
stack of `_notify` frames, so a callback that records is a call by a thread whose stack
is not empty.  `WaitInterrupted` is a `KeyboardInterrupt` inside `wait_for`.  `start` is
`SealControlArtifact`, `SealRunStart`, the two notifications and `StartFails`.

An object is a pair of a URI and a content, a signature a number that is used once.
`nextNotify`, `delivered` and `nested` describe the turn-taking; the last two are
history.

### `TimestampCoverage`, `RunVerifier`, `RunCopies`

`RunVerifier` translates each check of `verify_agent_run` (correlation, sequence, chain,
signatures, envelope, objects, control, timestamps, finalization) into one operator
that is true when the check is not "bad"; `RunVerdict` combines them (line 1355).  An
item of a copy is an artifact with a state (intact, altered envelope, broken
signature, unreadable, absent), a timestamp and the digests supplied with it.

`RunCopies` records runs by `_seal_event` (`Envelope` decides the timestamp with
`Required` and commits the walk with `Append1`), in which the first two events name one
URI, hands out a copy at any moment, and
lets things happen to it: an item lost, repeated, moved, mixed in from either run or
damaged, a timestamp or digest lost, payloads supplied, the Control Artifact damaged or
exchanged.  `Is` tells what a copy is by comparing it with the recorded runs and not by
the verifier's rules: this is the reference the verdict is compared with.  `Refuse` is
`record` raising: the walk is done on a copy of the coverage and thrown away, so
nothing changes; it is an action because its mutant shows that this matters.
`plan`, chosen once, holds the bounds: how many events each run gets, which times, how
many things happen to a copy.

### `RunTree`

A run is the list of its artifacts as far as a tree reads them: Control Artifact,
`run_start`, delegations, results, `run_end`.  `persisted[r]` is how many of them the
callback has been given.  `start` seals two artifacts before any callback (`Started`),
`delegate` returns its `AgentDelegation` after its callback (`Handed`), while
`complete_delegation` with a run looks at the child's `is_finished`, which is set with
the append of `run_end` (`Ended`).  Its other form takes what the caller says of a child
that ran elsewhere (`CompleteByValues`): it checks nothing but that the delegation is
open, and so the result may name no run_end, or another disposition (`Values`).  Ids of
children are generated or chosen by the caller (`run` 587), so two runs, or a
descendant, may delegate to one.  The verdict is a function of a cut: how many artifacts
of each run are supplied.  `Consistent` and `Whole` are the reference, made of `Answers`
(a result tells how its child ended), `DelegationsTo` (all delegations that name a child)
and `TooLarge` (beyond the limits of a tree).

### `PolicyFacts`, `ControlEvaluations`

Events are a function from seq to their typed fields, so the events an evaluator has is a
part of that function.  `BuildFacts` is `_build_facts` with both uses: an evaluator
passes what it received and claims nothing, `prepare_policy` and the verifier pass a
prefix and the missing seqs somebody claims.

`ControlEvaluations` has one finished (or abandoned) run, events that arrive in any
order, and evaluations.  `Accepts` is every check `prepare_policy` makes of a request,
`PolicyEnvelope` what it then writes; `Honest` is a request as the documents ask for,
`Varied` differs from it in the fields the code takes over from its caller, missing
positions that are repeated or out of order among them: only the first one is compared
(`run` 936-937).  `Seal` is
`seal` with an answer, `Complete` is `complete` with a signature made elsewhere, whose
timestamp may be absent; an answer that is lost leaves nothing, so both can happen again
to one prepared evaluation, under one evidence id.  `SealV1` is the v1 request, which
builds and seals in one call.  `Valid` is one evaluation's verdict over a bundle
(`verify` 1224-1311, with `EvaluationV2Ok` for `_check_evaluation_v2` and
`_check_policy`), `Superseded` and `Current` the last part of `verify_agent_run`.

### `ModelCallTransport`

A call goes from `idle` over `sent`, `reading` and `recording` to `returned` or
`failed`; `step[w]` is what the thread that records does meanwhile: it asks for the
lock, seals, waits for its turn, is in the callback.  For a synchronous call that is the
caller's own thread; for an asynchronous one a worker thread, which goes on when the
task is `Cancel`led.  The recorder is that of `AgentRun` reduced to its lock and turns.
`inside[c]` is the callback that makes the call and waits for it: a synchronous call is
then nested and overtakes, an asynchronous one is not, since being inside a callback is
remembered per thread (`run` 736).  `Said` is `_parse` and `_build`, of a response
whose values are absent, empty, fit the schema, or are too long for it: a region that is
too long takes the addressed model with it (`calls` 169), an empty header is taken over
and refused by the schema later.  The HTTP status is not in the model, since no branch
of `calls` reads it.  `Names` tells whether the answer itself says which call this was.

### `PdfRevisions`, `PadesSeal`

A PDF is a sequence of revisions.  A revision defines objects at the top level and
packed in an object stream, has a cross-reference section of one kind, and at most one
signature slot; the digest of a slot is taken over everything before and in its
revision, so it is that subsequence.  `ReaderSees` is the newest definition wherever it
is, `SignerSees` what `get_object` of `pdf` finds: the file before the object
streams.  Annotations, form and fields of a body are kept as the occurrences of their
entry, inline or by reference, because the patchers may write a second one; a catalog's
`/DSS` as the number it refers to and whether there is one inline (`inlineDss`).
`prepare`, `append_dss`, `prepare_doc_timestamp` each append one revision built from
`SignerSees`; `embed` fills the last slot.  `Recoverable` is what `recover` takes,
`Structured` what the parser accepts, and `Parses` what the patchers of a signature
revision need besides: that the page's `/Annots` refers to an array (701-706).
`append_dss` needs the parser only.

`PadesSeal` cuts each call of `client` at its two requests.  `Seal` and `SealPrepared`
come up to the signature request, `ServiceSigns` is the service having signed,
`EmbedCms` is the rest without an archival timestamp, `ServiceStamps`, `StampArrives`
and `StampFails` the archival timestamp, also when its revision cannot be made.
`CallLost` is whatever ends a call
in between: an exception, a lost answer, a CMS larger than its slot, the death of the
program; files stay, the call does not.  `Complete` is `get_seal_cms` with
`complete_pades`.  `Edit` is another tool that appends a revision of its own.

## 3. The runs

| Run | Question | States | Bounds, and why they are enough |
|---|---|---|---|
| `books` | Do chain, budget, books and URIs survive all interleavings, failures and interrupts, and is the run an append-only log? | 226,965 | two threads (the lock admits one at a time, the second shows what can change in between), two children, one URI with two contents, six events: start, two delegations, two results and `run_end`, so the budget refuses |
| `delivery` | In which order are events delivered, and does everyone return? | 18,080 | three threads (one delivers, one waits, one overtakes), two nested levels, six events |
| `overtaking` | violation, see 5 | | three threads, one nested call |
| `interrupted` | violation, see 5 | | three threads, one interruptible |
| `payloads` | violation, see 5 | | three URIs, room for two |
| `copies` | Is anything but an intact prefix accepted, and do recorder and verifier agree on every timestamp? | 400,887 | two plans.  Two runs of one signer with four and two events, and any two damages one after the other: a second one may hide the first.  One run of five events under the rules "every 3 events", "every 2 seconds" and "on consequential" together, with a clock over 0..2 that may go back.  A list limit of one |
| `tree` | Does the tree verdict separate inconsistent, open and whole, and what does a crash leave? | 101,617 | one root and two children whose ids the callers choose (a child delegated to by two runs, by its descendant, or again); fourteen artifacts in all, three of them ahead of the callbacks: all three runs can end (thirteen), with one delegation too many (without this bound the properties hold as well, on 300,669 states); depth limit 1 and ten events, so that both limits are met; every selection of prefixes of every tree |
| `evaluations` | Does what is prepared verify, do facts grow, which evaluation is current? | 307,376 | three runs (a call and its result, two calls that share an id, one never closed); events in any order with two waves; three evaluations and three signatures, so that a correction of a correction, two corrections of one, and one sealed twice occur; the first request may differ from an honest one in any field, every bundle of evaluations with every prefix of the run is judged, and each evaluation with every prefix, every loss of one event and every set of objects |
| `model_calls` | Does recording leave the call alone, and does everything end? | 650,632 | two synchronous calls (one told what the model is by the provider only, one by its address) and an asynchronous one, each possibly inside another's callback, and a thread that finishes the run |
| `pades` | Do seals verify, and survive failures? | 326,974 | six PDFs (inline form under a nested page tree with an inline `/DSS`; field list by reference; object streams; the last with newer packed versions of its form and its page; one with a filter the parser does not know and a signature of another tool; one another tool has signed whose page refers to no array), two operations, two results, between them one revision of another tool; answers that fit a slot, are too big, come without timestamp |
| `resigned` | violation, see 5 | | two PDFs, two operations: a sealed file is handed in as a checkpoint |
| `revised` | violation, see 5 | | one PDF revised with packed objects, one operation |

Deadlock is not checked: a run that is finished, broken or full really stops, and so
does a copy nothing more happens to.

**Fairness** (`delivery`, `interrupted`): a request is answered or fails, because the
HTTP client has a timeout (`client` `timeout=30.0`); a started callback returns or
raises; a thread whose turn has come proceeds, because `notify_all` wakes every waiter
and `next_notify` never decreases, so the condition stays true (weak fairness is
enough).  No fairness for calls and interrupts: an application need never make them.
`model_calls` assumes the same of requests, turns and callbacks, and that the inner
transport answers, fails or times out; nothing of calls, `finish` and cancellation.  A
callback ends when the calls it made have.

What the properties say is in the comment before each.  The ones that took most to get
right:

* `RequestsStayCurrent`: what was checked before the request still holds when the
  answer comes.  Everything else about the books follows from it.
* `HolesOnlyBehindNested` is the delivery order that really holds; it is weaker than
  the documented one (`OnlyNestedOvertakes`, violated).
* `OnlyPrefixesPass` with `PrefixesPass`: the verdict is sound and not too strict.
* `CallbacksSerialised`: of two threads inside their callbacks the one with the earlier
  event was overtaken by a nested event that has been delivered and returned.  Without
  such an event there is one, and an event recorded inside a callback long ago excuses
  nobody later.
* `UnanchoredBounded`: any `EveryEvents` events in a row have a timestamped one, the
  first ones (which begin with `run_start`, never stamped) included.
* `PersistedTreeVerifies`: a persisted tree within the limits is `tree_invalid`
  **exactly** when a run has only its Control Artifact, a result has been delivered
  that does not answer to what has been delivered of its child (before the `run_end` it
  names, or with other values), or one id was used for two delegations.  The first two
  come from honest runs and a crash at the wrong moment.
* `PreparedVerifies` says when an evaluation that `prepare_policy` accepted verifies:
  always with its events and objects, except for the fields `Unfit` lists, which are
  what the verifier checks and `prepare_policy` does not: see 5.
* `ReturnedIsRecorded` speaks of answers that tell which call they answer.  Whether a
  stream is recorded before it was read, and a Bedrock model nobody but the request
  names, it leaves to the code: see 5.
* `CurrentIsLatest` and `SomeoneIsCurrent` speak of every part of the evaluations a
  bundle may hold, not only of all.
* `EverythingEnds` has one exception, `WorkerBehindItsCaller`: an asynchronous call made
  and awaited inside a callback waits for that callback.
* `SealsVerify`: a CMS that went into a slot made for a seal verifies, whatever the call
  appended behind it, and so do the signatures of the source that did before.  That the
  slot was made for a seal is `OnlyPreparedSigned`, which the code violates (see 5).
* `FormatTellsContents`: the format reported is what is in the file.  The DSS is the only
  one of its catalog unless the catalog that was read had one inline, where a second key
  is written beside it (see 5) and what a reader takes is undefined.
* `SealKeepsDocument`, an action property so that a result is looked at once, when its
  call returns: no object is lost or changed but those a signature revision rewrites, and
  no reference leads nowhere.  Where the signer and readers find the same objects at
  those places (`ReadAlike`), a reader finds every field and annotation of the source,
  and the seal's own; and in one place, under one title each, exactly for the sources
  named.  Where they do not, it says nothing of fields and annotations:
  `NewestDefinitionsKept`, which the code violates (see 5), does.  Sources whose references lead
  nowhere (`Linked`) are excluded.  That it holds of all results at all times is a
  theorem (`ResultsKeepDocuments`).
* `EscrowRestores`: any file whose digest the service has signed is completed by the
  stored CMS, to the same bytes the lost result would have begun with.

## 4. The proofs

TLC checks small instances; the theorems hold for every value of the constants.  Of the
properties the passing runs check, all safety properties and action properties are
theorems (the last part of this section names what is not, and why).  Every proof
has the same plan: an inductive invariant, strong enough to imply the properties and
checked by TLC before it was proved; one lemma for each action or kind of action; the
theorem.

### One run: `AgentRunProofs`, `AgentRunDeliveryProofs`

For any number of threads, children, URIs, contents, events and nesting levels, under
`ConstantsAssumption` alone (finitely many children, at least two events in a bundle).

* `RunInvariant`, `Spec => []RunInv`, and from it `TypeCorrect`, `ChecksHoldAtAnswer`,
  `ChainIsLinked`, `RunCanBeClosed`, `DelegationsAreAccounted`, `CompletedIsAnswered`,
  `UrisAreConsistent`; `BrokenIsNeverFinalized`, for runs without interrupts;
  `Refinement`, `Spec => ImplementsEvidenceLog`.
* `DeliveryInvariant`, `Spec => []DeliveryInv`, and from it `OrderIsKept`,
  `CallbacksTakeTurns`, `EventsAreDeliveredOnce`, and, if nothing is interruptible,
  `WaitersAreNeverStuck`: while someone waits, some thread is in its callback or has the
  turn.

None of the properties is inductive alone.  `AlwaysRoomToClose` needs the budget check
to hold again when the answer arrives, hence `RequestsStayCurrent`; that needs that
nobody else changes the run meanwhile, hence `OneRequest` (the lock); positions and
links need `Chained`, which also gives signatures their freshness; the books need
`ChildNamed`; URIs need `DigestsCover`; and `start` runs outside the lock, hence
`StartInOrder`.  `RunInv` is their conjunction and says nothing of the callbacks
(`BooksUnchanged`, `NotifyKeepsRunInv`).  The refinement maps `log` to `entries` and the
two flags to `status`; each step is a `Grow`, a `Stop` or a stutter.

`DeliveryInv` says where the sealed events are.  Each frame on a stack is a sealed event
of its own, its callback has started unless the thread waits at it, and an inner frame
is a nested event: from that, `next_notify` passes an event only when it, or a nested
one after it, has been delivered (`PassedIsCovered`), which is `HolesOnlyBehindNested`.
The event at the foot of a stack has the turn while its callback runs, unless the turn is past it
(`OuterHaveTheTurn`), and past it only a nested event whose callback has returned can take it
(`PassedByReturn`): that is `CallbacksSerialised`.  Without interrupts every event from `next_notify` on is on a stack
(`TurnsAreOwned`), which keeps waiting threads alive.

### Model calls: `ModelCallTransportProofs`

For any calls and any answers of the three shapes a response can have (`AnyResponse`).
`TransportInvariant` has one part for a single call, what its phase says of its
recording, its connection and its cause, and one that puts the log in step with the
recordings: an event for each recording past its seal, with what its answer says, and no
other.  From it `TypesHold`, `NothingIsLost` (`ReturnedIsRecorded`) and
`CallsFailOnTheirOwn` (`FailsOnItsOwn`).

### Copies of runs: `RunCopiesProofs`

For any number of runs, of any length, any timestamp policy, and copies any number of
things happened to; `CopiesAssumption` and `PolicyAssumption` only give the constants
their types (and `Contents` two elements).  `CopiesInvariant` says what stands at each
position of a run, that the recorder's walk of the coverage rule exists, and what a copy
can be made of; then `PassingCopiesArePrefixes` (`OnlyPrefixesPass`),
`PrefixesOfRunsPass`, `FinalizedIsWhole`, `PassingCopiesAreAnchored`
(`UnanchoredBounded`), `MissingPositionsListed`, `CopiesTyped`.  The verifier sorts the
items it gets: `ArtsAreSorted` is that this is a permutation in order.  In a passing
copy the links, and `run_start` being the only event at position 0, put the k-th event
of one run at place k (`PassingPlaces`), so that the walk is the recorder's
(`WalkIsTheRecorders`) and the verdict that of the prefix.

### Trees of runs: `RunTreeProofs`

For any finite sets of roots and children and any limits.

* `TreeInvariant`, `Spec => []TreeInv`: what artifacts refer to in each other.  A child
  starts from a delegation whose callback has returned, a result reports the last
  artifact of a run that has ended, and answers one delegation.  None of this is
  inductive without the order of the artifacts in each run (`Ordered`).
* `TreesTyped`, and `VerdictTellsCuts` (`CutVerdict`) without further hypotheses: of any
  selection of prefixes.  The verdict follows references level by level (`Reached`);
  `LevelsAre` ties the levels to the runs that are there.
* `FinalizedTreesStay` (`FinalizedIsFinal`), if there is one root: with several, a run
  of another root may go on.
* `PersistedTreesVerify` (`PersistedTreeVerifies`), if there is one root: what the
  callbacks have been given is a selection of prefixes, and without the three exceptions
  it is one whose references all lead somewhere (`DeliveredIsJoined`); each exception is
  one of the findings of the verifier.

### Evaluations: `ControlEvaluationsProofs`

For any runs a recorder can have sealed (`EvaluationAssumption`: seqs from 0 without a
gap, `run_end` only last), any rules, events in any order.

* `EvaluationsInvariant`, and from it `EvaluationsTyped`; `SomeEvaluationIsCurrent` and
  `LatestCorrectionIsCurrent`, since an evaluation names an earlier id only, so that the
  greatest valid one has no successor.
* `SignedFactsAreTheEvaluated`, `FactsOnlyGrow`, `NoCallHidesBehindAResult`: the facts
  depend on nothing that comes after the prefix (`RequestsOfPrefix`,
  `UnpairedOfPrefix`), and a result answers one call (`PairedAreFew`, an injection).
* `PreparedInvariant`, `Spec => []FitInv`: what each evaluation is made of.  `TypeOK` says
  nothing of the request an envelope came from; `PolicyPrepared` does.  With it
  `PreparedEvaluationsVerify` (`PreparedVerifies`): for whatever request is accepted, the
  verifier's checks come down to those `Unfit` lists (`PolicyVerdict`).

### PDF sealing: `PadesSealProofs`

For any documents, answers and bounds.  `SealingInvariant`, `Spec => []PadesInv`: the
file of a call is what the service signed, with its CMS at some revision and behind it
no slot but one with a token for everything before it.  That needs the file to be the
same bytes between the two requests, hence a part for each step of a call.  From it
`CallsTyped`, `SealsAlwaysVerify`, and `EscrowAlwaysRestores`, by `SameBytes`: files that
agree up to a slot have it hashed alike.

`ContentsInvariant`, `Spec => []ContentsInv`, is about objects.  Whatever the signer or
another tool has appended, a file is `WellFormed` and a DSS its catalog names is there
and of an operation that has taken place (`DssUpTo`); the file of a call is one the
parser reads, or a source it never read; while the timestamp is asked for, both
readings find the operation's DSS (`HasDss`).  From it `SignedCallsFinish` and
`FormatsTellContents`; for the latter it also says that a seal's catalog has an inline
`/DSS` only if the one read before it had (`KeepsInline`).  The step is `GoodRevision`:
what a writer puts into a revision has a new number, or is the body that was read with
one entry changed and the same reference in it.  `GoodRevisionKeeps` shows that such a
revision leaves the walk to the first page as it was (`StructureKept`) and the file well
formed; `SignatureRevisionIs` and `AppendDssIs` show that the writers' revisions are such;
`EditKeeps` is the counterpart for other tools, whose revisions need only be well formed,
as they are not checkpoints.

`SealsKeepDocuments` (and, as an invariant, `ResultsKeepDocuments`) is about what a reader
finds.  A signature revision is described once (`Signs`: new numbers, or a body read with
one entry changed), and compared with the file as the signer takes it, that is, with the
objects it rewrites as it reads them (`AsTaken`, a device of the proof): `SignedAdds` for
form, first page and titles, `SignedFollows` for every other object, `SignsLinked` for
references.  `Kept` relates that to a file after some of the seal's steps; the seal brings
it about (`SealKept`), the DSS leaves it alone (`DssKeeps`), the archival timestamp adds a
field to it (`StampKept`).  A result is one of three shapes (`Writes`), with the slots
filled (`EmbedAppended`).  Where the signer reads what readers read, the source and the
file as taken show the same (`ReadAlikeIs`), and `WrittenKeeps` reads the property off
each shape.  That a result has such a shape is not inductive: it comes from where its
checkpoint came from.  Hence `KeepInv`: every file `recover` would take is a `WellFormed`
file the parser reads with one signature revision behind it, a seal's or an archival
timestamp's, whatever its slot holds, or has the bytes of one of the program's own
sources (`Known`); so has the file a call signs, and the one its archival timestamp is
asked for comes from such a file (`CallKnown`).  What another tool appends has no slot, so
it is nothing `recover` takes, and the result of one call may be the source of the next.

Assumed of the source PDFs (`SealAssumption`): they are `WellFormed`, that is, the
catalog is in the file and its number is never used for anything else, and a page has
annotations and a catalog an entry for the form, possibly empty; and a DSS they name
is in the file.  Nothing is assumed of how their objects are packed or revised, of the
page tree, or of what they were signed with.

### Induction

The library's induction theorems take a predicate as parameter, which the provers cannot
instantiate.  `Orders` therefore states induction over a set: `UpTo` (a set that holds 0
and with each k its successor holds 0..n), `LeastOf`, `GreatestOf`, `Iterated` (a
function can be applied n times), from the well-foundedness of `<`.  A recursive function
(the levels of a tree, the walk of the coverage rule) is reached by its defining
equation, and what it computes by `UpTo`.  Some operators were restated because the
provers see nothing of a definition in the module `TLC`: the verifier's order of the
artifacts is by rank (`Place` in `RunVerifier`), and `MissingSeqs` and `Unfit` do without
sorting.

### Model-checked only

* `SealedEventsDelivered`, `UninterruptedCallsReturn`, `EverythingEnds`: liveness under
  fairness is out of the prover's reach.  `WaitersAreNeverStuck` is the part of it that
  is an invariant.

## 5. Where the code and its documentation disagree

* `overtaking`: after a nested event jumped ahead, `_next_notify` is past events other
  threads still wait with (`run` 749), and a later ordinary event is delivered before
  them.  The documentation of `on_artifact_sealed` (238-242) promises strict chain order
  except for events recorded inside a callback.
* `interrupted`: `wait_for` (739) is outside the `try` whose `finally` passes the turn
  on.  A `KeyboardInterrupt` there leaves every later call waiting forever.
* `payloads`: retained payloads are not counted while recording.  Past the limit of a
  bundle `to_bundle` raises in every later state, although it is documented as
  "available at any point", and `finish` raises after `run_end` was sealed and before
  the callback is given it.

* `resigned` (`OnlyPreparedSigned`): `recover` takes any file whose last slot covers it
  (`pdf` 150-156), filled or not, a seal's or an archival timestamp's.
  `seal_prepared_pades` is documented (`client` 998-999) to raise for what is no
  checkpoint.  A sealed file is signed (and billed) again and its signature replaced, an
  archived one loses its archival timestamp and does not verify.
* `revised` (`NewestDefinitionsKept`): a newer definition inside an object stream is
  ignored, although `pdf` 500-502 says that the last write wins so that incremental
  updates override originals.  The seal writes the older form or page back, and what the
  newer one added is out of a reader's reach; where only the page is newer, the widget goes
  into the annotation array the page no longer uses.

The following came up in modelling as well.  No run of its own shows it; the property
named leaves it open, or holds with exactly this exception.

* `SignedIsFinished`: `recover` looks for a `/ByteRange` and nothing else (`pdf` 132-155),
  so it also takes a file that the parser refuses.  Such a file is signed (and billed),
  and with LTV material `append_dss` then raises (`client` 1065): the call ends without a
  result, although the CMS fits.
* `PreparedVerifies`: `prepare_policy` is documented to raise `ValueError` when the
  evaluation would not verify (`run` 898, `types` 306-307).  Of the missing positions it
  compares the first with the prefix (`run` 936-937), while the verifier refuses a list
  that is not ascending (`verify` 715-718), so that `[k+1, k+3, k+2]` is accepted, signed
  and invalid.  It also takes over unchecked where a rule failed, the order and range of
  timestamps that are not qualified, and the approval record's content.
* `ReturnedIsRecorded`: `spec/agent-model-calls-v1.md` 104-112 asks for identifiers that
  come from the provider, for a streamed call to be sealed when the stream completes, and
  for a failed call only with an identifier from its answer.  For Bedrock the model recorded
  is the one addressed, and the region comes from the request, whenever the answer names
  none, whatever its status (`calls` 146-162); a stream is recorded as soon as its headers
  are there, before it is read (`calls` 226-230).
* `FailsOnItsOwn`: a streamed response whose call fails while it is recorded (an `on_error`
  that raises, a cancelled task) is closed by nobody.  An error of the callback is
  reported as one of recording although the event is sealed.
* `FormatTellsContents`: a catalog with an inline `/DSS` gets a second `/DSS` key beside it
  (`pdf` 259-264), so which DSS a reader finds is undefined, and with it whether the format
  reported is right.
* `SealKeepsDocument`: `complete_pades` does not check that the CMS belongs to the
  checkpoint.  A form that is inline in the catalog, or a field list held by reference,
  gets a second key beside it.  A second seal uses the first one's field titles again, and
  its DSS replaces the first one's.
* `EscrowRestores`: `operation_id` is known only from the result, so after a crash the
  stored CMS can be fetched only by someone who learns the id in another way.  The property
  says that the CMS completes the file, not that the program can name it.
* `SomeoneIsCurrent`, `CurrentIsLatest`: the verifier lets a correction supersede an
  evaluation of another kind.  A bundle without a correction in the middle shows two
  current ones.
* `EverythingEnds`: an asynchronous call made and awaited inside a callback never returns,
  although `run` 240-242 says that an event recorded inside a callback is delivered at once.

## 6. Not modelled

* Cryptography, ASN.1, canonical JSON, schemas, wording of findings: the models see
  whether a signature, timestamp, envelope or digest is right.  Data, no control.
* The other operations of the client (`seal`, `sign_object_hashes`, evidence, envelopes,
  listing): one request each and a mapping of its answer, nothing that a second step
  could disturb.  The upload fallback of `seal_pades` sends the file and takes what
  comes back.
* Envelopes v1 and v2, signature and timestamp verification, exports and exceptions:
  conversions and cryptography.
* Of evaluations: policy documents other than one valid one, wrong signers, private
  controls, evaluations of other runs mixed in.
* Of `pdf`: bytes, offsets, filters, encryption and hybrid cross-references (refused).
* CEL, the HTTP stack and the service: third parties, seen through their answers.
* A second `start_child` with one delegation: `RunTree` knows a run by its correlation
  id.  The verifier answers `duplicate_run` before it looks at anything else.

## 7. Plan

All modules of the plan are written, checked and proved about.  What is left:

| What | Where | How |
|---|---|---|
| a run per `start_child` | `RunTree` | runs and correlation ids told apart |

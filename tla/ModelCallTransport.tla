--------------------------- MODULE ModelCallTransport ---------------------------
(***************************************************************************)
(* Model calls made through ModelCallTransport and AsyncModelCallTransport  *)
(* (_model_calls.py) and recorded into one run: each call is sent by the    *)
(* inner transport, its body read, what the provider said about it parsed,  *)
(* and the event sealed with AgentRun.record_model_call before the caller   *)
(* gets the response.                                                       *)
(*                                                                         *)
(* A synchronous call records on its own thread.  An asynchronous one awaits *)
(* asyncio.to_thread: a worker thread records, and goes on when the task is *)
(* cancelled meanwhile.  The run's callback may make calls itself, one at a *)
(* time, and waits for each.                                                *)
(*                                                                         *)
(* The recorder is the one of module AgentRun, reduced to the lock, the     *)
(* chain, and the turns of the callbacks; each call records one event, and  *)
(* closer is the thread that calls finish.  A value is NONE, FITS (the       *)
(* schema), LONG or, in a header, EMPTY.  Left out: interrupts (AgentRun has *)
(* them), the status of an answer (no branch reads it), the bodies' digests, *)
(* the fields that are copied alike (requested, deployment, the usage        *)
(* counters beside the stop reason).                                        *)
(***************************************************************************)
EXTENDS Integers, Sequences, SequencesExt

CONSTANTS Calls,      \* model calls, each made once
          Async,      \* those made through AsyncModelCallTransport
          Api,        \* Api[c]: the API that _classify recognises, if c is sent there
          Responses,  \* Responses[c]: what the provider of c may answer
          closer,     \* the thread that finishes the run
          nobody      \* no call, no callback

(* What a response may say, as far as _parse looks; and what the URL of its   *)
(* request says, the model it addresses and the region.                       *)
AnyResponse ==
    LET value == {"none", "fits", "long"}
    IN  [stream : BOOLEAN, served : value, id : value, header : value \cup {"empty"},
         stop : value, addressed : value, region : value]

ASSUME CallsAssumption ==
    /\ Async \subseteq Calls /\ closer \notin Calls /\ nobody \notin Calls
    /\ \A c \in Calls : Responses[c] \subseteq AnyResponse

VARIABLES
    phase,       \* phase[c]: how far the call has come
    response,    \* response[c]: what the inner transport answered, or NoResponse
    connection,  \* connection[c]: the inner response's stream
    cause,       \* history: why the call failed
    inside,      \* inside[c]: the writer whose callback makes the call
    step,        \* step[w]: how far the recording of writer w has come
    log,         \* the events of model calls and finish, in chain order
    status,      \* the run: "open", "finished" or "broken"
    nextNotify,  \* _next_notify, counted from the first of these events
    reported     \* the calls whose recording error was caught and reported

callVars == <<phase, response, connection, cause, inside>>
runVars  == <<step, log, status, nextNotify>>
vars     == <<callVars, runVars, reported>>

Writers == Calls \cup {closer}
NONE == "none"
FITS == "fits"
LONG == "long"
EMPTY == "empty"
NoResponse == [stream |-> FALSE, served |-> NONE, id |-> NONE, header |-> NONE,
               stop |-> NONE, addressed |-> NONE, region |-> NONE]
Ended(c) == phase[c] \in {"returned", "failed"}

-----------------------------------------------------------------------------
(* _parse and _build: what is recorded of a call.                            *)

IfFits(value) == IF value = FITS THEN FITS ELSE NONE

(* A streamed response has no body here: it is the caller's to read.         *)
Body(r) == IF r.stream THEN [r EXCEPT !.served = NONE, !.id = NONE, !.stop = NONE] ELSE r

(* Bedrock serves the model id the request addresses, unless its answer      *)
(* names another; every other provider has to name it.                       *)
Served(api, r) ==
    IF api = "bedrock" /\ Body(r).served = NONE THEN r.addressed ELSE Body(r).served

(* A model in a region whose name does not fit is left out with it.           *)
Model(api, served, r) ==
    IF api \in {"bedrock", "google-vertex"} /\ r.region = LONG THEN NONE ELSE IfFits(served)

(* Google's APIs have no request id header.  An empty header is a reference   *)
(* here, and the schema's to refuse.                                          *)
Refs(api, r) ==
    {ref \in {"id", "request", "empty"} :
        \/ ref = "id" /\ Body(r).id = FITS
        \/ /\ api \notin {"google", "google-vertex"}
           /\ \/ ref = "request" /\ r.header = FITS
              \/ ref = "empty" /\ r.header = EMPTY}

Said(api, r) == [model |-> Model(api, Served(api, r), r), refs |-> Refs(api, r),
                 stop |-> IfFits(Body(r).stop)]

(* mutant: a call whose model is left out is left out                         *)
Nothing_WithoutModel(said) == said.model = NONE

(* Without a model and without a reference there is no call to record.       *)
Nothing(said) == said.model = NONE /\ said.refs = {}

-----------------------------------------------------------------------------
(* The recorder.                                                             *)

LockFree == \A w \in Writers : step[w] # "sealing"
EventSeq(w) == CHOOSE s \in 0..(Len(log) - 1) : log[s + 1].by = w
Sealed(w) == \E i \in DOMAIN log : log[i].by = w

(* The thread that records w is inside a callback: a synchronous call made    *)
(* there.  A worker thread is not, whoever waits for it.                     *)
Nested(w) == w \notin Async \cup {closer} /\ inside[w] # nobody

(* mutant: events recorded inside a callback wait like others                *)
MyTurn_NestedWaits(w) == nextNotify >= EventSeq(w)

MyTurn(w) == Nested(w) \/ nextNotify >= EventSeq(w)

Calling(w) == \E c \in Calls : inside[c] = w /\ ~Ended(c)

(* record_model_call raises and nothing is sealed: the run is finished,       *)
(* broken or full, was not started for model calls, or a value does not fit. *)
Refuse(w) ==
    /\ step[w] = "asked" /\ LockFree
    /\ step' = [step EXCEPT ![w] = "raised"]
    /\ UNCHANGED <<callVars, log, status, nextNotify, reported>>

Entry(w) == [by |-> w, said |-> IF w = closer THEN Said("none", NoResponse)
                                ELSE Said(Api[w], response[w])]

BeginSeal(w) ==
    /\ step[w] = "asked" /\ LockFree /\ status = "open"
    /\ "empty" \notin Entry(w).said.refs
    /\ step' = [step EXCEPT ![w] = "sealing"]
    /\ UNCHANGED <<callVars, log, status, nextNotify, reported>>

(* mutant: the next event overwrites the last                                *)
SealEvent_Replaces(w) ==
    /\ step[w] = "sealing"
    /\ log' = Append(IF log = <<>> THEN log ELSE Front(log), Entry(w))
    /\ status' = IF w = closer THEN "finished" ELSE status
    /\ step' = [step EXCEPT ![w] = "waiting"]
    /\ UNCHANGED <<callVars, nextNotify, reported>>

SealEvent(w) ==
    /\ step[w] = "sealing"
    /\ log' = Append(log, Entry(w))
    /\ status' = IF w = closer THEN "finished" ELSE status
    /\ step' = [step EXCEPT ![w] = "waiting"]
    /\ UNCHANGED <<callVars, nextNotify, reported>>

SealFails(w) ==
    /\ step[w] = "sealing"
    /\ status' = "broken"
    /\ step' = [step EXCEPT ![w] = "raised"]
    /\ UNCHANGED <<callVars, log, nextNotify, reported>>

Deliver(w) ==
    /\ step[w] = "waiting" /\ MyTurn(w)
    /\ step' = [step EXCEPT ![w] = "callback"]
    /\ UNCHANGED <<callVars, log, status, nextNotify, reported>>

(* The callback has no call of its own under way, and returns or raises; what *)
(* it raises, record_model_call raises.                                       *)
CallbackEnds(w) ==
    /\ step[w] = "callback" /\ ~Calling(w)
    /\ \E outcome \in {"done", "raised"} : step' = [step EXCEPT ![w] = outcome]
    /\ nextNotify' = Max({nextNotify, EventSeq(w) + 1})
    /\ UNCHANGED <<callVars, log, status, reported>>

Close ==
    /\ step[closer] = "idle"
    /\ step' = [step EXCEPT ![closer] = "asked"]
    /\ UNCHANGED <<callVars, log, status, nextNotify, reported>>

-----------------------------------------------------------------------------
(* The transports.                                                           *)

Init ==
    /\ phase = [c \in Calls |-> "idle"]
    /\ response = [c \in Calls |-> NoResponse]
    /\ connection = [c \in Calls |-> "none"]
    /\ cause = [c \in Calls |-> "none"]
    /\ inside = [c \in Calls |-> nobody]
    /\ step = [w \in Writers |-> "idle"]
    /\ log = <<>> /\ status = "open" /\ nextNotify = 0
    /\ reported = {}

(* Outside any callback, or in the callback of w, which waits for it.         *)
Send(c, w) ==
    /\ phase[c] = "idle"
    /\ w # nobody => step[w] = "callback" /\ ~Calling(w)
    /\ phase' = [phase EXCEPT ![c] = "sent"]
    /\ inside' = [inside EXCEPT ![c] = w]
    /\ UNCHANGED <<response, connection, cause, runVars, reported>>

(* No API that is recognised: the inner transport's answer or error is it.    *)
PassThrough(c) ==
    /\ phase[c] = "sent"
    /\ \/ phase' = [phase EXCEPT ![c] = "returned"] /\ UNCHANGED cause
       \/ phase' = [phase EXCEPT ![c] = "failed"] /\ cause' = [cause EXCEPT ![c] = "refused"]
    /\ UNCHANGED <<response, connection, inside, runVars, reported>>

Fails(c, why) ==
    /\ phase' = [phase EXCEPT ![c] = "failed"]
    /\ cause' = [cause EXCEPT ![c] = why]

InnerFails(c) ==
    /\ phase[c] = "sent"
    /\ Fails(c, "refused")
    /\ UNCHANGED <<response, connection, inside, runVars, reported>>

(* With what it knows of the answer r, the call records or returns.           *)
Continue(c, r) ==
    /\ phase' = [phase EXCEPT ![c] = IF Nothing(Said(Api[c], r)) THEN "returned" ELSE "recording"]
    /\ step' = [step EXCEPT ![c] = IF Nothing(Said(Api[c], r)) THEN @ ELSE "asked"]

Respond(c, r) ==
    /\ phase[c] = "sent"
    /\ response' = [response EXCEPT ![c] = r]
    /\ connection' = [connection EXCEPT ![c] = "open"]
    /\ IF r.stream THEN Continue(c, r)
       ELSE phase' = [phase EXCEPT ![c] = "reading"] /\ UNCHANGED step
    /\ UNCHANGED <<cause, inside, log, status, nextNotify, reported>>

(* The whole body is read and the stream closed; the caller gets a replay.    *)
ReadBody(c) ==
    /\ phase[c] = "reading"
    /\ connection' = [connection EXCEPT ![c] = "closed"]
    /\ Continue(c, response[c])
    /\ UNCHANGED <<response, cause, inside, log, status, nextNotify, reported>>

(* mutant: the stream is closed only after a whole read                       *)
ReadFails_LeavesOpen(c) ==
    /\ phase[c] = "reading"
    /\ Fails(c, "unread")
    /\ UNCHANGED <<response, connection, inside, runVars, reported>>

(* The connection breaks, or the content-encoding is wrong.                   *)
ReadFails(c) ==
    /\ phase[c] = "reading"
    /\ connection' = [connection EXCEPT ![c] = "closed"]
    /\ Fails(c, "unread")
    /\ UNCHANGED <<response, inside, runVars, reported>>

Recorded(c) ==
    /\ phase[c] = "recording" /\ step[c] = "done"
    /\ phase' = [phase EXCEPT ![c] = "returned"]
    /\ UNCHANGED <<response, connection, cause, inside, runVars, reported>>

(* Whatever recording raised goes to on_error, if there is one; the call      *)
(* fails only if that raises.                                                 *)
Report(c) ==
    /\ phase[c] = "recording" /\ step[c] = "raised"
    /\ reported' = reported \cup {c}
    /\ \/ phase' = [phase EXCEPT ![c] = "returned"] /\ UNCHANGED cause
       \/ Fails(c, "on_error")
    /\ UNCHANGED <<response, connection, inside, runVars>>

(* The task is cancelled.  A body being read is closed; a worker that has     *)
(* started goes on, one still queued may never start.                         *)
Cancel(c) ==
    /\ c \in Async /\ phase[c] \in {"sent", "reading", "recording"}
    /\ Fails(c, "cancelled")
    /\ connection' = [connection EXCEPT ![c] = IF phase[c] = "reading" THEN "closed" ELSE @]
    /\ step' \in {step} \cup (IF step[c] = "asked" THEN {[step EXCEPT ![c] = "idle"]} ELSE {})
    /\ UNCHANGED <<response, inside, log, status, nextNotify, reported>>

Answer(c)   == InnerFails(c) \/ PassThrough(c) \/ \E r \in Responses[c] : Respond(c, r)
Read(c)     == ReadBody(c) \/ ReadFails(c)
Ask(w)      == Refuse(w) \/ BeginSeal(w)
SealEnds(w) == SealEvent(w) \/ SealFails(w)
Finish(c)   == Recorded(c) \/ Report(c)

Next == \/ \E c \in Calls, w \in Writers \cup {nobody} : Send(c, w)
        \/ \E c \in Calls : Answer(c) \/ Read(c) \/ Finish(c) \/ Cancel(c)
        \/ \E w \in Writers : Ask(w) \/ SealEnds(w) \/ Deliver(w) \/ CallbackEnds(w)
        \/ Close

(* The inner transport and the sealing service answer or time out, and a      *)
(* callback ends when the calls it waits for have.  Nobody has to make calls, *)
(* finish the run or cancel a task.                                           *)
Fairness ==
    /\ \A c \in Calls : WF_vars(Answer(c)) /\ WF_vars(Read(c)) /\ WF_vars(Finish(c))
    /\ \A w \in Writers : /\ WF_vars(Ask(w)) /\ WF_vars(SealEnds(w))
                          /\ WF_vars(Deliver(w)) /\ WF_vars(CallbackEnds(w))

Spec == Init /\ [][Next]_vars /\ Fairness

-----------------------------------------------------------------------------
(* Properties.                                                               *)

(* Types; an event for every recording past its seal, and no other.           *)
TypeOK ==
    /\ \A c \in Calls :
          /\ phase[c] \in {"idle", "sent", "reading", "recording", "returned", "failed"}
          /\ response[c] \in Responses[c] \cup {NoResponse}
          /\ connection[c] \in {"none", "open", "closed"}
          /\ cause[c] \in {"none", "refused", "unread", "cancelled", "on_error"}
          /\ inside[c] \in Writers \cup {nobody}
    /\ \A w \in Writers :
          /\ step[w] \in {"idle", "asked", "sealing", "waiting", "callback", "raised", "done"}
          /\ step[w] \in {"waiting", "callback", "done"} => Sealed(w)
          /\ Sealed(w) => step[w] \in {"waiting", "callback", "raised", "done"}
    /\ status \in {"open", "finished", "broken"}
    /\ nextNotify \in 0..Len(log)
    /\ reported \subseteq Calls

(* The answer itself tells which call this was: it names a model that fits,   *)
(* or carries a reference.                                                    *)
Names(api, r) == Model(api, Body(r).served, r) # NONE \/ Refs(api, r) # {}

(* No call whose answer told what it was is lost: when its caller has the     *)
(* answer, the event is sealed, or its error was reported.  No call is in the *)
(* log twice, and none that had no answer or whose body could not be read.    *)
(* Left to the code: whether a stream is recorded before it was read, and     *)
(* Bedrock's model that only the request addresses.  (A failed call may be in *)
(* the log: a task cancelled while its worker seals, or an on_error that      *)
(* raises when the callback did.)                                             *)
ReturnedIsRecorded ==
    /\ \A i, j \in DOMAIN log : log[i].by = log[j].by => i = j
    /\ \A c \in Calls :
          /\ phase[c] = "returned" /\ ~response[c].stream /\ Names(Api[c], response[c])
                => Sealed(c) \/ c \in reported
          /\ Sealed(c) => cause[c] \notin {"refused", "unread"} /\ response[c] # NoResponse

(* A call ends as its inner transport let it, or by its own on_error or       *)
(* cancellation; and then the connection is the caller's (a stream), or       *)
(* closed.  The exception: a stream whose call fails after the answer came,   *)
(* while it is recorded, is closed by nobody.                                 *)
FailsOnItsOwn ==
    \A c \in Calls :
        /\ phase[c] = "failed" <=> cause[c] # "none"
        /\ cause[c] = "on_error" => c \in reported /\ step[c] = "raised"
        /\ cause[c] = "cancelled" => c \in Async
        /\ phase[c] = "returned" /\ response[c] # NoResponse /\ ~response[c].stream
              => connection[c] = "closed"
        /\ phase[c] = "failed" /\ connection[c] = "open"
              => response[c].stream /\ cause[c] \in {"on_error", "cancelled"}

(* A callback waits for a call whose event a worker thread has sealed and     *)
(* may not deliver before that callback ends.                                 *)
WorkerBehindItsCaller ==
    \E d \in Async : /\ inside[d] # nobody /\ phase[d] = "recording"
                     /\ step[d] = "waiting" /\ ~MyTurn(d)

(* Every call and every recording comes to its end, a cancelled task's worker *)
(* included, but for those behind a callback that waits for an asynchronous   *)
(* call of its own.                                                           *)
EverythingEnds ==
    \A w \in Writers :
        <>[](\/ /\ w # closer => phase[w] = "idle" \/ Ended(w)
                /\ step[w] \in {"idle", "done", "raised"}
             \/ WorkerBehindItsCaller /\ step[w] \in {"waiting", "callback"})
================================================================================

------------------------ MODULE ModelCallTransportProofs ------------------------
(***************************************************************************)
(* Theorems about the model call transports, for any number of calls and    *)
(* any answers.  The argument: CallInv says, for one call, what its phase   *)
(* tells of its recording, its connection and its cause; LogInv says that   *)
(* the log has an event for each recording past its seal and no other, with *)
(* what its answer says.  A worker that goes on after its task was          *)
(* cancelled changes only its step.                                         *)
(***************************************************************************)
EXTENDS ModelCallTransport, TLAPS, SequenceTheorems

Phases == {"idle", "sent", "reading", "recording", "returned", "failed"}
Causes == {"none", "refused", "unread", "cancelled", "on_error"}
Steps  == {"idle", "asked", "sealing", "waiting", "callback", "raised", "done"}
Saids  == [model : {NONE, FITS}, refs : SUBSET {"id", "request", "empty"}, stop : {NONE, FITS}]

Typed ==
    /\ phase \in [Calls -> Phases]
    /\ response \in [Calls -> AnyResponse]
    /\ \A c \in Calls : response[c] \in Responses[c] \cup {NoResponse}
    /\ connection \in [Calls -> {"none", "open", "closed"}]
    /\ cause \in [Calls -> Causes]
    /\ inside \in [Calls -> Writers \cup {nobody}]
    /\ step \in [Writers -> Steps]
    /\ log \in Seq([by : Writers, said : Saids])
    /\ status \in {"open", "finished", "broken"}
    /\ nextNotify \in 0..Len(log)
    /\ reported \subseteq Calls

\* What the phase of a call says of its recording and its connection.
CallInv(c) ==
    /\ phase[c] \in {"idle", "sent"} =>
          step[c] = "idle" /\ response[c] = NoResponse /\ connection[c] = "none"
    /\ phase[c] = "reading" => step[c] = "idle" /\ ~response[c].stream
    /\ phase[c] = "recording" =>
          step[c] # "idle" /\ (~response[c].stream => connection[c] = "closed")
    /\ phase[c] = "returned" =>
          /\ step[c] \in {"idle", "done", "raised"}
          /\ step[c] = "idle" => response[c] = NoResponse \/ Nothing(Said(Api[c], response[c]))
          /\ step[c] = "raised" => c \in reported
          /\ response[c] # NoResponse /\ ~response[c].stream => connection[c] = "closed"
    /\ phase[c] = "failed" <=> cause[c] # "none"
    /\ phase[c] = "failed" /\ connection[c] = "open" =>
          response[c].stream /\ cause[c] \in {"on_error", "cancelled"}
    /\ cause[c] \in {"refused", "unread"} => step[c] = "idle"
    /\ cause[c] = "on_error" => c \in reported /\ step[c] = "raised"
    /\ cause[c] = "cancelled" => c \in Async
    /\ c \in reported => step[c] = "raised"
    /\ step[c] # "idle" => ~Nothing(Said(Api[c], response[c]))

\* What is in the log, and what it says.
LogInv ==
    /\ \A i, j \in 1..Len(log) : log[i].by = log[j].by => i = j
    /\ \A i \in 1..Len(log) :
          /\ log[i] = Entry(log[i].by)
          /\ step[log[i].by] \in {"waiting", "callback", "raised", "done"}
    /\ \A w \in Writers : step[w] \in {"waiting", "callback", "done"} =>
          \E i \in 1..Len(log) : log[i].by = w

TransportInv == Typed /\ (\A c \in Calls : CallInv(c)) /\ LogInv
---------------------------------------------------------------------------------
\* What is said of an answer: a model and a stop reason that fit, and references.
LEMMA SaidType ==
    ASSUME NEW api, NEW r \in AnyResponse
    PROVE  Said(api, r) \in Saids
  BY DEF Said, Saids, Model, IfFits, Refs, NONE, FITS

\* Without an answer there is nothing to record.
LEMMA NothingUnanswered ==
    ASSUME NEW api
    PROVE  NoResponse \in AnyResponse /\ Nothing(Said(api, NoResponse))
  BY DEF Nothing, Said, Model, IfFits, Served, Refs, Body, NoResponse, AnyResponse, NONE, FITS, EMPTY

\* An answer that names its model or carries a reference is something to record.
LEMMA NamedIsSaid ==
    ASSUME NEW api, NEW r \in AnyResponse, Names(api, r)
    PROVE  ~Nothing(Said(api, r))
  <1>1. CASE Refs(api, r) # {}
    BY <1>1 DEF Nothing, Said
  <1>2. CASE Model(api, Body(r).served, r) # NONE
    <2>1. Body(r).served # NONE
      BY <1>2 DEF Model, IfFits
    <2>2. Served(api, r) = Body(r).served
      BY <2>1 DEF Served
    <2> QED
      BY <1>2, <2>2 DEF Nothing, Said
  <1> QED
    BY <1>1, <1>2 DEF Names

\* The larger of two numbers is one of them, and no smaller than either.
LEMMA MaxOfTwo ==
    ASSUME NEW a \in Int, NEW b \in Int
    PROVE  Max({a, b}) \in {a, b} /\ Max({a, b}) >= a /\ Max({a, b}) >= b
  <1>1. \E x \in {a, b} : \A y \in {a, b} : x >= y
    OBVIOUS
  <1> QED
    BY <1>1 DEF Max
---------------------------------------------------------------------------------
\* A step that leaves what CallInv tells of d alone.
Same(d) == /\ phase'[d] = phase[d] /\ response'[d] = response[d]
           /\ connection'[d] = connection[d] /\ cause'[d] = cause[d]
           /\ step'[d] = step[d] /\ (d \in reported' <=> d \in reported)

LEMMA SameKeepsCall ==
    ASSUME NEW d \in Calls, CallInv(d), Same(d)
    PROVE  CallInv(d)'
  BY DEF CallInv, Same

Logged == {"waiting", "callback", "raised", "done"}

\* Without a new event the log stays right: no recording before its seal passes
\* it, none past it goes back, and the answer of a logged call stays.
LEMMA LogKept ==
    ASSUME TransportInv, UNCHANGED log,
           \A w \in Writers : /\ step[w] \in Logged => step'[w] \in Logged
                              /\ step'[w] \in {"waiting", "callback", "done"} =>
                                    step[w] \in {"waiting", "callback", "done"},
           \A c \in Calls : step[c] \in Logged => response'[c] = response[c]
    PROVE  LogInv'
  <1>1. \A i \in 1..Len(log) : log[i].by \in Writers /\ step[log[i].by] \in Logged
    <2>1. \A i \in 1..Len(log) : log[i] \in [by : Writers, said : Saids]
      BY ElementOfSeq DEF TransportInv, Typed
    <2> QED
      BY <2>1 DEF TransportInv, LogInv, Logged
  <1>2. \A i, j \in 1..Len(log') : log'[i].by = log'[j].by => i = j
    BY DEF TransportInv, LogInv
  <1>3. ASSUME NEW i \in 1..Len(log)
        PROVE  (log[i] = Entry(log[i].by))' /\ step'[log'[i].by] \in Logged
    <2>1. log[i].by \in Writers /\ step[log[i].by] \in Logged /\ log[i] = Entry(log[i].by)
      BY <1>1 DEF TransportInv, LogInv
    <2>2. log[i].by # closer => response'[log[i].by] = response[log[i].by]
      BY <2>1 DEF Writers
    <2> QED
      BY <2>1, <2>2 DEF Entry
  <1>4. \A w \in Writers : step'[w] \in {"waiting", "callback", "done"} =>
           \E i \in 1..Len(log') : log'[i].by = w
    BY DEF TransportInv, LogInv
  <1> QED
    BY <1>2, <1>3, <1>4 DEF LogInv, Logged

\* A recording that goes on, whatever its call does: the call's own state stays.
LEMMA RecordingKeepsCalls ==
    ASSUME TransportInv, NEW w \in Writers, NEW v \in Steps \ {"idle"},
           step[w] \in {"asked", "sealing", "waiting", "callback"} \/ w = closer,
           step' = [step EXCEPT ![w] = v], UNCHANGED <<callVars, reported>>
    PROVE  \A c \in Calls : CallInv(c)'
  <1> SUFFICES ASSUME NEW c \in Calls
               PROVE  CallInv(c)'
    OBVIOUS
  <1>1. CallInv(c) /\ step \in [Writers -> Steps] /\ c \in Writers /\ c # closer
    BY CallsAssumption DEF TransportInv, Typed, Writers
  <1>2. /\ phase'[c] = phase[c] /\ response'[c] = response[c] /\ connection'[c] = connection[c]
        /\ cause'[c] = cause[c] /\ reported' = reported
    BY DEF callVars
  <1>3. CASE c # w
    BY <1>1, <1>2, <1>3, SameKeepsCall DEF Same
  <1>4. CASE c = w
    <2>1. step'[c] = v /\ v # "idle" /\ step[c] \in {"asked", "sealing", "waiting", "callback"}
      BY <1>1, <1>4
    <2>2. phase[c] \in {"recording", "failed"}
      BY <1>1, <2>1 DEF CallInv, TransportInv, Typed, Phases
    <2> QED
      BY <1>1, <1>2, <2>1, <2>2 DEF CallInv
  <1> QED
    BY <1>3, <1>4

\* record_model_call and finish, a step at a time, but for the event itself.
LEMMA RecorderKeepsInv ==
    ASSUME TransportInv, NEW w \in Writers,
           Refuse(w) \/ BeginSeal(w) \/ SealFails(w) \/ Deliver(w) \/ CallbackEnds(w)
    PROVE  TransportInv'
  <1>1. PICK v \in Steps \ {"idle"} :
           /\ step' = [step EXCEPT ![w] = v]
           /\ step[w] \in {"asked", "sealing", "waiting", "callback"}
           /\ step[w] \in {"waiting", "callback"} => v \in Logged
           /\ step[w] \in {"asked", "sealing"} => v \in {"sealing", "raised"}
    BY DEF Refuse, BeginSeal, SealFails, Deliver, CallbackEnds, Steps, Logged
  <1>2. /\ UNCHANGED <<callVars, log, reported>>
        /\ status' \in {status, "broken"}
    BY DEF Refuse, BeginSeal, SealFails, Deliver, CallbackEnds
  <1>3. nextNotify' \in 0..Len(log)
    <2>1. CASE UNCHANGED nextNotify
      BY <2>1 DEF TransportInv, Typed
    <2>2. CASE CallbackEnds(w)
      <3>1. \E i \in 1..Len(log) : log[i].by = w
        BY <2>2 DEF CallbackEnds, TransportInv, LogInv
      <3>2. Len(log) \in Nat /\ nextNotify \in 0..Len(log)
        BY LenProperties DEF TransportInv, Typed
      <3>3. \E s \in 0..(Len(log) - 1) : log[s + 1].by = w
        <4>1. PICK i \in 1..Len(log) : log[i].by = w
          BY <3>1
        <4>2. i - 1 \in 0..(Len(log) - 1) /\ log[(i - 1) + 1].by = w
          BY <3>2, <4>1
        <4> QED
          BY <4>2
      <3>4. EventSeq(w) \in 0..(Len(log) - 1)
        BY <3>3 DEF EventSeq
      <3>5. Max({nextNotify, EventSeq(w) + 1}) \in {nextNotify, EventSeq(w) + 1}
        <4>1. nextNotify \in Int /\ EventSeq(w) + 1 \in Int
          BY <3>2, <3>4
        <4> QED
          BY <4>1, MaxOfTwo, Zenon
      <3>6. nextNotify' \in {nextNotify, EventSeq(w) + 1}
        BY <2>2, <3>5, Zenon DEF CallbackEnds
      <3> QED
        BY <3>2, <3>4, <3>6
    <2> QED
      BY <2>1, <2>2 DEF Refuse, BeginSeal, SealFails, Deliver
  <1>4. Typed'
    BY <1>1, <1>2, <1>3 DEF TransportInv, Typed, callVars
  <1>5. \A c \in Calls : CallInv(c)'
    BY <1>1, <1>2, RecordingKeepsCalls
  <1>6. LogInv'
    <2>1. \A u \in Writers : step'[u] = IF u = w THEN v ELSE step[u]
      BY <1>1 DEF TransportInv, Typed
    <2>2. \A u \in Writers : /\ step[u] \in Logged => step'[u] \in Logged
                             /\ step'[u] \in {"waiting", "callback", "done"} =>
                                   step[u] \in {"waiting", "callback", "done"}
      BY <1>1, <2>1 DEF Logged
    <2>3. \A c \in Calls : response'[c] = response[c]
      BY <1>2 DEF callVars
    <2> QED
      BY <1>2, <2>2, <2>3, LogKept
  <1> QED
    BY <1>4, <1>5, <1>6 DEF TransportInv

\* An accepted answer: the event of w is the log's next, and its only one.
LEMMA SealEventKeepsInv ==
    ASSUME TransportInv, NEW w \in Writers, SealEvent(w)
    PROVE  TransportInv'
  <1> DEFINE n == Len(log) + 1
  <1>1. /\ step[w] = "sealing" /\ step' = [step EXCEPT ![w] = "waiting"]
        /\ log' = Append(log, Entry(w)) /\ status' \in {status, "finished"}
        /\ UNCHANGED <<callVars, nextNotify, reported>>
    BY DEF SealEvent
  <1>2. Entry(w) \in [by : Writers, said : Saids] /\ Entry(w).by = w
    <2>1. \A c \in Calls : Said(Api[c], response[c]) \in Saids
      BY SaidType DEF TransportInv, Typed
    <2>2. Said("none", NoResponse) \in Saids
      BY SaidType, NothingUnanswered
    <2>3. w \in Calls \/ w = closer
      BY DEF Writers
    <2> QED
      BY <2>1, <2>2, <2>3 DEF Entry
  <1>3. /\ log \in Seq([by : Writers, said : Saids]) /\ Len(log) \in Nat
        /\ log' \in Seq([by : Writers, said : Saids]) /\ Len(log') = n
        /\ \A i \in 1..Len(log) : log'[i] = log[i]
        /\ log'[n] = Entry(w)
    BY <1>1, <1>2, AppendProperties DEF TransportInv, Typed
  <1> HIDE DEF n
  <1>4. Typed'
    <2>1. nextNotify' \in 0..Len(log')
      BY <1>1, <1>3 DEF TransportInv, Typed, n
    <2> QED
      BY <1>1, <1>3, <2>1 DEF TransportInv, Typed, callVars, Steps
  <1>5. \A c \in Calls : CallInv(c)'
    BY <1>1, RecordingKeepsCalls DEF Steps
  <1>6. \A u \in Writers : step'[u] = IF u = w THEN "waiting" ELSE step[u]
    BY <1>1 DEF TransportInv, Typed
  <1>7. \A i \in 1..Len(log) : /\ log'[i] = log[i] /\ log[i].by \in Writers /\ log[i].by # w
                               /\ step'[log[i].by] \in Logged
    <2>1. \A i \in 1..Len(log) : log[i] \in [by : Writers, said : Saids]
      BY <1>3, ElementOfSeq
    <2> QED
      BY <1>1, <1>3, <1>6, <2>1 DEF TransportInv, LogInv, Logged
  <1>8. ASSUME NEW i \in 1..n, NEW j \in 1..n, log'[i].by = log'[j].by
        PROVE  i = j
    <2>1. \A k \in 1..n : k \in 1..Len(log) \/ k = n
      BY <1>3 DEF n
    <2>2. log'[n].by = w
      BY <1>2, <1>3
    <2>3. CASE i \in 1..Len(log) /\ j \in 1..Len(log)
      BY <1>7, <1>8, <2>3 DEF TransportInv, LogInv
    <2> QED
      BY <1>7, <1>8, <2>1, <2>2, <2>3
  <1>9. ASSUME NEW i \in 1..n
        PROVE  (log[i] = Entry(log[i].by))' /\ step'[log'[i].by] \in Logged
    <2>1. UNCHANGED response
      BY <1>1 DEF callVars
    <2>2. CASE i \in 1..Len(log)
      <3>1. log[i] = Entry(log[i].by)
        BY <2>2 DEF TransportInv, LogInv
      <3> QED
        BY <1>7, <2>1, <2>2, <3>1 DEF Entry
    <2>3. CASE i = n
      BY <1>2, <1>3, <1>6, <2>1, <2>3 DEF Entry, Logged
    <2> QED
      BY <1>3, <2>2, <2>3 DEF n
  <1>10. ASSUME NEW u \in Writers, step'[u] \in {"waiting", "callback", "done"}
         PROVE  \E i \in 1..n : log'[i].by = u
    <2>1. CASE u = w
      BY <1>2, <1>3, <2>1 DEF n
    <2>2. CASE u # w
      <3>1. PICK i \in 1..Len(log) : log[i].by = u
        BY <1>6, <1>10, <2>2 DEF TransportInv, LogInv
      <3>2. i \in 1..n /\ log'[i].by = u
        BY <1>3, <3>1 DEF n
      <3> QED
        BY <3>2
    <2> QED
      BY <2>1, <2>2
  <1>11. LogInv'
    BY <1>3, <1>8, <1>9, <1>10 DEF LogInv, Logged
  <1> QED
    BY <1>4, <1>5, <1>11 DEF TransportInv
---------------------------------------------------------------------------------
\* A step of one call's own, before or after its recording: the other calls stay
\* as they are, and so does the log.
CallStep(c) ==
    /\ UNCHANGED <<log, status, nextNotify>>
    /\ \A d \in Calls : d # c => Same(d)
    /\ reported' \subseteq Calls
    /\ \A w \in Writers : w # c => step'[w] = step[w]
    /\ step[c] \in Logged => step'[c] = step[c] /\ response'[c] = response[c]
    /\ step[c] \notin Logged => step'[c] \notin Logged
    /\ inside' \in [Calls -> Writers \cup {nobody}]
    /\ step' \in [Writers -> Steps]

LEMMA CallStepKeepsInv ==
    ASSUME TransportInv, NEW c \in Calls, CallStep(c), CallInv(c)',
           phase' \in [Calls -> Phases], cause' \in [Calls -> Causes],
           response' \in [Calls -> AnyResponse],
           response'[c] \in Responses[c] \cup {NoResponse},
           connection' \in [Calls -> {"none", "open", "closed"}]
    PROVE  TransportInv'
  <1>1. Typed'
    <2>1. \A d \in Calls : response'[d] \in Responses[d] \cup {NoResponse}
      BY DEF CallStep, Same, TransportInv, Typed
    <2> QED
      BY <2>1 DEF CallStep, TransportInv, Typed
  <1>2. \A d \in Calls : CallInv(d)'
    BY SameKeepsCall DEF CallStep, TransportInv
  <1>3. LogInv'
    <2>1. \A w \in Writers : /\ step[w] \in Logged => step'[w] \in Logged
                             /\ step'[w] \in {"waiting", "callback", "done"} =>
                                   step[w] \in {"waiting", "callback", "done"}
      BY DEF CallStep, Logged
    <2>2. \A d \in Calls : step[d] \in Logged => response'[d] = response[d]
      BY DEF CallStep, Same
    <2> QED
      BY <2>1, <2>2, LogKept DEF CallStep
  <1> QED
    BY <1>1, <1>2, <1>3 DEF TransportInv

\* A call that is sent, or whose inner transport has its say without a response.
LEMMA SendKeepsInv ==
    ASSUME TransportInv, NEW c \in Calls,
           (\E w \in Writers \cup {nobody} : Send(c, w)) \/ InnerFails(c) \/ PassThrough(c)
    PROVE  TransportInv'
  <1>1. CallInv(c) /\ Typed /\ c \in Writers
    BY DEF TransportInv, Writers
  <1>2. /\ UNCHANGED <<response, connection, step, log, status, nextNotify, reported>>
        /\ inside' \in [Calls -> Writers \cup {nobody}]
        /\ \/ /\ phase[c] = "idle" /\ phase' = [phase EXCEPT ![c] = "sent"] /\ cause' = cause
           \/ /\ phase[c] = "sent" /\ phase' = [phase EXCEPT ![c] = "returned"] /\ cause' = cause
           \/ /\ phase[c] = "sent" /\ phase' = [phase EXCEPT ![c] = "failed"]
              /\ cause' = [cause EXCEPT ![c] = "refused"]
    BY <1>1 DEF Send, InnerFails, PassThrough, Fails, runVars, Typed
  <1>3. /\ phase' \in [Calls -> Phases] /\ cause' \in [Calls -> Causes]
        /\ \A d \in Calls : d # c => phase'[d] = phase[d] /\ cause'[d] = cause[d]
        /\ \/ phase'[c] = "sent" /\ phase[c] = "idle" /\ cause'[c] = cause[c]
           \/ phase'[c] = "returned" /\ cause'[c] = cause[c]
           \/ phase'[c] = "failed" /\ cause'[c] = "refused"
    BY <1>1, <1>2 DEF Typed, Phases, Causes
  <1>4. /\ step[c] = "idle" /\ response[c] = NoResponse /\ connection[c] = "none"
        /\ cause[c] = "none" /\ c \notin reported
    BY <1>1, <1>2 DEF CallInv
  <1>5. CallInv(c)'
    BY <1>2, <1>3, <1>4 DEF CallInv
  <1>6. CallStep(c)
    BY <1>1, <1>2, <1>3, <1>4 DEF CallStep, Same, Logged, Typed
  <1> QED
    BY <1>1, <1>2, <1>3, <1>5, <1>6, CallStepKeepsInv DEF Typed

\* What continuing does: the call records, or has nothing to record.
Continued(c, r) ==
    \/ /\ ~Nothing(Said(Api[c], r)) /\ phase'[c] = "recording" /\ step'[c] = "asked"
    \/ /\ Nothing(Said(Api[c], r)) /\ phase'[c] = "returned" /\ step'[c] = step[c]

LEMMA ContinueSays ==
    ASSUME NEW c \in Calls, NEW r, Typed, Continue(c, r)
    PROVE  /\ Continued(c, r)
           /\ phase' \in [Calls -> Phases] /\ step' \in [Writers -> Steps]
           /\ \A d \in Calls : d # c => phase'[d] = phase[d]
           /\ \A w \in Writers : w # c => step'[w] = step[w]
  <1>1. c \in Writers
    BY DEF Writers
  <1>2. CASE Nothing(Said(Api[c], r))
    BY <1>1, <1>2 DEF Continue, Continued, Typed, Phases, Steps
  <1>3. CASE ~Nothing(Said(Api[c], r))
    BY <1>1, <1>3 DEF Continue, Continued, Typed, Phases, Steps
  <1> QED
    BY <1>2, <1>3

\* The answer arrives: a stream is recorded as it stands, a body is read first.
LEMMA RespondKeepsInv ==
    ASSUME TransportInv, NEW c \in Calls, NEW r \in Responses[c], Respond(c, r)
    PROVE  TransportInv'
  <1>1. CallInv(c) /\ Typed /\ c \in Writers /\ r \in AnyResponse
    BY CallsAssumption DEF TransportInv, Writers
  <1>2. /\ phase[c] = "sent" /\ UNCHANGED <<cause, inside, log, status, nextNotify, reported>>
        /\ response' = [response EXCEPT ![c] = r]
        /\ connection' = [connection EXCEPT ![c] = "open"]
        /\ \/ r.stream /\ Continue(c, r)
           \/ ~r.stream /\ phase' = [phase EXCEPT ![c] = "reading"] /\ UNCHANGED step
    BY DEF Respond
  <1>3. /\ step[c] = "idle" /\ cause[c] = "none" /\ c \notin reported
    BY <1>1, <1>2 DEF CallInv
  <1>4. /\ response' \in [Calls -> AnyResponse] /\ response'[c] = r
        /\ connection' \in [Calls -> {"none", "open", "closed"}] /\ connection'[c] = "open"
        /\ \A d \in Calls : d # c => response'[d] = response[d] /\ connection'[d] = connection[d]
    BY <1>1, <1>2 DEF Typed
  <1>5. /\ phase' \in [Calls -> Phases] /\ step' \in [Writers -> Steps]
        /\ \A d \in Calls : d # c => phase'[d] = phase[d]
        /\ \A w \in Writers : w # c => step'[w] = step[w]
        /\ \/ r.stream /\ Continued(c, r)
           \/ ~r.stream /\ phase'[c] = "reading" /\ step' = step
    <2>1. CASE r.stream
      BY <1>1, <1>2, <2>1, ContinueSays
    <2>2. CASE ~r.stream
      BY <1>1, <1>2, <2>2 DEF Typed, Phases
    <2> QED
      BY <2>1, <2>2
  <1>6. CallInv(c)'
    BY <1>2, <1>3, <1>4, <1>5 DEF CallInv, Continued
  <1>7. CallStep(c)
    <2>1. \A d \in Calls : d # c => Same(d)
      <3>1. \A d \in Calls : d # c => step'[d] = step[d]
        BY <1>5 DEF Writers
      <3> QED
        BY <1>2, <1>4, <1>5, <3>1 DEF Same
    <2>2. step[c] \notin Logged /\ step'[c] \notin Logged
      BY <1>3, <1>5 DEF Logged, Continued
    <2>3. inside' \in [Calls -> Writers \cup {nobody}] /\ reported' \subseteq Calls
      BY <1>1, <1>2 DEF Typed
    <2> QED
      BY <1>2, <1>5, <2>1, <2>2, <2>3 DEF CallStep
  <1> QED
    BY <1>1, <1>2, <1>4, <1>5, <1>6, <1>7, CallStepKeepsInv DEF Typed

\* The body is read, or the read fails; the stream is closed either way.
LEMMA ReadKeepsInv ==
    ASSUME TransportInv, NEW c \in Calls, Read(c)
    PROVE  TransportInv'
  <1>1. CallInv(c) /\ Typed /\ c \in Writers
    BY DEF TransportInv, Writers
  <1>2. /\ phase[c] = "reading"
        /\ UNCHANGED <<response, inside, log, status, nextNotify, reported>>
        /\ connection' = [connection EXCEPT ![c] = "closed"]
        /\ \/ Continue(c, response[c]) /\ UNCHANGED cause
           \/ Fails(c, "unread") /\ UNCHANGED step
    BY DEF Read, ReadBody, ReadFails, runVars
  <1>3. /\ step[c] = "idle" /\ cause[c] = "none" /\ c \notin reported /\ ~response[c].stream
    BY <1>1, <1>2 DEF CallInv
  <1>4. /\ connection' \in [Calls -> {"none", "open", "closed"}] /\ connection'[c] = "closed"
        /\ \A d \in Calls : d # c => connection'[d] = connection[d]
    BY <1>1, <1>2 DEF Typed
  <1>5. /\ phase' \in [Calls -> Phases] /\ step' \in [Writers -> Steps]
        /\ cause' \in [Calls -> Causes]
        /\ \A d \in Calls : d # c => phase'[d] = phase[d] /\ cause'[d] = cause[d]
        /\ \A w \in Writers : w # c => step'[w] = step[w]
        /\ \/ Continued(c, response[c]) /\ cause'[c] = cause[c]
           \/ phase'[c] = "failed" /\ cause'[c] = "unread" /\ step' = step
    <2>1. CASE Continue(c, response[c]) /\ UNCHANGED cause
      <3>1. /\ Continued(c, response[c])
            /\ phase' \in [Calls -> Phases] /\ step' \in [Writers -> Steps]
            /\ \A d \in Calls : d # c => phase'[d] = phase[d]
            /\ \A w \in Writers : w # c => step'[w] = step[w]
        BY <1>1, <2>1, ContinueSays
      <3> QED
        BY <1>1, <2>1, <3>1 DEF Typed
    <2>2. CASE Fails(c, "unread") /\ UNCHANGED step
      BY <1>1, <2>2 DEF Typed, Phases, Causes, Fails
    <2> QED
      BY <1>2, <2>1, <2>2
  <1>6. CallInv(c)'
    BY <1>2, <1>3, <1>4, <1>5 DEF CallInv, Continued
  <1>7. CallStep(c)
    <2>1. \A d \in Calls : d # c => Same(d)
      <3>1. \A d \in Calls : d # c => step'[d] = step[d]
        BY <1>5 DEF Writers
      <3> QED
        BY <1>2, <1>4, <1>5, <3>1 DEF Same
    <2>2. step[c] \notin Logged /\ step'[c] \notin Logged
      BY <1>3, <1>5 DEF Logged, Continued
    <2>3. inside' \in [Calls -> Writers \cup {nobody}] /\ reported' \subseteq Calls
      BY <1>1, <1>2 DEF Typed
    <2> QED
      BY <1>2, <1>5, <2>1, <2>2, <2>3 DEF CallStep
  <1> QED
    BY <1>1, <1>2, <1>4, <1>5, <1>6, <1>7, CallStepKeepsInv DEF Typed

\* The recording has ended and the call goes on, or fails by its own on_error.
LEMMA FinishKeepsInv ==
    ASSUME TransportInv, NEW c \in Calls, Finish(c)
    PROVE  TransportInv'
  <1>1. CallInv(c) /\ Typed /\ c \in Writers
    BY DEF TransportInv, Writers
  <1>2. /\ phase[c] = "recording"
        /\ UNCHANGED <<response, connection, inside, step, log, status, nextNotify>>
        /\ \/ step[c] = "done" /\ reported' = reported
           \/ step[c] = "raised" /\ reported' = reported \cup {c}
        /\ \/ phase' = [phase EXCEPT ![c] = "returned"] /\ UNCHANGED cause
           \/ Fails(c, "on_error") /\ step[c] = "raised"
    BY DEF Finish, Recorded, Report, runVars
  <1>3. /\ phase' \in [Calls -> Phases] /\ cause' \in [Calls -> Causes]
        /\ \A d \in Calls : d # c => phase'[d] = phase[d] /\ cause'[d] = cause[d]
        /\ \/ phase'[c] = "returned" /\ cause'[c] = cause[c]
           \/ phase'[c] = "failed" /\ cause'[c] = "on_error" /\ step[c] = "raised"
    BY <1>1, <1>2 DEF Typed, Phases, Causes, Fails
  <1>4. /\ ~response[c].stream => connection[c] = "closed"
        /\ step[c] # "idle" /\ cause[c] = "none"
    BY <1>1, <1>2 DEF CallInv
  <1>5. CallInv(c)'
    <2>1. /\ response'[c] = response[c] /\ connection'[c] = connection[c] /\ step'[c] = step[c]
          /\ step[c] = "raised" <=> c \in reported'
      BY <1>1, <1>2 DEF CallInv
    <2>2. ~Nothing(Said(Api[c], response[c]))
      BY <1>1, <1>4 DEF CallInv
    <2>3. step[c] \in {"done", "raised"}
      BY <1>2
    <2>4. connection[c] = "open" => response[c].stream
      BY <1>4
    <2> QED
      BY <1>3, <1>4, <2>1, <2>2, <2>3, <2>4 DEF CallInv
  <1>6. CallStep(c)
    BY <1>1, <1>2, <1>3, <1>4 DEF CallStep, Same, Logged, Typed
  <1> QED
    BY <1>1, <1>2, <1>3, <1>5, <1>6, CallStepKeepsInv DEF Typed

\* The task is cancelled: a worker that has not started may never start, one
\* that has goes on.
LEMMA CancelKeepsInv ==
    ASSUME TransportInv, NEW c \in Calls, Cancel(c)
    PROVE  TransportInv'
  <1>1. CallInv(c) /\ Typed /\ c \in Writers
    BY DEF TransportInv, Writers
  <1>2. /\ c \in Async /\ phase[c] \in {"sent", "reading", "recording"}
        /\ UNCHANGED <<response, inside, log, status, nextNotify, reported>>
        /\ phase' = [phase EXCEPT ![c] = "failed"] /\ cause' = [cause EXCEPT ![c] = "cancelled"]
        /\ connection' = [connection EXCEPT ![c] =
                             IF phase[c] = "reading" THEN "closed" ELSE @]
        /\ \/ step' = step
           \/ step[c] = "asked" /\ step' = [step EXCEPT ![c] = "idle"]
    BY DEF Cancel, Fails
  <1>3. /\ phase' \in [Calls -> Phases] /\ phase'[c] = "failed"
        /\ cause' \in [Calls -> Causes] /\ cause'[c] = "cancelled"
        /\ \A d \in Calls : d # c => phase'[d] = phase[d] /\ cause'[d] = cause[d]
    BY <1>1, <1>2 DEF Typed, Phases, Causes
  <1>4. /\ connection' \in [Calls -> {"none", "open", "closed"}]
        /\ \A d \in Calls : d # c => connection'[d] = connection[d]
        /\ connection'[c] = IF phase[c] = "reading" THEN "closed" ELSE connection[c]
    BY <1>1, <1>2 DEF Typed
  <1>5. /\ step' \in [Writers -> Steps]
        /\ \A w \in Writers : w # c => step'[w] = step[w]
        /\ \/ step'[c] = step[c]
           \/ step[c] = "asked" /\ step'[c] = "idle"
    <2>1. CASE step' = step
      BY <1>1, <2>1 DEF Typed
    <2>2. CASE step[c] = "asked" /\ step' = [step EXCEPT ![c] = "idle"]
      BY <1>1, <2>2 DEF Typed, Steps
    <2> QED
      BY <1>2, <2>1, <2>2
  <1>6. connection'[c] = "open" => response[c].stream
    BY <1>1, <1>2, <1>4 DEF CallInv
  <1>7. CallInv(c)'
    <2>1. c \in reported => step'[c] = "raised"
      BY <1>1, <1>5 DEF CallInv
    <2>2. step'[c] # "idle" => ~Nothing(Said(Api[c], response[c]))
      BY <1>1, <1>5 DEF CallInv
    <2> QED
      BY <1>2, <1>3, <1>6, <2>1, <2>2 DEF CallInv
  <1>8. CallStep(c)
    <2>1. \A d \in Calls : d # c => Same(d)
      <3>1. \A d \in Calls : d # c => step'[d] = step[d]
        BY <1>5 DEF Writers
      <3> QED
        BY <1>2, <1>3, <1>4, <3>1 DEF Same
    <2>2. /\ step[c] \in Logged => step'[c] = step[c] /\ response'[c] = response[c]
          /\ step[c] \notin Logged => step'[c] \notin Logged
      BY <1>2, <1>5 DEF Logged
    <2>3. inside' \in [Calls -> Writers \cup {nobody}] /\ reported' \subseteq Calls
      BY <1>1, <1>2 DEF Typed
    <2> QED
      BY <1>2, <1>5, <2>1, <2>2, <2>3 DEF CallStep
  <1> QED
    BY <1>1, <1>2, <1>3, <1>4, <1>7, <1>8, CallStepKeepsInv DEF Typed

\* finish is called.
LEMMA CloseKeepsInv ==
    ASSUME TransportInv, Close
    PROVE  TransportInv'
  <1>1. /\ step[closer] = "idle" /\ step' = [step EXCEPT ![closer] = "asked"]
        /\ UNCHANGED <<callVars, log, status, nextNotify, reported>> /\ closer \in Writers
    BY DEF Close, Writers
  <1>2. \A w \in Writers : step'[w] = IF w = closer THEN "asked" ELSE step[w]
    BY <1>1 DEF TransportInv, Typed
  <1>3. Typed'
    BY <1>1 DEF TransportInv, Typed, callVars, Steps
  <1>4. \A c \in Calls : CallInv(c)'
    BY <1>1, RecordingKeepsCalls DEF Steps
  <1>5. LogInv'
    <2>1. \A w \in Writers : /\ step[w] \in Logged => step'[w] \in Logged
                             /\ step'[w] \in {"waiting", "callback", "done"} =>
                                   step[w] \in {"waiting", "callback", "done"}
      BY <1>1, <1>2 DEF Logged
    <2>2. \A c \in Calls : response'[c] = response[c]
      BY <1>1 DEF callVars
    <2> QED
      BY <1>1, <2>1, <2>2, LogKept
  <1> QED
    BY <1>3, <1>4, <1>5 DEF TransportInv

\* Nothing changes.
LEMMA StutterKeepsInv ==
    ASSUME TransportInv, UNCHANGED vars
    PROVE  TransportInv'
  <1>1. UNCHANGED <<phase, response, connection, cause, inside, step, log, status, nextNotify, reported>>
    BY DEF vars, callVars, runVars
  <1>2. Typed'
    BY <1>1 DEF TransportInv, Typed
  <1>3. \A c \in Calls : CallInv(c)'
    BY <1>1, SameKeepsCall DEF TransportInv, Same
  <1>4. LogInv'
    BY <1>1, LogKept
  <1> QED
    BY <1>2, <1>3, <1>4 DEF TransportInv

LEMMA InitInv == Init => TransportInv
  <1> SUFFICES ASSUME Init
               PROVE  TransportInv
    OBVIOUS
  <1>1. Len(log) = 0 /\ log \in Seq([by : Writers, said : Saids])
    BY EmptySeq DEF Init
  <1>2. Typed
    BY <1>1, NothingUnanswered DEF Init, Typed, Phases, Causes, Steps
  <1>3. \A c \in Calls : CallInv(c)
    BY CallsAssumption DEF Init, CallInv, Writers, NoResponse
  <1>4. LogInv
    BY <1>1 DEF Init, LogInv
  <1> QED
    BY <1>2, <1>3, <1>4 DEF TransportInv
---------------------------------------------------------------------------------
(* The inductive invariant holds of every behaviour: one lemma per step of a  *)
(* call (_send of the transports, then _record) and of the recorder.          *)
THEOREM TransportInvariant == Spec => []TransportInv
  <1>1. TransportInv /\ [Next]_vars => TransportInv'
    <2> SUFFICES ASSUME TransportInv, [Next]_vars
                 PROVE  TransportInv'
      OBVIOUS
    <2>1. CASE \E c \in Calls, w \in Writers \cup {nobody} : Send(c, w)
      BY <2>1, SendKeepsInv
    <2>2. CASE \E c \in Calls : Answer(c)
      BY <2>2, SendKeepsInv, RespondKeepsInv DEF Answer
    <2>3. CASE \E c \in Calls : Read(c)
      BY <2>3, ReadKeepsInv
    <2>4. CASE \E c \in Calls : Finish(c)
      BY <2>4, FinishKeepsInv
    <2>5. CASE \E c \in Calls : Cancel(c)
      BY <2>5, CancelKeepsInv
    <2>6. CASE \E w \in Writers : Ask(w) \/ SealEnds(w) \/ Deliver(w) \/ CallbackEnds(w)
      BY <2>6, RecorderKeepsInv, SealEventKeepsInv DEF Ask, SealEnds
    <2>7. CASE Close
      BY <2>7, CloseKeepsInv
    <2>8. CASE UNCHANGED vars
      BY <2>8, StutterKeepsInv
    <2> QED
      BY <2>1, <2>2, <2>3, <2>4, <2>5, <2>6, <2>7, <2>8 DEF Next
  <1> QED
    BY InitInv, <1>1, PTL DEF Spec

\* Who has an event in the log.
LEMMA SealedMeansLogged ==
    ASSUME TransportInv
    PROVE  /\ \A w \in Writers : Sealed(w) => step[w] \in Logged
           /\ \A w \in Writers : step[w] \in {"waiting", "callback", "done"} => Sealed(w)
           /\ DOMAIN log = 1..Len(log)
  <1>1. DOMAIN log = 1..Len(log)
    BY LenProperties DEF TransportInv, Typed
  <1> QED
    BY <1>1 DEF Sealed, TransportInv, LogInv, Logged

(* Types, and an event in the log for each recording past its seal, and no     *)
(* other.                                                                     *)
THEOREM TypesHold == Spec => []TypeOK
  <1>1. TransportInv => TypeOK
    BY SealedMeansLogged DEF TransportInv, Typed, TypeOK, Logged, Phases, Causes, Steps
  <1> QED
    BY <1>1, TransportInvariant, PTL

(* No call whose answer told what it was is lost: when it has returned, its    *)
(* event is sealed or its error was reported.  No call is in the log twice, and *)
(* none without an answer, or whose body could not be read.                    *)
THEOREM NothingIsLost == Spec => []ReturnedIsRecorded
  <1>1. ASSUME TransportInv
        PROVE  ReturnedIsRecorded
    <2>1. \A i, j \in DOMAIN log : log[i].by = log[j].by => i = j
      BY <1>1, SealedMeansLogged DEF TransportInv, LogInv
    <2>2. ASSUME NEW c \in Calls
          PROVE  /\ phase[c] = "returned" /\ ~response[c].stream /\ Names(Api[c], response[c])
                       => Sealed(c) \/ c \in reported
                 /\ Sealed(c) => cause[c] \notin {"refused", "unread"} /\ response[c] # NoResponse
      <3>1. CallInv(c) /\ c \in Writers /\ response[c] \in AnyResponse
        BY <1>1 DEF TransportInv, Typed, Writers
      <3>2. ASSUME phase[c] = "returned", Names(Api[c], response[c])
            PROVE  Sealed(c) \/ c \in reported
        <4>1. ~Nothing(Said(Api[c], response[c]))
          BY <3>1, <3>2, NamedIsSaid
        <4>2. step[c] \in {"done", "raised"}
          BY <3>1, <3>2, <4>1, NothingUnanswered DEF CallInv
        <4> QED
          BY <1>1, <3>1, <3>2, <4>2, SealedMeansLogged DEF CallInv
      <3>3. ASSUME Sealed(c)
            PROVE  cause[c] \notin {"refused", "unread"} /\ response[c] # NoResponse
        BY <1>1, <3>1, <3>3, SealedMeansLogged, NothingUnanswered DEF CallInv, Logged
      <3> QED
        BY <3>2, <3>3
    <2> QED
      BY <2>1, <2>2 DEF ReturnedIsRecorded
  <1> QED
    BY <1>1, TransportInvariant, PTL

(* A call fails only by its inner transport, its own on_error or cancellation, *)
(* and leaves no connection open but a stream's.                               *)
THEOREM CallsFailOnTheirOwn == Spec => []FailsOnItsOwn
  <1>1. TransportInv => FailsOnItsOwn
    BY DEF TransportInv, CallInv, FailsOnItsOwn
  <1> QED
    BY <1>1, TransportInvariant, PTL
=================================================================================

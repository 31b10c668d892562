-------------------------- MODULE AgentRunDeliveryProofs --------------------------
(***************************************************************************)
(* Theorems about the callbacks of a run (_notify), for every number of    *)
(* threads, events and nested calls.  A frame is one _notify on a thread's *)
(* stack.  The argument: DeliveryInv says where the sealed events are:     *)
(* each frame is a sealed event of its own; its callback has started       *)
(* unless the thread waits at it; and next_notify passes an event only     *)
(* when that one, or a nested one after it, has been delivered.            *)
(***************************************************************************)
EXTENDS AgentRunProofs

Frames(t) == 1..Len(notifying[t])

\* The event i was delivered, or one recorded inside a callback overtook it.
Covered(i) == i \in delivered \/ \E n \in nested \cap delivered : i < n

\* A thread that waits has no request of its own in flight.
WaitersAreIdle == \A t \in waiting : sealing[t] = NoEvent

\* No thread is notified before start has called back for both its artifacts.
StartNotifiesFirst ==
    /\ stage # "open" => \A t \in Threads : notifying[t] = <<>>
    /\ stage = "control_notified" => nextNotify >= 0

\* Every frame is a sealed event, and no two frames are the same one.
FramesAreSealed == \A t \in Threads : \A k \in Frames(t) : notifying[t][k] < Len(log)

FramesAreDistinct ==
    \A t, u \in Threads : \A k \in Frames(t), l \in Frames(u) :
       notifying[t][k] = notifying[u][l] => t = u /\ k = l

\* The callback of a frame has started, but for the last one of a waiting thread.
FramesHaveStarted ==
    \A t \in Threads : \A k \in Frames(t) :
       notifying[t][k] \in delivered <=> ~(t \in waiting /\ k = Len(notifying[t]))

\* Only an event recorded inside a callback has a frame on another one.
InnerFramesAreNested ==
    \A t \in Threads : \A k \in Frames(t) : k > 1 => notifying[t][k] \in nested

DeliveredIsSealed == nextNotify <= Len(log) /\ \A s \in delivered : s < Len(log)

PassedIsCovered == \A i \in -1..nextNotify-1 : Covered(i)

\* A callback entered from outside has the turn, or had it: next_notify is
\* there.
OuterHaveTheTurn == \A t \in InCallback : nextNotify >= Outer(t)

\* A nested event after i was delivered, and its callback is over.
JumpedPast(i) == \E n \in (nested \cap delivered) \ OnStack : i < n

\* The turn of an event that is still on a stack is passed only by a nested
\* event's return.
PassedByReturn ==
    \A t \in Threads : \A k \in Frames(t) : nextNotify > notifying[t][k] => JumpedPast(notifying[t][k])

DeliveryInv == /\ NotifyInv
               /\ WaitersAreIdle
               /\ StartNotifiesFirst
               /\ FramesAreSealed
               /\ FramesAreDistinct
               /\ FramesHaveStarted
               /\ InnerFramesAreNested
               /\ DeliveredIsSealed
               /\ PassedIsCovered
               /\ HolesOnlyBehindNested
               /\ OuterHaveTheTurn
               /\ PassedByReturn
---------------------------------------------------------------------------------
\* The numbers the stacks consist of.
LEMMA FrameTypes ==
    ASSUME RunInv, NotifyTypeOK
    PROVE  /\ Len(log) \in Nat
           /\ nextNotify \in Int
           /\ \A s \in delivered : s \in Int
           /\ \A t \in Threads : /\ notifying[t] \in Seq(Positions) /\ Len(notifying[t]) \in Nat
                                 /\ (notifying[t] = <<>>) <=> (Len(notifying[t]) = 0)
                                 /\ \A k \in Frames(t) : notifying[t][k] \in Positions
           /\ \A p \in Positions : p \in Nat
  <1>1. \A t \in Threads : notifying[t] \in Seq(Positions)
    BY DEF NotifyTypeOK
  <1>2. \A t \in Threads : Len(notifying[t]) \in Nat /\ ((notifying[t] = <<>>) <=> (Len(notifying[t]) = 0))
    BY <1>1, EmptySeq, LenProperties
  <1>3. \A t \in Threads : \A k \in Frames(t) : notifying[t][k] \in Positions
    BY <1>1, ElementOfSeq DEF Frames
  <1>4. Len(log) \in Nat /\ nextNotify \in Int /\ \A s \in delivered : s \in Int
    BY LenProperties DEF RunInv, RunTypeOK, NotifyTypeOK
  <1>5. \A p \in Positions : p \in Nat
    BY DEF Positions
  <1> QED
    BY <1>1, <1>2, <1>3, <1>4, <1>5

\* What a step does to the frames: the event s gets one on top of t's stack, or
\* t's last frame is taken away.
FramePushed(t, s) ==
    /\ \A u \in Threads : u # t => notifying'[u] = notifying[u]
    /\ Len(notifying'[t]) = Len(notifying[t]) + 1
    /\ \A k \in Frames(t) : notifying'[t][k] = notifying[t][k]
    /\ notifying'[t][Len(notifying[t]) + 1] = s

FramePopped(t) ==
    /\ \A u \in Threads : u # t => notifying'[u] = notifying[u]
    /\ Len(notifying'[t]) = Len(notifying[t]) - 1
    /\ Len(notifying[t]) \in Frames(t)
    /\ \A k \in 1..Len(notifying[t])-1 : notifying'[t][k] = notifying[t][k]

LEMMA PushFrame ==
    ASSUME NotifyTypeOK, NEW t \in Threads, NEW s \in Positions,
           notifying' = [notifying EXCEPT ![t] = Append(@, s)]
    PROVE  FramePushed(t, s)
  <1>1. notifying[t] \in Seq(Positions) /\ notifying'[t] = Append(notifying[t], s)
    BY DEF NotifyTypeOK
  <1>2. \A u \in Threads : u # t => notifying'[u] = notifying[u]
    BY DEF NotifyTypeOK
  <1> QED
    BY <1>1, <1>2, AppendProperties DEF Frames, FramePushed

LEMMA PopFrame ==
    ASSUME RunInv, NotifyTypeOK, NEW t \in Threads, notifying[t] # <<>>,
           notifying' = [notifying EXCEPT ![t] = Caller(t)]
    PROVE  FramePopped(t)
  <1>1. notifying[t] \in Seq(Positions) /\ Len(notifying[t]) \in Nat \ {0}
    BY FrameTypes
  <1>2. notifying'[t] = Caller(t) /\ \A u \in Threads : u # t => notifying'[u] = notifying[u]
    BY DEF NotifyTypeOK
  <1>3. \A i \in 1..Len(notifying[t])-1 : notifying[t][i] \in Positions
    BY <1>1
  <1>4. /\ Len(Caller(t)) = Len(notifying[t]) - 1
        /\ \A k \in 1..Len(notifying[t])-1 : Caller(t)[k] = notifying[t][k]
    BY <1>1, <1>3, SubSeqProperties DEF Caller
  <1> QED
    BY <1>1, <1>2, <1>4 DEF Frames, FramePopped

\* IsNested(t) is about the length of t's stack.
LEMMA NestedMeansDeep ==
    ASSUME RunInv, NotifyTypeOK, NEW t \in Threads, notifying[t] # <<>>
    PROVE  IsNested(t) <=> Len(notifying[t]) > 1
  <1>1. notifying[t] \in Seq(Positions) /\ Len(notifying[t]) \in Nat \ {0}
    BY FrameTypes
  <1>2. \A i \in 1..Len(notifying[t])-1 : notifying[t][i] \in Positions
    BY <1>1
  <1>3. Len(Caller(t)) = Len(notifying[t]) - 1 /\ Caller(t) \in Seq(Positions)
    BY <1>1, <1>2, SubSeqProperties DEF Caller
  <1> QED
    BY <1>1, <1>3, EmptySeq DEF IsNested
---------------------------------------------------------------------------------
\* The steps of start: the two artifacts are delivered before anyone else.
LEMMA StartKeepsDelivery ==
    ASSUME RunInv, DeliveryInv, NotifyInv', Start
    PROVE  DeliveryInv'
  <1>1. stage # "open" /\ (\A t \in Threads : notifying[t] = <<>>) /\ NotifyTypeOK
    BY DEF Start, SealControlArtifact, SealRunStart, StartFails, NotifyControlArtifact,
           NotifyRunStart, DeliveryInv, StartNotifiesFirst, NotifyInv
  <1>2. waiting = {} /\ UNCHANGED <<sealing, waiting, notifying, nested>>
    BY <1>1 DEF Start, SealControlArtifact, SealRunStart, StartFails, NotifyControlArtifact,
           NotifyRunStart, notifyVars, DeliveryInv, NotifyInv, NotifyTypeOK
  <1>3. \A t \in Threads : Frames(t)' = {} /\ notifying'[t] = <<>> /\ notifying[t] = <<>>
    BY <1>1, <1>2 DEF Frames
  <1>4. /\ WaitersAreIdle' /\ FramesAreSealed' /\ FramesAreDistinct' /\ FramesHaveStarted'
        /\ InnerFramesAreNested' /\ OuterHaveTheTurn' /\ PassedByReturn'
    BY <1>2, <1>3 DEF WaitersAreIdle, FramesAreSealed, FramesAreDistinct, FramesHaveStarted,
                      InnerFramesAreNested, OuterHaveTheTurn, PassedByReturn, InCallback
  <1>5. CASE UNCHANGED <<nextNotify, delivered>> /\ stage' # "control_notified" /\ Len(log') >= Len(log)
    <2>1. Len(log') \in Nat /\ Len(log) \in Nat
      BY <1>5, FrameTypes, <1>1, StartKeepsRunInv DEF RunInv, RunTypeOK
    <2>2. StartNotifiesFirst'
      BY <1>3, <1>5 DEF StartNotifiesFirst
    <2>3. DeliveredIsSealed'
      BY <1>1, <1>5, <2>1, FrameTypes DEF DeliveryInv, DeliveredIsSealed
    <2>4. PassedIsCovered' /\ HolesOnlyBehindNested'
      BY <1>2, <1>5 DEF DeliveryInv, PassedIsCovered, HolesOnlyBehindNested, Covered
    <2> QED
      BY <1>4, <2>2, <2>3, <2>4 DEF DeliveryInv
  <1>6. CASE NotifyControlArtifact
    <2>1. /\ stage' = "control_notified" /\ nextNotify' = 0 /\ log' = log
          /\ delivered' = delivered \cup {-1}
      BY <1>6 DEF NotifyControlArtifact, runVars
    <2>2. DeliveredIsSealed'
      BY <1>1, <2>1, FrameTypes DEF DeliveryInv, DeliveredIsSealed
    <2>3. PassedIsCovered'
      BY <2>1 DEF PassedIsCovered, Covered
    <2>4. HolesOnlyBehindNested'
      BY <1>2, <2>1 DEF DeliveryInv, HolesOnlyBehindNested
    <2> QED
      BY <1>3, <1>4, <2>1, <2>2, <2>3, <2>4 DEF DeliveryInv, StartNotifiesFirst
  <1>7. CASE NotifyRunStart
    <2>1. /\ stage' = "open" /\ nextNotify >= 0 /\ nextNotify' = 1 /\ log' = log /\ Len(log) = 1
          /\ delivered' = delivered \cup {0} /\ nested' = nested
      BY <1>7 DEF NotifyRunStart, runVars, DeliveryInv, StartNotifiesFirst, RunInv, StartInOrder
    <2>2. DeliveredIsSealed' /\ nextNotify \in Int
      BY <1>1, <2>1, FrameTypes DEF DeliveryInv, DeliveredIsSealed
    <2>3. Covered(-1)'
      BY <2>1, <2>2 DEF DeliveryInv, PassedIsCovered, Covered
    <2>4. PassedIsCovered'
      BY <2>1, <2>3 DEF PassedIsCovered, Covered
    <2>5. HolesOnlyBehindNested'
      BY <2>1, <2>3 DEF DeliveryInv, HolesOnlyBehindNested, Covered
    <2> QED
      BY <1>3, <1>4, <2>1, <2>2, <2>4, <2>5 DEF DeliveryInv, StartNotifiesFirst
  <1>8. Start => \/ UNCHANGED <<nextNotify, delivered>> /\ stage' # "control_notified" /\ Len(log') >= Len(log)
                 \/ NotifyControlArtifact \/ NotifyRunStart
    <2>1. \A os \in Objects : SealRunStart(os) => Len(log') = 1 /\ Len(log) = 0
      BY DEF SealRunStart, RunInv, StartInOrder
    <2>2. Len(log) \in Nat
      BY <1>1, FrameTypes
    <2> QED
      BY <2>1, <2>2 DEF Start, SealControlArtifact, SealRunStart, StartFails, runVars, notifyVars
  <1> QED
    BY <1>5, <1>6, <1>7, <1>8

\* A call that takes the lock, or a step of nobody, leaves the callbacks alone.
LEMMA CallKeepsDelivery ==
    ASSUME DeliveryInv, NotifyInv', UNCHANGED <<stage, runVars, notifyVars, nested>>,
           \A t \in waiting : sealing'[t] = sealing[t]
    PROVE  DeliveryInv'
  <1>1. UNCHANGED <<stage, log, waiting, notifying, nextNotify, delivered, nested>>
    BY DEF runVars, notifyVars
  <1>2. \A t \in Threads : Frames(t)' = Frames(t) /\ Current(t)' = Current(t)
    BY <1>1 DEF Frames, Current
  <1> QED
    BY <1>1, <1>2 DEF DeliveryInv, WaitersAreIdle, StartNotifiesFirst, FramesAreSealed,
       FramesAreDistinct, FramesHaveStarted, InnerFramesAreNested, DeliveredIsSealed,
       PassedIsCovered, HolesOnlyBehindNested, Covered,
       OuterHaveTheTurn, PassedByReturn, InCallback, Outer, JumpedPast, OnStack

\* An answer that is not the caller's to deliver: the seal failed, or the event
\* was sealed and an interrupt, or a bundle that does not fit, ended the call.
LEMMA UnnotifiedAnswerKeepsDelivery ==
    ASSUME RunInv, RunInv', DeliveryInv, NotifyInv', NEW t \in Threads,
           stage = "open", UNCHANGED <<stage, waiting, notifying, nextNotify, delivered>>,
           nested \subseteq nested', Len(log') >= Len(log), Without(t)
    PROVE  DeliveryInv'
  <1>1. \A u \in Threads : Frames(u)' = Frames(u) /\ Current(u)' = Current(u)
    BY DEF Frames, Current
  <1>2. Len(log) \in Nat /\ Len(log') \in Nat
    BY DEF RunInv, RunTypeOK
  <1>3. \A u \in Threads : \A k \in Frames(u) : notifying[u][k] \in Int
    BY FrameTypes DEF DeliveryInv, NotifyInv, Positions
  <1>4. nextNotify \in Int /\ \A s \in delivered : s \in Int
    BY FrameTypes DEF DeliveryInv, NotifyInv
  <1>5. WaitersAreIdle' /\ StartNotifiesFirst'
    BY DEF DeliveryInv, WaitersAreIdle, StartNotifiesFirst, Without, NotifyInv, NotifyTypeOK,
           RunInv, RunTypeOK, NoEvent
  <1>6. FramesAreSealed' /\ DeliveredIsSealed'
    BY <1>1, <1>2, <1>3, <1>4 DEF DeliveryInv, FramesAreSealed, DeliveredIsSealed
  <1>7. FramesAreDistinct' /\ FramesHaveStarted' /\ InnerFramesAreNested'
    BY <1>1 DEF DeliveryInv, FramesAreDistinct, FramesHaveStarted, InnerFramesAreNested
  <1>8. PassedIsCovered' /\ HolesOnlyBehindNested'
    BY DEF DeliveryInv, PassedIsCovered, HolesOnlyBehindNested, Covered
  <1>9. OuterHaveTheTurn' /\ PassedByReturn'
    BY <1>1 DEF DeliveryInv, OuterHaveTheTurn, PassedByReturn, InCallback, Outer, JumpedPast, OnStack
  <1> QED
    BY <1>5, <1>6, <1>7, <1>8, <1>9 DEF DeliveryInv

\* An accepted event gets a frame, and its thread begins to wait at it.
LEMMA PushKeepsDelivery ==
    ASSUME RunInv, RunInv', DeliveryInv, NotifyInv', NEW t \in Threads, NEW s \in Positions,
           stage = "open", UNCHANGED <<stage, nextNotify, delivered>>,
           s = Len(log), Len(log') = Len(log) + 1, sealing[t] # NoEvent, Without(t),
           waiting' = waiting \cup {t},
           FramePushed(t, s),
           nested \subseteq nested', notifying[t] # <<>> => s \in nested'
    PROVE  DeliveryInv'
  <1> DEFINE n == Len(notifying[t])
  <1>1. NotifyTypeOK /\ t \notin waiting
    BY DEF DeliveryInv, NotifyInv, WaitersAreIdle
  <1>2. /\ \A u \in Threads : u # t => notifying'[u] = notifying[u]
        /\ Len(notifying'[t]) = n + 1
        /\ \A k \in Frames(t) : notifying'[t][k] = notifying[t][k]
        /\ notifying'[t][n + 1] = s
    BY DEF FramePushed
  <1>3. /\ Len(log) \in Nat /\ nextNotify \in Int /\ n \in Nat
        /\ (notifying[t] = <<>>) <=> (n = 0)
        /\ \A d \in delivered : d \in Int
        /\ \A u \in Threads : \A k \in Frames(u) : notifying[u][k] \in Int
    BY <1>1, FrameTypes DEF Positions
  <1> HIDE DEF n
  <1>4. /\ \A u \in Threads : u # t => Frames(u)' = Frames(u) /\ Current(u)' = Current(u)
        /\ Frames(t)' = Frames(t) \cup {n + 1} /\ n + 1 \notin Frames(t) /\ Current(t)' = s
    BY <1>2, <1>3 DEF Frames, Current, n
  <1>5. \A u \in Threads : \A k \in Frames(u) : notifying[u][k] < s
    BY DEF DeliveryInv, FramesAreSealed
  <1>6. s \notin delivered /\ nextNotify <= s
    BY <1>3 DEF DeliveryInv, DeliveredIsSealed
  <1>e. \A u \in Threads : \A k \in Frames(u)' :
           \/ k \in Frames(u) /\ notifying'[u][k] = notifying[u][k]
           \/ u = t /\ k = n + 1 /\ notifying'[u][k] = s
    BY <1>2, <1>4
  <1>7. WaitersAreIdle'
    BY DEF DeliveryInv, WaitersAreIdle, Without, NotifyInv, NotifyTypeOK, RunInv, RunTypeOK, NoEvent
  <1>8. StartNotifiesFirst'
    BY DEF StartNotifiesFirst
  <1>9. FramesAreSealed'
    <2>1. \A u \in Threads : \A k \in Frames(u) : notifying[u][k] < Len(log')
      BY <1>3, <1>5
    <2>2. s < Len(log')
      BY <1>3
    <2>3. ASSUME NEW u \in Threads, NEW k \in Frames(u)'
          PROVE  notifying'[u][k] < Len(log')
      BY <1>e, <2>1, <2>2
    <2> QED
      BY <2>3 DEF FramesAreSealed
  <1>10. FramesAreDistinct' /\ DeliveredIsSealed'
    <2>1. DeliveredIsSealed'
      BY <1>3 DEF DeliveryInv, DeliveredIsSealed
    <2>2. \A u \in Threads : \A k \in Frames(u) : notifying[u][k] # s
      BY <1>3, <1>5
    <2>3. ASSUME NEW u \in Threads, NEW v \in Threads, NEW k \in Frames(u)', NEW l \in Frames(v)',
                 notifying'[u][k] = notifying'[v][l]
          PROVE  u = v /\ k = l
      <3>1. \/ k \in Frames(u) /\ notifying'[u][k] = notifying[u][k]
            \/ u = t /\ k = n + 1 /\ notifying'[u][k] = s
        BY <1>e
      <3>2. \/ l \in Frames(v) /\ notifying'[v][l] = notifying[v][l]
            \/ v = t /\ l = n + 1 /\ notifying'[v][l] = s
        BY <1>e
      <3>3. CASE k \in Frames(u) /\ l \in Frames(v) /\ notifying[u][k] = notifying[v][l]
        BY <3>3 DEF DeliveryInv, FramesAreDistinct
      <3> QED
        BY <2>2, <2>3, <3>1, <3>2, <3>3
    <2> QED
      BY <2>1, <2>3 DEF FramesAreDistinct
  <1>11. FramesHaveStarted'
    <2>1. ASSUME NEW u \in Threads, NEW k \in Frames(u)', u # t
          PROVE  notifying'[u][k] \in delivered' <=> ~(u \in waiting' /\ k = Len(notifying'[u]))
      <3>1. k \in Frames(u) /\ notifying'[u] = notifying[u]
        BY <1>2, <1>4, <2>1
      <3> QED
        BY <2>1, <3>1 DEF DeliveryInv, FramesHaveStarted
    <2>2. ASSUME NEW k \in Frames(t)
          PROVE  notifying'[t][k] \in delivered' /\ k # Len(notifying'[t])
      <3>1. notifying[t][k] \in delivered
        BY <1>1, <2>2 DEF DeliveryInv, FramesHaveStarted
      <3> QED
        BY <1>2, <1>4, <2>2, <3>1
    <2>3. notifying'[t][n + 1] \notin delivered' /\ n + 1 = Len(notifying'[t]) /\ t \in waiting'
      BY <1>2, <1>6
    <2>4. ASSUME NEW k \in Frames(t)'
          PROVE  notifying'[t][k] \in delivered' <=> ~(t \in waiting' /\ k = Len(notifying'[t]))
      BY <1>4, <2>2, <2>3
    <2>5. ASSUME NEW u \in Threads, NEW k \in Frames(u)'
          PROVE  notifying'[u][k] \in delivered' <=> ~(u \in waiting' /\ k = Len(notifying'[u]))
      BY <2>1, <2>4
    <2> QED
      BY <2>5 DEF FramesHaveStarted
  <1>12. InnerFramesAreNested'
    <2>1. ASSUME NEW u \in Threads, NEW k \in Frames(u)', k > 1
          PROVE  notifying'[u][k] \in nested'
      <3>1. CASE k \in Frames(u) /\ notifying'[u][k] = notifying[u][k]
        BY <2>1, <3>1 DEF DeliveryInv, InnerFramesAreNested
      <3>2. CASE k = n + 1 /\ notifying'[u][k] = s
        BY <1>3, <2>1, <3>2
      <3> QED
        BY <1>e, <3>1, <3>2
    <2> QED
      BY <2>1 DEF InnerFramesAreNested
  <1>13. PassedIsCovered' /\ HolesOnlyBehindNested'
    BY DEF DeliveryInv, PassedIsCovered, HolesOnlyBehindNested, Covered
  <1>14. OuterHaveTheTurn'
    <2>1. ASSUME NEW u \in InCallback'
          PROVE  u \in InCallback /\ Outer(u)' = Outer(u)
      <3>1. CASE u # t
        BY <1>2, <2>1, <3>1 DEF InCallback, Outer
      <3>2. CASE u = t
        <4>1. n > 0 /\ 1 \in Frames(t)
          BY <1>2, <1>3, <2>1, <3>2 DEF InCallback, Frames, n
        <4> QED
          BY <1>1, <1>2, <1>3, <2>1, <3>2, <4>1 DEF InCallback, Outer
      <3> QED
        BY <3>1, <3>2
    <2> QED
      BY <2>1 DEF DeliveryInv, OuterHaveTheTurn
  <1>15. PassedByReturn'
    <2>1. \A m \in OnStack' : m \in OnStack \/ m = s
      BY <1>e DEF OnStack, Frames
    <2>2. \A m \in delivered : m # s
      BY <1>6
    <2>3. ASSUME NEW i, JumpedPast(i)
          PROVE  JumpedPast(i)'
      BY <2>1, <2>2, <2>3 DEF JumpedPast
    <2>4. ASSUME NEW u \in Threads, NEW k \in Frames(u)', nextNotify > notifying'[u][k]
          PROVE  JumpedPast(notifying[u][k])'
      <3>1. k \in Frames(u) /\ notifying'[u][k] = notifying[u][k]
        BY <1>3, <1>6, <1>e, <2>4
      <3>2. JumpedPast(notifying[u][k])
        BY <2>4, <3>1 DEF DeliveryInv, PassedByReturn
      <3>3. PICK i : i = notifying[u][k]
        OBVIOUS
      <3>4. JumpedPast(i)'
        BY <2>3, <3>2, <3>3
      <3> QED
        BY <3>1, <3>3, <3>4 DEF JumpedPast
    <2> QED
      BY <2>4 DEF PassedByReturn
  <1> QED
    BY <1>7, <1>8, <1>9, <1>10, <1>11, <1>12, <1>13, <1>14, <1>15 DEF DeliveryInv
---------------------------------------------------------------------------------
\* The last frame of a thread, as a frame.
LEMMA LastFrame ==
    ASSUME RunInv, DeliveryInv, NEW t \in Threads, notifying[t] # <<>>
    PROVE  /\ Len(notifying[t]) \in Frames(t)
           /\ notifying[t][Len(notifying[t])] = Current(t)
           /\ Current(t) \in Nat /\ Current(t) < Len(log)
           /\ Current(t) \in delivered <=> t \notin waiting
           /\ IsNested(t) => Current(t) \in nested
  <1> DEFINE n == Len(notifying[t])
  <1>1. n \in Nat \ {0} /\ NotifyTypeOK
    BY FrameTypes DEF DeliveryInv, NotifyInv
  <1>2. n \in Frames(t)
    BY <1>1 DEF Frames
  <1>3. Current(t) \in Nat
    BY <1>1, StackTop DEF Positions
  <1>4. notifying[t][n] = Current(t)
    BY DEF Current
  <1>5. notifying[t][n] < Len(log)
    BY <1>2 DEF DeliveryInv, FramesAreSealed
  <1>a. notifying[t][n] \in delivered <=> t \notin waiting
    <2>1. notifying[t][n] \in delivered <=> ~(t \in waiting /\ n = Len(notifying[t]))
      BY <1>2 DEF DeliveryInv, FramesHaveStarted
    <2> QED
      BY <2>1, Zenon
  <1>6. n > 1 => Current(t) \in nested
    BY <1>2 DEF Current, DeliveryInv, InnerFramesAreNested
  <1>7. IsNested(t) => Current(t) \in nested
    BY <1>1, <1>6, NestedMeansDeep
  <1>9. Current(t) < Len(log) /\ (Current(t) \in delivered <=> t \notin waiting)
    BY <1>4, <1>5, <1>a, Zenon
  <1> QED
    BY <1>2, <1>3, <1>4, <1>7, <1>9, Zenon

\* A frame that is the current one of a thread is no other thread's.
LEMMA CurrentsDiffer ==
    ASSUME RunInv, DeliveryInv, NEW t \in Threads, NEW u \in Threads, u # t,
           notifying[t] # <<>>
    PROVE  /\ \A k \in Frames(u) : notifying[u][k] # Current(t)
           /\ notifying[u] # <<>> => Current(u) # Current(t)
  <1>1. Len(notifying[t]) \in Frames(t) /\ notifying[t][Len(notifying[t])] = Current(t)
    BY LastFrame
  <1>2. \A k \in Frames(u) : notifying[u][k] # Current(t)
    BY <1>1 DEF DeliveryInv, FramesAreDistinct
  <1>3. notifying[u] # <<>> => Len(notifying[u]) \in Frames(u) /\ notifying[u][Len(notifying[u])] = Current(u)
    BY LastFrame
  <1> QED
    BY <1>2, <1>3

\* The turn of a thread has come and its callback starts.
LEMMA DeliverKeepsDelivery ==
    ASSUME RunInv, DeliveryInv, NotifyInv', NEW t \in Threads, Deliver(t)
    PROVE  DeliveryInv'
  <1> DEFINE c == Current(t)
  <1>1. /\ t \in waiting /\ notifying[t] # <<>> /\ MyTurn(t)
        /\ waiting' = waiting \ {t} /\ delivered' = delivered \cup {c}
        /\ UNCHANGED <<stage, log, sealing, notifying, nextNotify, nested>>
    BY DEF Deliver, DeliveryInv, NotifyInv, runVars
  <1>2. /\ Len(notifying[t]) \in Frames(t) /\ notifying[t][Len(notifying[t])] = c
        /\ c \in Nat /\ c < Len(log) /\ c \notin delivered
        /\ IsNested(t) => c \in nested
    BY <1>1, LastFrame
  <1>3. /\ Len(log) \in Nat /\ nextNotify \in Int /\ \A s \in delivered : s \in Int
        /\ NotifyTypeOK
    BY FrameTypes DEF DeliveryInv, NotifyInv
  <1>4. nextNotify >= c \/ c \in nested
    BY <1>1, <1>2 DEF MyTurn
  <1>5. \A i \in -1..c-1 : Covered(i)'
    BY <1>1, <1>2, <1>3, <1>4 DEF DeliveryInv, PassedIsCovered, Covered
  <1> HIDE DEF c
  <1>6. \A u \in Threads : Frames(u)' = Frames(u) /\ Current(u)' = Current(u)
    BY <1>1 DEF Frames, Current
  <1>7. WaitersAreIdle' /\ StartNotifiesFirst' /\ FramesAreSealed' /\ FramesAreDistinct'
        /\ InnerFramesAreNested'
    BY <1>1, <1>6 DEF DeliveryInv, WaitersAreIdle, StartNotifiesFirst, FramesAreSealed,
                      FramesAreDistinct, InnerFramesAreNested
  <1>8. DeliveredIsSealed'
    BY <1>1, <1>2, <1>3 DEF DeliveryInv, DeliveredIsSealed
  <1>9. FramesHaveStarted'
    <2>1. ASSUME NEW k \in Frames(t)
          PROVE  notifying[t][k] \in delivered'
      BY <1>1, <1>2, <2>1 DEF DeliveryInv, FramesHaveStarted
    <2>2. ASSUME NEW u \in Threads, u # t, NEW k \in Frames(u)
          PROVE  notifying[u][k] \in delivered' <=> ~(u \in waiting' /\ k = Len(notifying[u]))
      <3>1. notifying[u][k] # c
        BY <1>1, <2>2, CurrentsDiffer DEF c
      <3> QED
        BY <1>1, <2>2, <3>1 DEF DeliveryInv, FramesHaveStarted
    <2> QED
      BY <1>1, <1>6, <2>1, <2>2 DEF FramesHaveStarted
  <1>10. PassedIsCovered'
    BY <1>1 DEF DeliveryInv, PassedIsCovered, Covered
  <1>11. HolesOnlyBehindNested'
    <2>1. \A j \in delivered : \A i \in -1..j-1 : Covered(i)'
      BY <1>1 DEF DeliveryInv, HolesOnlyBehindNested, Covered
    <2>2. \A j \in delivered' : \A i \in -1..j-1 : Covered(i)'
      BY <1>1, <1>5, <2>1
    <2> QED
      BY <2>2 DEF HolesOnlyBehindNested, Covered
  <1>12. OuterHaveTheTurn'
    <2>1. ASSUME NEW u \in InCallback', u \notin InCallback
          PROVE  u = t /\ Outer(u) = c /\ ~IsNested(t)
      <3>2. u = t /\ ~(Len(notifying[t]) > 1)
        BY <1>1, <2>1 DEF InCallback
      <3>3. Len(notifying[t]) \in Nat /\ Len(notifying[t]) >= 1
        BY <1>2, <1>3, FrameTypes DEF Frames
      <3>4. ~IsNested(t)
        BY <1>1, <1>3, <3>2, NestedMeansDeep
      <3>5. \A q \in Nat : q >= 1 /\ ~(q > 1) => q = 1
        OBVIOUS
      <3>1. Len(notifying[t]) = 1
        BY <3>2, <3>3, <3>5
      <3>6. notifying[t][1] = c
        BY <1>2, <3>1
      <3> QED
        BY <3>2, <3>4, <3>6 DEF Outer
    <2>2. \A u \in InCallback' : nextNotify >= Outer(u)
      BY <1>1, <2>1 DEF DeliveryInv, OuterHaveTheTurn, MyTurn, c
    <2> QED
      BY <1>1, <2>2 DEF OuterHaveTheTurn, Outer
  <1>13. PassedByReturn'
    BY <1>1 DEF DeliveryInv, PassedByReturn, JumpedPast, OnStack, Frames
  <1> QED
    BY <1>7, <1>8, <1>9, <1>10, <1>11, <1>12, <1>13 DEF DeliveryInv

\* A thread leaves its last _notify: its callback returned and the turn goes on
\* to the next event, or an interrupt ended the wait and the turn stays.
LEMMA PopKeepsDelivery ==
    ASSUME RunInv, DeliveryInv, NotifyInv', NEW t \in Threads, notifying[t] # <<>>,
           FramePopped(t), UNCHANGED <<stage, log, sealing, delivered, nested>>,
           waiting' = waiting \ {t},
           \/ t \notin waiting /\ Advance(Current(t))
           \/ nextNotify' = nextNotify
    PROVE  DeliveryInv'
  <1> DEFINE n == Len(notifying[t])
             c == Current(t)
  <1>1. /\ n \in Frames(t) /\ notifying[t][n] = c /\ c \in Nat /\ c < Len(log)
        /\ c \in delivered <=> t \notin waiting
    BY LastFrame
  <1>2. /\ Len(log) \in Nat /\ nextNotify \in Int /\ n \in Nat
        /\ \A s \in delivered : s \in Int
        /\ NotifyTypeOK
    BY FrameTypes DEF DeliveryInv, NotifyInv
  <1>3. \/ /\ t \notin waiting /\ c \in delivered
           /\ nextNotify' = IF nextNotify > c THEN nextNotify ELSE c + 1
        \/ nextNotify' = nextNotify
    BY <1>1 DEF Advance
  <1>4. \A u \in Threads : u # t => Current(u)' = Current(u) /\ Frames(u)' = Frames(u)
                                    /\ notifying'[u] = notifying[u]
    BY DEF FramePopped, Current, Frames
  <1>5. Frames(t)' = 1..n-1 /\ Len(notifying'[t]) = n - 1
        /\ \A k \in Frames(t)' : k \in Frames(t) /\ k # n /\ notifying'[t][k] = notifying[t][k]
    BY <1>2 DEF FramePopped, Frames
  <1> HIDE DEF n, c
  <1>8. \A u \in Threads : \A k \in Frames(u)' : k \in Frames(u) /\ notifying'[u][k] = notifying[u][k]
    BY <1>4, <1>5
  <1>9. WaitersAreIdle' /\ InnerFramesAreNested'
    BY <1>8 DEF DeliveryInv, WaitersAreIdle, InnerFramesAreNested
  <1>10. StartNotifiesFirst'
    <2>1. stage = "open" /\ stage' = "open"
      BY DEF DeliveryInv, StartNotifiesFirst
    <2> QED
      BY <2>1 DEF StartNotifiesFirst
  <1>11. FramesAreSealed'
    BY <1>8 DEF DeliveryInv, FramesAreSealed
  <1>12. FramesAreDistinct'
    <2>1. ASSUME NEW u \in Threads, NEW v \in Threads, NEW k \in Frames(u)', NEW l \in Frames(v)',
                 notifying'[u][k] = notifying'[v][l]
          PROVE  u = v /\ k = l
      <3>1. /\ k \in Frames(u) /\ l \in Frames(v)
            /\ notifying[u][k] = notifying[v][l]
        BY <1>8, <2>1
      <3> QED
        BY <3>1 DEF DeliveryInv, FramesAreDistinct
    <2> QED
      BY <2>1 DEF FramesAreDistinct
  <1>13. FramesHaveStarted'
    <2>1. ASSUME NEW u \in Threads, u # t, NEW k \in Frames(u)'
          PROVE  notifying'[u][k] \in delivered' <=> ~(u \in waiting' /\ k = Len(notifying'[u]))
      BY <1>4, <2>1 DEF DeliveryInv, FramesHaveStarted
    <2>2. ASSUME NEW k \in Frames(t)'
          PROVE  notifying'[t][k] \in delivered' /\ t \notin waiting'
      <3>1. k \in Frames(t) /\ k # n /\ notifying'[t][k] = notifying[t][k]
        BY <1>5, <2>2
      <3> QED
        BY <3>1 DEF DeliveryInv, FramesHaveStarted, n
    <2>3. ASSUME NEW u \in Threads, NEW k \in Frames(u)'
          PROVE  notifying'[u][k] \in delivered' <=> ~(u \in waiting' /\ k = Len(notifying'[u]))
      BY <2>1, <2>2
    <2> QED
      BY <2>3 DEF FramesHaveStarted
  <1>14. DeliveredIsSealed'
    BY <1>1, <1>2, <1>3 DEF DeliveryInv, DeliveredIsSealed
  <1>15. HolesOnlyBehindNested'
    BY DEF DeliveryInv, HolesOnlyBehindNested
  <1>16. PassedIsCovered'
    <2>1. \A i \in -1..nextNotify-1 : Covered(i)'
      BY DEF DeliveryInv, PassedIsCovered, Covered
    <2>2. c \in delivered => \A i \in -1..c : Covered(i)'
      BY <1>1 DEF DeliveryInv, HolesOnlyBehindNested, Covered
    <2> QED
      BY <1>1, <1>2, <1>3, <2>1, <2>2 DEF PassedIsCovered
  <1>17. OuterHaveTheTurn'
    <2>1. ASSUME NEW u \in InCallback'
          PROVE  u \in InCallback /\ Outer(u)' = Outer(u)
      <3>1. CASE u # t
        BY <1>4, <2>1, <3>1 DEF InCallback, Outer
      <3>2. CASE u = t
        <4>1. n > 1
          <5>1. n \in Nat /\ n >= 1 /\ Len(notifying'[t]) = n - 1 /\ notifying'[t] # <<>>
            BY <1>1, <1>2, <1>5, <2>1, <3>2 DEF InCallback, Frames
          <5>2. notifying'[t] \in Seq(Positions)
            BY DEF NotifyInv, NotifyTypeOK
          <5> QED
            BY <5>1, <5>2, EmptySeq, LenProperties
        <4>2. 1 \in Frames(t)'
          BY <1>2, <1>5, <4>1
        <4> QED
          BY <1>5, <3>2, <4>1, <4>2 DEF InCallback, Outer, n
      <3> QED
        BY <3>1, <3>2
    <2>2. nextNotify' >= nextNotify /\ nextNotify' \in Int
      BY <1>1, <1>2, <1>3
    <2>3. ASSUME NEW u \in InCallback
          PROVE  nextNotify >= Outer(u) /\ Outer(u) \in Int
      <3>1. u \in Threads /\ 1 \in Frames(u)
        BY <1>2, <2>3, FrameTypes DEF InCallback, Frames
      <3>2. notifying[u][1] \in Positions
        BY <1>2, <3>1, FrameTypes
      <3>3. Outer(u) \in Int
        BY <3>2 DEF Outer, Positions
      <3> QED
        BY <2>3, <3>3 DEF DeliveryInv, OuterHaveTheTurn
    <2>4. ASSUME NEW u \in InCallback'
          PROVE  nextNotify' >= Outer(u)'
      BY <1>2, <2>1, <2>2, <2>3
    <2> QED
      BY <2>4 DEF OuterHaveTheTurn
  <1>18. PassedByReturn'
    <2>1. \A m \in OnStack' : m \in OnStack
      BY <1>8 DEF OnStack, Frames
    <2>2. c \notin OnStack'
      <3>1. ASSUME NEW u \in Threads, NEW k \in Frames(u)'
            PROVE  notifying'[u][k] # c
        <4>1. k \in Frames(u) /\ notifying'[u][k] = notifying[u][k] /\ (u = t => k # n)
          BY <1>5, <1>8, <3>1
        <4> QED
          BY <1>1, <3>1, <4>1 DEF DeliveryInv, FramesAreDistinct
      <3> QED
        BY <3>1 DEF OnStack, Frames
    <2>3. ASSUME NEW u \in Threads, NEW k \in Frames(u)', nextNotify' > notifying'[u][k]
          PROVE  JumpedPast(notifying[u][k])'
      <3>1. PICK f : f = notifying[u][k]
        OBVIOUS
      <3>2. k \in Frames(u) /\ notifying'[u][k] = f
        BY <1>8, <2>3, <3>1
      <3>3. f \in Nat /\ f # c /\ nextNotify' > f
        <4>1. f \in Nat
          BY <1>2, <3>1, <3>2, FrameTypes DEF Positions
        <4>2. f \in OnStack'
          BY <2>3, <3>2 DEF OnStack, Frames
        <4> QED
          BY <2>2, <2>3, <3>2, <4>1, <4>2
      <3>4. CASE nextNotify > f
        <4>1. JumpedPast(f)
          BY <3>1, <3>2, <3>4 DEF DeliveryInv, PassedByReturn
        <4>2. JumpedPast(f)'
          BY <2>1, <4>1 DEF JumpedPast
        <4> QED
          BY <3>2, <4>2 DEF JumpedPast
      <3>5. CASE ~(nextNotify > f)
        <4>1. c > f /\ c \in delivered /\ t \notin waiting
          BY <1>1, <1>2, <1>3, <3>3, <3>5
        <4>2. n > 1
          <5>1. n >= 1
            BY <1>1, <1>2 DEF Frames, n
          <5>2. n = 1 => t \in InCallback /\ Outer(t) = c
            BY <1>1, <4>1 DEF InCallback, Outer
          <5>3. n = 1 => nextNotify >= c
            BY <5>2 DEF DeliveryInv, OuterHaveTheTurn
          <5> QED
            BY <1>1, <1>2, <3>3, <3>5, <4>1, <5>1, <5>3
        <4>3. c \in nested
          BY <1>1, <4>2 DEF DeliveryInv, InnerFramesAreNested
        <4>4. c \in (nested' \cap delivered') \ OnStack' /\ f < c
          BY <2>2, <3>3, <4>1, <4>3
        <4> QED
          BY <3>2, <4>4 DEF JumpedPast
      <3> QED
        BY <3>4, <3>5
    <2> QED
      BY <2>3 DEF PassedByReturn
  <1> QED
    BY <1>9, <1>10, <1>11, <1>12, <1>13, <1>14, <1>15, <1>16, <1>17, <1>18 DEF DeliveryInv
---------------------------------------------------------------------------------
\* An answer to a request: the event gets its frame, or nobody is notified.
LEMMA AnswerKeepsDelivery ==
    ASSUME RunInv, RunInv', DeliveryInv, NotifyInv', NEW t \in Threads, Answer(t)
    PROVE  DeliveryInv'
  <1> DEFINE e == sealing[t]
  <1>1. /\ e # NoEvent /\ e \in Requests /\ e.type \in EventTypes /\ stage = "open"
        /\ e.seq = Len(log) /\ e.seq \in Positions
        /\ Without(t) /\ UNCHANGED <<stage, nextNotify, delivered>>
    BY CurrentIsEvent DEF Answer, Sealed, SealFails, SealInterrupted, notifyVars, RunInv, RunTypeOK,
       RequestsStayCurrent, RequestCurrent, Requests
  <1>2. Len(log) \in Nat /\ (Extend(e) => Len(log') = Len(log) + 1)
    BY <1>1, ExtendAppends DEF RunInv, RunTypeOK
  <1>3. CASE UNCHANGED <<waiting, notifying>>
    <2>1. nested \subseteq nested' /\ Len(log') >= Len(log)
      BY <1>2, <1>3 DEF Answer, Sealed, SealFails, SealInterrupted
    <2> QED
      BY <1>1, <1>3, <2>1, UnnotifiedAnswerKeepsDelivery
  <1>4. CASE /\ Sealed(t)
             /\ waiting' = waiting \cup {t}
             /\ notifying' = [notifying EXCEPT ![t] = Append(@, e.seq)]
    <2>1. nested' = (IF notifying[t] # <<>> THEN nested \cup {e.seq} ELSE nested) /\ Extend(e)
      BY <1>4 DEF Sealed
    <2>2. FramePushed(t, e.seq)
      BY <1>1, <1>4, PushFrame DEF DeliveryInv, NotifyInv
    <2> HIDE DEF e
    <2>3. nested \subseteq nested' /\ (notifying[t] # <<>> => e.seq \in nested')
      BY <2>1
    <2>4. sealing[t] # NoEvent /\ Len(log') = Len(log) + 1
      BY <1>1, <1>2, <2>1 DEF e
    <2> QED
      BY <1>1, <1>4, <2>2, <2>3, <2>4, PushKeepsDelivery
  <1> QED
    BY <1>3, <1>4 DEF Answer, Sealed, SealFails, SealInterrupted, notifyVars

\* Every step keeps DeliveryInv.
LEMMA DeliveryInvKept ==
    ASSUME RunInv, RunInv', DeliveryInv, [Next]_vars
    PROVE  DeliveryInv'
  <1>1. NotifyInv'
    BY NotifyInvKept DEF DeliveryInv
  <1>2. CASE Start
    BY <1>1, <1>2, StartKeepsDelivery
  <1>3. ASSUME NEW t \in Threads, Call(t)
        PROVE  DeliveryInv'
    <2>1. PICK e : BeginSeal(t, e)
      BY <1>3 DEF Call, Record, Delegate, CompleteDelegation, Finish
    <2>2. UNCHANGED <<stage, runVars, notifyVars, nested>> /\ t \notin waiting
      BY <2>1 DEF BeginSeal, Idle
    <2>3. \A u \in waiting : sealing'[u] = sealing[u]
      BY <2>1, <2>2 DEF BeginSeal, DeliveryInv, NotifyInv, NotifyTypeOK, RunInv, RunTypeOK
    <2> QED
      BY <1>1, <2>2, <2>3, CallKeepsDelivery
  <1>4. ASSUME NEW t \in Threads, Answer(t)
        PROVE  DeliveryInv'
    BY <1>1, <1>4, AnswerKeepsDelivery
  <1>5. ASSUME NEW t \in Threads, Deliver(t)
        PROVE  DeliveryInv'
    BY <1>1, <1>5, DeliverKeepsDelivery
  <1>6. ASSUME NEW t \in Threads, CallbackReturns(t)
        PROVE  DeliveryInv'
    <2>1. /\ t \notin waiting /\ notifying[t] # <<>> /\ Advance(Current(t))
          /\ notifying' = [notifying EXCEPT ![t] = Caller(t)]
          /\ UNCHANGED <<stage, log, sealing, delivered, nested>>
          /\ waiting' = waiting \ {t}
      BY <1>6 DEF CallbackReturns, Idle, runVars
    <2>2. FramePopped(t)
      BY <2>1, PopFrame DEF DeliveryInv, NotifyInv
    <2> QED
      BY <1>1, <2>1, <2>2, PopKeepsDelivery
  <1>7. ASSUME NEW t \in Threads, WaitInterrupted(t)
        PROVE  DeliveryInv'
    <2>1. /\ notifying[t] # <<>> /\ nextNotify' = nextNotify
          /\ notifying' = [notifying EXCEPT ![t] = Caller(t)]
          /\ UNCHANGED <<stage, log, sealing, delivered, nested>>
          /\ waiting' = waiting \ {t}
      BY <1>7 DEF WaitInterrupted, runVars, DeliveryInv, NotifyInv
    <2>2. FramePopped(t)
      BY <2>1, PopFrame DEF DeliveryInv, NotifyInv
    <2> QED
      BY <1>1, <2>1, <2>2, PopKeepsDelivery
  <1>8. CASE UNCHANGED vars
    BY <1>1, <1>8, CallKeepsDelivery DEF vars
  <1> QED
    BY <1>2, <1>3, <1>4, <1>5, <1>6, <1>7, <1>8 DEF Next, Notify

\* Where the sealed events are, in every state of every run.
THEOREM DeliveryInvariant == Spec => []DeliveryInv
  <1>1. Init => DeliveryInv
    <2> SUFFICES ASSUME Init
                 PROVE  DeliveryInv
      OBVIOUS
    <2>1. /\ stage = "new" /\ log = <<>> /\ Len(log) = 0 /\ waiting = {} /\ nextNotify = -1
          /\ delivered = {} /\ nested = {} /\ \A t \in Threads : notifying[t] = <<>>
      BY DEF Init
    <2>2. NotifyInv
      BY ConstantsAssumption DEF Init, NotifyInv, NotifyTypeOK, Positions
    <2>3. \A t \in Threads : Frames(t) = {}
      BY <2>1 DEF Frames
    <2> QED
      BY <2>1, <2>2, <2>3 DEF DeliveryInv, WaitersAreIdle, StartNotifiesFirst, FramesAreSealed,
         FramesAreDistinct, FramesHaveStarted, InnerFramesAreNested, DeliveredIsSealed,
         PassedIsCovered, HolesOnlyBehindNested, OuterHaveTheTurn, PassedByReturn, InCallback
  <1>2. RunInv /\ RunInv' /\ DeliveryInv /\ [Next]_vars => DeliveryInv'
    BY DeliveryInvKept
  <1> QED
    BY <1>1, <1>2, RunInvariant, PTL DEF Spec
---------------------------------------------------------------------------------
\* Callbacks deliver the chain without a hole, but behind an event recorded from
\* inside a callback: whatever the threads' order, interrupted waits included
\* (_notify takes turns by next_notify).
THEOREM OrderIsKept == Spec => []HolesOnlyBehindNested
  <1>1. DeliveryInv => HolesOnlyBehindNested
    BY DEF DeliveryInv
  <1> QED
    BY <1>1, DeliveryInvariant, PTL

\* Two threads are in callbacks entered from outside at once only after a
\* nested event's callback, later than the earlier of the two, has returned:
\* next_notify is raised after the callback, and each thread waits for it.
THEOREM CallbacksTakeTurns == Spec => []CallbacksSerialised
  <1>1. RunInv /\ DeliveryInv => CallbacksSerialised
    <2> SUFFICES ASSUME RunInv, DeliveryInv, NEW t \in InCallback, NEW u \in InCallback,
                        Outer(t) < Outer(u)
                 PROVE  JumpedPast(Outer(t))
      BY DEF CallbacksSerialised, JumpedPast
    <2>1. NotifyTypeOK
      BY DEF DeliveryInv, NotifyInv
    <2>2. t \in Threads /\ 1 \in Frames(t) /\ u \in Threads /\ 1 \in Frames(u)
      BY <2>1, FrameTypes DEF InCallback, Frames
    <2>3. Outer(t) \in Int /\ Outer(u) \in Int /\ nextNotify \in Int
      BY <2>1, <2>2, FrameTypes DEF Outer, Positions
    <2>4. nextNotify > Outer(t)
      BY <2>3 DEF DeliveryInv, OuterHaveTheTurn
    <2> QED
      BY <2>2, <2>4 DEF DeliveryInv, PassedByReturn, Outer
  <1> QED
    BY <1>1, RunInvariant, DeliveryInvariant, PTL

\* No event is given to the callback a second time: not by a turn that comes
\* again, nor by a nested call that went before it.
DeliversOnce == [][\A t \in Threads : Deliver(t) => Current(t) \notin delivered]_vars

THEOREM EventsAreDeliveredOnce == Spec => DeliversOnce
  <1>1. RunInv /\ DeliveryInv /\ [Next]_vars =>
           [\A t \in Threads : Deliver(t) => Current(t) \notin delivered]_vars
    <2> SUFFICES ASSUME RunInv, DeliveryInv, NEW t \in Threads, Deliver(t)
                 PROVE  Current(t) \notin delivered
      OBVIOUS
    <2>1. t \in waiting /\ notifying[t] # <<>>
      BY DEF Deliver, DeliveryInv, NotifyInv
    <2> QED
      BY <2>1, LastFrame
  <1> QED
    BY <1>1, RunInvariant, DeliveryInvariant, PTL DEF Spec, DeliversOnce
---------------------------------------------------------------------------------
\* Every event from next_notify on is on some thread's stack, but for a run_end
\* whose bundle did not fit: no turn is waited for that nobody will pass on.
TurnsAreOwned ==
    Interruptible = {} /\ stage = "open" =>
       \A i \in nextNotify..Len(log)-1 :
          \/ \E t \in Threads : \E k \in Frames(t) : notifying[t][k] = i
          \/ finished /\ i = Len(log) - 1

\* Without interrupts some thread can always go on while any waits: its turn
\* has come, or it is inside its callback.
SomeoneGoesOn ==
    Interruptible = {} /\ waiting # {} =>
       \E u \in Threads : notifying[u] # <<>> /\ (u \in waiting => MyTurn(u))

\* An answer: the new event gets a frame, or is the last one of the run.
LEMMA AnswerKeepsTurnsOwned ==
    ASSUME RunInv, DeliveryInv, TurnsAreOwned, NEW t \in Threads, Answer(t)
    PROVE  TurnsAreOwned'
  <1> DEFINE e == sealing[t]
  <1>1. SUFFICES ASSUME Interruptible = {}, NEW i \in nextNotify'..Len(log')-1
                 PROVE  \/ \E u \in Threads : \E k \in Frames(u)' : notifying'[u][k] = i
                        \/ finished' /\ i = Len(log') - 1
    BY DEF TurnsAreOwned
  <1>2. /\ e # NoEvent /\ e \in Requests /\ e.type \in EventTypes /\ stage = "open"
        /\ e.seq = Len(log) /\ e.seq \in Positions /\ ~finished
        /\ Without(t) /\ UNCHANGED nextNotify
        /\ Sealed(t) \/ SealFails(t)
    BY <1>1, CurrentIsEvent DEF Answer, Sealed, SealFails, SealInterrupted, notifyVars, RunInv,
       RunTypeOK, RequestsStayCurrent, RequestCurrent, EnsureOpen, Requests
  <1>3. /\ Len(log) \in Nat /\ nextNotify \in Int /\ NotifyTypeOK
        /\ Extend(e) => Len(log') = Len(log) + 1
    BY <1>2, ExtendAppends, FrameTypes DEF RunInv, RunTypeOK, DeliveryInv, NotifyInv
  <1> HIDE DEF e
  <1>4. i \in nextNotify..Len(log)-1 => \E u \in Threads : \E k \in Frames(u) : notifying[u][k] = i
    BY <1>1, <1>2 DEF TurnsAreOwned
  <1>5. CASE SealFails(t)
    <2>1. UNCHANGED <<log, notifying>>
      BY <1>5 DEF SealFails, notifyVars
    <2> QED
      BY <1>2, <1>4, <2>1 DEF Frames
  <1>6. CASE Sealed(t)
    <2>1. Extend(e) /\ (BundleRaises(e) => finished' /\ UNCHANGED notifying)
          /\ (~BundleRaises(e) => notifying' = [notifying EXCEPT ![t] = Append(@, e.seq)])
      BY <1>6 DEF Sealed, e, BundleRaises, Ends
    <2>2. i \in nextNotify..Len(log)-1 \/ i = Len(log)
      BY <1>2, <1>3, <2>1
    <2>3. CASE BundleRaises(e)
      BY <1>3, <1>4, <2>1, <2>2, <2>3 DEF Frames
    <2>4. CASE ~BundleRaises(e)
      <3>1. FramePushed(t, e.seq)
        BY <1>2, <1>3, <2>1, <2>4, PushFrame
      <3>2. Len(notifying[t]) \in Nat
        BY <1>3, FrameTypes
      <3>3. /\ Len(notifying[t]) + 1 \in Frames(t)' /\ notifying'[t][Len(notifying[t]) + 1] = e.seq
        BY <3>1, <3>2 DEF FramePushed, Frames
      <3>4. ASSUME NEW u \in Threads, NEW k \in Frames(u), notifying[u][k] = i
            PROVE  k \in Frames(u)' /\ notifying'[u][k] = i
        BY <3>1, <3>2, <3>4 DEF FramePushed, Frames
      <3> QED
        BY <1>2, <1>4, <2>2, <3>3, <3>4
    <2> QED
      BY <2>3, <2>4
  <1> QED
    BY <1>2, <1>5, <1>6

\* A callback that returns passes the turn on, past its own event.
LEMMA ReturnKeepsTurnsOwned ==
    ASSUME RunInv, DeliveryInv, TurnsAreOwned, NEW t \in Threads, CallbackReturns(t)
    PROVE  TurnsAreOwned'
  <1> DEFINE c == Current(t)
  <1>1. /\ notifying[t] # <<>> /\ NotifyTypeOK /\ UNCHANGED <<stage, log, finished>>
        /\ notifying' = [notifying EXCEPT ![t] = Caller(t)]
        /\ nextNotify' = IF nextNotify > c THEN nextNotify ELSE c + 1
    BY DEF CallbackReturns, Advance, runVars, DeliveryInv, NotifyInv
  <1>2. FramePopped(t)
    BY <1>1, PopFrame
  <1>3. c \in Nat /\ notifying[t][Len(notifying[t])] = c /\ Len(notifying[t]) \in Nat
        /\ nextNotify \in Int /\ Len(log) \in Nat
    BY <1>1, LastFrame, FrameTypes
  <1> HIDE DEF c
  <1>4. nextNotify' > c /\ nextNotify' \in Int /\ nextNotify' >= nextNotify
    BY <1>1, <1>3
  <1>5. ASSUME NEW u \in Threads, NEW k \in Frames(u), notifying[u][k] # c
        PROVE  k \in Frames(u)' /\ notifying'[u][k] = notifying[u][k]
    <2>1. CASE u # t
      BY <1>2, <2>1 DEF FramePopped, Frames
    <2>2. CASE u = t
      <3>1. k # Len(notifying[t]) /\ k \in 1..Len(notifying[t])
        BY <1>3, <1>5, <2>2 DEF Frames
      <3>2. k \in 1..Len(notifying[t])-1
        BY <1>3, <3>1
      <3> QED
        BY <1>2, <2>2, <3>2 DEF FramePopped, Frames
    <2> QED
      BY <2>1, <2>2
  <1>6. ASSUME Interruptible = {}, stage = "open", NEW i \in nextNotify'..Len(log)-1
        PROVE  \/ \E u \in Threads : \E k \in Frames(u)' : notifying'[u][k] = i
               \/ finished /\ i = Len(log) - 1
    <2>1. i \in nextNotify..Len(log)-1 /\ i # c
      BY <1>3, <1>4
    <2>2. \/ \E u \in Threads : \E k \in Frames(u) : notifying[u][k] = i
          \/ finished /\ i = Len(log) - 1
      BY <1>6, <2>1 DEF TurnsAreOwned
    <2> QED
      BY <1>5, <2>1, <2>2
  <1> QED
    BY <1>1, <1>6 DEF TurnsAreOwned

\* A run that is not interrupted is never stuck in its callbacks: while a thread
\* waits for its turn, one that has it, or is inside its callback, can go on
\* (_notify's counter is advanced in a finally, for every sealed event but a
\* run_end that raised before its callback).
THEOREM WaitersAreNeverStuck == Spec => []SomeoneGoesOn
  <1>1. Init => TurnsAreOwned
    BY DEF Init, TurnsAreOwned
  <1>2. RunInv /\ DeliveryInv /\ TurnsAreOwned /\ [Next]_vars => TurnsAreOwned'
    <2> SUFFICES ASSUME RunInv, DeliveryInv, TurnsAreOwned, [Next]_vars
                 PROVE  TurnsAreOwned'
      OBVIOUS
    <2>1. CASE Start
      <3>1. NotifyRunStart => nextNotify' = 1 /\ Len(log') = 1
        BY DEF NotifyRunStart, runVars, RunInv, StartInOrder
      <3>2. NotifyRunStart \/ stage' # "open"
        BY <2>1 DEF Start, SealControlArtifact, SealRunStart, StartFails, NotifyControlArtifact
      <3> QED
        BY <3>1, <3>2 DEF TurnsAreOwned
    <2>2. CASE UNCHANGED <<stage, log, finished, notifying, nextNotify>>
      BY <2>2 DEF TurnsAreOwned, Frames
    <2>3. ASSUME NEW t \in Threads, Answer(t)
          PROVE  TurnsAreOwned'
      BY <2>3, AnswerKeepsTurnsOwned
    <2>4. ASSUME NEW t \in Threads, CallbackReturns(t)
          PROVE  TurnsAreOwned'
      BY <2>4, ReturnKeepsTurnsOwned
    <2>5. ASSUME NEW t \in Threads, WaitInterrupted(t)
          PROVE  TurnsAreOwned'
      BY <2>5 DEF WaitInterrupted, TurnsAreOwned
    <2>6. ASSUME NEW t \in Threads, Call(t) \/ Deliver(t)
          PROVE  UNCHANGED <<stage, log, finished, notifying, nextNotify>>
      BY <2>6 DEF Call, Record, Delegate, CompleteDelegation, Finish, BeginSeal, Deliver,
                  runVars, notifyVars
    <2>7. UNCHANGED vars => UNCHANGED <<stage, log, finished, notifying, nextNotify>>
      BY DEF vars, runVars, notifyVars
    <2> QED
      BY <2>1, <2>2, <2>3, <2>4, <2>5, <2>6, <2>7 DEF Next, Notify
  <1>3. RunInv /\ DeliveryInv /\ TurnsAreOwned => SomeoneGoesOn
    <2> SUFFICES ASSUME RunInv, DeliveryInv, TurnsAreOwned, Interruptible = {},
                        NEW t \in waiting, ~MyTurn(t)
                 PROVE  \E u \in Threads : notifying[u] # <<>> /\ (u \in waiting => MyTurn(u))
      BY DEF SomeoneGoesOn, DeliveryInv, NotifyInv, NotifyTypeOK
    <2>1. t \in Threads /\ notifying[t] # <<>> /\ stage = "open" /\ NotifyTypeOK
      BY DEF DeliveryInv, NotifyInv, NotifyTypeOK, StartNotifiesFirst
    <2>2. Current(t) \in Nat /\ Current(t) < Len(log) /\ ~(nextNotify >= Current(t))
      BY <2>1, LastFrame DEF MyTurn
    <2>3. nextNotify \in Int /\ Len(log) \in Nat
      BY <2>1, FrameTypes
    <2>a. PICK u \in Threads : \E k \in Frames(u) : notifying[u][k] = nextNotify
      <3>1. nextNotify \in nextNotify..Len(log)-1 /\ nextNotify # Len(log) - 1
        BY <2>2, <2>3
      <3> QED
        BY <2>1, <3>1 DEF TurnsAreOwned
    <2>4. PICK k \in Frames(u) : notifying[u][k] = nextNotify
      BY <2>a
    <2>5. Len(notifying[u]) \in Nat /\ notifying[u] # <<>>
      BY <2>1, <2>4, FrameTypes DEF Frames
    <2>6. CASE k = Len(notifying[u])
      <3>1. nextNotify = Current(u)
        BY <2>4, <2>6 DEF Current
      <3> QED
        BY <2>3, <2>5, <3>1 DEF MyTurn
    <2>7. CASE k # Len(notifying[u])
      <3>1. Len(notifying[u]) > 1
        BY <2>4, <2>5, <2>7 DEF Frames
      <3>2. IsNested(u)
        BY <2>1, <2>5, <3>1, NestedMeansDeep
      <3> QED
        BY <2>5, <3>2 DEF MyTurn
    <2> QED
      BY <2>6, <2>7
  <1> QED
    BY <1>1, <1>2, <1>3, RunInvariant, DeliveryInvariant, PTL DEF Spec
=================================================================================

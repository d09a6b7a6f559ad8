-------------------------- MODULE SignalsProofs --------------------------
(***************************************************************************)
(* Proofs about module Signals, for any number of signals, deliveries and  *)
(* nested calls of PyErr_CheckSignals, and for any size of the queue.      *)
(***************************************************************************)
EXTENDS Signals, TLAPS

\* In PyErr_CheckSignals there is an activation of it; up to the loop it has
\* come to no signal.
InCheckSignals ==
  /\ pc \in {"test", "clear", "scan", "error"} => frames # <<>>
  /\ pc \in {"test", "clear"} => Head(frames).at = 1

\* The main thread enters Py_MakePendingCalls and comes back to its loop with
\* room for an activation of PyErr_CheckSignals.
RoomToCheck == pc \in {"lock", "locked"} => Len(frames) < MaxDepth

IInv == TypeOK /\ InCheckSignals /\ RoomToCheck

-----------------------------------------------------------------------------
(* Activations *)

Activation == [caller : {"pending", "direct"}, at : 1 .. NSIG]

\* What Head and Tail of the activations are, without sequences.
LEMMA FramesSplit ==
  ASSUME TypeOK, frames # <<>>
  PROVE  /\ Head(frames) = frames[1] /\ frames[1] \in Activation
         /\ Tail(frames) \in Seq(Activation)
         /\ Len(Tail(frames)) = Len(frames) - 1
         /\ \A i \in 1 .. Len(frames) - 1 : Tail(frames)[i] = frames[i + 1]
         /\ Len(frames) \in Nat \ {0}
<1>1. frames \in Seq(Activation) /\ frames # <<>>
  BY DEF TypeOK, Activation
<1> QED BY <1>1

\* A new activation comes in front of the others.
LEMMA FramesPushed ==
  ASSUME TypeOK, NEW f \in Activation
  PROVE  /\ <<f>> \o frames \in Seq(Activation)
         /\ Len(<<f>> \o frames) = Len(frames) + 1
         /\ (<<f>> \o frames)[1] = f
         /\ \A i \in 1 .. Len(frames) : (<<f>> \o frames)[i + 1] = frames[i]
         /\ Head(<<f>> \o frames) = f /\ <<f>> \o frames # <<>>
<1>1. frames \in Seq(Activation)
  BY DEF TypeOK, Activation
<1> QED BY <1>1

-----------------------------------------------------------------------------
(* Type correctness *)

\* Leaving an activation keeps the types and makes room.
LEMMA ReturnKeepsTypes ==
  ASSUME TypeOK, frames # <<>>, NEW r, Return(r)
  PROVE  /\ frames' \in Seq(Activation) /\ Len(frames') = Len(frames) - 1
         /\ Len(frames') < MaxDepth
         /\ pc' \in {"lock", "python"}
<1>1. frames' = Tail(frames) /\ pc' \in {"lock", "python"}
  BY DEF Return
<1>2. Len(frames) <= MaxDepth
  BY DEF TypeOK
<1> QED BY <1>1, <1>2, FramesSplit, SignalsAssumption

\* So does entering one, if there is room.
LEMMA PushKeepsTypes ==
  ASSUME TypeOK, Len(frames) < MaxDepth, NEW caller \in {"pending", "direct"},
         frames' = <<Frame(caller)>> \o frames
  PROVE  /\ frames' \in Seq(Activation) /\ Len(frames') <= MaxDepth
         /\ frames' # <<>> /\ Head(frames').at = 1
<1>1. Frame(caller) \in Activation /\ Frame(caller).at = 1
  BY SignalsAssumption DEF Frame, Activation
<1>2. Len(frames) \in Nat
  BY DEF TypeOK
<1> QED BY <1>1, <1>2, FramesPushed, SignalsAssumption

\* Adding a call keeps the queue in its bounds.
LEMMA AddKeepsTypes ==
  ASSUME TypeOK, NEW call \in {"check", "other"}, AddPendingCall(call)
  PROVE  /\ queue' \in Seq({"check", "other"}) /\ Len(queue') <= QueueSize
         /\ {eval_breaker', recomputing'} \subseteq BOOLEAN
<1>1. queue \in Seq({"check", "other"}) /\ Len(queue) <= QueueSize /\ QueueSize \in Nat
  BY SignalsAssumption DEF TypeOK
<1>2. CASE Len(queue) < QueueSize
  <2>1. queue' = Append(queue, call)
    BY <1>2 DEF AddPendingCall
  <2>2. {eval_breaker', recomputing'} \subseteq BOOLEAN
    BY DEF AddPendingCall, TypeOK
  <2> QED BY <1>1, <1>2, <2>1, <2>2
<1>3. CASE ~(Len(queue) < QueueSize)
  BY <1>1, <1>3 DEF AddPendingCall, TypeOK
<1> QED BY <1>2, <1>3

\* What steps of the main thread do with the activations.
FramesOK == /\ frames \in Seq(Activation) /\ Len(frames) <= MaxDepth
            /\ InCheckSignals /\ RoomToCheck

LEMMA FramesStep == IInv /\ [Next]_vars => FramesOK'
<1> SUFFICES ASSUME IInv, [Next]_vars PROVE FramesOK'
  OBVIOUS
<1>0. /\ TypeOK /\ InCheckSignals /\ RoomToCheck /\ FramesOK
      /\ MaxDepth \in Nat \ {0} /\ NSIG \in Nat \ {0, 1} /\ Len(frames) \in Nat
      /\ frames \in Seq(Activation)
  BY SignalsAssumption DEF IInv, TypeOK, FramesOK, Activation
<1> USE <1>0
<1>1. CASE UNCHANGED mainVars
  BY <1>1 DEF FramesOK, InCheckSignals, RoomToCheck, mainVars
<1>2. CASE MakePendingCalls
  BY <1>2 DEF MakePendingCalls, FramesOK, InCheckSignals, RoomToCheck
<1>3. CASE Pop
  BY <1>3 DEF Pop, FramesOK, InCheckSignals, RoomToCheck
<1>4. CASE Callback
  <2>1. CASE func = "check" /\ pc' = "test" /\ frames' = <<Frame("pending")>> \o frames
    BY <1>4, <2>1, PushKeepsTypes DEF Callback, LockTaken, FramesOK, InCheckSignals, RoomToCheck
  <2>2. CASE pc' \in {"lock", "python"} /\ UNCHANGED frames
    BY <1>4, <2>2 DEF Callback, LockTaken, FramesOK, InCheckSignals, RoomToCheck
  <2> QED BY <1>4, <2>1, <2>2 DEF Callback
<1>5. CASE CheckDirectly
  BY <1>5, PushKeepsTypes DEF CheckDirectly, FramesOK, InCheckSignals, RoomToCheck
<1>6. CASE Test
  <2>1. CASE Return(0)
    BY <1>6, <2>1, ReturnKeepsTypes DEF Test, FramesOK, InCheckSignals, RoomToCheck
  <2>2. CASE is_tripped /\ pc' = "clear" /\ UNCHANGED frames
    BY <1>6, <2>2 DEF Test, FramesOK, InCheckSignals, RoomToCheck
  <2> QED BY <1>6, <2>1, <2>2 DEF Test
<1>7. CASE Clear
  BY <1>7 DEF Clear, FramesOK, InCheckSignals, RoomToCheck
<1>8. CASE Scan
  <2>1. CASE Return(0)
    BY <1>8, <2>1, ReturnKeepsTypes DEF Scan, FramesOK, InCheckSignals, RoomToCheck
  <2>2. CASE At < NSIG /\ frames' = [frames EXCEPT ![1].at = At + 1] /\ pc' \in {"python", "scan"}
    <3>1. frames # <<>> /\ frames[1] \in Activation /\ At = frames[1].at /\ 1 \in DOMAIN frames
      BY <1>8, FramesSplit DEF Scan, InCheckSignals, At
    <3>2. At + 1 \in 1 .. NSIG
      BY <2>2, <3>1 DEF Activation
    <3>3. [frames[1] EXCEPT !.at = At + 1] \in Activation
      BY <3>1, <3>2 DEF Activation
    <3>4. frames' \in Seq(Activation) /\ Len(frames') = Len(frames) /\ frames' # <<>>
      BY <2>2, <3>1, <3>3
    <3> QED BY <2>2, <3>4 DEF FramesOK, InCheckSignals, RoomToCheck
  <2> QED BY <1>8, <2>1, <2>2 DEF Scan
<1>9. CASE HandlerReturns
  <2>1. pc' \in {"scan", "error"} /\ UNCHANGED frames
    BY <1>9 DEF HandlerReturns
  <2> QED BY <1>9, <2>1 DEF HandlerReturns, FramesOK, InCheckSignals, RoomToCheck
<1>10. CASE Leave
  BY <1>10, ReturnKeepsTypes DEF Leave, FramesOK, InCheckSignals, RoomToCheck
<1>11. ASSUME NEW d \in Deliveries, Trip(d) \/ Deliver(d)
       PROVE  UNCHANGED mainVars
  BY <1>11 DEF Trip, Deliver, Flag, AddCheck
<1>12. AddOther \/ Request \/ LoadBreaker \/ StoreBreaker \/ UNCHANGED vars => UNCHANGED mainVars
  BY DEF AddOther, Request, LoadBreaker, StoreBreaker, Elsewhere, vars
<1> QED BY <1>1, <1>2, <1>3, <1>4, <1>5, <1>6, <1>7, <1>8, <1>9, <1>10, <1>11, <1>12
    DEF Next, MainStep

\* Every step keeps every variable in its type.
LEMMA TypeStep == IInv /\ [Next]_vars => TypeOK'
<1> SUFFICES ASSUME IInv, [Next]_vars PROVE TypeOK'
  OBVIOUS
<1>0. TypeOK /\ InCheckSignals
  BY DEF IInv
<1>1. frames' \in Seq(Activation) /\ Len(frames') <= MaxDepth
  BY FramesStep DEF FramesOK
<1> DEFINE Rest == /\ tripped' \in [Signals -> BOOLEAN] /\ is_tripped' \in BOOLEAN
                   /\ queue' \in Seq({"check", "other"}) /\ Len(queue') <= QueueSize
                   /\ added' \in 0 .. Others
                   /\ {eval_breaker', recomputing'} \subseteq BOOLEAN
                   /\ pc' \in {"python", "lock", "locked", "test", "clear", "scan", "error"}
                   /\ func' \in {"none", "check", "other"}
                   /\ delivery' \in [Deliveries -> {"new", "flag", "add", "done"}]
                   /\ on_main' \in [Deliveries -> BOOLEAN]
                   /\ signal' \in [Deliveries -> Signals]
<1>2. Rest
  <2> USE <1>0, SignalsAssumption DEF TypeOK, breakerVars, mainVars, deliveryVars
  <2>1. ASSUME NEW d \in Deliveries, Trip(d) PROVE Rest
    BY <2>1 DEF Trip
  <2>2. ASSUME NEW d \in Deliveries, Flag(d) PROVE Rest
    BY <2>2 DEF Flag
  <2>3. ASSUME NEW d \in Deliveries, AddCheck(d) PROVE Rest
    <3>1. CASE AddPendingCall("check")
      BY <2>3, <3>1, AddKeepsTypes DEF AddCheck
    <3>2. CASE UNCHANGED <<queue, breakerVars>>
      BY <2>3, <3>2 DEF AddCheck
    <3> QED BY <2>3, <3>1, <3>2 DEF AddCheck
  <2>4. CASE AddOther
    BY <2>4, AddKeepsTypes DEF AddOther
  <2>5. CASE MakePendingCalls
    BY <2>5 DEF MakePendingCalls, Main
  <2>6. CASE Pop
    <3>1. /\ queue' \in Seq({"check", "other"}) /\ Len(queue') <= QueueSize
          /\ func' \in {"none", "check", "other"}
      BY <2>6 DEF Pop
    <3>2. eval_breaker' \in BOOLEAN
      BY <2>6 DEF Pop
    <3> QED BY <2>6, <3>1, <3>2 DEF Pop, Main
  <2>7. CASE Callback
    BY <2>7 DEF Callback, Main
  <2>8. CASE CheckDirectly
    BY <2>8 DEF CheckDirectly, Main
  <2>9. CASE Test
    BY <2>9 DEF Test, Main, Return
  <2>10. CASE Clear
    BY <2>10 DEF Clear, Main
  <2>11. CASE Scan
    BY <2>11 DEF Scan, Main, Return
  <2>12. CASE HandlerReturns
    BY <2>12 DEF HandlerReturns, Main
  <2>13. CASE Leave
    BY <2>13 DEF Leave, Main, Return
  <2>14. CASE Request \/ LoadBreaker \/ StoreBreaker
    BY <2>14 DEF Request, LoadBreaker, StoreBreaker, Elsewhere
  <2>15. CASE UNCHANGED vars
    BY <2>15 DEF vars
  <2> QED BY <2>1, <2>2, <2>3, <2>4, <2>5, <2>6, <2>7, <2>8, <2>9, <2>10, <2>11, <2>12, <2>13,
             <2>14, <2>15
       DEF Next, MainStep, Deliver
<1> QED BY <1>1, <1>2 DEF TypeOK, Activation

-----------------------------------------------------------------------------
(* Only exceptions forget a signal *)

\* An activation that is left has come past a signal, or would not have come to
\* any; the others keep their place behind it.
LEMMA ReturnForgetsNone ==
  ASSUME TypeOK, frames # <<>>, NEW r, Return(r), NEW s \in Signals,
         pc = "test" \/ ~(Head(frames).at <= s),
         NEW i \in DOMAIN frames, Reaches(i, s)
  PROVE  Reaches(i - 1, s)'
<1>1. /\ frames' = Tail(frames) /\ pc' \in {"lock", "python"}
      /\ i \in 1 .. Len(frames)
  BY FramesSplit DEF Return, TypeOK
<1>2. i # 1
  BY FramesSplit, SignalsAssumption DEF Reaches, Signals
<1>3. /\ i - 1 \in 1 .. Len(frames) - 1 /\ i - 1 + 1 = i
      /\ Len(frames) - 1 = Len(frames')
  BY <1>1, <1>2, FramesSplit
<1>4. frames'[i - 1] = frames[i]
  BY <1>1, <1>3, FramesSplit
<1>5. DOMAIN frames' = 1 .. Len(frames')
  BY <1>1, FramesSplit
<1> QED BY <1>1, <1>3, <1>4, <1>5 DEF Reaches

\* A new activation leaves the others behind it, with their places.
LEMMA PushForgetsNone ==
  ASSUME TypeOK, NEW caller \in {"pending", "direct"},
         frames' = <<Frame(caller)>> \o frames, pc # "test",
         NEW s \in Signals, NEW i \in DOMAIN frames, Reaches(i, s)
  PROVE  Reaches(i + 1, s)'
<1>1. Frame(caller) \in Activation
  BY SignalsAssumption DEF Frame, Activation
<1>2. i \in 1 .. Len(frames) /\ Len(frames) \in Nat
  BY DEF TypeOK
<1>3. /\ frames' \in Seq(Activation) /\ Len(frames') = Len(frames) + 1
      /\ frames'[i + 1] = frames[i]
  BY <1>1, <1>2, FramesPushed
<1>4. i + 1 \in DOMAIN frames' /\ i + 1 # 1
  BY <1>2, <1>3
<1> QED BY <1>3, <1>4 DEF Reaches

\* A signal that becomes or stays tripped has a reason to be seen after the
\* step: the one it had before, or another one.
LEMMA SeenStep ==
  ASSUME IInv, [Next]_vars, NEW s \in Signals, tripped'[s],
         tripped[s] => Seen(s) /\ ~LeftBehind(s)
  PROVE  Seen(s)'
<1>0. TypeOK /\ InCheckSignals /\ (tripped[s] => Seen(s))
  BY DEF IInv
\* What the main thread does leaves the deliveries alone.
<1>1. ASSUME UNCHANGED deliveryVars, tripped[s], is_tripped' = is_tripped,
             \A i \in DOMAIN frames : Reaches(i, s) => \E j \in DOMAIN frames' : Reaches(j, s)'
      PROVE  Seen(s)'
  BY <1>0, <1>1 DEF Seen, deliveryVars, Reaches
<1>2. ASSUME UNCHANGED frames, pc' # "test"
      PROVE  \A i \in DOMAIN frames : Reaches(i, s) => \E j \in DOMAIN frames' : Reaches(j, s)'
  BY <1>2 DEF Reaches
<1>3. ASSUME frames # <<>>, NEW r, Return(r), pc = "test" \/ ~(Head(frames).at <= s)
      PROVE  \A i \in DOMAIN frames : Reaches(i, s) => \E j \in DOMAIN frames' : Reaches(j, s)'
  BY <1>0, <1>3, ReturnForgetsNone DEF Reaches
<1>4. ASSUME NEW caller \in {"pending", "direct"}, frames' = <<Frame(caller)>> \o frames,
             pc # "test"
      PROVE  \A i \in DOMAIN frames : Reaches(i, s) => \E j \in DOMAIN frames' : Reaches(j, s)'
  BY <1>0, <1>4, PushForgetsNone DEF Reaches
<1>5. ASSUME NEW d \in Deliveries, Trip(d) PROVE Seen(s)'
  <2>1. tripped[s] \/ s = signal[d]
    BY <1>0, <1>5 DEF Trip, TypeOK
  <2>2. CASE s = signal[d]
    BY <1>0, <1>5, <2>2 DEF Trip, TypeOK, Seen
  <2>3. CASE tripped[s]
    <3>1. \A e \in Deliveries : delivery[e] = "flag" => delivery'[e] = "flag"
      BY <1>0, <1>5 DEF Trip, TypeOK
    <3> QED BY <1>0, <1>5, <2>3, <3>1 DEF Trip, Seen, Reaches, mainVars
  <2> QED BY <2>1, <2>2, <2>3
<1>6. ASSUME NEW d \in Deliveries, Flag(d) PROVE Seen(s)'
  BY <1>6 DEF Flag, Seen
<1>7. ASSUME NEW d \in Deliveries, AddCheck(d) PROVE Seen(s)'
  <2>1. \A e \in Deliveries : delivery[e] = "flag" => delivery'[e] = "flag"
    BY <1>0, <1>7 DEF AddCheck, TypeOK
  <2> QED BY <1>0, <1>7, <2>1 DEF AddCheck, Seen, Reaches, mainVars
<1>8. CASE AddOther
  BY <1>0, <1>8 DEF AddOther, Seen, Reaches, mainVars, deliveryVars
<1>9. CASE MakePendingCalls
  BY <1>1, <1>2, <1>9 DEF MakePendingCalls, Main
<1>10. CASE Pop
  BY <1>1, <1>2, <1>10 DEF Pop, Main
<1>11. CASE Callback
  <2>1. CASE frames' = <<Frame("pending")>> \o frames
    BY <1>1, <1>4, <1>11, <2>1 DEF Callback, Main, LockTaken
  <2>2. CASE UNCHANGED frames /\ pc' # "test"
    BY <1>1, <1>2, <1>11, <2>2 DEF Callback, Main
  <2> QED BY <1>11, <2>1, <2>2 DEF Callback
<1>12. CASE CheckDirectly
  BY <1>1, <1>4, <1>12 DEF CheckDirectly, Main, Python
<1>13. CASE Test
  BY <1>0, <1>1, <1>2, <1>3, <1>13 DEF Test, Main, InCheckSignals
\* From here on this activation comes to every signal.
<1>14. CASE Clear
  <2>1. frames # <<>> /\ frames[1].at = 1 /\ 1 \in DOMAIN frames
    BY <1>0, <1>14, FramesSplit DEF Clear, InCheckSignals, TypeOK
  <2>2. frames' = frames /\ pc' = "scan"
    BY <1>14 DEF Clear
  <2>3. Reaches(1, s)' /\ 1 \in DOMAIN frames'
    BY <2>1, <2>2, SignalsAssumption DEF Reaches, Signals
  <2> QED BY <2>3 DEF Seen
<1>15. CASE Scan
  <2>1. frames # <<>> /\ At = frames[1].at /\ frames[1] \in Activation /\ 1 \in DOMAIN frames
    BY <1>0, <1>15, FramesSplit DEF Scan, InCheckSignals, At, TypeOK
  <2>2. CASE At = NSIG /\ Return(0) /\ UNCHANGED tripped
    <3>1. ~(Head(frames).at <= s)
      BY <2>2, SignalsAssumption DEF At, Signals
    <3> QED BY <1>1, <1>3, <1>15, <2>1, <2>2, <3>1 DEF Scan, Main
  <2>3. CASE /\ At < NSIG /\ frames' = [frames EXCEPT ![1].at = At + 1]
             /\ tripped' = [tripped EXCEPT ![At] = FALSE] /\ pc' # "test"
    <3>1. s # At /\ tripped[s]
      BY <1>0, <2>1, <2>3, SignalsAssumption DEF TypeOK, Signals, Activation
    <3>2. /\ DOMAIN frames' = DOMAIN frames
          /\ frames'[1].at = At + 1
          /\ \A i \in DOMAIN frames : i # 1 => frames'[i] = frames[i]
      BY <2>1, <2>3 DEF Activation
    <3>3. \A i \in DOMAIN frames : Reaches(i, s) => Reaches(i, s)'
      BY <2>1, <2>3, <3>1, <3>2, SignalsAssumption DEF Reaches, Signals, Activation
    <3> QED BY <1>1, <1>15, <3>1, <3>2, <3>3 DEF Scan, Main
  <2> QED BY <1>15, <2>2, <2>3 DEF Scan
<1>16. CASE HandlerReturns
  BY <1>1, <1>2, <1>16 DEF HandlerReturns, Main
\* The activation has come past the signal, or it would be left behind.
<1>17. CASE Leave
  <2>1. tripped[s] /\ UNCHANGED <<is_tripped, deliveryVars>> /\ Return(-1)
    BY <1>17 DEF Leave, Main
  <2>2. frames # <<>> /\ ~(Head(frames).at <= s)
    BY <1>0, <1>17, <2>1 DEF Leave, InCheckSignals, LeftBehind, At
  <2> QED BY <1>1, <1>3, <2>1, <2>2
<1>18. CASE Request \/ LoadBreaker \/ StoreBreaker
  BY <1>0, <1>18 DEF Request, LoadBreaker, StoreBreaker, Elsewhere, Seen, Reaches, mainVars,
                     deliveryVars
<1>19. CASE UNCHANGED vars
  BY <1>0, <1>19 DEF vars, mainVars, deliveryVars, Seen, Reaches
<1> QED BY <1>5, <1>6, <1>7, <1>8, <1>9, <1>10, <1>11, <1>12, <1>13, <1>14, <1>15, <1>16, <1>17, <1>18,
       <1>19
     DEF Next, MainStep, Deliver

-----------------------------------------------------------------------------
(* The theorems *)

\* Initially no signal is tripped and nothing runs.
LEMMA InitHolds == Init => IInv
<1> SUFFICES ASSUME Init PROVE IInv
  OBVIOUS
<1>1. /\ queue \in Seq({"check", "other"}) /\ Len(queue) <= QueueSize
      /\ frames \in Seq(Activation) /\ Len(frames) <= MaxDepth
  BY SignalsAssumption DEF Init
<1>2. TypeOK
  <2>1. on_main \in [Deliveries -> BOOLEAN]
    BY SignalsAssumption DEF Init
  <2>2. added \in 0 .. Others
    BY SignalsAssumption DEF Init
  <2> QED BY <1>1, <2>1, <2>2 DEF Init, TypeOK, Activation
<1> QED BY <1>2 DEF Init, IInv, InCheckSignals, RoomToCheck

\* All of the invariant, in all behaviours.
LEMMA InductiveInvariant == Spec => []IInv
<1>1. IInv /\ [Next]_vars => IInv'
  BY TypeStep, FramesStep DEF IInv, FramesOK
<1> QED BY InitHolds, <1>1, PTL DEF Spec

\* Wherever the C handler interrupts PyErr_CheckSignals, whatever thread it
\* runs on, whichever handlers raise exceptions and however calls of
\* PyErr_CheckSignals nest: the only step that forgets a tripped signal is the
\* return of a PyErr_CheckSignals whose loop the exception of another handler
\* ended before the signal.
THEOREM NoSignalForgotten == Spec => OnlyExceptionsForget
<1>1. IInv /\ [Next]_vars =>
        [\A s \in Signals :
           tripped'[s] /\ ~Seen(s)' => tripped[s] /\ (Seen(s) => LeftBehind(s))]_vars
  BY SeenStep
<1> QED BY InductiveInvariant, <1>1, PTL DEF Spec, OnlyExceptionsForget

\* No tripped signal waits for another one to be delivered before anything looks
\* at it.
EachSeen == \A s \in Signals : tripped[s] => Seen(s)

\* PyErr_CheckSignals is not about to return with an exception.
NoError == pc # "error"

\* So a program whose handlers raise no exceptions forgets no signal at all.
THEOREM WithoutExceptionsAllSeen == ASSUME ~MayRaise PROVE Spec => []EachSeen
<1>1. Init => EachSeen /\ NoError
  BY DEF Init, EachSeen, NoError
<1>2. IInv /\ EachSeen /\ NoError /\ [Next]_vars => EachSeen' /\ NoError'
  <2> SUFFICES ASSUME IInv, EachSeen, NoError, [Next]_vars PROVE EachSeen' /\ NoError'
    OBVIOUS
  <2>1. \A s \in Signals : tripped'[s] => Seen(s)'
    BY SeenStep DEF EachSeen, NoError, LeftBehind
  <2>2. NoError'
    BY DEF NoError, Next, MainStep, Deliver, Trip, Flag, AddCheck, MakePendingCalls, Pop, Callback,
           Test, Clear, Scan, Leave, HandlerReturns, CheckDirectly, AddOther, Request,
           LoadBreaker, StoreBreaker, Elsewhere, Return, mainVars, vars
  <2> QED BY <2>1, <2>2 DEF EachSeen
<1> QED BY InductiveInvariant, <1>1, <1>2, PTL DEF Spec
=============================================================================

------------------- MODULE LayerShellInitializationProofs --------------------
(***************************************************************************)
(* The safety of LayerShellInitialization for every value of its constants *)
(* and any compositor.                                                     *)
(***************************************************************************)
EXTENDS LayerShellInitialization, TLAPS

Pending == Executing \cup {"succeeded", "failed"}
Threads == {"display", "surface", "buffers", "wakeFd"}

(* The promise is pending exactly while the worker is under way; until     *)
(* then JavaScript is kept out, and afterwards it cannot start again.      *)
Guarded ==
  /\ initializing = (promise = "pending") /\ held = initializing
  /\ promise = "pending" <=> worker \in Pending
  /\ promise = "pending" => js = "idle"
  /\ promise # "none" => initializationStarted
  /\ ~initializationStarted =>
       promise = "none" /\ objects = {} /\ ~configured /\ dispatchThread = "none"
(* Who is in Close() closed the controller; before it fails the worker has *)
(* a controller that is open and nobody else closes.                       *)
Closers ==
  /\ closer # "nobody" => closed
  /\ closer = "js" => js \in {"close", "destructor"}
  /\ closer = "worker" => worker = "closing"
  /\ worker = "closing" => closer = "worker"
  /\ worker \in Executing \ {"closing"} => ~closed
(* What the worker has created when it gets to a step.                     *)
Created ==
  /\ worker \in Executing => dispatchThread = "none"
  /\ worker \in Roundtrips \cup {"surface", "start"} => "display" \in objects
  /\ worker \in {"configure", "start"} => "surface" \in objects
  /\ worker \in Executing /\ configured => "buffers" \in objects
  /\ worker = "connect" => ~configured
  /\ dispatchThread = "running" => Threads \subseteq objects
(* What is left when it has failed.                                        *)
Clean ==
  worker = "failed" \/ promise = "rejected" =>
    closed /\ closer = "nobody" /\ objects = {} /\ dispatchThread = "none"

InitializationInv == Guarded /\ Closers /\ Created /\ Clean

-----------------------------------------------------------------------------
(* The invariant holds at first.                                           *)
LEMMA InitInv == Init => InitializationInv
BY DEF Init, InitializationInv, Guarded, Closers, Created, Clean, Pending, Executing,
       Roundtrips

(* Every step keeps it.                                                    *)
LEMMA StepInv == InitializationInv /\ [Next]_vars => InitializationInv'
<1> SUFFICES ASSUME InitializationInv, [Next]_vars PROVE InitializationInv'
  OBVIOUS
<1> USE DEF InitializationInv, Guarded, Closers, Created, Clean, Pending, Executing,
            Roundtrips, Threads, vars, objectVars, closeVars, jsVars, serverVars, wireVars
<1>1. CASE ConnectDisplay
  BY <1>1 DEF ConnectDisplay
<1>2. CASE Dispatch
  <2>1. objects \subseteq objects' /\ (configured' => configured \/ "buffers" \in objects')
    BY <1>2 DEF Dispatch, Handle
  <2>2. UNCHANGED <<dispatchThread, worker, closeVars, jsVars>>
    BY <1>2 DEF Dispatch
  <2>3. worker \in Roundtrips
    BY <1>2 DEF Dispatch
  <2> QED
    BY <2>1, <2>2, <2>3
<1>3. CASE ReadEvents
  BY <1>3 DEF ReadEvents
<1>4. CASE RoundtripTimesOut \/ ConnectionFails
  BY <1>4 DEF RoundtripTimesOut, ConnectionFails
<1>5. CASE RoundtripEnds
  BY <1>5 DEF RoundtripEnds
<1>6. CASE CreateSurface
  BY <1>6 DEF CreateSurface
<1>7. CASE StartDispatch
  BY <1>7 DEF StartDispatch
<1>8. CASE ExecuteCatches
  BY <1>8 DEF ExecuteCatches, CloseBegin
<1>9. CASE ExecuteFails
  BY <1>9 DEF ExecuteFails, CloseEnd
<1>10. CASE InitializeMethod
  BY <1>10 DEF InitializeMethod
<1>11. CASE GetStateBegin \/ GetStateEnd
  <2>1. promise # "pending" /\ js' \in {"getState", "idle"}
    BY <1>11 DEF GetStateBegin, GetStateEnd, Accessible
  <2>2. js = "idle" \/ js = "getState"
    BY <1>11 DEF GetStateBegin, GetStateEnd
  <2>3. UNCHANGED <<objectVars, dispatchThread, worker, closeVars, initializationStarted,
                    initializing, promise, held>>
    BY <1>11 DEF GetStateBegin, GetStateEnd
  <2> QED
    BY <2>1, <2>2, <2>3
<1>12. CASE CloseMethod \/ Collect
  <2>1. promise # "pending" /\ js = "idle" /\ js' \in {"close", "destructor"}
    BY <1>12 DEF CloseMethod, Collect, Accessible
  <2>2. UNCHANGED <<objectVars, dispatchThread, worker, initializationStarted,
                    initializing, promise, held>>
    BY <1>12 DEF CloseMethod, Collect
  <2>3. CASE closed /\ UNCHANGED closeVars
    BY <2>1, <2>2, <2>3
  <2>4. CASE ~closed /\ closed' /\ closer' = "js"
    BY <2>1, <2>2, <2>4
  <2> QED
    BY <1>12, <2>3, <2>4 DEF CloseMethod, Collect, CloseBegin
<1>13. CASE CloseReturns
  <2>1. promise # "pending" /\ worker \notin Executing
    BY <1>13 DEF CloseReturns
  <2>2. UNCHANGED <<configured, worker, initializationStarted, initializing, promise, held>>
    BY <1>13 DEF CloseReturns
  <2>3. CASE closer = "js" /\ CloseEnd("js")
    BY <2>1, <2>2, <2>3 DEF CloseEnd
  <2>4. CASE closer # "js" /\ UNCHANGED <<closeVars, dispatchThread, objects>>
    BY <2>1, <2>2, <2>4
  <2> QED
    BY <1>13, <2>3, <2>4 DEF CloseReturns
<1>14. CASE Collected \/ UNCHANGED vars
  BY <1>14 DEF Collected
<1>15. CASE OnOK \/ OnError
  BY <1>15 DEF OnOK, OnError, Settle
<1>16. CASE DispatchLoopEnds
  BY <1>16 DEF DispatchLoopEnds
<1>17. CASE CompositorSends \/ ConnectionBreaks \/ DeadlinePasses
  BY <1>17 DEF CompositorSends, ConnectionBreaks, DeadlinePasses
<1> QED
  BY <1>1, <1>2, <1>3, <1>4, <1>5, <1>6, <1>7, <1>8, <1>9, <1>10, <1>11, <1>12, <1>13,
     <1>14, <1>15, <1>16, <1>17 DEF Next, Execute, Methods, Settles

(* The invariant holds in every reachable state.                           *)
LEMMA InitializationInvariant == Spec => []InitializationInv
BY InitInv, StepInv, PTL DEF Spec

(* While the worker initializes, JavaScript is not in any method; what the *)
(* worker and the dispatch thread use has not been destroyed               *)
(* (layer_shell.cc: initializing_, Close, the order of Initialize).        *)
THEOREM InUseExist == Spec => []ObjectsInUseExist
<1>1. InitializationInv => ObjectsInUseExist
  BY DEF InitializationInv, Guarded, Created, Pending, Threads, ObjectsInUseExist
<1> QED
  BY InitializationInvariant, <1>1, PTL

(* A rejected initialize() leaves a closed controller without objects and  *)
(* without a thread (layer_shell.cc: InitializeWorker::Execute).           *)
THEOREM RejectedClean == Spec => []RejectedIsClean
<1>1. InitializationInv => RejectedIsClean
  BY DEF InitializationInv, Clean, RejectedIsClean
<1> QED
  BY InitializationInvariant, <1>1, PTL

-----------------------------------------------------------------------------
(* Queues of events stay such.                                             *)
LEMMA Queues ==
  /\ \A s \in Seq(Events), a, b \in Events : s \o <<a, b>> \in Seq(Events)
  /\ \A s \in Seq(Events), a \in Events : Append(s, a) \in Seq(Events)
  /\ \A s \in Seq(Events) : s # <<>> => Head(s) \in Events /\ Tail(s) \in Seq(Events)
  /\ <<>> \in Seq(Events)
  /\ Events = {"globals", "names", "configure", "done", "closed", "other"}
<1>1. \A s \in Seq(Events), a, b \in Events : s \o <<a, b>> \in Seq(Events)
  <2> TAKE s \in Seq(Events), a, b \in Events
  <2>1. <<a, b>> \in Seq(Events)
    OBVIOUS
  <2> QED
    BY <2>1
<1> QED
  BY <1>1 DEF Events

(* Types, of which those of held and initializing need Guarded.            *)
LEMMA StepTyped == InitializationInv /\ TypeOK /\ [Next]_vars => TypeOK'
<1> SUFFICES ASSUME InitializationInv, TypeOK, [Next]_vars PROVE TypeOK'
  OBVIOUS
<1>0. held' = initializing' /\ initializing' = (promise' = "pending")
  BY StepInv DEF InitializationInv, Guarded
<1>q. \A a, b \in Events : owed \o <<a, b>> \in Seq(Events)
  BY Queues DEF TypeOK
<1>r. owed \o <<"globals", "done">> \in Seq(Events)
  BY <1>q, Queues
<1>s. owed \o <<"names", "done">> \in Seq(Events)
  BY <1>q, Queues
<1>t. owed \o <<"configure", "done">> \in Seq(Events)
  BY <1>q, Queues
<1>u. owed \o <<"done", "configure">> \in Seq(Events)
  BY <1>q, Queues
<1> USE <1>0 DEF TypeOK, Executing, Roundtrips, Objects,
                 vars, objectVars, closeVars, jsVars, serverVars, wireVars
<1>1. CASE ConnectDisplay
  <2>1. {"display"} \subseteq Objects /\ owed' \in Seq(Events)
    BY <1>1, <1>r DEF ConnectDisplay
  <2> QED
    BY <1>1, <2>1 DEF ConnectDisplay
<1>2. CASE Dispatch
  <2>1. Head(queue) \in Events /\ queue' \in Seq(Events)
    BY <1>2 DEF Dispatch
  <2>2. /\ {failure', configured', compositorClosed', done'} \subseteq BOOLEAN
        /\ objects' \subseteq Objects /\ names' \subseteq Outputs
    BY <1>2 DEF Dispatch, Handle
  <2> QED
    BY <1>2, <2>1, <2>2 DEF Dispatch
<1>3. CASE ReadEvents
  BY <1>3 DEF ReadEvents
<1>4. CASE RoundtripTimesOut \/ ConnectionFails
  BY <1>4 DEF RoundtripTimesOut, ConnectionFails
<1>5. CASE RoundtripEnds
  <2>1. owed' \in Seq(Events)
    BY <1>5, <1>s DEF RoundtripEnds
  <2>2. worker' \in {"names", "surface", "start"}
    BY <1>5 DEF RoundtripEnds
  <2> QED
    BY <1>5, <2>1, <2>2 DEF RoundtripEnds
<1>6. CASE CreateSurface
  <2>1. owed' \in Seq(Events)
    BY <1>6, <1>t, <1>u DEF CreateSurface
  <2>2. objects' \subseteq Objects /\ worker' \in {"configure", "failing"}
    BY <1>6 DEF CreateSurface
  <2> QED
    BY <1>6, <2>1, <2>2 DEF CreateSurface
<1>7. CASE StartDispatch
  BY <1>7 DEF StartDispatch
<1>8. CASE ExecuteCatches
  BY <1>8 DEF ExecuteCatches, CloseBegin
<1>9. CASE ExecuteFails
  BY <1>9 DEF ExecuteFails, CloseEnd
<1>10. CASE InitializeMethod
  BY <1>10 DEF InitializeMethod
<1>11. CASE GetStateBegin \/ GetStateEnd
  BY <1>11 DEF GetStateBegin, GetStateEnd
<1>12. CASE CloseMethod \/ Collect
  BY <1>12 DEF CloseMethod, Collect, CloseBegin
<1>13. CASE CloseReturns
  BY <1>13 DEF CloseReturns, CloseEnd
<1>14. CASE Collected \/ UNCHANGED vars
  BY <1>14 DEF Collected
<1>15. CASE OnOK \/ OnError
  <2>1. promise' \in {"resolved", "rejected"} /\ ~initializing' /\ ~held' /\ worker' = "ended"
    BY <1>15 DEF OnOK, OnError, Settle
  <2>2. UNCHANGED <<objectVars, dispatchThread, done, closeVars, initializationStarted,
                    js, serverVars, wireVars>>
    BY <1>15 DEF OnOK, OnError, Settle
  <2> QED
    BY <2>1, <2>2
<1>16. CASE DispatchLoopEnds
  BY <1>16 DEF DispatchLoopEnds
<1>17. CASE CompositorSends
  <2>1. CASE owed # <<>> /\ socket' = Append(socket, Head(owed)) /\ owed' = Tail(owed)
    BY <1>17, <2>1, Queues DEF CompositorSends
  <2>2. CASE UNCHANGED owed /\ \E event \in {"other", "closed"} : socket' = Append(socket, event)
    <3>1. {"other", "closed"} \subseteq Events /\ socket \in Seq(Events)
      BY Queues
    <3>2. socket' \in Seq(Events)
      BY <2>2, <3>1, Queues
    <3> QED
      BY <1>17, <2>2, <3>2 DEF CompositorSends
  <2> QED
    BY <1>17, <2>1, <2>2 DEF CompositorSends
<1>18. CASE ConnectionBreaks \/ DeadlinePasses
  BY <1>18 DEF ConnectionBreaks, DeadlinePasses
<1> QED
  BY <1>1, <1>2, <1>3, <1>4, <1>5, <1>6, <1>7, <1>8, <1>9, <1>10, <1>11, <1>12, <1>13,
     <1>14, <1>15, <1>16, <1>17, <1>18 DEF Next, Execute, Methods, Settles

(* The variables keep their types, for any outputs and events; the object  *)
(* is kept from collection exactly while its promise is pending            *)
(* (layer_shell.cc: InitializeMethod, OnOK, OnError).                      *)
THEOREM InitializationTyped == Spec => []TypeOK
<1>1. Init => TypeOK
  BY Queues DEF Init, TypeOK, Executing, Objects
<1> QED
  BY <1>1, StepTyped, InitInv, InitializationInvariant, PTL DEF Spec
=============================================================================

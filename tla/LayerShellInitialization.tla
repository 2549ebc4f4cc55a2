----------------------- MODULE LayerShellInitialization ----------------------
(***************************************************************************)
(* The birth of a LayerShellController (layer_shell.cc): initialize()      *)
(* starts a worker thread that connects, makes three round trips to the    *)
(* compositor under one deadline, creates the surface and starts the       *)
(* dispatch thread; its end is reported to JavaScript, whose thread may    *)
(* call close(), getState() and initialize(), or collect the object, in    *)
(* the meantime.  LayerShellController goes on from here.                  *)
(***************************************************************************)
EXTENDS Naturals, Sequences

CONSTANTS
  Outputs,   \* the output names the compositor knows
  Requested, \* options.output
  NoOutput,  \* its value if none is requested
  MaxSocket  \* bound: how many events the compositor sends ahead

ASSUME RequestedAssumption == Requested \in Outputs \cup {NoOutput}
ASSUME MaxSocketAssumption == MaxSocket \in Nat \ {0}

Objects == {"display", "globals", "surface", "buffers", "wakeFd"}
Events == {"globals", "names", "configure", "done", "closed", "other"}

VARIABLES
  (* LayerShellController *)
  initializationStarted, initializing, closed, stop, configured,
  failure,          \* error_ is set
  compositorClosed,
  objects,          \* what DestroyWaylandObjects and Close have to destroy
  names,            \* the names of outputs_
  dispatchThread,   \* "none", "running" or "ended"
  (* its threads *)
  worker,           \* where InitializeWorker::Execute is
  done,             \* the flag of the Roundtrip
  closer,           \* who is in Close() after the exchange of closed_
  js,               \* what the JavaScript thread does
  promise,          \* the promise of initialize()
  held,             \* Ref() of initialize()
  (* the connection and the clock *)
  complete,         \* the compositor has every global that is required
  outputs,          \* and these outputs
  owed,             \* the events it has to send, in order
  socket, queue,    \* events sent, and read but not yet dispatched
  broken, expired   \* the connection is lost; initializationDeadline_ passed

objectVars ==
  <<configured, failure, compositorClosed, objects, names>>
closeVars == <<closed, stop, closer>>
jsVars == <<initializationStarted, initializing, js, promise, held>>
serverVars == <<complete, outputs, broken, expired>>
wireVars == <<owed, socket, queue>>
vars == <<objectVars, dispatchThread, worker, done, closeVars, jsVars, serverVars, wireVars>>

Init ==
  /\ initializationStarted = FALSE /\ initializing = FALSE
  /\ closed = FALSE /\ stop = FALSE
  /\ configured = FALSE /\ failure = FALSE /\ compositorClosed = FALSE
  /\ objects = {} /\ names = {} /\ dispatchThread = "none"
  /\ worker = "none" /\ done = FALSE /\ closer = "nobody"
  /\ js = "idle" /\ promise = "none" /\ held = FALSE
  /\ complete \in BOOLEAN /\ outputs \in SUBSET Outputs
  /\ owed = <<>> /\ socket = <<>> /\ queue = <<>>
  /\ broken = FALSE /\ expired = FALSE

-----------------------------------------------------------------------------
(* The worker thread.                                                      *)

Roundtrips == {"globals", "names", "configure"}
Executing == Roundtrips \cup {"connect", "surface", "start", "failing", "closing"}

(* A connection, or none within the deadline.                              *)
ConnectDisplay ==
  /\ worker = "connect"
  /\ \/ /\ ~expired
        /\ objects' = objects \cup {"display"}
        /\ owed' = owed \o <<"globals", "done">>
        /\ worker' = "globals"
     \/ worker' = "failing" /\ UNCHANGED <<objects, owed>>
  /\ UNCHANGED <<configured, failure, compositorClosed, names, dispatchThread, done,
                 closeVars, jsVars, serverVars, socket, queue>>

(* What an event does.  Binding the globals makes outputs tell their names *)
(* before the next "done".  A configure creates buffers or cannot.         *)
Handle(event) ==
  /\ failure' \in IF event = "configure" THEN BOOLEAN ELSE {failure}
  /\ objects' = objects \cup CASE event = "globals" -> {"globals"}
                               [] event = "configure" /\ ~failure' -> {"buffers"}
                               [] OTHER -> {}
  /\ names' = IF event = "names" THEN outputs ELSE names
  /\ configured' = (configured \/ (event = "configure" /\ ~failure'))
  /\ compositorClosed' = (compositorClosed \/ event = "closed")
  /\ done' = (done \/ event = "done")

(* wl_display_dispatch_pending of Roundtrip.                               *)
Dispatch ==
  /\ worker \in Roundtrips /\ queue # <<>>
  /\ Handle(Head(queue)) /\ queue' = Tail(queue)
  /\ UNCHANGED <<dispatchThread, worker, closeVars, jsVars, serverVars, owed, socket>>

DeadlineRestarts == ~expired \/ socket # <<>> \* defect: every event restarts it
Remaining == ~expired

(* poll reports events before the deadline and they are read.              *)
ReadEvents ==
  /\ worker \in Roundtrips /\ queue = <<>> /\ ~done
  /\ Remaining /\ socket # <<>> /\ ~broken
  /\ queue' = socket /\ socket' = <<>>
  /\ UNCHANGED <<objectVars, dispatchThread, worker, done, closeVars, jsVars, serverVars, owed>>

RoundtripTimesOut ==
  /\ worker \in Roundtrips /\ queue = <<>> /\ ~done /\ ~Remaining
  /\ worker' = "failing"
  /\ UNCHANGED <<objectVars, dispatchThread, done, closeVars, jsVars, serverVars, wireVars>>

ConnectionFails ==
  /\ worker \in Roundtrips /\ ~done /\ broken
  /\ worker' = "failing"
  /\ UNCHANGED <<objectVars, dispatchThread, done, closeVars, jsVars, serverVars, wireVars>>

(* The round trip ends once everything read has been dispatched.           *)
RoundtripEnds ==
  /\ worker \in Roundtrips /\ queue = <<>> /\ done
  /\ done' = FALSE
  /\ CASE worker = "globals" -> worker' = "names" /\ owed' = owed \o <<"names", "done">>
       [] worker = "names" -> worker' = "surface" /\ UNCHANGED owed
       [] worker = "configure" -> worker' = "start" /\ UNCHANGED owed
  /\ UNCHANGED <<objectVars, dispatchThread, closeVars, jsVars, serverVars, socket, queue>>

(* The globals and the output that are needed; the surface; its commit.    *)
(* The compositor answers the commit before the sync or after it.          *)
CreateSurface ==
  /\ worker = "surface"
  /\ \/ /\ complete
        /\ Requested = NoOutput \/ Requested \in names
        /\ objects' = objects \cup {"surface"}
        /\ owed' \in {owed \o <<"configure", "done">>, owed \o <<"done", "configure">>}
        /\ worker' = "configure"
     \/ worker' = "failing" /\ UNCHANGED <<objects, owed>>
  /\ UNCHANGED <<configured, failure, compositorClosed, names, dispatchThread, done,
                 closeVars, jsVars, serverVars, socket, queue>>

(* Configured without an error, eventfd, and the thread; each may fail.    *)
StartDispatch ==
  /\ worker = "start"
  /\ \/ /\ configured /\ ~failure
        /\ objects' = objects \cup {"wakeFd"}
        /\ \/ dispatchThread' = "running" /\ worker' = "succeeded"
           \/ worker' = "failing" /\ UNCHANGED dispatchThread
     \/ worker' = "failing" /\ UNCHANGED <<objects, dispatchThread>>
  /\ UNCHANGED <<configured, failure, compositorClosed, names, done,
                 closeVars, jsVars, serverVars, wireVars>>

-----------------------------------------------------------------------------
(* Close(): only the first caller goes on; it joins and destroys.          *)

CloseBegin(who) ==
  IF closed THEN UNCHANGED closeVars
            ELSE closed' = TRUE /\ stop' = TRUE /\ closer' = who

CloseEnd(who) ==
  /\ closer = who /\ dispatchThread # "running"
  /\ closer' = "nobody" /\ dispatchThread' = "none"
  /\ objects' = {}
  /\ UNCHANGED <<closed, stop>>

(* Execute catches the exception, closes, and sets the error.              *)
ExecuteReports == \* defect: the catch does not close
  /\ worker = "failing" /\ worker' = "failed"
  /\ UNCHANGED <<objectVars, dispatchThread, done, closeVars, jsVars, serverVars, wireVars>>
ExecuteCatches ==
  /\ worker = "failing"
  /\ CloseBegin("worker")
  /\ worker' = "closing"
  /\ UNCHANGED <<objectVars, dispatchThread, done, jsVars, serverVars, wireVars>>

ExecuteFails ==
  /\ worker = "closing"
  /\ IF closer = "worker" THEN CloseEnd("worker")
                          ELSE UNCHANGED <<closeVars, dispatchThread, objects>>
  /\ worker' = "failed"
  /\ UNCHANGED <<configured, failure, compositorClosed, names, done, jsVars,
                 serverVars, wireVars>>

-----------------------------------------------------------------------------
(* The JavaScript thread.                                                  *)

InitializeMethod ==
  /\ js = "idle" /\ ~closed /\ ~initializationStarted
  /\ initializationStarted' = TRUE /\ initializing' = TRUE /\ held' = TRUE
  /\ promise' = "pending" /\ worker' = "connect"
  /\ UNCHANGED <<objectVars, dispatchThread, done, closeVars, js, serverVars, wireVars>>

(* OnOK and OnError.                                                       *)
SettleOnly(result) == \* defect: no Unref()
  /\ js = "idle" /\ promise = "pending"
  /\ promise' = result /\ initializing' = FALSE
  /\ worker' = "ended"
  /\ UNCHANGED <<objectVars, dispatchThread, done, closeVars, initializationStarted,
                 js, held, serverVars, wireVars>>
Settle(result) ==
  /\ js = "idle" /\ promise = "pending"
  /\ promise' = result /\ initializing' = FALSE /\ held' = FALSE
  /\ worker' = "ended"
  /\ UNCHANGED <<objectVars, dispatchThread, done, closeVars, initializationStarted,
                 js, serverVars, wireVars>>
OnOK == worker = "succeeded" /\ Settle("resolved")
OnError == worker = "failed" /\ Settle("rejected")

AccessibleAlways == TRUE \* defect: calls are let in during the initialization
Accessible == ~initializing

(* getState(), from its check to its end.                                  *)
GetStateBegin ==
  /\ js = "idle" /\ Accessible
  /\ js' = "getState"
  /\ UNCHANGED <<objectVars, dispatchThread, worker, done, closeVars,
                 initializationStarted, initializing, promise, held, serverVars, wireVars>>
GetStateEnd ==
  /\ js = "getState" /\ js' = "idle"
  /\ UNCHANGED <<objectVars, dispatchThread, worker, done, closeVars,
                 initializationStarted, initializing, promise, held, serverVars, wireVars>>

(* close(), and the destructor once nothing refers to the object.          *)
CloseMethod ==
  /\ js = "idle" /\ Accessible
  /\ CloseBegin("js") /\ js' = "close"
  /\ UNCHANGED <<objectVars, dispatchThread, worker, done, initializationStarted,
                 initializing, promise, held, serverVars, wireVars>>
Collect ==
  /\ js = "idle" /\ ~held
  /\ CloseBegin("js") /\ js' = "destructor"
  /\ UNCHANGED <<objectVars, dispatchThread, worker, done, initializationStarted,
                 initializing, promise, held, serverVars, wireVars>>
CloseReturns ==
  /\ js \in {"close", "destructor"}
  /\ IF closer = "js" THEN CloseEnd("js")
                      ELSE UNCHANGED <<closeVars, dispatchThread, objects>>
  /\ js' = IF js = "destructor" THEN "collected" ELSE "idle"
  /\ UNCHANGED <<configured, failure, compositorClosed, names, worker, done,
                 initializationStarted, initializing, promise, held, serverVars, wireVars>>

(* The object is gone.                                                     *)
Collected == js = "collected" /\ UNCHANGED vars

-----------------------------------------------------------------------------
(* DispatchLoop, with the events of LayerShellController, until it is told *)
(* to stop or the connection fails; what it used it destroys itself.       *)
DispatchLoopEnds ==
  /\ dispatchThread = "running"
  /\ \/ stop /\ UNCHANGED <<failure, compositorClosed>>
     \/ broken /\ failure' = TRUE /\ compositorClosed' = TRUE
  /\ dispatchThread' = "ended"
  /\ objects' = objects \cap {"wakeFd"}
  /\ UNCHANGED <<configured, names, worker, done, closeVars, jsVars, serverVars, wireVars>>

(* The compositor sends what it owes, in order, or something else; once    *)
(* there is a surface, also that it closed the surface.                    *)
CompositorSends ==
  /\ worker \in Executing /\ "display" \in objects
  /\ ~broken /\ Len(socket) < MaxSocket
  /\ \/ owed # <<>> /\ socket' = Append(socket, Head(owed)) /\ owed' = Tail(owed)
     \/ /\ \E event \in {"other"} \cup (IF "surface" \in objects THEN {"closed"} ELSE {}) :
             socket' = Append(socket, event)
        /\ UNCHANGED owed
  /\ UNCHANGED <<objectVars, dispatchThread, worker, done, closeVars, jsVars, serverVars, queue>>

ConnectionBreaks ==
  /\ "display" \in objects /\ ~broken /\ broken' = TRUE
  /\ UNCHANGED <<objectVars, dispatchThread, worker, done, closeVars, jsVars,
                 complete, outputs, expired, wireVars>>

DeadlinePasses ==
  /\ initializing /\ ~expired /\ expired' = TRUE
  /\ UNCHANGED <<objectVars, dispatchThread, worker, done, closeVars, jsVars,
                 complete, outputs, broken, wireVars>>

Execute ==
  \/ ConnectDisplay \/ Dispatch \/ ReadEvents \/ RoundtripTimesOut
  \/ ConnectionFails \/ RoundtripEnds \/ CreateSurface \/ StartDispatch
  \/ ExecuteCatches \/ ExecuteFails
Methods ==
  InitializeMethod \/ GetStateBegin \/ GetStateEnd \/ CloseMethod \/ Collect
  \/ CloseReturns \/ Collected
Settles == OnOK \/ OnError

Next ==
  \/ Execute \/ Methods \/ Settles \/ DispatchLoopEnds
  \/ CompositorSends \/ ConnectionBreaks \/ DeadlinePasses

(* Threads are scheduled, time passes, and the event loop comes to the     *)
(* result of the worker.  Nothing is asked of the compositor.              *)
Fairness ==
  /\ WF_vars(Execute) /\ WF_vars(DispatchLoopEnds) /\ WF_vars(DeadlinePasses)
  /\ WF_vars(GetStateEnd \/ CloseReturns) /\ SF_vars(Settles)

Spec == Init /\ [][Next]_vars /\ Fairness

-----------------------------------------------------------------------------
(* With the types: the object is kept from collection, and closed to other *)
(* calls, exactly while its promise is pending.                            *)
TypeOK ==
  /\ held = initializing /\ initializing = (promise = "pending")
  /\ {initializationStarted, initializing, closed, stop, configured, failure,
      compositorClosed, done, held, broken, expired} \subseteq BOOLEAN
  /\ objects \subseteq Objects /\ names \subseteq Outputs
  /\ dispatchThread \in {"none", "running", "ended"}
  /\ worker \in Executing \cup {"none", "succeeded", "failed", "ended"}
  /\ closer \in {"nobody", "worker", "js"}
  /\ js \in {"idle", "getState", "close", "destructor", "collected"}
  /\ promise \in {"none", "pending", "resolved", "rejected"}
  /\ complete \in BOOLEAN /\ outputs \subseteq Outputs
  /\ owed \in Seq(Events) /\ socket \in Seq(Events) /\ queue \in Seq(Events)

(* What a thread works with exists: while the worker initializes, no call  *)
(* and no destructor of the JavaScript thread reads or destroys the        *)
(* controller's objects, and the dispatch thread keeps what it uses until  *)
(* it has been joined.                                                     *)
ObjectsInUseExist ==
  /\ worker \in Executing => js = "idle"
  /\ worker \in Roundtrips => "display" \in objects
  /\ dispatchThread = "running" => {"display", "surface", "buffers", "wakeFd"} \subseteq objects

(* When initialize() has been rejected, for whatever reason, nothing of    *)
(* the attempt is left and the controller is closed.                       *)
RejectedIsClean ==
  promise = "rejected" => closed /\ objects = {} /\ dispatchThread = "none"

(* initialize() is settled by its deadline, whatever the compositor does:  *)
(* if it never answers, stops in the middle or never stops sending.        *)
InitializeSettles == promise = "pending" ~> promise # "pending"
=============================================================================

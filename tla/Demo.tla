--------------------------------- MODULE Demo -------------------------------
(***************************************************************************)
(* main.mjs: one asynchronous program that runs the script of a scenario,  *)
(* step after step, with overlays of its own and targets in processes of   *)
(* their own (DemoTarget), and reports a result or exits.  It is suspended *)
(* only where the code awaits; there it may be told to quit.               *)
(***************************************************************************)
EXTENDS DemoTarget

CONSTANT Scenarios  \* those of Runners that are run

VARIABLES
  scenario, backend,
  todo,      \* what is left of the script
  waiting,   \* the first step of todo has begun and is awaited
  demo,      \* "running", "quitting" or "exited"
  report,    \* "none", or the result that was announced
  cleanups,  \* what cleanup() will close
  sent,      \* of each target: the actions it was sent, sequence of them
  controller,\* "none", the backend of the overlay's controller, or "closed"
  parent,    \* its parent_
  overlay,   \* the overlay window: where it was asked to be, and is
  found,     \* the bounds of the parent that findWindow() returned last
  passing    \* none of the assertions made so far has failed

world == <<target, active>>
run == <<scenario, backend>>
life == <<demo, report, cleanups>>
policy == <<controller, parent, overlay>>
vars == <<world, run, todo, waiting, life, sent, policy, found, passing>>

-----------------------------------------------------------------------------
(* The scripts.                                                            *)

Step(op, t, arg, expect) == [op |-> op, t |-> t, arg |-> arg, expect |-> expect]
Gate(capability) == Step("gate", "none", capability, "must")
Render == Step("render", "none", "none", "must")  \* loadModel, setModel, settleRenderer
Spawn(t, title) == Step("spawn", t, title, "must")
Discover(title) == Step("await", "none", [until |-> "found", title |-> title], "must")
Await(until) == Step("await", "none", [until |-> until, title |-> "alpha"], "must")
AwaitActive(t) == Step("await", t, [until |-> "active", title |-> "duplicate"], "must")
Finds(t, title) == Step("find", t, title, "must")
FindsNone(title) == Step("find", "none", title, "mustNot")
Command(t, action, detail) == Step("command", t, [action |-> action, detail |-> detail], "must")
Exit(t) == Step("exit", t, "none", "must")
Configure(at) == Step("configure", "none", at, "must")
SetBounds(at) == Step("setBounds", "none", at, "must")
Attach(expect) == Step("attach", "none", "alpha", expect)
Adopt(expect) == Step("adopt", "none", "none", expect)
Detach == Step("detach", "none", "none", "must")
Reapply == Step("reapply", "none", "none", "must")
SameRect(as) == Step("sameRect", "none", as, "must")
SawFullscreen(t) == Step("sawFullscreen", t, "none", "must")
Check == Step("check", "none", "none", "must")    \* throw if an assertion failed
Report(result) == Step("report", "none", result, "must")

(* Overlays are loaded, shown and settled before they are configured, and  *)
(* render the result before it is announced.                               *)
Overlay(at) == <<Render, Configure(at)>>
Passes == <<Render, Reapply, Render, Report("pass")>>

RunBoundsDemo ==
  <<Gate("globalPositioning")>> \o Overlay("first") \o <<Reapply, SameRect("asked"), Check>> \o Passes

RunPolicyDemo ==
  <<Gate("globalPositioning")>> \o Overlay("first") \o <<SetBounds("second"), Reapply>> \o Passes

RunParentDemo ==
  <<Gate("externalParent"), Spawn("first", "alpha"), Discover("alpha")>> \o Overlay("first")
    \o <<Attach("must"), Adopt("must"), Reapply, Render, Reapply, Render, Check, Report("pass")>>

RunParentFullscreenDemo ==
  <<Spawn("first", "alpha"), Discover("alpha")>> \o Overlay("first")
    \o <<Attach("must"), Command("first", "fullscreen", "on"), SawFullscreen("first"),
         Await("fullscreen"), Reapply, Check>> \o Passes

RunParentTransitionDemo ==
  <<Spawn("first", "alpha"), Discover("alpha")>> \o Overlay("first")
    \o <<Attach("may"), Adopt("may"),
         Command("first", "fullscreen", "on"), SawFullscreen("first"), Await("fullscreen"),
         Adopt("must"), Reapply, SameRect("found"),
         Command("first", "fullscreen", "off"), Await("windowed"),
         Adopt("must"), Reapply, SameRect("found"), Check>> \o Passes

GeometryPhase(place) ==
  <<Command("first", "set-bounds", place), Await("changed"), Adopt("must"), Check,
    SameRect("found"), Check>>
RunParentGeometryDemo ==
  <<Spawn("first", "alpha"), Discover("alpha")>> \o Overlay("first") \o <<Attach("may")>>
    \o GeometryPhase("first") \o GeometryPhase("second") \o Passes

LifecycleUnchecked == \* defect: the replacement is not preceded by the end of the first
  <<Spawn("first", "alpha"), Discover("alpha")>> \o Overlay("first") \o <<Attach("must"), Detach,
    Spawn("second", "alpha"), Discover("alpha"), Attach("must"), Adopt("must"), Reapply,
    SameRect("found"), Check>> \o Passes
RunParentLifecycleDemo ==
  <<FindsNone("alpha"), Spawn("first", "alpha"), Discover("alpha")>> \o Overlay("first")
    \o <<Attach("must"), Command("first", "close", "none"), Exit("first"), Await("missing"),
         Adopt("mustNot"), Detach, Spawn("second", "alpha"), Discover("alpha"),
         Attach("must"), Adopt("must"), Reapply, SameRect("found"), Check>> \o Passes

RunParentMatchingDemo ==
  <<Spawn("first", "alpha"), Spawn("second", "beta"), Discover("alpha"), Discover("beta"),
    Finds("first", "alpha"), Command("first", "focus", "none"),
    Command("first", "set-title", "duplicate"), Command("second", "set-title", "duplicate"),
    AwaitActive("first"),
    Command("second", "set-title", "beta"), Command("second", "focus", "none"),
    Command("second", "set-title", "duplicate"), AwaitActive("second"),
    Check, Render, Report("pass")>>

RunInputBlockingDemo == Overlay("first") \o Passes

RunWaylandCompatibilityDemo ==
  <<Render, Configure("first"), Attach("mustNot"), Adopt("mustNot"), Check, Render, Report("pass")>>

RunCoordinatesDemo == <<Render, Report("pass")>>

RunUnsupportedDemo == <<Render, Report("unsupported")>>

Runners ==
  [name \in {"bounds", "policy", "parent", "parent-fullscreen", "parent-transition",
             "parent-geometry", "parent-lifecycle", "parent-matching", "input-blocking",
             "wayland-compat", "coordinates"} |->
    CASE name = "bounds" -> RunBoundsDemo
      [] name = "policy" -> RunPolicyDemo
      [] name = "parent" -> RunParentDemo
      [] name = "parent-fullscreen" -> RunParentFullscreenDemo
      [] name = "parent-transition" -> RunParentTransitionDemo
      [] name = "parent-geometry" -> RunParentGeometryDemo
      [] name = "parent-lifecycle" -> RunParentLifecycleDemo
      [] name = "parent-matching" -> RunParentMatchingDemo
      [] name = "input-blocking" -> RunInputBlockingDemo
      [] name = "wayland-compat" -> RunWaylandCompatibilityDemo
      [] name = "coordinates" -> RunCoordinatesDemo]

ASSUME DemoAssumption ==
  /\ {"first", "second"} \subseteq Targets /\ "none" \notin Targets
  /\ Scenarios \subseteq DOMAIN Runners

(* selectBackend(): an argument, or the session; CAPABILITIES of index.ts. *)
SelectBackend == {"x11", "wayland-electron"}
Capability(b, name) == b = "x11"

Init ==
  /\ InitTargets
  /\ scenario \in Scenarios /\ backend \in SelectBackend
  /\ todo = Runners[scenario] /\ waiting = FALSE
  /\ demo = "running" /\ report = "none" /\ cleanups = {}
  /\ sent = [t \in Targets |-> <<>>]
  /\ controller = "none" /\ parent = "none"
  /\ overlay = [asked |-> Bounds("initial"), seen |-> Bounds("initial")]
  /\ found = Bounds("initial") /\ passing = TRUE

-----------------------------------------------------------------------------
(* cleanup(): controllers are closed, targets sent SIGTERM and their       *)
(* directories removed.                                                    *)
CleansUp ==
  /\ target' = [t \in Targets |->
       IF t \in cleanups THEN [target[t] EXCEPT !.killed = @ \/ Alive(t), !.removed = TRUE]
                         ELSE target[t]]
  /\ controller' = IF "controller" \in cleanups THEN "closed" ELSE controller
  /\ cleanups' = {}

(* main().catch(): the demo cleans up and exits.                           *)
Throws ==
  /\ CleansUp /\ demo' = "exited"
  /\ UNCHANGED <<active, run, todo, waiting, report, sent, parent, overlay, found, passing>>

Main(op) == demo # "exited" /\ todo # <<>> /\ Head(todo).op = op
Begins(op) == Main(op) /\ ~waiting
Awaits(op) == Main(op) /\ waiting
Suspends == waiting' = TRUE /\ UNCHANGED todo
GoesOn == waiting' = FALSE /\ todo' = Tail(todo)
This == Head(todo)

Asserts(result) ==
  passing' = (passing /\ (This.expect = "must" => result) /\ (This.expect = "mustNot" => ~result))

-----------------------------------------------------------------------------
(* Steps that end where they begin.                                        *)

ChecksCapability ==
  /\ Begins("gate")
  /\ todo' = IF Capability(backend, This.arg) THEN Tail(todo) ELSE RunUnsupportedDemo
  /\ UNCHANGED <<world, run, waiting, life, sent, policy, found, passing>>

(* findWindow(): an active window before any other.                        *)
Found(title) ==
  LET matching == {t \in Targets : Viewable(t) /\ target[t].title = title}
  IN IF active \in matching THEN {active} ELSE matching

FindsWindow ==
  /\ Begins("find") /\ GoesOn
  /\ \/ Found(This.arg) = {} /\ Asserts(FALSE)
     \/ \E t \in Found(This.arg) : Asserts(This.t \in {"none", t})
  /\ UNCHANGED <<world, run, life, sent, policy, found>>

ConfiguresOverlay ==
  /\ Begins("configure") /\ GoesOn
  /\ controller' = IF scenario = "wayland-compat" THEN "wayland-electron" ELSE backend
  /\ overlay' = [overlay EXCEPT !.asked = Bounds(This.arg)]
  /\ cleanups' = cleanups \cup {"controller"}
  /\ UNCHANGED <<world, run, demo, report, sent, parent, found, passing>>

(* Every method of a controller that was closed throws.                    *)
Calls(method) == Begins(method) /\ controller # "closed"
ClosedThrows ==
  /\ \E method \in {"setBounds", "attach", "adopt", "detach", "reapply"} : Begins(method)
  /\ controller = "closed"
  /\ Throws

ReappliesPolicy ==
  /\ Calls("reapply") /\ GoesOn
  /\ UNCHANGED <<world, run, life, sent, policy, found, passing>>

SetsBounds ==
  /\ Calls("setBounds") /\ GoesOn
  /\ overlay' = [overlay EXCEPT !.asked = Bounds(This.arg)]
  /\ UNCHANGED <<world, run, life, sent, controller, parent, found, passing>>

(* On Wayland there is no parent to attach.                                *)
AttachesParent ==
  /\ Calls("attach") /\ GoesOn
  /\ LET windows == IF controller = "x11" THEN Found(This.arg) ELSE {} IN
     \/ windows = {} /\ Asserts(FALSE) /\ UNCHANGED parent
     \/ \E t \in windows : parent' = t /\ Asserts(TRUE)
  /\ UNCHANGED <<world, run, life, sent, controller, overlay, found>>

AdoptsParentBounds ==
  /\ Calls("adopt") /\ GoesOn
  /\ LET adopted == parent # "none" /\ Viewable(parent) IN
     /\ Asserts(adopted)
     /\ overlay' = IF adopted THEN [overlay EXCEPT !.asked = target[parent].seen] ELSE overlay
  /\ UNCHANGED <<world, run, life, sent, controller, parent, found>>

DetachesParent ==
  /\ Calls("detach") /\ GoesOn
  /\ parent' = "none"
  /\ UNCHANGED <<world, run, life, sent, controller, overlay, found, passing>>

(* getState() reads where the window is, not where it was asked to be.     *)
ComparesBounds ==
  /\ Begins("sameRect") /\ GoesOn
  /\ Asserts(overlay.seen = IF This.arg = "found" THEN found ELSE overlay.asked)
  /\ UNCHANGED <<world, run, life, sent, policy, found>>

ComparesFullscreen ==
  /\ Begins("sawFullscreen") /\ GoesOn
  /\ Asserts(target[This.t].answer.fullscreen)
  /\ UNCHANGED <<world, run, life, sent, policy, found>>

ChecksAssertions ==
  /\ Begins("check")
  /\ IF passing
     THEN GoesOn /\ UNCHANGED <<world, run, life, sent, policy, found, passing>>
     ELSE Throws

-----------------------------------------------------------------------------
(* Steps that are awaited.                                                 *)

Awaited == {"render", "spawn", "command", "exit", "await", "report"}

(* Windows of the demo answer, until they are destroyed.                   *)
BeginsToWait ==
  /\ \E op \in {"render", "exit", "await", "report"} : Begins(op)
  /\ Suspends
  /\ UNCHANGED <<world, run, life, sent, policy, found, passing>>

Rendered ==
  /\ Awaits("render")
  /\ \/ GoesOn /\ UNCHANGED <<world, run, life, sent, policy, found, passing>>
     \/ demo = "quitting" /\ Throws

(* spawnTarget(): the target is to be cleaned up before it is known to     *)
(* run.                                                                    *)
RegistersReady(t) == cleanups \* defect: only once it is
Registers(t) == cleanups \cup {t}
SpawnsTarget ==
  /\ Begins("spawn") /\ Suspends
  /\ target' = [target EXCEPT ![This.t].process = "starting", ![This.t].title = This.arg]
  /\ cleanups' = Registers(This.t)
  /\ UNCHANGED <<active, run, demo, report, sent, policy, found, passing>>

TargetIsReady ==
  /\ Awaits("spawn")
  /\ \/ target[This.t].process = "exited" /\ Throws
     \/ /\ target[This.t].ready /\ ~target[This.t].removed /\ target[This.t].process # "exited"
        /\ GoesOn
        /\ UNCHANGED <<world, run, life, sent, policy, found, passing>>

(* commandTarget() writes the command.  stopTarget() does nothing if the   *)
(* process has ended or was cleaned up, nor does it then wait.             *)
CommandsTarget ==
  /\ Begins("command")
  /\ LET t == This.t
         stopped == target[t].process \in Ended \/ target[t].removed
     IN
     IF stopped /\ This.arg.action = "close"
     THEN /\ todo' = Tail(Tail(todo))
          /\ UNCHANGED <<world, run, waiting, life, sent, policy, found, passing>>
     ELSE IF stopped
     THEN Throws
     ELSE /\ Suspends
          /\ sent' = [sent EXCEPT ![t] = Append(@, This.arg.action)]
          /\ target' = [target EXCEPT ![t].command =
               [sequence |-> Len(sent'[t]), action |-> This.arg.action, detail |-> This.arg.detail]]
          /\ UNCHANGED <<active, run, life, policy, found, passing>>

(* Its answer has the number of the command.                               *)
IsAnswered(t) == target[t].answer.sequence = Len(sent[t])
TargetAnswered ==
  /\ Awaits("command") /\ ~target[This.t].removed /\ IsAnswered(This.t)
  /\ GoesOn
  /\ UNCHANGED <<world, run, life, sent, policy, found, passing>>

TargetExited ==
  /\ Awaits("exit") /\ target[This.t].process = "exited"
  /\ GoesOn
  /\ UNCHANGED <<world, run, life, sent, policy, found, passing>>

(* waitUntil() around findWindow().                                        *)
Satisfies(t) ==
  CASE This.arg.until = "found" -> TRUE
    [] This.arg.until = "fullscreen" -> target[t].seen.size = "full"
    [] This.arg.until = "windowed" -> target[t].seen.size # "full"
    [] This.arg.until = "changed" -> target[t].seen # found
    [] This.arg.until = "active" -> t = This.t
    [] OTHER -> FALSE
ParentFound ==
  /\ Awaits("await") /\ GoesOn
  /\ \/ /\ This.arg.until = "missing" /\ Found(This.arg.title) = {}
        /\ UNCHANGED found
     \/ \E t \in Found(This.arg.title) : Satisfies(t) /\ found' = target[t].seen
  /\ UNCHANGED <<world, run, life, sent, policy, passing>>

(* announceReady(): the file is written and renamed, or that fails.        *)
AnnouncesReady ==
  /\ Awaits("report")
  /\ \/ /\ GoesOn /\ report' = This.arg
        /\ UNCHANGED <<world, run, demo, cleanups, sent, policy, found, passing>>
     \/ Throws

(* Every waitUntil() has a deadline; a renderer and the announcement are   *)
(* awaited without.                                                        *)
OnlyReadiness == {"spawn"} \* defect: the other waits have none
Deadlines == Awaited \ {"render", "report"}
TimesOut ==
  /\ \E op \in Deadlines : Awaits(op)
  /\ Throws

-----------------------------------------------------------------------------
(* The application quits, at the end or when it is told to, at any await;  *)
(* its windows close one after the other before it exits.                  *)
Quits ==
  /\ demo = "running" /\ (waiting \/ todo = <<>>)
  /\ CleansUp /\ demo' = "quitting"
  /\ UNCHANGED <<active, run, todo, waiting, report, sent, parent, overlay, found, passing>>

Exits ==
  /\ demo = "quitting" /\ (waiting \/ todo = <<>>)
  /\ demo' = "exited"
  /\ UNCHANGED <<world, run, todo, waiting, report, cleanups, sent, policy, found, passing>>

(* The window manager moves the overlay.                                   *)
PlacesOverlay ==
  /\ overlay.seen # overlay.asked
  /\ overlay' = [overlay EXCEPT !.seen = overlay.asked]
  /\ UNCHANGED <<world, run, todo, waiting, life, sent, controller, parent, found, passing>>

Runs ==
  \/ ChecksCapability \/ FindsWindow \/ ConfiguresOverlay \/ ClosedThrows \/ ReappliesPolicy
  \/ SetsBounds \/ AttachesParent \/ AdoptsParentBounds \/ DetachesParent \/ ComparesBounds
  \/ ComparesFullscreen \/ ChecksAssertions \/ AnnouncesReady
  \/ BeginsToWait \/ Rendered \/ SpawnsTarget \/ TargetIsReady \/ CommandsTarget
  \/ TargetAnswered \/ TargetExited \/ ParentFound \/ TimesOut

Targeted ==
  /\ \E t \in Targets : TargetNext(t)
  /\ UNCHANGED <<run, todo, waiting, life, sent, policy, found, passing>>

Next == Runs \/ Quits \/ Exits \/ PlacesOverlay \/ Targeted

(* JavaScript goes on when what it waits for has come or its time is up,   *)
(* quitting ends, and so does a process that is told to terminate.         *)
Terminated(t) ==
  Terminates(t) /\ UNCHANGED <<run, todo, waiting, life, sent, policy, found, passing>>
Fairness ==
  /\ WF_vars(Runs) /\ WF_vars(Exits)
  /\ \A t \in Targets : WF_vars(Terminated(t))

Spec == Init /\ [][Next]_vars /\ Fairness

-----------------------------------------------------------------------------
TypeOK ==
  /\ TargetsOK
  /\ scenario \in Scenarios /\ backend \in SelectBackend
  /\ waiting \in BOOLEAN /\ (waiting => Head(todo).op \in Awaited)
  /\ demo \in {"running", "quitting", "exited"}
  /\ report \in {"none", "pass", "unsupported"}
  /\ cleanups \subseteq Targets \cup {"controller"}
  /\ controller \in SelectBackend \cup {"none", "closed"}
  /\ parent \in Targets \cup {"none"}
  /\ {overlay.asked, overlay.seen, found} \subseteq Geometry

(* "parent transitions are acknowledged independently from the overlay     *)
(* process" (packages/demo/README.md): when the demo goes on after a       *)
(* command, every target has carried out exactly what it was sent, each    *)
(* command once and in order, whatever was lost, late or read twice.       *)
AnswerMeansDone ==
  demo # "exited" /\ ~waiting => \A t \in Targets : target[t].applied = sent[t]

(* A scenario that passes with a parent is attached to the target that was *)
(* started last, of two of one title to the replacement, and never on a    *)
(* backend without parents.                                                *)
Newest == IF target["second"].process = "none" THEN "first" ELSE "second"
Parented == {"parent", "parent-fullscreen", "parent-transition", "parent-geometry",
             "parent-lifecycle"}
PassMeansAttached ==
  report = "pass" /\ scenario \in Parented => parent = Newest /\ controller # "wayland-electron"

(* Every scenario reports or exits, whatever its targets do: stall, crash, *)
(* ignore commands or never show a window.                                 *)
DemoSettles == <>(report # "none" \/ demo = "exited")

(* A demo that exits, at whatever point of whatever step, leaves no target *)
(* behind but one that it started after it had cleaned up.                 *)
TargetsEnd == demo = "exited" ~> \A t \in Targets : Alive(t) => t \in cleanups
=============================================================================

----------------------------- MODULE DemoProofs -----------------------------
(***************************************************************************)
(* Proofs about Demo for any set of targets that has the two of the        *)
(* scripts, and any choice of scenarios.  A script is a sequence that is   *)
(* consumed from its head, so what the proofs know of scripts are          *)
(* properties that a sequence passes on to its tail.                       *)
(***************************************************************************)
EXTENDS Demo, TLAPS

USE DemoAssumption

-----------------------------------------------------------------------------
(* The steps scripts are made of.                                          *)

Words == {"none", "globalPositioning", "externalParent", "alpha", "beta", "duplicate", "initial",
          "first", "second", "full", "asked", "found", "on", "off", "pass", "unsupported"}
Actions == {"set-bounds", "fullscreen", "close", "focus", "set-title"}
Conditions == {"found", "fullscreen", "windowed", "changed", "active", "missing"}
Operations == {"gate", "render", "spawn", "await", "find", "command", "exit", "configure",
               "setBounds", "attach", "adopt", "detach", "reapply", "sameRect",
               "sawFullscreen", "check", "report"}
Steps ==
  [op: Operations, t: {"none", "first", "second"},
   arg: Words \cup [until: Conditions, title: Words] \cup [action: Actions, detail: Words],
   expect: {"must", "mustNot", "may"}]

LEMMA Forms ==
  /\ {Render, Detach, Reapply, Check} \subseteq Steps
  /\ \A a \in Words : {Gate(a), Discover(a), FindsNone(a), Configure(a), SetBounds(a),
                       SameRect(a), Report(a)} \subseteq Steps
  /\ \A c \in Conditions : Await(c) \in Steps
  /\ \A e \in {"must", "mustNot", "may"} : {Attach(e), Adopt(e)} \subseteq Steps
  /\ \A t \in {"first", "second"} : {AwaitActive(t), Exit(t), SawFullscreen(t)} \subseteq Steps
  /\ \A t \in {"first", "second"}, a \in Words : {Spawn(t, a), Finds(t, a)} \subseteq Steps
  /\ \A t \in {"first", "second"}, c \in Actions, a \in Words : Command(t, c, a) \in Steps
<1> USE DEF Step, Steps, Operations
<1>1. {Render, Detach, Reapply, Check} \subseteq Steps
  BY DEF Render, Detach, Reapply, Check, Words
<1>2. ASSUME NEW a \in Words PROVE {Gate(a), Discover(a), FindsNone(a), Configure(a), SetBounds(a),
                       SameRect(a), Report(a)} \subseteq Steps
  BY DEF Gate, Discover, FindsNone, Configure, SetBounds, SameRect, Report, Conditions
<1>3. ASSUME NEW c \in Conditions PROVE Await(c) \in Steps
  BY DEF Await, Words
<1>4. ASSUME NEW e \in {"must", "mustNot", "may"} PROVE {Attach(e), Adopt(e)} \subseteq Steps
  BY DEF Attach, Adopt, Words
<1>5. ASSUME NEW t \in {"first", "second"} PROVE {AwaitActive(t), Exit(t), SawFullscreen(t)} \subseteq Steps
  BY DEF AwaitActive, Exit, SawFullscreen, Words, Conditions
<1>6. ASSUME NEW t \in {"first", "second"}, NEW a \in Words PROVE {Spawn(t, a), Finds(t, a)} \subseteq Steps
  BY DEF Spawn, Finds
<1>7. ASSUME NEW t \in {"first", "second"}, NEW c \in Actions, NEW a \in Words PROVE Command(t, c, a) \in Steps
  BY DEF Command
<1> QED BY <1>1, <1>2, <1>3, <1>4, <1>5, <1>6, <1>7

Places == {"initial", "first", "second", "full"}

WellFormed(s, i) ==
  /\ s[i].op \in {"spawn", "command"} => s[i].t \in {"first", "second"}
  /\ s[i].op = "spawn" => s[i].arg \in Words
  /\ s[i].op \in {"configure", "setBounds"} => s[i].arg \in Places
  /\ s[i].op = "report" => s[i].arg \in {"pass", "unsupported"} /\ i = Len(s)
  /\ s[i].op = "command" =>
       /\ s[i].arg \in [action: Actions, detail: Words]
       /\ s[i].arg.action = "set-bounds" => s[i].arg.detail \in Places
       /\ s[i].arg.action = "close" =>
            /\ i < Len(s) /\ s[i + 1].op = "exit" /\ s[i + 1].t = s[i].t
  /\ \A j \in i + 1 .. Len(s) :
       s[i].op = "spawn" /\ s[j].op = "spawn" => s[i].t # s[j].t
Formed(s) == s \in Seq(Steps) /\ \A i \in 1 .. Len(s) : WellFormed(s, i)

Must(s, i) == s[i].op \in {"attach", "adopt"} /\ s[i].expect = "must"
Has(s, op, from, to) == \E i \in from .. to : s[i].op = op
Demands(s) ==
  \E i \in 1 .. Len(s) :
    Must(s, i) /\ Has(s, "check", i + 1, Len(s)) /\ ~Has(s, "detach", i + 1, Len(s))
ConfiguresFirst(s) ==
  \A i \in 1 .. Len(s) : s[i].op = "attach" => ~Has(s, "configure", i + 1, Len(s))
OneTitle(s) ==
  \A i \in 1 .. Len(s) :
    /\ s[i].op = "spawn" => s[i].arg = "alpha"
    /\ s[i].op = "command" => s[i].arg.action # "set-title"
Discovers(s, i) == s[i].op = "await" /\ s[i].arg.until = "found" /\ s[i].arg.title = "alpha"
Misses(s, i) == s[i].op = "await" /\ s[i].arg.until = "missing" /\ s[i].arg.title = "alpha"
EndsBefore(s, n, shown, gone) ==
  gone \/ \E j \in 1 .. n - 1 : Misses(s, j) /\ (shown \/ \E k \in 1 .. j - 1 : Discovers(s, k))
FreeBefore(s, n, free) ==
  \/ free /\ ~Has(s, "attach", 1, n - 1)
  \/ \E j \in 1 .. n - 1 : s[j].op = "detach" /\ ~Has(s, "attach", j + 1, n - 1)
Replaces(s, from, shown, gone, free) ==
  \A i \in from .. Len(s) :
    s[i].op = "spawn" /\ s[i].t = "second" => EndsBefore(s, i, shown, gone) /\ FreeBefore(s, i, free)
LEMMA UnsupportedScript ==
  /\ RunUnsupportedDemo \in Seq(Steps) /\ Len(RunUnsupportedDemo) = 2
  /\ LET flat ==
        <<Render, Report("unsupported")>>
     IN \A i \in 1 .. 2 : RunUnsupportedDemo[i] = flat[i]
<1>1. RunUnsupportedDemo \in Seq(Steps)
  BY Forms DEF Words, Conditions, Actions, RunUnsupportedDemo
<1> QED
  BY <1>1, SMT DEF RunUnsupportedDemo

LEMMA BoundsScript ==
  /\ RunBoundsDemo \in Seq(Steps) /\ Len(RunBoundsDemo) = 10
  /\ LET flat ==
        <<Gate("globalPositioning"), Render, Configure("first"), Reapply, SameRect("asked"), Check,
        Render, Reapply, Render, Report("pass")>>
     IN \A i \in 1 .. 10 : RunBoundsDemo[i] = flat[i]
<1>1. RunBoundsDemo \in Seq(Steps)
  BY Forms DEF Words, Conditions, Actions, RunBoundsDemo, Overlay, Passes
<1> QED
  BY <1>1, SMT DEF RunBoundsDemo, Overlay, Passes

LEMMA PolicyScript ==
  /\ RunPolicyDemo \in Seq(Steps) /\ Len(RunPolicyDemo) = 9
  /\ LET flat ==
        <<Gate("globalPositioning"), Render, Configure("first"), SetBounds("second"), Reapply,
        Render, Reapply, Render, Report("pass")>>
     IN \A i \in 1 .. 9 : RunPolicyDemo[i] = flat[i]
<1>1. RunPolicyDemo \in Seq(Steps)
  BY Forms DEF Words, Conditions, Actions, RunPolicyDemo, Overlay, Passes
<1> QED
  BY <1>1, SMT DEF RunPolicyDemo, Overlay, Passes

LEMMA ParentScript ==
  /\ RunParentDemo \in Seq(Steps) /\ Len(RunParentDemo) = 13
  /\ LET flat ==
        <<Gate("externalParent"), Spawn("first", "alpha"), Discover("alpha"), Render,
        Configure("first"), Attach("must"), Adopt("must"), Reapply, Render, Reapply,
        Render, Check, Report("pass")>>
     IN \A i \in 1 .. 13 : RunParentDemo[i] = flat[i]
<1>1. RunParentDemo \in Seq(Steps)
  BY Forms DEF Words, Conditions, Actions, RunParentDemo, Overlay
<1> QED
  BY <1>1, SMT DEF RunParentDemo, Overlay

LEMMA FullscreenScript ==
  /\ RunParentFullscreenDemo \in Seq(Steps) /\ Len(RunParentFullscreenDemo) = 14
  /\ LET flat ==
        <<Spawn("first", "alpha"), Discover("alpha"), Render, Configure("first"), Attach("must"),
        Command("first", "fullscreen", "on"), SawFullscreen("first"),
        Await("fullscreen"), Reapply, Check, Render, Reapply, Render, Report("pass")>>
     IN \A i \in 1 .. 14 : RunParentFullscreenDemo[i] = flat[i]
<1>1. RunParentFullscreenDemo \in Seq(Steps)
  BY Forms DEF Words, Conditions, Actions, RunParentFullscreenDemo, Overlay, Passes
<1> QED
  BY <1>1, SMT DEF RunParentFullscreenDemo, Overlay, Passes

LEMMA TransitionScript ==
  /\ RunParentTransitionDemo \in Seq(Steps) /\ Len(RunParentTransitionDemo) = 22
  /\ LET flat ==
        <<Spawn("first", "alpha"), Discover("alpha"), Render, Configure("first"), Attach("may"),
        Adopt("may"), Command("first", "fullscreen", "on"), SawFullscreen("first"),
        Await("fullscreen"), Adopt("must"), Reapply, SameRect("found"),
        Command("first", "fullscreen", "off"), Await("windowed"), Adopt("must"), Reapply,
        SameRect("found"), Check, Render, Reapply, Render, Report("pass")>>
     IN \A i \in 1 .. 22 : RunParentTransitionDemo[i] = flat[i]
<1>1. RunParentTransitionDemo \in Seq(Steps)
  BY Forms DEF Words, Conditions, Actions, RunParentTransitionDemo, Overlay, Passes
<1> QED
  BY <1>1, SMT DEF RunParentTransitionDemo, Overlay, Passes

LEMMA GeometryScript ==
  /\ RunParentGeometryDemo \in Seq(Steps) /\ Len(RunParentGeometryDemo) = 21
  /\ LET flat ==
        <<Spawn("first", "alpha"), Discover("alpha"), Render, Configure("first"), Attach("may"),
        Command("first", "set-bounds", "first"), Await("changed"), Adopt("must"), Check,
        SameRect("found"), Check, Command("first", "set-bounds", "second"),
        Await("changed"), Adopt("must"), Check, SameRect("found"), Check, Render,
        Reapply, Render, Report("pass")>>
     IN \A i \in 1 .. 21 : RunParentGeometryDemo[i] = flat[i]
<1>1. RunParentGeometryDemo \in Seq(Steps)
  BY Forms DEF Words, Conditions, Actions, RunParentGeometryDemo, Overlay, Passes, GeometryPhase
<1> QED
  BY <1>1, SMT DEF RunParentGeometryDemo, Overlay, Passes, GeometryPhase

LEMMA LifecycleScript ==
  /\ RunParentLifecycleDemo \in Seq(Steps) /\ Len(RunParentLifecycleDemo) = 22
  /\ LET flat ==
        <<FindsNone("alpha"), Spawn("first", "alpha"), Discover("alpha"), Render,
        Configure("first"), Attach("must"), Command("first", "close", "none"),
        Exit("first"), Await("missing"), Adopt("mustNot"), Detach,
        Spawn("second", "alpha"), Discover("alpha"), Attach("must"), Adopt("must"),
        Reapply, SameRect("found"), Check, Render, Reapply, Render, Report("pass")>>
     IN \A i \in 1 .. 22 : RunParentLifecycleDemo[i] = flat[i]
<1>1. RunParentLifecycleDemo \in Seq(Steps)
  BY Forms DEF Words, Conditions, Actions, RunParentLifecycleDemo, Overlay, Passes
<1> QED
  BY <1>1, SMT DEF RunParentLifecycleDemo, Overlay, Passes

LEMMA MatchingScript ==
  /\ RunParentMatchingDemo \in Seq(Steps) /\ Len(RunParentMatchingDemo) = 16
  /\ LET flat ==
        <<Spawn("first", "alpha"), Spawn("second", "beta"), Discover("alpha"), Discover("beta"),
        Finds("first", "alpha"), Command("first", "focus", "none"),
        Command("first", "set-title", "duplicate"),
        Command("second", "set-title", "duplicate"), AwaitActive("first"),
        Command("second", "set-title", "beta"), Command("second", "focus", "none"),
        Command("second", "set-title", "duplicate"), AwaitActive("second"), Check,
        Render, Report("pass")>>
     IN \A i \in 1 .. 16 : RunParentMatchingDemo[i] = flat[i]
<1>1. RunParentMatchingDemo \in Seq(Steps)
  BY Forms DEF Words, Conditions, Actions, RunParentMatchingDemo
<1> QED
  BY <1>1, SMT DEF RunParentMatchingDemo

LEMMA InputBlockingScript ==
  /\ RunInputBlockingDemo \in Seq(Steps) /\ Len(RunInputBlockingDemo) = 6
  /\ LET flat ==
        <<Render, Configure("first"), Render, Reapply, Render, Report("pass")>>
     IN \A i \in 1 .. 6 : RunInputBlockingDemo[i] = flat[i]
<1>1. RunInputBlockingDemo \in Seq(Steps)
  BY Forms DEF Words, Conditions, Actions, RunInputBlockingDemo, Overlay, Passes
<1> QED
  BY <1>1, SMT DEF RunInputBlockingDemo, Overlay, Passes

LEMMA WaylandScript ==
  /\ RunWaylandCompatibilityDemo \in Seq(Steps) /\ Len(RunWaylandCompatibilityDemo) = 7
  /\ LET flat ==
        <<Render, Configure("first"), Attach("mustNot"), Adopt("mustNot"), Check, Render,
        Report("pass")>>
     IN \A i \in 1 .. 7 : RunWaylandCompatibilityDemo[i] = flat[i]
<1>1. RunWaylandCompatibilityDemo \in Seq(Steps)
  BY Forms DEF Words, Conditions, Actions, RunWaylandCompatibilityDemo
<1> QED
  BY <1>1, SMT DEF RunWaylandCompatibilityDemo

LEMMA CoordinatesScript ==
  /\ RunCoordinatesDemo \in Seq(Steps) /\ Len(RunCoordinatesDemo) = 2
  /\ LET flat ==
        <<Render, Report("pass")>>
     IN \A i \in 1 .. 2 : RunCoordinatesDemo[i] = flat[i]
<1>1. RunCoordinatesDemo \in Seq(Steps)
  BY Forms DEF Words, Conditions, Actions, RunCoordinatesDemo
<1> QED
  BY <1>1, SMT DEF RunCoordinatesDemo
LEMMA UnsupportedFormed == Formed(RunUnsupportedDemo)
BY UnsupportedScript, SMT
   DEF Formed, WellFormed, Words, Actions, Places, Step, Render, Report

LEMMA BoundsFormed == Formed(RunBoundsDemo)
BY BoundsScript, SMT
   DEF Formed, WellFormed, Words, Actions, Places, Step, Gate, Render, Configure, Reapply, SameRect, Check, Report

LEMMA PolicyFormed == Formed(RunPolicyDemo)
BY PolicyScript, SMT
   DEF Formed, WellFormed, Words, Actions, Places, Step, Gate, Render, Configure, SetBounds, Reapply, Report

LEMMA ParentFormed == Formed(RunParentDemo)
BY ParentScript, SMT
   DEF Formed, WellFormed, Words, Actions, Places, Step, Gate, Spawn, Discover, Render, Configure, Attach, Adopt, Reapply, Check, Report

LEMMA FullscreenFormed == Formed(RunParentFullscreenDemo)
BY FullscreenScript, SMT
   DEF Formed, WellFormed, Words, Actions, Places, Step, Spawn, Discover, Render, Configure, Attach, Command, SawFullscreen, Await, Reapply,
         Check, Report

LEMMA TransitionFormed == Formed(RunParentTransitionDemo)
BY TransitionScript, SMT
   DEF Formed, WellFormed, Words, Actions, Places, Step, Spawn, Discover, Render, Configure, Attach, Adopt, Command, SawFullscreen, Await,
         Reapply, SameRect, Check, Report

LEMMA GeometryFormed == Formed(RunParentGeometryDemo)
BY GeometryScript, SMT
   DEF Formed, WellFormed, Words, Actions, Places, Step, Spawn, Discover, Render, Configure, Attach, Command, Await, Adopt, Check, SameRect,
         Reapply, Report

LEMMA LifecycleFormed == Formed(RunParentLifecycleDemo)
BY LifecycleScript, SMT
   DEF Formed, WellFormed, Words, Actions, Places, Step, FindsNone, Spawn, Discover, Render, Configure, Attach, Command, Exit, Await, Adopt,
         Detach, Reapply, SameRect, Check, Report

LEMMA MatchingFormed == Formed(RunParentMatchingDemo)
BY MatchingScript, SMT
   DEF Formed, WellFormed, Words, Actions, Places, Step, Spawn, Discover, Finds, Command, AwaitActive, Check, Render, Report

LEMMA InputBlockingFormed == Formed(RunInputBlockingDemo)
BY InputBlockingScript, SMT
   DEF Formed, WellFormed, Words, Actions, Places, Step, Render, Configure, Reapply, Report

LEMMA WaylandFormed == Formed(RunWaylandCompatibilityDemo)
BY WaylandScript, SMT
   DEF Formed, WellFormed, Words, Actions, Places, Step, Render, Configure, Attach, Adopt, Check, Report

LEMMA CoordinatesFormed == Formed(RunCoordinatesDemo)
BY CoordinatesScript, SMT
   DEF Formed, WellFormed, Words, Actions, Places, Step, Render, Report

LEMMA ParentSucceeds ==
  /\ Demands(RunParentDemo) /\ ConfiguresFirst(RunParentDemo) /\ OneTitle(RunParentDemo)
  /\ Replaces(RunParentDemo, 1, FALSE, FALSE, TRUE)
<1>1. Demands(RunParentDemo)
  BY ParentScript, SMT DEF Demands, Must, Has, Step, Gate, Spawn, Discover, Render, Configure, Attach, Adopt, Reapply, Check, Report
<1>2. ConfiguresFirst(RunParentDemo) /\ OneTitle(RunParentDemo)
  BY ParentScript, SMT DEF ConfiguresFirst, OneTitle, Has, Step, Gate, Spawn, Discover, Render, Configure, Attach, Adopt, Reapply, Check, Report
<1>3. Replaces(RunParentDemo, 1, FALSE, FALSE, TRUE)
  BY ParentScript, SMT DEF Replaces, EndsBefore, FreeBefore, Discovers, Misses, Has, Step, Gate, Spawn, Discover, Render, Configure, Attach, Adopt, Reapply, Check, Report
<1> QED BY <1>1, <1>2, <1>3

LEMMA FullscreenSucceeds ==
  /\ Demands(RunParentFullscreenDemo) /\ ConfiguresFirst(RunParentFullscreenDemo) /\ OneTitle(RunParentFullscreenDemo)
  /\ Replaces(RunParentFullscreenDemo, 1, FALSE, FALSE, TRUE)
<1>1. Demands(RunParentFullscreenDemo)
  BY FullscreenScript, SMT DEF Demands, Must, Has, Step, Spawn, Discover, Render, Configure, Attach, Command, SawFullscreen, Await, Reapply, Check, Report
<1>2. ConfiguresFirst(RunParentFullscreenDemo) /\ OneTitle(RunParentFullscreenDemo)
  BY FullscreenScript, SMT DEF ConfiguresFirst, OneTitle, Has, Step, Spawn, Discover, Render, Configure, Attach, Command, SawFullscreen, Await, Reapply, Check, Report
<1>3. Replaces(RunParentFullscreenDemo, 1, FALSE, FALSE, TRUE)
  BY FullscreenScript, SMT DEF Replaces, EndsBefore, FreeBefore, Discovers, Misses, Has, Step, Spawn, Discover, Render, Configure, Attach, Command, SawFullscreen, Await, Reapply, Check, Report
<1> QED BY <1>1, <1>2, <1>3

LEMMA TransitionSucceeds ==
  /\ Demands(RunParentTransitionDemo) /\ ConfiguresFirst(RunParentTransitionDemo) /\ OneTitle(RunParentTransitionDemo)
  /\ Replaces(RunParentTransitionDemo, 1, FALSE, FALSE, TRUE)
<1>1. Demands(RunParentTransitionDemo)
  BY TransitionScript, SMT DEF Demands, Must, Has, Step, Spawn, Discover, Render, Configure, Attach, Adopt, Command, SawFullscreen, Await, Reapply, SameRect, Check, Report
<1>2. ConfiguresFirst(RunParentTransitionDemo) /\ OneTitle(RunParentTransitionDemo)
  BY TransitionScript, SMT DEF ConfiguresFirst, OneTitle, Has, Step, Spawn, Discover, Render, Configure, Attach, Adopt, Command, SawFullscreen, Await, Reapply, SameRect, Check, Report
<1>3. Replaces(RunParentTransitionDemo, 1, FALSE, FALSE, TRUE)
  BY TransitionScript, SMT DEF Replaces, EndsBefore, FreeBefore, Discovers, Misses, Has, Step, Spawn, Discover, Render, Configure, Attach, Adopt, Command, SawFullscreen, Await, Reapply, SameRect, Check, Report
<1> QED BY <1>1, <1>2, <1>3

LEMMA GeometrySucceeds ==
  /\ Demands(RunParentGeometryDemo) /\ ConfiguresFirst(RunParentGeometryDemo) /\ OneTitle(RunParentGeometryDemo)
  /\ Replaces(RunParentGeometryDemo, 1, FALSE, FALSE, TRUE)
<1>1. Demands(RunParentGeometryDemo)
  BY GeometryScript, SMT DEF Demands, Must, Has, Step, Spawn, Discover, Render, Configure, Attach, Command, Await, Adopt, Check, SameRect, Reapply, Report
<1>2. ConfiguresFirst(RunParentGeometryDemo) /\ OneTitle(RunParentGeometryDemo)
  BY GeometryScript, SMT DEF ConfiguresFirst, OneTitle, Has, Step, Spawn, Discover, Render, Configure, Attach, Command, Await, Adopt, Check, SameRect, Reapply, Report
<1>3. Replaces(RunParentGeometryDemo, 1, FALSE, FALSE, TRUE)
  BY GeometryScript, SMT DEF Replaces, EndsBefore, FreeBefore, Discovers, Misses, Has, Step, Spawn, Discover, Render, Configure, Attach, Command, Await, Adopt, Check, SameRect, Reapply, Report
<1> QED BY <1>1, <1>2, <1>3

LEMMA LifecycleSucceeds ==
  /\ Demands(RunParentLifecycleDemo) /\ ConfiguresFirst(RunParentLifecycleDemo) /\ OneTitle(RunParentLifecycleDemo)
  /\ Replaces(RunParentLifecycleDemo, 1, FALSE, FALSE, TRUE)
<1>1. Demands(RunParentLifecycleDemo)
  BY LifecycleScript, SMT DEF Demands, Must, Has, Step, FindsNone, Spawn, Discover, Render, Configure, Attach, Command, Exit, Await, Adopt, Detach, Reapply, SameRect, Check, Report
<1>2. ConfiguresFirst(RunParentLifecycleDemo) /\ OneTitle(RunParentLifecycleDemo)
  BY LifecycleScript, SMT DEF ConfiguresFirst, OneTitle, Has, Step, FindsNone, Spawn, Discover, Render, Configure, Attach, Command, Exit, Await, Adopt, Detach, Reapply, SameRect, Check, Report
<1>3. Replaces(RunParentLifecycleDemo, 1, FALSE, FALSE, TRUE)
  <2> DEFINE s == RunParentLifecycleDemo
  <2>1. \A i \in 1 .. Len(s) : s[i].op = "spawn" /\ s[i].t = "second" => i = 12
    BY LifecycleScript, SMT DEF Step, FindsNone, Spawn, Discover, Render, Configure, Attach, Command, Exit, Await, Adopt, Detach, Reapply, SameRect, Check, Report
  <2>2. Discovers(s, 3) /\ Misses(s, 9) /\ s[11].op = "detach"
    BY LifecycleScript, SMT DEF Discovers, Misses, Step, Discover, Await, Detach
  <2>3. EndsBefore(s, 12, FALSE, FALSE) /\ FreeBefore(s, 12, TRUE)
    BY <2>2 DEF EndsBefore, FreeBefore, Has
  <2> QED BY <2>1, <2>3 DEF Replaces
<1> QED BY <1>1, <1>2, <1>3
-----------------------------------------------------------------------------
(* The invariant.                                                          *)

Processes == {"none", "starting", "idle", "settling", "stopping", "closing", "deaf"} \cup Ended
Windows == {"none", "shown", "viewable", "hidden"}
TargetRecords ==
  [process: Processes,
   killed: BOOLEAN, removed: BOOLEAN, ready: BOOLEAN,
   command: [sequence: Nat, action: Actions \cup {"none"}, detail: Words],
   answer: [sequence: Nat, fullscreen: BOOLEAN], last: Nat, applied: Seq(Actions),
   title: Words, window: Windows, focus: BOOLEAN,
   wanted: Geometry, seen: Geometry]

(* A target and the actions it was sent.                                   *)
TargetTyped(r, actions) ==
  /\ r \in TargetRecords /\ actions \in Seq(Actions)
  /\ r.command.action = "set-bounds" => r.command.detail \in Places
  /\ r.command.sequence = Len(actions)
  /\ r.command.sequence > 0 => r.command.action \in Actions
  /\ r.last <= r.command.sequence /\ r.answer.sequence <= r.last

World ==
  /\ active \in Targets \cup {"none"}
  /\ target \in [Targets -> TargetRecords] /\ sent \in [Targets -> Seq(Actions)]
  /\ \A t \in Targets : TargetTyped(target[t], sent[t])

Typed ==
  /\ World /\ Formed(todo)
  /\ scenario \in Scenarios /\ backend \in SelectBackend
  /\ waiting \in BOOLEAN /\ (waiting => todo # <<>> /\ Head(todo).op \in Awaited)
  /\ demo \in {"running", "quitting", "exited"}
  /\ report \in {"none", "pass", "unsupported"}
  /\ cleanups \subseteq Targets \cup {"controller"}
  /\ controller \in SelectBackend \cup {"none", "closed"}
  /\ parent \in Targets \cup {"none"}
  /\ overlay \in [asked: Geometry, seen: Geometry] /\ found \in Geometry /\ passing \in BOOLEAN

(* The rest of a sequence.                                                 *)
LEMMA TailFacts ==
  ASSUME NEW s \in Seq(Steps), s # <<>>
  PROVE  /\ Len(s) \in Nat /\ Len(s) >= 1 /\ Head(s) = s[1] /\ s[1] \in Steps
         /\ Tail(s) \in Seq(Steps) /\ Len(Tail(s)) = Len(s) - 1
         /\ \A i \in 1 .. Len(s) - 1 : Tail(s)[i] = s[i + 1]
OBVIOUS

LEMMA NotEmpty == \A s : Len(s) >= 1 => s # <<>>
OBVIOUS

LEMMA FormedTail ==
  ASSUME NEW s, Formed(s), s # <<>> PROVE Formed(Tail(s))
<1> DEFINE r == Tail(s)
<1>1. /\ r \in Seq(Steps) /\ Len(r) = Len(s) - 1 /\ Len(s) \in Nat
      /\ \A i \in 1 .. Len(r) : r[i] = s[i + 1]
  BY TailFacts DEF Formed
<1> HIDE DEF r
<1>2. ASSUME NEW i \in 1 .. Len(r) PROVE WellFormed(r, i)
  <2>1. WellFormed(s, i + 1) /\ i + 1 \in 1 .. Len(s) /\ r[i] = s[i + 1] /\ i \in Nat
    BY <1>1 DEF Formed
  <2>2. i < Len(r) => r[i + 1] = s[(i + 1) + 1]
    BY <1>1
  <2>3. \A j \in i + 1 .. Len(r) : j + 1 \in (i + 1) + 1 .. Len(s) /\ r[j] = s[j + 1]
    BY <1>1
  <2> QED BY <1>1, <2>1, <2>2, <2>3 DEF WellFormed
<1> QED BY <1>1, <1>2 DEF Formed, r

(* A script that goes on is a script, whatever it was.                     *)
LEMMA ScriptsFormed == \A name \in Scenarios : Formed(Runners[name])
BY BoundsFormed, PolicyFormed, ParentFormed, FullscreenFormed, TransitionFormed, GeometryFormed,
   LifecycleFormed, MatchingFormed, InputBlockingFormed, WaylandFormed, CoordinatesFormed
   DEF Runners

LEMMA InitTyped == Init => Typed
<1> SUFFICES ASSUME Init PROVE Typed
  OBVIOUS
<1>1. Formed(todo)
  BY ScriptsFormed DEF Init
<1>2. Bounds("initial") \in Geometry
  BY DEF Bounds, Geometry
<1>3. NoTarget \in TargetRecords /\ TargetTyped(NoTarget, <<>>)
  BY <1>2 DEF NoTarget, NoCommand, TargetRecords, Processes, Windows, Words, TargetTyped
<1>4. sent \in [Targets -> Seq(Actions)] /\ \A t \in Targets : sent[t] = <<>>
  BY DEF Init
<1>5. World
  BY <1>3, <1>4 DEF Init, InitTargets, World
<1> QED
  BY <1>1, <1>2, <1>5 DEF Init, Typed
-----------------------------------------------------------------------------
(* What a step does to the script.                                         *)

Goes == todo # <<>> /\ waiting' = FALSE /\ todo' = Tail(todo)
Waits == ~waiting /\ waiting' = TRUE /\ todo' = todo /\ todo # <<>> /\ todo[1].op \in Awaited
Skips ==
  /\ todo # <<>> /\ waiting = FALSE /\ waiting' = FALSE /\ todo' = Tail(Tail(todo))
  /\ todo[1].op = "command" /\ todo[1].arg.action = "close"
Gives == todo # <<>> /\ waiting = FALSE /\ waiting' = FALSE /\ todo' = RunUnsupportedDemo

LEMMA Moves ==
  Typed /\ [Next]_vars => Goes \/ Waits \/ Skips \/ Gives \/ UNCHANGED <<todo, waiting>>
<1> SUFFICES ASSUME Typed, [Next]_vars
             PROVE  Goes \/ Waits \/ Skips \/ Gives \/ UNCHANGED <<todo, waiting>>
  OBVIOUS
<1> USE DEF Goes, Waits, Skips, Gives, Main, Begins, Awaits, Calls, GoesOn, Suspends
<1>0. waiting \in BOOLEAN /\ (todo # <<>> => Head(todo) = todo[1])
  BY TailFacts DEF Typed, Formed
<1>1. CASE UNCHANGED vars
  BY <1>1 DEF vars
<1>2. CASE ChecksCapability
  BY <1>0, <1>2 DEF ChecksCapability
<1>3. CASE FindsWindow \/ ConfiguresOverlay \/ ReappliesPolicy \/ SetsBounds \/ AttachesParent
           \/ AdoptsParentBounds \/ DetachesParent
  BY <1>3 DEF FindsWindow, ConfiguresOverlay, ReappliesPolicy, SetsBounds, AttachesParent,
     AdoptsParentBounds, DetachesParent
<1>4. CASE ComparesBounds \/ ComparesFullscreen \/ TargetAnswered \/ TargetExited \/ ParentFound
  BY <1>4 DEF ComparesBounds, ComparesFullscreen, TargetAnswered, TargetExited, ParentFound
<1>5. CASE AnnouncesReady \/ ClosedThrows \/ ChecksAssertions \/ Rendered \/ TargetIsReady \/ TimesOut
  BY <1>5 DEF AnnouncesReady, ClosedThrows, ChecksAssertions, Rendered, TargetIsReady, TimesOut,
     Throws
<1>6. CASE BeginsToWait \/ SpawnsTarget
  BY <1>0, <1>6 DEF BeginsToWait, SpawnsTarget, Awaited
<1>7. CASE CommandsTarget
  BY <1>0, <1>7 DEF CommandsTarget, Throws, Awaited, This
<1>8. CASE Quits \/ Exits \/ PlacesOverlay \/ Targeted
  BY <1>8 DEF Quits, Exits, PlacesOverlay, Targeted
<1> QED
  BY <1>1, <1>2, <1>3, <1>4, <1>5, <1>6, <1>7, <1>8 DEF Next, Runs

(* The step that is skipped with a command is there.                       *)
LEMMA SkipsTwo ==
  Typed /\ Skips => Tail(todo) # <<>> /\ Formed(Tail(todo)) /\ Tail(todo)[1].op = "exit"
                    /\ Tail(todo)[1].t = todo[1].t
<1> SUFFICES ASSUME Typed, Skips PROVE Tail(todo) # <<>> /\ Formed(Tail(todo))
                    /\ Tail(todo)[1].op = "exit" /\ Tail(todo)[1].t = todo[1].t
  OBVIOUS
<1>1. WellFormed(todo, 1) /\ Formed(todo) /\ todo # <<>>
  BY TailFacts DEF Typed, Formed, Skips
<1>2. Formed(Tail(todo))
  BY <1>1, FormedTail
<1>3. Len(todo) > 1 /\ todo[2].op = "exit" /\ todo[2].t = todo[1].t
  BY <1>1 DEF WellFormed, Skips
<1>4. Len(Tail(todo)) >= 1 /\ Tail(todo)[1] = todo[2]
  BY <1>1, <1>3, TailFacts DEF Formed
<1>5. Tail(todo) # <<>>
  BY <1>4, NotEmpty, Zenon
<1> QED
  BY <1>2, <1>3, <1>4, <1>5

LEMMA StepFormed ==
  Typed /\ [Next]_vars =>
    /\ Formed(todo') /\ waiting' \in BOOLEAN
    /\ waiting' => todo' # <<>> /\ Head(todo').op \in Awaited
<1> SUFFICES ASSUME Typed, [Next]_vars
             PROVE  /\ Formed(todo') /\ waiting' \in BOOLEAN
                    /\ waiting' => todo' # <<>> /\ Head(todo').op \in Awaited
  OBVIOUS
<1>1. CASE Goes
  BY <1>1, FormedTail DEF Typed, Goes
<1>2. CASE Waits
  BY <1>2, TailFacts DEF Typed, Formed, Waits
<1>3. CASE Skips
  BY <1>3, SkipsTwo, FormedTail DEF Skips
<1>4. CASE Gives
  BY <1>4, UnsupportedFormed DEF Gives
<1>5. CASE UNCHANGED <<todo, waiting>>
  BY <1>5 DEF Typed
<1> QED
  BY <1>1, <1>2, <1>3, <1>4, <1>5, Moves
-----------------------------------------------------------------------------
(* What a step of a target does to it.                                     *)

LEMMA BoundsType == \A place \in Places : Bounds(place) \in Geometry
BY DEF Bounds, Geometry, Places

Living == {"starting", "idle", "settling", "stopping", "closing", "deaf"}
Moved(o, r) ==
  /\ r.command = o.command
  /\ \/ r.last = o.last /\ r.applied = o.applied
     \/ /\ o.command.sequence > o.last /\ r.last = o.command.sequence
        /\ r.applied = Append(o.applied, o.command.action)
  /\ r.answer.sequence \in {o.answer.sequence, o.last}
  /\ r.title = o.title \/ o.command.action = "set-title"
  /\ r.process = "none" <=> o.process = "none"
  /\ o.process \in Ended => r.process \in Ended
  /\ o.killed => r.killed
  /\ r.window = "viewable" => o.window = "viewable" \/ o.process \in Living
  /\ r.process = "starting" => o.process = "starting" /\ (o.window = "none" => r.window = "none")
  /\ o.process # "starting" /\ o.window = "viewable" => r.window = "viewable" \/ r.process \in Ended
  /\ o.process = "none" => r.window \in {o.window, "none"}

LEMMA TargetMoves ==
  ASSUME World, NEW t \in Targets, TargetNext(t)
  PROVE  \E r \in TargetRecords : target' = [target EXCEPT ![t] = r] /\ Moved(target[t], r)
<1> DEFINE o == target[t]
           P(r) == r \in TargetRecords /\ target' = [target EXCEPT ![t] = r] /\ Moved(o, r)
<1> SUFFICES \E r : P(r)
  OBVIOUS
<1>0. o \in TargetRecords /\ (o.command.action = "set-bounds" => o.command.detail \in Places)
  BY DEF World, TargetTyped
<1> USE DEF Processes, Ended, Living
<1>1. ASSUME BecomesReady(t) PROVE \E r : P(r)
  <2>1. CASE target[t].removed
    <3> DEFINE r == [o EXCEPT !.process = "exited"]
    <3>1. r \in TargetRecords /\ Moved(o, r)
      BY <1>0, <1>1 DEF TargetRecords, Moved, BecomesReady
    <3>2. target' = [target EXCEPT ![t] = r]
      BY <1>1, <2>1 DEF BecomesReady
    <3> QED BY <3>1, <3>2
  <2>2. CASE ~target[t].removed
    <3> DEFINE r == [o EXCEPT !.process = "idle", !.ready = TRUE, !.window = "shown"]
    <3>1. r \in TargetRecords /\ Moved(o, r)
      BY <1>0, <1>1 DEF TargetRecords, Moved, BecomesReady, Windows
    <3>2. target' = [target EXCEPT ![t] = r]
      BY <1>1, <2>2 DEF BecomesReady
    <3> QED BY <3>1, <3>2
  <2> QED BY <2>1, <2>2
<1>2. ASSUME TakesCommand(t) PROVE \E r : P(r)
  <2> DEFINE c == o.command
             wanted == Wanted(c, o.wanted)
             window == Shown(c, o.window)
             title == IF c.action = "set-title" THEN c.detail ELSE o.title
             focus == o.focus \/ c.action = "focus"
             process == IF c.action = "close" THEN "stopping" ELSE "settling"
             applied == Append(o.applied, c.action)
             r == [o EXCEPT !.last = c.sequence, !.applied = applied, !.wanted = wanted,
                            !.window = window, !.title = title, !.focus = focus,
                            !.process = process]
  <2>1. c \in [sequence: Nat, action: Actions \cup {"none"}, detail: Words]
    BY <1>0 DEF TargetRecords
  <2>2. wanted \in Geometry
    BY <1>0, BoundsType DEF Wanted, Places, TargetRecords
  <2>3. window \in Windows /\ (window = "viewable" <=> o.window = "viewable")
    BY <1>0, <2>1 DEF Shown, Windows, TargetRecords, Actions
  <2>4. title \in Words /\ focus \in BOOLEAN /\ process \in {"stopping", "settling"}
    BY <1>0, <2>1 DEF TargetRecords
  <2>5. applied \in Seq(Actions)
    <3>1. c.action \in Actions
      BY <1>2 DEF TakesCommand, World, TargetTyped
    <3> QED BY <1>0, <3>1 DEF TargetRecords
  <2>6. target' = [target EXCEPT ![t] = r]
    BY <1>2 DEF TakesCommand
  <2>7. c.sequence > o.last
    BY <1>2 DEF TakesCommand, IsNew
  <2> HIDE DEF wanted, window, title, focus, process, applied
  <2>8. r \in TargetRecords
    BY <1>0, <2>1, <2>2, <2>3, <2>4, <2>5 DEF TargetRecords
  <2>9. Moved(o, r)
    BY <1>0, <1>2, <2>3, <2>4, <2>7 DEF TakesCommand, TargetRecords, Moved, title, applied
  <2> QED BY <2>6, <2>8, <2>9
<1>3. ASSUME Answers(t) PROVE \E r : P(r)
  <2> DEFINE process == IF o.process = "settling" THEN "idle" ELSE "deaf"
             r == [o EXCEPT !.process = process]
  <2>1. CASE target[t].removed
    <3>1. r \in TargetRecords /\ Moved(o, r)
      BY <1>0, <1>3 DEF TargetRecords, Moved, Answers
    <3>2. target' = [target EXCEPT ![t] = r]
      BY <1>3, <2>1 DEF Answers
    <3> QED BY <3>1, <3>2
  <2>2. CASE ~target[t].removed
    <3> DEFINE next == IF o.process = "settling" THEN "idle" ELSE "closing"
    <3>1. PICK fullscreen \in BOOLEAN :
            target' = [target EXCEPT
              ![t].answer = [sequence |-> target[t].last, fullscreen |-> fullscreen],
              ![t].process = next]
      BY <1>3, <2>2 DEF Answers
    <3> DEFINE q == [o EXCEPT !.answer = [sequence |-> o.last, fullscreen |-> fullscreen],
                              !.process = next]
    <3>2. q \in TargetRecords /\ Moved(o, q)
      BY <1>0, <1>3 DEF TargetRecords, Moved, Answers
    <3>3. target' = [target EXCEPT ![t] = q]
      BY <3>1
    <3> QED BY <3>2, <3>3
  <2> QED BY <2>1, <2>2
<1>4. ASSUME Closes(t) PROVE \E r : P(r)
  <2> DEFINE r == [o EXCEPT !.process = "exited"]
  <2>1. r \in TargetRecords /\ Moved(o, r)
    BY <1>0, <1>4 DEF TargetRecords, Moved, Closes
  <2> QED BY <1>4, <2>1 DEF Closes
<1>5. ASSUME Fails(t) \/ Terminates(t) PROVE \E r : P(r)
  <2>1. PICK end \in Ended \cup {"deaf"} :
          /\ target' = [target EXCEPT ![t].process = end]
          /\ o.process \in Living /\ (end = "deaf" => o.process \in {"idle", "settling"})
    BY <1>5 DEF Fails, Terminates, Alive
  <2> DEFINE r == [o EXCEPT !.process = end]
  <2>2. r \in TargetRecords /\ Moved(o, r)
    BY <1>0, <2>1 DEF TargetRecords, Moved
  <2> QED BY <2>1, <2>2
<1>6. ASSUME MapsWindow(t) PROVE \E r : P(r)
  <2> DEFINE r == [o EXCEPT !.window = "viewable"]
  <2>1. r \in TargetRecords /\ Moved(o, r)
    BY <1>0, <1>6 DEF TargetRecords, Moved, MapsWindow, Alive, Windows
  <2> QED BY <1>6, <2>1 DEF MapsWindow
<1>7. ASSUME PlacesWindow(t) PROVE \E r : P(r)
  <2>1. PICK part \in {"at", "size"} :
          target' = [target EXCEPT ![t].seen[part] = target[t].wanted[part]]
    BY <1>7 DEF PlacesWindow
  <2> DEFINE seen == [o.seen EXCEPT ![part] = o.wanted[part]]
             r == [o EXCEPT !.seen = seen]
  <2>2. seen \in Geometry
    <3>1. o.seen \in Geometry /\ o.wanted \in Geometry
      BY <1>0 DEF TargetRecords
    <3>2. CASE part = "at"
      BY <3>1, <3>2 DEF Geometry
    <3>3. CASE part = "size"
      BY <3>1, <3>3 DEF Geometry
    <3> QED BY <3>2, <3>3
  <2>3. target' = [target EXCEPT ![t] = r]
    BY <2>1
  <2> HIDE DEF seen
  <2>4. r \in TargetRecords /\ Moved(o, r)
    BY <1>0, <2>2 DEF TargetRecords, Moved
  <2> QED BY <2>3, <2>4
<1>8. ASSUME Activates(t) PROVE \E r : P(r)
  <2> DEFINE r == [o EXCEPT !.focus = FALSE]
  <2>1. r \in TargetRecords /\ Moved(o, r)
    BY <1>0 DEF TargetRecords, Moved
  <2> QED BY <1>8, <2>1 DEF Activates
<1>9. ASSUME DestroysWindow(t) PROVE \E r : P(r)
  <2> DEFINE r == [o EXCEPT !.window = "none"]
  <2>1. r \in TargetRecords /\ Moved(o, r)
    BY <1>0, <1>9 DEF TargetRecords, Moved, Windows, DestroysWindow
  <2> QED BY <1>9, <2>1 DEF DestroysWindow
<1> QED
  BY <1>1, <1>2, <1>3, <1>4, <1>5, <1>6, <1>7, <1>8, <1>9 DEF TargetNext
-----------------------------------------------------------------------------
(* What a step of the system does to the targets: they move on by          *)
(* themselves, one is started, or one is sent a command.                   *)

Advances ==
  /\ target' \in [Targets -> TargetRecords] /\ sent' = sent
  /\ \A t \in Targets : Moved(target[t], target'[t])

Starts(t) ==
  /\ Begins("spawn") /\ Suspends /\ t = todo[1].t /\ t \in Targets
  /\ target' = [target EXCEPT ![t] = [@ EXCEPT !.process = "starting", !.title = todo[1].arg]]
  /\ sent' = sent /\ active' = active /\ cleanups' = cleanups \cup {t}

Sends(t) ==
  /\ Begins("command") /\ Suspends /\ t = todo[1].t /\ t \in Targets
  /\ sent' = [sent EXCEPT ![t] = Append(@, todo[1].arg.action)]
  /\ target' = [target EXCEPT ![t] = [@ EXCEPT !.command =
       [sequence |-> Len(sent'[t]), action |-> todo[1].arg.action, detail |-> todo[1].arg.detail]]]
  /\ active' = active /\ demo' = demo /\ cleanups' = cleanups

LEMMA StaysPut == ASSUME World, UNCHANGED <<target, sent>> PROVE Advances
BY DEF World, Advances, Moved, TargetRecords, Processes, Ended, Living

LEMMA CleanUpAdvances == ASSUME World, CleansUp, UNCHANGED sent PROVE Advances
<1>1. \A t \in Targets : target[t] \in TargetRecords
  BY DEF World
<1>2. ASSUME NEW t \in Targets
      PROVE  target'[t] \in TargetRecords /\ Moved(target[t], target'[t])
  <2> DEFINE o == target[t]
             killed == o.killed \/ Alive(t)
             r == [o EXCEPT !.killed = killed, !.removed = TRUE]
  <2>1. target'[t] = o \/ target'[t] = r
    BY DEF CleansUp
  <2>2. killed \in BOOLEAN /\ (o.killed => killed)
    BY <1>1 DEF TargetRecords, Alive
  <2> HIDE DEF killed
  <2>3. r \in TargetRecords /\ Moved(o, r) /\ Moved(o, o)
    BY <1>1, <2>2 DEF TargetRecords, Moved, Processes, Ended, Living
  <2> QED BY <1>1, <2>1, <2>3
<1> QED BY <1>2 DEF CleansUp, Advances

LEMMA StepTargets ==
  Typed /\ [Next]_vars => Advances \/ \E t \in {"first", "second"} : Starts(t) \/ Sends(t)
<1> SUFFICES ASSUME Typed, [Next]_vars
             PROVE  Advances \/ \E t \in {"first", "second"} : Starts(t) \/ Sends(t)
  OBVIOUS
<1>0. World
  BY DEF Typed
<1>1. CASE UNCHANGED <<target, sent>>
  BY <1>0, <1>1, StaysPut
<1>2. CASE Throws \/ Quits
  BY <1>0, <1>2, CleanUpAdvances DEF Throws, Quits
<1>3. todo # <<>> => Head(todo) = todo[1] /\ WellFormed(todo, 1)
  BY TailFacts DEF Typed, Formed
<1>4. CASE SpawnsTarget
  <2>1. todo # <<>> /\ Head(todo).op = "spawn"
    BY <1>4 DEF SpawnsTarget, Begins, Main
  <2>2. todo[1].t \in {"first", "second"}
    BY <1>3, <2>1 DEF WellFormed
  <2>3. target' = [target EXCEPT ![todo[1].t] =
          [@ EXCEPT !.process = "starting", !.title = todo[1].arg]]
    BY <1>3, <1>4, <2>1 DEF SpawnsTarget, This
  <2>4. Starts(todo[1].t)
    BY <1>3, <1>4, <2>1, <2>2, <2>3 DEF SpawnsTarget, Starts, Registers, This
  <2> QED BY <2>2, <2>4
<1>5. CASE CommandsTarget
  <2>1. todo # <<>> /\ Head(todo).op = "command" /\ Begins("command")
    BY <1>5 DEF CommandsTarget, Begins, Main
  <2>2. todo[1].t \in {"first", "second"} /\ This = todo[1]
    BY <1>3, <2>1 DEF WellFormed, This
  <2>3. UNCHANGED <<target, sent>> \/ Throws \/ Sends(todo[1].t)
    BY <1>5, <2>1, <2>2 DEF CommandsTarget, Sends, world, life
  <2> QED BY <1>1, <1>2, <2>2, <2>3
<1>6. CASE Targeted
  <2>1. PICK t \in Targets : TargetNext(t)
    BY <1>6 DEF Targeted
  <2>2. PICK r \in TargetRecords : target' = [target EXCEPT ![t] = r] /\ Moved(target[t], r)
    BY <1>0, <2>1, TargetMoves
  <2>3. \A u \in Targets : Moved(target[u], target[u])
    BY <1>0 DEF World, Moved, TargetRecords, Processes, Ended, Living
  <2>4. sent' = sent
    BY <1>6 DEF Targeted
  <2> QED BY <1>0, <2>2, <2>3, <2>4 DEF World, Advances
<1>7. CASE UNCHANGED vars
  BY <1>1, <1>7 DEF vars, world
<1>8. CASE Runs /\ ~SpawnsTarget /\ ~CommandsTarget
  <2>1. UNCHANGED <<target, sent>> \/ Throws
    BY <1>8 DEF Runs, world, ChecksCapability, FindsWindow, ConfiguresOverlay, ClosedThrows,
       ReappliesPolicy, SetsBounds, AttachesParent, AdoptsParentBounds, DetachesParent,
       ComparesBounds, ComparesFullscreen, ChecksAssertions, AnnouncesReady, BeginsToWait,
       Rendered, TargetIsReady, TargetAnswered, TargetExited, ParentFound, TimesOut
  <2> QED BY <1>1, <1>2, <2>1
<1>9. CASE Exits \/ PlacesOverlay
  BY <1>1, <1>9 DEF Exits, PlacesOverlay, world
<1> QED
  BY <1>2, <1>4, <1>5, <1>6, <1>7, <1>8, <1>9 DEF Next
-----------------------------------------------------------------------------
(* Types are kept.                                                         *)

LEMMA ActiveTyped == Typed /\ [Next]_vars => active' \in Targets \cup {"none"}
<1> SUFFICES ASSUME Typed, [Next]_vars PROVE active' \in Targets \cup {"none"}
  OBVIOUS
<1>0. active \in Targets \cup {"none"}
  BY DEF Typed, World
<1>1. CASE Targeted
  BY <1>0, <1>1 DEF Targeted, TargetNext, BecomesReady, TakesCommand, Answers, Closes, Fails,
     Terminates, MapsWindow, PlacesWindow, Activates, DestroysWindow
<1>2. CASE UNCHANGED vars \/ Quits \/ Exits \/ PlacesOverlay
  BY <1>0, <1>2 DEF vars, world, Quits, Exits, PlacesOverlay
<1>3. CASE Runs
  BY <1>0, <1>3 DEF Runs, world, ChecksCapability, FindsWindow, ConfiguresOverlay, ClosedThrows,
     ReappliesPolicy, SetsBounds, AttachesParent, AdoptsParentBounds, DetachesParent,
     ComparesBounds, ComparesFullscreen, ChecksAssertions, AnnouncesReady, BeginsToWait,
     Rendered, TargetIsReady, TargetAnswered, TargetExited, ParentFound, TimesOut, SpawnsTarget,
     CommandsTarget, Throws
<1> QED
  BY <1>1, <1>2, <1>3 DEF Next

LEMMA MovedTyped ==
  ASSUME NEW o, NEW q, TargetTyped(o, q), NEW r \in TargetRecords, Moved(o, r)
  PROVE  TargetTyped(r, q)
BY DEF TargetTyped, Moved, TargetRecords

LEMMA StepWorld == Typed /\ [Next]_vars => World'
<1> SUFFICES ASSUME Typed, [Next]_vars PROVE World'
  OBVIOUS
<1>0. World /\ active' \in Targets \cup {"none"}
  BY ActiveTyped DEF Typed
<1>1. CASE Advances
  <2>1. ASSUME NEW t \in Targets PROVE TargetTyped(target'[t], sent[t])
    BY <1>0, <1>1, MovedTyped DEF World, Advances
  <2> QED BY <1>0, <1>1, <2>1 DEF World, Advances
<1>2. ASSUME NEW t \in {"first", "second"}, Starts(t) PROVE World'
  <2> DEFINE o == target[t]
             r == [o EXCEPT !.process = "starting", !.title = todo[1].arg]
  <2>1. TargetTyped(o, sent[t]) /\ o \in TargetRecords
    BY <1>0, <1>2 DEF World, Starts
  <2>2. todo[1].arg \in Words
    BY <1>2, TailFacts DEF Typed, Formed, WellFormed, Starts, Begins, Main
  <2>3. r \in TargetRecords /\ TargetTyped(r, sent[t])
    BY <2>1, <2>2 DEF TargetRecords, TargetTyped, Processes
  <2>4. target' = [target EXCEPT ![t] = r] /\ sent' = sent
    BY <1>2 DEF Starts
  <2> QED BY <1>0, <2>3, <2>4 DEF World
<1>3. ASSUME NEW t \in {"first", "second"}, Sends(t) PROVE World'
  <2> DEFINE o == target[t]
             q == Append(sent[t], todo[1].arg.action)
             c == [sequence |-> Len(q), action |-> todo[1].arg.action,
                   detail |-> todo[1].arg.detail]
             r == [o EXCEPT !.command = c]
  <2>1. TargetTyped(o, sent[t]) /\ o \in TargetRecords /\ sent[t] \in Seq(Actions)
    BY <1>0, <1>3 DEF World, Sends
  <2>2. /\ todo[1].arg \in [action: Actions, detail: Words]
        /\ todo[1].arg.action = "set-bounds" => todo[1].arg.detail \in Places
    <3>1. todo # <<>> /\ Head(todo).op = "command"
      BY <1>3 DEF Sends, Begins, Main
    <3>2. todo[1].op = "command" /\ WellFormed(todo, 1)
      BY <3>1, TailFacts DEF Typed, Formed
    <3> QED BY <3>2 DEF WellFormed
  <2>3. q \in Seq(Actions) /\ Len(q) = Len(sent[t]) + 1 /\ Len(q) \in Nat
    BY <2>1, <2>2
  <2> HIDE DEF q
  <2>4. r \in TargetRecords
    BY <2>1, <2>2, <2>3 DEF TargetRecords
  <2>5. TargetTyped(r, q)
    BY <2>1, <2>2, <2>3, <2>4 DEF TargetRecords, TargetTyped
  <2>6. sent' = [sent EXCEPT ![t] = q]
    BY <1>3 DEF Sends, q
  <2>7. sent'[t] = q
    BY <1>0, <2>6 DEF World
  <2>8. target' = [target EXCEPT ![t] = r]
    BY <1>3, <2>7 DEF Sends
  <2> QED BY <1>0, <2>3, <2>4, <2>5, <2>6, <2>8 DEF World
<1> QED
  BY <1>1, <1>2, <1>3, StepTargets

LEMMA StepTyped == Typed /\ [Next]_vars => Typed'
<1> SUFFICES ASSUME Typed, [Next]_vars PROVE Typed'
  OBVIOUS
<1> DEFINE Rest ==
      /\ scenario \in Scenarios /\ backend \in SelectBackend
      /\ demo \in {"running", "quitting", "exited"}
      /\ report \in {"none", "pass", "unsupported"}
      /\ cleanups \subseteq Targets \cup {"controller"}
      /\ controller \in SelectBackend \cup {"none", "closed"}
      /\ parent \in Targets \cup {"none"}
      /\ overlay \in [asked: Geometry, seen: Geometry] /\ found \in Geometry
      /\ passing \in BOOLEAN
<1>0. Rest /\ World
  BY DEF Typed
<1>1. todo # <<>> => Head(todo) = todo[1] /\ WellFormed(todo, 1)
  BY TailFacts DEF Typed, Formed
<1>3. Rest'
  <2> USE DEF run, life, policy, CleansUp, SelectBackend, This, Asserts
  <2>1. CASE Quits \/ Exits \/ PlacesOverlay \/ Targeted \/ UNCHANGED vars
    BY <1>0, <2>1 DEF Quits, Exits, PlacesOverlay, Targeted, vars
  <2>2. CASE Throws
    BY <1>0, <2>2 DEF Throws
  <2>3. CASE ConfiguresOverlay
    <3>1. todo[1].arg \in Places /\ This = todo[1]
      BY <1>1, <2>3 DEF ConfiguresOverlay, Begins, Main, WellFormed
    <3> QED BY <1>0, <2>3, <3>1, BoundsType DEF ConfiguresOverlay
  <2>4. CASE SetsBounds
    <3>1. todo[1].arg \in Places /\ This = todo[1]
      BY <1>1, <2>4 DEF SetsBounds, Calls, Begins, Main, WellFormed
    <3> QED BY <1>0, <2>4, <3>1, BoundsType DEF SetsBounds
  <2>5. CASE AttachesParent
    BY <1>0, <2>5 DEF AttachesParent, Found
  <2>6. CASE AdoptsParentBounds
    <3>1. parent # "none" => target[parent].seen \in Geometry
      BY <1>0 DEF World, TargetRecords
    <3> QED BY <1>0, <2>6, <3>1 DEF AdoptsParentBounds
  <2>7. CASE DetachesParent \/ FindsWindow \/ ReappliesPolicy \/ ComparesBounds \/ ComparesFullscreen
    BY <1>0, <2>7 DEF DetachesParent, FindsWindow, ReappliesPolicy, ComparesBounds, ComparesFullscreen
  <2>8. CASE AnnouncesReady
    <3>1. todo[1].arg \in {"pass", "unsupported"} /\ This = todo[1]
      BY <1>1, <2>8 DEF AnnouncesReady, Awaits, Main, WellFormed
    <3> QED BY <1>0, <2>2, <2>8, <3>1 DEF AnnouncesReady
  <2>9. CASE ParentFound
    <3>1. \A t \in Targets : target[t].seen \in Geometry
      BY <1>0 DEF World, TargetRecords
    <3> QED BY <1>0, <2>9, <3>1 DEF ParentFound, Found
  <2>10. CASE ChecksCapability \/ ClosedThrows \/ ChecksAssertions \/ BeginsToWait \/ Rendered
              \/ TargetIsReady \/ TargetAnswered \/ TargetExited \/ TimesOut
    BY <1>0, <2>2, <2>10 DEF ChecksCapability, ClosedThrows, ChecksAssertions, BeginsToWait,
       Rendered, TargetIsReady, TargetAnswered, TargetExited, TimesOut
  <2>11. CASE SpawnsTarget
    <3>1. This.t \in Targets
      BY <1>1, <2>11 DEF SpawnsTarget, Begins, Main, WellFormed
    <3> QED BY <1>0, <2>11, <3>1 DEF SpawnsTarget, Registers
  <2>12. CASE CommandsTarget
    BY <1>0, <2>2, <2>12 DEF CommandsTarget
  <2> QED
    BY <2>1, <2>2, <2>3, <2>4, <2>5, <2>6, <2>7, <2>8, <2>9, <2>10, <2>11, <2>12 DEF Next, Runs
<1> QED
  BY <1>3, StepFormed, StepWorld DEF Typed

(* Every reachable state of the demo and its targets is well-typed.        *)
THEOREM DemoTyped == Spec => []TypeOK
<1>1. Typed => TypeOK
  <2> SUFFICES ASSUME Typed PROVE TypeOK
    OBVIOUS
  <2>1. ASSUME NEW t \in Targets
        PROVE  /\ target[t].process \in {"none", "starting", "idle", "settling", "stopping",
                                         "closing", "deaf"} \cup Ended
               /\ target[t].last \in 0 .. target[t].command.sequence
               /\ target[t].answer.sequence \in 0 .. target[t].last
               /\ target[t].window \in {"none", "shown", "viewable", "hidden"}
               /\ {target[t].wanted, target[t].seen} \subseteq Geometry
    <3> DEFINE o == target[t]
    <3>1. o \in TargetRecords /\ TargetTyped(o, sent[t])
      BY DEF Typed, World
    <3>2. /\ o.process \in Processes /\ o.window \in Windows /\ o.wanted \in Geometry
          /\ o.seen \in Geometry /\ o.last \in Nat /\ o.answer.sequence \in Nat
          /\ o.command.sequence \in Nat
      BY <3>1 DEF TargetRecords
    <3>3. o.last <= o.command.sequence /\ o.answer.sequence <= o.last
      BY <3>1 DEF TargetTyped
    <3> HIDE DEF o
    <3>4. o.last \in 0 .. o.command.sequence /\ o.answer.sequence \in 0 .. o.last
      BY <3>2, <3>3
    <3> QED BY <3>2, <3>4 DEF Processes, Windows, o
  <2>2. TargetsOK
    BY <2>1 DEF Typed, World, TargetsOK
  <2> QED BY <2>2 DEF Typed, TypeOK
<1> QED
  BY <1>1, InitTyped, StepTyped, PTL DEF Spec
-----------------------------------------------------------------------------
(* A target is known for as long as it lives.                              *)

NoOrphan == \A t \in Targets : Alive(t) => target[t].killed \/ t \in cleanups

LEMMA Forgets == Typed /\ [Next]_vars => CleansUp \/ cleanups \subseteq cleanups'
<1> SUFFICES ASSUME Typed, [Next]_vars PROVE CleansUp \/ cleanups \subseteq cleanups'
  OBVIOUS
<1> USE DEF life
<1>1. CASE UNCHANGED vars \/ Quits \/ Exits \/ PlacesOverlay \/ Targeted
  BY <1>1 DEF vars, Quits, Exits, PlacesOverlay, Targeted
<1>2. CASE Runs
  BY <1>2 DEF Runs, ChecksCapability, FindsWindow, ConfiguresOverlay, ClosedThrows,
     ReappliesPolicy, SetsBounds, AttachesParent, AdoptsParentBounds, DetachesParent,
     ComparesBounds, ComparesFullscreen, ChecksAssertions, AnnouncesReady, BeginsToWait,
     Rendered, TargetIsReady, TargetAnswered, TargetExited, ParentFound, TimesOut, SpawnsTarget,
     Registers, CommandsTarget, Throws
<1> QED BY <1>1, <1>2 DEF Next

(* At every moment a target that lives is one cleanup() would kill or has  *)
(* killed: spawnTarget() registers it before anything can end the demo.    *)
THEOREM DemoNoOrphan == Spec => []NoOrphan
<1>1. Init => NoOrphan
  BY DEF Init, InitTargets, NoTarget, NoOrphan, Alive
<1>2. Typed /\ NoOrphan /\ [Next]_vars => NoOrphan'
  <2> SUFFICES ASSUME Typed, NoOrphan, [Next]_vars, NEW t \in Targets, Alive(t)'
               PROVE  target'[t].killed \/ t \in cleanups'
    BY DEF NoOrphan
  <2>0. target \in [Targets -> TargetRecords] /\ target[t] \in TargetRecords
    BY DEF Typed, World
  <2>1. CASE CleansUp
    <3>1. Alive(t) /\ (t \in cleanups => target'[t].killed)
          /\ (t \notin cleanups => target'[t] = target[t])
      BY <2>0, <2>1 DEF CleansUp, Alive, TargetRecords
    <3> QED BY <3>1 DEF NoOrphan
  <2>2. CASE Advances /\ cleanups \subseteq cleanups'
    <3>1. Moved(target[t], target'[t]) /\ target'[t] \in TargetRecords
      BY <2>2 DEF Advances
    <3>2. Alive(t)
      BY <2>0, <3>1 DEF Moved, Alive, TargetRecords, Processes, Ended
    <3> QED BY <2>2, <3>1, <3>2 DEF NoOrphan, Moved
  <2>3. ASSUME NEW u \in {"first", "second"}, Starts(u)
        PROVE  target'[t].killed \/ t \in cleanups'
    BY <2>0, <2>3 DEF Starts, NoOrphan, Alive, TargetRecords
  <2>4. ASSUME NEW u \in {"first", "second"}, Sends(u)
        PROVE  target'[t].killed \/ t \in cleanups'
    BY <2>0, <2>4 DEF Sends, NoOrphan, Alive, TargetRecords
  <2> QED
    BY <2>1, <2>2, <2>3, <2>4, Forgets, StepTargets
<1> QED
  BY <1>1, <1>2, InitTyped, StepTyped, PTL DEF Spec
-----------------------------------------------------------------------------
(* The exchange of commands and answers.  A target has applied all it was  *)
(* sent, or all but the command the demo is waiting for.                   *)

Awaiting(t) == waiting /\ todo # <<>> /\ todo[1].op = "command" /\ todo[1].t = t
Exchanged(t) ==
  IF target[t].last = Len(sent[t])
  THEN target[t].applied = sent[t]
  ELSE /\ sent[t] = Append(target[t].applied, target[t].command.action)
       /\ target[t].last = Len(target[t].applied)
       /\ demo # "exited" => Awaiting(t)
Exchange == \A t \in Targets : Exchanged(t)

LEMMA ExitedStays == [Next]_vars /\ demo = "exited" => demo' = "exited"
<1> SUFFICES ASSUME [Next]_vars, demo = "exited" PROVE demo' = "exited"
  OBVIOUS
<1> USE DEF life
<1>1. CASE UNCHANGED vars \/ Quits \/ Exits \/ PlacesOverlay \/ Targeted
  BY <1>1 DEF vars, Quits, Exits, PlacesOverlay, Targeted
<1>2. CASE Runs
  BY <1>2 DEF Runs, ChecksCapability, FindsWindow, ConfiguresOverlay, ClosedThrows,
     ReappliesPolicy, SetsBounds, AttachesParent, AdoptsParentBounds, DetachesParent,
     ComparesBounds, ComparesFullscreen, ChecksAssertions, AnnouncesReady, BeginsToWait,
     Rendered, TargetIsReady, TargetAnswered, TargetExited, ParentFound, TimesOut, SpawnsTarget,
     CommandsTarget, Throws, Begins, Awaits, Calls, Main
<1> QED BY <1>1, <1>2 DEF Next

(* Only the answer to the last command ends the wait for it.               *)
LEMMA GoesWhenAnswered ==
  ASSUME Typed, [Next]_vars, NEW t \in Targets, Awaiting(t), ~(Awaiting(t)')
  PROVE  demo' = "exited" \/ target[t].last = Len(sent[t])
<1>0. /\ todo # <<>> /\ Head(todo) = todo[1] /\ waiting /\ todo[1].op = "command" /\ todo[1].t = t
      /\ This = todo[1]
  BY TailFacts DEF Typed, Formed, Awaiting, This
<1>1. ~UNCHANGED <<todo, waiting>>
  BY <1>0 DEF Awaiting
<1>2. ~(UNCHANGED vars \/ Quits \/ Exits \/ PlacesOverlay \/ Targeted)
  BY <1>1 DEF vars, Quits, Exits, PlacesOverlay, Targeted
<1>3. Runs
  BY <1>2 DEF Next
<1>4. ~(ChecksCapability \/ FindsWindow \/ ConfiguresOverlay \/ ClosedThrows \/ ReappliesPolicy
        \/ SetsBounds \/ AttachesParent \/ AdoptsParentBounds \/ DetachesParent \/ ComparesBounds
        \/ ComparesFullscreen \/ ChecksAssertions \/ BeginsToWait
        \/ SpawnsTarget \/ CommandsTarget)
  BY <1>0 DEF ChecksCapability, FindsWindow, ConfiguresOverlay, ClosedThrows, ReappliesPolicy,
     SetsBounds, AttachesParent, AdoptsParentBounds, DetachesParent, ComparesBounds,
     ComparesFullscreen, ChecksAssertions, BeginsToWait, SpawnsTarget, CommandsTarget, Calls, Begins
<1>5. ~(Rendered \/ TargetIsReady \/ TargetExited \/ ParentFound \/ AnnouncesReady)
  BY <1>0 DEF Rendered, TargetIsReady, TargetExited, ParentFound, AnnouncesReady, Awaits, Main
<1>6. CASE TimesOut
  BY <1>6 DEF TimesOut, Throws
<1>7. CASE TargetAnswered
  <2>1. target[t].answer.sequence = Len(sent[t])
    BY <1>0, <1>7 DEF TargetAnswered, IsAnswered
  <2>2. TargetTyped(target[t], sent[t])
    BY DEF Typed, World
  <2>3. /\ target[t].answer.sequence \in Nat /\ target[t].last \in Nat
        /\ target[t].answer.sequence <= target[t].last
        /\ target[t].last <= target[t].command.sequence
        /\ target[t].command.sequence = Len(sent[t])
    BY <2>2 DEF TargetTyped, TargetRecords
  <2> QED BY <2>1, <2>3
<1> QED BY <1>3, <1>4, <1>5, <1>6, <1>7 DEF Runs

LEMMA InitExchange == Init => Exchange
<1> SUFFICES ASSUME Init, NEW t \in Targets PROVE Exchanged(t)
  BY DEF Exchange
<1>1. target[t].last = 0 /\ target[t].applied = <<>> /\ sent[t] = <<>>
  BY DEF Init, InitTargets, NoTarget
<1>2. Len(<<>>) = 0
  OBVIOUS
<1> QED BY <1>1, <1>2 DEF Exchanged

LEMMA StepExchange == Typed /\ Exchange /\ [Next]_vars => Exchange'
<1> SUFFICES ASSUME Typed, Exchange, [Next]_vars, NEW t \in Targets PROVE Exchanged(t)'
  BY DEF Exchange
<1>0. /\ Exchanged(t) /\ target \in [Targets -> TargetRecords] /\ sent \in [Targets -> Seq(Actions)]
      /\ TargetTyped(target[t], sent[t])
  BY DEF Typed, World, Exchange
<1>1. CASE Advances
  <2> DEFINE o == target[t]
             r == target'[t]
  <2>1. Moved(o, r) /\ sent'[t] = sent[t]
    BY <1>1 DEF Advances
  <2>2. o.command.sequence = Len(sent[t]) /\ r.command = o.command
    BY <1>0, <2>1 DEF TargetTyped, Moved
  <2>3. CASE r.last = o.last /\ r.applied = o.applied
    <3>1. CASE o.last = Len(sent[t])
      BY <1>0, <2>1, <2>3, <3>1 DEF Exchanged
    <3>2. CASE o.last # Len(sent[t]) /\ demo' # "exited"
      <4>1. Awaiting(t)
        BY <1>0, <3>2, ExitedStays DEF Exchanged
      <4>2. Awaiting(t)'
        BY <3>2, <4>1, GoesWhenAnswered
      <4> QED BY <1>0, <2>1, <2>2, <2>3, <3>2, <4>2 DEF Exchanged
    <3>3. CASE o.last # Len(sent[t]) /\ demo' = "exited"
      BY <1>0, <2>1, <2>2, <2>3, <3>3 DEF Exchanged
    <3> QED BY <3>1, <3>2, <3>3
  <2>4. CASE /\ o.command.sequence > o.last /\ r.last = o.command.sequence
             /\ r.applied = Append(o.applied, o.command.action)
    <3>1. o.last # Len(sent[t])
      BY <1>0, <2>2, <2>4 DEF TargetTyped, TargetRecords
    <3> QED BY <1>0, <2>1, <2>2, <2>4, <3>1 DEF Exchanged
  <2> QED BY <2>1, <2>3, <2>4 DEF Moved
<1>2. ASSUME NEW u \in {"first", "second"}, Starts(u) PROVE Exchanged(t)'
  <2>1. target[t].last = Len(sent[t])
    BY <1>0, <1>2 DEF Exchanged, Awaiting, Starts, Begins, Main
  <2>2. /\ target'[t].last = target[t].last /\ target'[t].applied = target[t].applied
        /\ sent'[t] = sent[t]
    BY <1>0, <1>2 DEF Starts, TargetRecords
  <2> QED BY <1>0, <2>1, <2>2 DEF Exchanged
<1>3. ASSUME NEW u \in {"first", "second"}, Sends(u) PROVE Exchanged(t)'
  <2>1. target[t].last = Len(sent[t]) /\ target[t].applied = sent[t]
    BY <1>0, <1>3 DEF Exchanged, Awaiting, Sends, Begins, Main
  <2>2. target'[t].last = target[t].last /\ target'[t].applied = target[t].applied
    <3> DEFINE c == [sequence |-> Len(sent'[u]), action |-> todo[1].arg.action,
                     detail |-> todo[1].arg.detail]
               r == [target[u] EXCEPT !.command = c]
    <3>1. target' = [target EXCEPT ![u] = r] /\ u \in Targets
      BY <1>3 DEF Sends
    <3>2. r.last = target[u].last /\ r.applied = target[u].applied
      BY <1>0, <3>1 DEF TargetRecords
    <3> HIDE DEF r
    <3> QED BY <1>0, <3>1, <3>2
  <2>3. CASE t # u
    <3>1. sent'[t] = sent[t]
      BY <1>0, <1>3, <2>3 DEF Sends
    <3> QED BY <2>1, <2>2, <3>1 DEF Exchanged
  <2>4. CASE t = u
    <3>1. todo # <<>> /\ Head(todo).op = "command" /\ waiting' = TRUE /\ todo' = todo
      BY <1>3 DEF Sends, Begins, Main, Suspends
    <3>2. Awaiting(t)'
      BY <1>3, <2>4, <3>1, TailFacts DEF Typed, Formed, Awaiting, Sends
    <3>3. sent'[t] = Append(sent[t], todo[1].arg.action)
      BY <1>0, <1>3, <2>4 DEF Sends
    <3>4. target'[t].command.action = todo[1].arg.action
      BY <1>0, <1>3, <2>4 DEF Sends, TargetRecords
    <3>5. target[t].last # Len(sent'[t])
      BY <1>0, <2>1, <3>3
    <3> QED BY <2>1, <2>2, <3>2, <3>3, <3>4, <3>5 DEF Exchanged
  <2> QED BY <2>3, <2>4
<1> QED
  BY <1>1, <1>2, <1>3, StepTargets

(* When the demo goes on after a command, every target has carried out     *)
(* exactly what it was sent, each command once and in order.               *)
THEOREM DemoAnswerMeansDone == Spec => []AnswerMeansDone
<1>1. Exchange => AnswerMeansDone
  BY DEF Exchange, Exchanged, Awaiting, AnswerMeansDone
<1> QED
  BY <1>1, InitTyped, StepTyped, InitExchange, StepExchange, PTL DEF Spec
-----------------------------------------------------------------------------
(* What the scripts with a parent leave to their tails.                    *)

Promises(s) == \E i \in 1 .. Len(s) : s[i].op = "report" /\ s[i].arg = "pass"
Secured(s, held, ok) ==
  Promises(s) =>
    \/ held /\ ~Has(s, "detach", 1, Len(s))
    \/ Demands(s)
    \/ ~ok /\ Has(s, "check", 1, Len(s))

(* A step that is found to hold what it must hold, or is noted not to have,*)
(* keeps the promise for the rest.                                         *)
LEMMA SecuredTail ==
  ASSUME NEW s \in Seq(Steps), s # <<>>,
         NEW held, NEW ok, NEW held2, NEW ok2 \in BOOLEAN,
         Secured(s, held, ok),
         held /\ s[1].op # "detach" => held2,
         ok2 => ok,
         Must(s, 1) /\ ok2 => held2,
         s[1].op = "check" => ok
  PROVE  Secured(Tail(s), held2, ok2)
<1> DEFINE r == Tail(s)
           n == Len(s)
<1>1. /\ Len(r) = n - 1 /\ n \in Nat /\ n >= 1
      /\ \A i \in 1 .. n - 1 : r[i] = s[i + 1]
  BY TailFacts
<1> HIDE DEF r, n
<1>2. \A i \in 2 .. n : i - 1 \in 1 .. n - 1 /\ r[i - 1] = s[i]
  BY <1>1
<1> SUFFICES ASSUME Promises(r)
             PROVE  \/ held2 /\ ~Has(r, "detach", 1, n - 1)
                    \/ Demands(r)
                    \/ ~ok2 /\ Has(r, "check", 1, n - 1)
  BY <1>1 DEF Secured, r
<1>3. Promises(s)
  <2>1. PICK i \in 1 .. n - 1 : r[i].op = "report" /\ r[i].arg = "pass"
    BY <1>1 DEF Promises
  <2>2. i + 1 \in 1 .. n /\ s[i + 1] = r[i]
    BY <1>1
  <2> QED BY <2>1, <2>2 DEF Promises, n
<1>4. CASE held /\ ~Has(s, "detach", 1, n)
  <2>1. s[1].op # "detach" /\ ~Has(r, "detach", 1, n - 1)
    BY <1>1, <1>4 DEF Has
  <2> QED BY <1>4, <2>1
<1>5. ASSUME NEW i \in 1 .. n, Must(s, i), Has(s, "check", i + 1, n), ~Has(s, "detach", i + 1, n)
      PROVE  \/ held2 /\ ~Has(r, "detach", 1, n - 1)
             \/ Demands(r)
             \/ ~ok2 /\ Has(r, "check", 1, n - 1)
  <2>1. PICK k \in i + 1 .. n : s[k].op = "check"
    BY <1>5 DEF Has
  <2>2. k - 1 \in i .. n - 1 /\ k - 1 \in 1 .. n - 1 /\ r[k - 1].op = "check"
    BY <1>1, <1>2, <2>1
  <2>3. \A j \in i .. n - 1 : j + 1 \in i + 1 .. n /\ r[j] = s[j + 1]
    BY <1>1
  <2>4. \A j \in i .. n - 1 : r[j].op # "detach"
    BY <1>5, <2>3 DEF Has
  <2>5. CASE i = 1
    BY <1>5, <2>2, <2>4, <2>5 DEF Has
  <2>6. CASE i > 1
    <3>1. i - 1 \in 1 .. n - 1 /\ (i - 1) + 1 = i /\ r[i - 1] = s[i]
      <4>1. i \in 2 .. n /\ (i - 1) + 1 = i
        BY <1>1, <2>6
      <4>2. i - 1 \in 1 .. n - 1 /\ r[i - 1] = s[i]
        BY <1>2, <4>1
      <4> QED BY <4>1, <4>2
    <3>2. Must(r, i - 1) /\ Has(r, "check", (i - 1) + 1, n - 1)
          /\ ~Has(r, "detach", (i - 1) + 1, n - 1)
      BY <1>5, <2>2, <2>4, <3>1 DEF Must, Has
    <3> QED BY <1>1, <3>1, <3>2 DEF Demands
  <2> QED BY <2>5, <2>6
<1>6. CASE ~ok /\ Has(s, "check", 1, n)
  <2>1. PICK k \in 1 .. n : s[k].op = "check"
    BY <1>6 DEF Has
  <2>2. k \in 2 .. n
    BY <1>1, <1>6, <2>1
  <2> QED BY <1>2, <1>6, <2>1, <2>2 DEF Has
<1> QED
  BY <1>3, <1>4, <1>5, <1>6 DEF Secured, Demands, n

LEMMA TitleTail ==
  ASSUME NEW s \in Seq(Steps), s # <<>>, OneTitle(s), ConfiguresFirst(s)
  PROVE  OneTitle(Tail(s)) /\ ConfiguresFirst(Tail(s))
<1> DEFINE r == Tail(s)
           n == Len(s)
<1>1. /\ Len(r) = n - 1 /\ n \in Nat
      /\ \A i \in 1 .. n - 1 : r[i] = s[i + 1]
  BY TailFacts
<1> HIDE DEF r, n
<1>2. OneTitle(r)
  <2>1. \A i \in 1 .. n - 1 : i + 1 \in 1 .. n
    BY <1>1
  <2> QED BY <1>1, <2>1 DEF OneTitle, n
<1>3. ASSUME NEW i \in 1 .. n - 1, r[i].op = "attach", NEW k \in i + 1 .. n - 1,
             r[k].op = "configure"
      PROVE  FALSE
  <2>1. /\ i + 1 \in 1 .. n /\ k + 1 \in (i + 1) + 1 .. n
        /\ r[i] = s[i + 1] /\ r[k] = s[k + 1]
    BY <1>1
  <2> QED BY <1>3, <2>1 DEF ConfiguresFirst, Has, n
<1> QED BY <1>1, <1>2, <1>3 DEF ConfiguresFirst, Has, r

(* The second target may replace the first as soon as that was seen, then  *)
(* is gone, and nothing is attached to it any more.                        *)
LEMMA ReplacesTail ==
  ASSUME NEW s \in Seq(Steps), s # <<>>, NEW from \in {1, 2},
         NEW shown, NEW gone, NEW free, NEW shown2, NEW gone2, NEW free2,
         Replaces(s, from, shown, gone, free),
         shown => shown2, gone => gone2,
         Discovers(s, 1) => shown2,
         Misses(s, 1) /\ shown => gone2,
         free /\ s[1].op # "attach" => free2,
         s[1].op = "detach" => free2
  PROVE  Replaces(Tail(s), 1, shown2, gone2, free2)
<1> DEFINE r == Tail(s)
           n == Len(s)
<1>1. /\ Len(r) = n - 1 /\ n \in Nat
      /\ \A i \in 1 .. n - 1 : r[i] = s[i + 1]
  BY TailFacts
<1> HIDE DEF r, n
<1> SUFFICES ASSUME NEW i \in 1 .. n - 1, r[i].op = "spawn", r[i].t = "second"
             PROVE  EndsBefore(r, i, shown2, gone2) /\ FreeBefore(r, i, free2)
  BY <1>1 DEF Replaces, r
<1>2. i + 1 \in from .. n /\ s[i + 1] = r[i] /\ (i + 1) - 1 = i
  BY <1>1
<1>3. EndsBefore(s, i + 1, shown, gone) /\ FreeBefore(s, i + 1, free)
  BY <1>2 DEF Replaces, n
<1>4. \A j \in 1 .. i : j > 1 => j - 1 \in 1 .. i - 1 /\ r[j - 1] = s[j]
  BY <1>1
<1>5. EndsBefore(r, i, shown2, gone2)
  <2>1. CASE gone
    BY <2>1 DEF EndsBefore
  <2>2. ASSUME NEW j \in 1 .. i, Misses(s, j), shown \/ \E k \in 1 .. j - 1 : Discovers(s, k)
        PROVE  EndsBefore(r, i, shown2, gone2)
    <3>1. CASE j = 1
      BY <2>2, <3>1 DEF EndsBefore
    <3>2. CASE j > 1
      <4>1. j - 1 \in 1 .. i - 1 /\ Misses(r, j - 1)
        BY <1>4, <2>2, <3>2 DEF Misses
      <4>2. shown2 \/ \E k \in 1 .. (j - 1) - 1 : Discovers(r, k)
        <5>1. ASSUME NEW k \in 1 .. j - 1, Discovers(s, k), k > 1
              PROVE  k - 1 \in 1 .. (j - 1) - 1 /\ Discovers(r, k - 1)
          BY <1>4, <3>2, <5>1 DEF Discovers
        <5> QED BY <2>2, <5>1
      <4> QED BY <4>1, <4>2 DEF EndsBefore
    <3> QED BY <3>1, <3>2
  <2> QED BY <1>2, <1>3, <2>1, <2>2 DEF EndsBefore
<1>6. FreeBefore(r, i, free2)
  <2>0. \A j \in 1 .. i : \A k \in j .. i - 1 : k + 1 \in j + 1 .. i /\ r[k] = s[k + 1]
    BY <1>1
  <2>1. CASE free /\ ~Has(s, "attach", 1, i)
    <3>1. s[1].op # "attach" /\ ~Has(r, "attach", 1, i - 1)
      <4>1. \A k \in 1 .. i - 1 : k + 1 \in 1 .. i /\ r[k] = s[k + 1]
        BY <1>1
      <4>2. 1 \in 1 .. i
        OBVIOUS
      <4> QED BY <2>1, <4>1, <4>2 DEF Has
    <3> QED BY <2>1, <3>1 DEF FreeBefore
  <2>2. ASSUME NEW j \in 1 .. i, s[j].op = "detach", ~Has(s, "attach", j + 1, i)
        PROVE  FreeBefore(r, i, free2)
    <3>1. ~Has(r, "attach", j, i - 1)
      BY <2>0, <2>2 DEF Has
    <3>2. CASE j = 1
      BY <2>2, <3>1, <3>2 DEF FreeBefore
    <3>3. CASE j > 1
      <4>1. j - 1 \in 1 .. i - 1 /\ r[j - 1].op = "detach" /\ (j - 1) + 1 = j
        BY <1>4, <2>2, <3>3
      <4> QED BY <3>1, <4>1 DEF FreeBefore
    <3> QED BY <3>2, <3>3
  <2> QED BY <1>2, <1>3, <2>1, <2>2 DEF FreeBefore
<1> QED BY <1>5, <1>6

LEMMA ReplacesGrows ==
  ASSUME NEW s, NEW from \in {1, 2}, NEW shown, NEW gone, NEW free, NEW shown2, NEW gone2,
         NEW from2 \in {1, 2}, from2 >= from, Len(s) \in Nat,
         Replaces(s, from, shown, gone, free), shown => shown2, gone => gone2
  PROVE  Replaces(s, from2, shown2, gone2, free)
<1>1. \A i \in from2 .. Len(s) : i \in from .. Len(s)
  OBVIOUS
<1> QED BY <1>1 DEF Replaces, EndsBefore

(* The scripts are like that.                                              *)
LEMMA ParentedScripts ==
  ASSUME NEW name \in Parented
  PROVE  LET s == Runners[name]
         IN Demands(s) /\ ConfiguresFirst(s) /\ OneTitle(s) /\ Replaces(s, 1, FALSE, FALSE, TRUE)
BY ParentSucceeds, FullscreenSucceeds, TransitionSucceeds, GeometrySucceeds, LifecycleSucceeds
   DEF Parented, Runners

LEMMA UnsupportedPromises ==
  LET s == RunUnsupportedDemo
  IN /\ ~Promises(s) /\ ConfiguresFirst(s) /\ OneTitle(s)
     /\ \A from \in {1, 2}, shown, gone, free \in BOOLEAN : Replaces(s, from, shown, gone, free)
     /\ \A i \in 1 .. Len(s) : s[i].op \notin {"spawn", "configure", "attach"}
<1>1. /\ Len(RunUnsupportedDemo) = 2
      /\ RunUnsupportedDemo[1].op = "render" /\ RunUnsupportedDemo[2].op = "report"
      /\ RunUnsupportedDemo[2].arg = "unsupported"
  BY UnsupportedScript DEF Step, Render, Report
<1>2. \A i \in 1 .. 2 : i = 1 \/ i = 2
  OBVIOUS
<1> QED BY <1>1, <1>2 DEF Promises, ConfiguresFirst, OneTitle, Replaces, Has
-----------------------------------------------------------------------------
(* What a step of the script does to the parent, and what it has seen when *)
(* the script goes on.                                                     *)

LEMMA GoesShorter == Typed /\ Goes => todo' # todo
BY TailFacts DEF Typed, Formed, Goes

LEMMA WhenNotGoing ==
  Typed /\ [Next]_vars /\ ~Goes => UNCHANGED <<report, parent, passing>>
<1> SUFFICES ASSUME Typed, [Next]_vars, ~Goes PROVE UNCHANGED <<report, parent, passing>>
  OBVIOUS
<1> USE DEF life, policy
<1>1. CASE UNCHANGED vars \/ Quits \/ Exits \/ PlacesOverlay \/ Targeted \/ Throws
  BY <1>1 DEF vars, Quits, Exits, PlacesOverlay, Targeted, Throws
<1>2. ~(FindsWindow \/ ConfiguresOverlay \/ ReappliesPolicy \/ SetsBounds \/ AttachesParent
        \/ AdoptsParentBounds \/ DetachesParent \/ ComparesBounds \/ ComparesFullscreen)
  BY DEF Goes, GoesOn, Begins, Calls, Main, FindsWindow, ConfiguresOverlay, ReappliesPolicy,
     SetsBounds, AttachesParent, AdoptsParentBounds, DetachesParent, ComparesBounds,
     ComparesFullscreen
<1>3. CASE AnnouncesReady
  BY <1>1, <1>3 DEF AnnouncesReady, Goes, GoesOn, Awaits, Main
<1>4. CASE ChecksCapability \/ ClosedThrows \/ ChecksAssertions \/ BeginsToWait \/ Rendered
           \/ SpawnsTarget \/ TargetIsReady \/ CommandsTarget \/ TargetAnswered \/ TargetExited
           \/ ParentFound \/ TimesOut
  BY <1>1, <1>4 DEF ChecksCapability, ClosedThrows, ChecksAssertions, BeginsToWait, Rendered,
     SpawnsTarget, TargetIsReady, CommandsTarget, TargetAnswered, TargetExited, ParentFound,
     TimesOut
<1> QED BY <1>1, <1>2, <1>3, <1>4 DEF Next, Runs

(* What is asserted is noted.                                              *)
LEMMA Asserted ==
  ASSUME Typed, todo # <<>>, NEW result, Asserts(result)
  PROVE  /\ passing' => passing
         /\ todo[1].expect = "must" /\ passing' => result
<1>1. This = todo[1]
  BY TailFacts DEF Typed, Formed, This
<1> QED BY <1>1 DEF Asserts

Shows(title) == \E t \in Targets : Viewable(t) /\ target[t].title = title

LEMMA WhenGoing ==
  ASSUME Typed, [Next]_vars, Goes
  PROVE  /\ passing' => passing
         /\ parent # "none" /\ todo[1].op # "detach" => parent' # "none"
         /\ Must(todo, 1) /\ passing' => parent' # "none"
         /\ todo[1].op = "check" => passing
         /\ todo[1].op = "detach" => parent' = "none"
         /\ \/ parent' \in {parent, "none"}
            \/ /\ todo[1].op = "attach" /\ parent' \in Targets
               /\ Viewable(parent') /\ controller = "x11" /\ controller' = "x11"
               /\ target' = target
         /\ report' = report \/ (todo[1].op = "report" /\ report' = todo[1].arg)
         /\ Discovers(todo, 1) => Shows("alpha")
         /\ Misses(todo, 1) => ~Shows("alpha")
<1> DEFINE Goal ==
         /\ passing' => passing
         /\ parent # "none" /\ todo[1].op # "detach" => parent' # "none"
         /\ Must(todo, 1) /\ passing' => parent' # "none"
         /\ todo[1].op = "check" => passing
         /\ todo[1].op = "detach" => parent' = "none"
         /\ \/ parent' \in {parent, "none"}
            \/ /\ todo[1].op = "attach" /\ parent' \in Targets
               /\ Viewable(parent') /\ controller = "x11" /\ controller' = "x11"
               /\ target' = target
         /\ report' = report \/ (todo[1].op = "report" /\ report' = todo[1].arg)
         /\ Discovers(todo, 1) => Shows("alpha")
         /\ Misses(todo, 1) => ~Shows("alpha")
<1>0. /\ todo # <<>> /\ Head(todo) = todo[1] /\ This = todo[1] /\ todo' # todo
      /\ parent \in Targets \cup {"none"}
  BY TailFacts, GoesShorter DEF Typed, Formed, This, Goes
<1> USE DEF life, policy, Discovers, Misses, Must
<1>1. ~(UNCHANGED vars \/ Quits \/ Exits \/ PlacesOverlay \/ Targeted \/ Throws)
  BY <1>0 DEF vars, Quits, Exits, PlacesOverlay, Targeted, Throws
<1>2. ~(BeginsToWait \/ SpawnsTarget \/ ClosedThrows \/ TimesOut)
  BY <1>0, <1>1 DEF BeginsToWait, SpawnsTarget, ClosedThrows, TimesOut, Suspends
<1>3. CASE ChecksCapability \/ CommandsTarget \/ Rendered \/ TargetIsReady \/ TargetAnswered
           \/ ReappliesPolicy \/ SetsBounds \/ ConfiguresOverlay
  BY <1>0, <1>1, <1>3 DEF ChecksCapability, CommandsTarget, Rendered, TargetIsReady,
     TargetAnswered, ReappliesPolicy, SetsBounds, ConfiguresOverlay, Begins, Awaits, Calls, Main
<1>4. CASE FindsWindow
  <2>1. passing' => passing
    BY <1>0, <1>4, Asserted DEF FindsWindow
  <2> QED BY <1>0, <1>4, <2>1 DEF FindsWindow, Begins, Main
<1>5. CASE ComparesBounds \/ ComparesFullscreen
  <2>1. passing' => passing
    BY <1>0, <1>5, Asserted DEF ComparesBounds, ComparesFullscreen
  <2> QED BY <1>0, <1>5, <2>1 DEF ComparesBounds, ComparesFullscreen, Begins, Main
<1>6. CASE AdoptsParentBounds
  <2>1. (passing' => passing) /\ (todo[1].expect = "must" /\ passing' => parent # "none")
    BY <1>0, <1>6, Asserted DEF AdoptsParentBounds
  <2> QED BY <1>0, <1>6, <2>1 DEF AdoptsParentBounds, Calls, Begins, Main
<1>7. CASE DetachesParent
  BY <1>0, <1>7 DEF DetachesParent, Calls, Begins, Main
<1>8. CASE AttachesParent
  <2>1. /\ todo[1].op = "attach"
        /\ UNCHANGED <<report, controller, target>>
    BY <1>0, <1>8 DEF AttachesParent, Calls, Begins, Main, world
  <2>2. CASE Asserts(FALSE) /\ UNCHANGED parent
    <3>1. (passing' => passing) /\ (todo[1].expect = "must" => ~passing')
      BY <1>0, <2>2, Asserted
    <3> QED BY <1>0, <2>1, <2>2, <3>1
  <2>3. ASSUME NEW t \in IF controller = "x11" THEN Found(This.arg) ELSE {},
               parent' = t, Asserts(TRUE)
        PROVE  Goal
    <3>1. controller = "x11" /\ t \in Found(This.arg)
      BY <2>3
    <3>2. t \in Targets /\ Viewable(t)
      BY <3>1 DEF Found
    <3>3. passing' => passing
      BY <1>0, <2>3, Asserted
    <3> QED BY <1>0, <2>1, <2>3, <3>1, <3>2, <3>3 DEF Goal, DemoAssumption
  <2> QED BY <1>8, <2>2, <2>3 DEF AttachesParent
<1>9. CASE ChecksAssertions
  BY <1>0, <1>1, <1>9 DEF ChecksAssertions, Begins, Main
<1>10. CASE AnnouncesReady
  BY <1>0, <1>1, <1>10 DEF AnnouncesReady, Awaits, Main
<1>11. CASE TargetExited
  BY <1>0, <1>11 DEF TargetExited, Awaits, Main
<1>12. CASE ParentFound
  <2>1. Misses(todo, 1) => Found("alpha") = {}
    BY <1>0, <1>12 DEF ParentFound, Satisfies
  <2>2. Discovers(todo, 1) => Found("alpha") # {}
    BY <1>0, <1>12 DEF ParentFound
  <2>3. Found("alpha") = {} <=> ~Shows("alpha")
    BY DEF Found, Shows
  <2> QED BY <1>0, <1>12, <2>1, <2>2, <2>3 DEF ParentFound, Awaits, Main
<1> QED
  BY <1>1, <1>2, <1>3, <1>4, <1>5, <1>6, <1>7, <1>8, <1>9, <1>10, <1>11, <1>12 DEF Next, Runs

(* A controller of Wayland is only ever made, and where the parent was     *)
(* cannot be told from the step that makes it.                             *)
LEMMA ControllerMoves ==
  ASSUME Typed, [Next]_vars, controller' = "wayland-electron"
  PROVE  controller = "wayland-electron"
         \/ (Goes /\ todo[1].op = "configure" /\ parent' = parent)
<1> USE DEF life, policy, CleansUp
<1>1. CASE UNCHANGED vars \/ Quits \/ Exits \/ PlacesOverlay \/ Targeted \/ Throws
  BY <1>1 DEF vars, Quits, Exits, PlacesOverlay, Targeted, Throws
<1>2. CASE ConfiguresOverlay
  BY <1>2, TailFacts DEF ConfiguresOverlay, Begins, Main, Goes, GoesOn, Typed, Formed
<1>3. CASE Runs /\ ~ConfiguresOverlay
  BY <1>1, <1>3 DEF Runs, ChecksCapability, FindsWindow, ClosedThrows,
     ReappliesPolicy, SetsBounds, AttachesParent, AdoptsParentBounds, DetachesParent,
     ComparesBounds, ComparesFullscreen, ChecksAssertions, AnnouncesReady, BeginsToWait,
     Rendered, TargetIsReady, TargetAnswered, TargetExited, ParentFound, TimesOut, SpawnsTarget,
     CommandsTarget
<1> QED BY <1>1, <1>2, <1>3 DEF Next

LEMMA ScenarioStays == [Next]_vars => scenario' = scenario
<1> USE DEF run
<1>1. UNCHANGED vars \/ Quits \/ Exits \/ PlacesOverlay \/ Targeted => scenario' = scenario
  BY DEF vars, Quits, Exits, PlacesOverlay, Targeted
<1>2. Runs => scenario' = scenario
  BY DEF Runs, ChecksCapability, FindsWindow, ConfiguresOverlay, ClosedThrows,
     ReappliesPolicy, SetsBounds, AttachesParent, AdoptsParentBounds, DetachesParent,
     ComparesBounds, ComparesFullscreen, ChecksAssertions, AnnouncesReady, BeginsToWait,
     Rendered, TargetIsReady, TargetAnswered, TargetExited, ParentFound, TimesOut, SpawnsTarget,
     CommandsTarget, Throws
<1> QED BY <1>1, <1>2 DEF Next
-----------------------------------------------------------------------------
(* Succession: which target is to be the parent, at every step of a script *)
(* that has one.                                                           *)

From == IF waiting THEN 2 ELSE 1
Unstarted ==
  \A t \in Targets :
    /\ target[t].process \in {"none", "starting"} => target[t].window = "none"
    /\ target[t].process # "none" =>
         /\ t \in {"first", "second"}
         /\ \A i \in From .. Len(todo) : todo[i].op = "spawn" => todo[i].t # t

Finished == report # "none" => todo = <<>>
Attached == Secured(todo, parent # "none", passing) /\ (report = "pass" => parent # "none")
Backed ==
  /\ ConfiguresFirst(todo)
  /\ parent # "none" => controller # "wayland-electron" /\ ~Has(todo, "configure", 1, Len(todo))
Titled ==
  /\ OneTitle(todo)
  /\ \A t \in Targets : /\ target[t].process # "none" => target[t].title = "alpha"
                        /\ target[t].command.action # "set-title"
(* The first target has shown its window, and it has gone for good.        *)
Seen == target["first"].process \notin {"none", "starting"}
        /\ (target["first"].window = "viewable" \/ target["first"].process \in Ended)
Gone == target["first"].process \in Ended /\ target["first"].window # "viewable"
Replaced ==
  /\ Replaces(todo, From, Seen, Gone, parent = "none")
  /\ target["second"].process = "none" => parent \in {"none", "first"}
  /\ target["second"].process # "none" => Gone /\ parent \in {"none", "second"}
Succession == scenario \in Parented => Attached /\ Backed /\ Titled /\ Replaced

LEMMA InitSuccession == Init => Unstarted /\ Finished /\ Succession
<1> SUFFICES ASSUME Init PROVE Unstarted /\ Finished /\ Succession
  OBVIOUS
<1>1. /\ \A t \in Targets : target[t] = NoTarget
      /\ NoTarget.process = "none" /\ NoTarget.window = "none"
      /\ NoTarget.command.action = "none"
  BY DEF Init, InitTargets, NoTarget, NoCommand
<1>2. /\ waiting = FALSE /\ parent = "none" /\ passing = TRUE /\ report = "none"
      /\ todo = Runners[scenario] /\ {"first", "second"} \subseteq Targets
  BY DEF Init, DemoAssumption
<1>3. ASSUME scenario \in Parented PROVE Attached /\ Backed /\ Titled /\ Replaced
  <2>1. Demands(todo) /\ ConfiguresFirst(todo) /\ OneTitle(todo)
        /\ Replaces(todo, 1, FALSE, FALSE, TRUE)
    BY <1>2, <1>3, ParentedScripts
  <2>2. Seen = FALSE /\ Gone = FALSE /\ From = 1 /\ (parent = "none") = TRUE
    BY <1>1, <1>2 DEF Seen, Gone, Ended, From
  <2>3. Replaced
    BY <1>1, <1>2, <2>1, <2>2 DEF Replaced
  <2> QED BY <1>1, <1>2, <2>1, <2>3 DEF Attached, Secured, Backed, Titled
<1> QED BY <1>1, <1>2, <1>3 DEF Unstarted, Finished, Succession

(* The steps ahead only become fewer.                                      *)
LEMMA AheadShrinks ==
  ASSUME Typed, [Next]_vars
  PROVE  \A i \in (From .. Len(todo))' : todo'[i].op = "spawn" =>
           \E j \in From .. Len(todo) : todo[j] = todo'[i]
<1>0. todo \in Seq(Steps) /\ Len(todo) \in Nat /\ waiting \in BOOLEAN
  BY DEF Typed, Formed
<1>1. CASE Goes
  <2>1. /\ Len(todo') = Len(todo) - 1
        /\ \A i \in 1 .. Len(todo) - 1 : todo'[i] = todo[i + 1]
    BY <1>0, <1>1, TailFacts DEF Goes
  <2>2. \A i \in 1 .. Len(todo) - 1 : i + 1 \in From .. Len(todo)
    BY <1>0 DEF From
  <2>3. (From .. Len(todo))' = 1 .. Len(todo) - 1
    BY <1>1, <2>1 DEF From, Goes
  <2> QED BY <2>1, <2>2, <2>3
<1>2. CASE Waits
  <2>1. \A i \in (From .. Len(todo))' : i \in From .. Len(todo)
    BY <1>0, <1>2 DEF From, Waits
  <2> QED BY <1>2, <2>1 DEF Waits
<1>3. CASE Skips
  <2> DEFINE r == Tail(todo)
  <2>1. /\ Len(r) = Len(todo) - 1 /\ r \in Seq(Steps)
        /\ \A i \in 1 .. Len(todo) - 1 : r[i] = todo[i + 1]
    BY <1>0, <1>3, TailFacts DEF Skips
  <2>2. r # <<>>
    BY <1>3, SkipsTwo
  <2>3. todo' = Tail(r)
    BY <1>3 DEF Skips
  <2> HIDE DEF r
  <2>4. /\ Len(todo') = Len(r) - 1
        /\ \A i \in 1 .. Len(r) - 1 : todo'[i] = r[i + 1]
    BY <2>1, <2>2, <2>3, TailFacts
  <2>5. (From .. Len(todo))' = 1 .. Len(todo) - 2
    BY <1>0, <1>3, <2>1, <2>4 DEF From, Skips
  <2>6. ASSUME NEW i \in 1 .. Len(todo) - 2
        PROVE  (i + 1) + 1 \in From .. Len(todo) /\ todo'[i] = todo[(i + 1) + 1]
    <3>1. i + 1 \in 1 .. Len(todo) - 1 /\ i \in 1 .. Len(r) - 1
      BY <1>0, <2>1
    <3>2. (i + 1) + 1 \in From .. Len(todo)
      BY <1>0 DEF From
    <3> QED BY <2>1, <2>4, <3>1, <3>2
  <2> QED BY <2>5, <2>6
<1>4. CASE Gives
  <2>1. \A i \in 1 .. Len(todo') : todo'[i].op # "spawn"
    BY <1>4, UnsupportedPromises DEF Gives
  <2>2. (From .. Len(todo))' = 1 .. Len(todo')
    BY <1>4 DEF From, Gives
  <2> QED BY <2>1, <2>2
<1>5. CASE UNCHANGED <<todo, waiting>>
  BY <1>5 DEF From
<1> QED BY <1>1, <1>2, <1>3, <1>4, <1>5, Moves

LEMMA StepUnstarted == Typed /\ Unstarted /\ [Next]_vars => Unstarted'
<1> SUFFICES ASSUME Typed, Unstarted, [Next]_vars, NEW t \in Targets
             PROVE  /\ target'[t].process \in {"none", "starting"} => target'[t].window = "none"
                    /\ target'[t].process # "none" =>
                         /\ t \in {"first", "second"}
                         /\ \A i \in (From .. Len(todo))' : todo'[i].op = "spawn" => todo'[i].t # t
  BY DEF Unstarted
<1>0. target \in [Targets -> TargetRecords] /\ target[t] \in TargetRecords
  BY DEF Typed, World
<1>1. target[t].process # "none" =>
        /\ t \in {"first", "second"}
        /\ \A i \in (From .. Len(todo))' : todo'[i].op = "spawn" => todo'[i].t # t
  BY AheadShrinks DEF Unstarted
<1>2. CASE Advances
  <2>1. Moved(target[t], target'[t])
    BY <1>2 DEF Advances
  <2> QED BY <1>1, <2>1 DEF Moved, Unstarted
<1>3. ASSUME NEW u \in {"first", "second"}, Sends(u)
      PROVE  target'[t].process = target[t].process /\ target'[t].window = target[t].window
  <2> DEFINE c == [sequence |-> Len(sent'[u]), action |-> todo[1].arg.action,
                   detail |-> todo[1].arg.detail]
             r == [target[u] EXCEPT !.command = c]
  <2>1. target' = [target EXCEPT ![u] = r] /\ u \in Targets
    BY <1>3 DEF Sends
  <2>2. r.process = target[u].process /\ r.window = target[u].window
    BY <1>0, <2>1 DEF TargetRecords
  <2> HIDE DEF r
  <2> QED BY <1>0, <2>1, <2>2
<1>4. ASSUME NEW u \in {"first", "second"}, Starts(u)
      PROVE  /\ target'[t].process \in {"none", "starting"} => target'[t].window = "none"
             /\ target'[t].process # "none" =>
                  /\ t \in {"first", "second"}
                  /\ \A i \in (From .. Len(todo))' : todo'[i].op = "spawn" => todo'[i].t # t
  <2>1. CASE t # u
    <3>1. target'[t] = target[t]
      BY <1>0, <1>4, <2>1 DEF Starts
    <3> QED BY <1>1, <3>1 DEF Unstarted
  <2>2. CASE t = u
    <3>1. /\ todo # <<>> /\ Head(todo).op = "spawn" /\ todo' = todo /\ waiting' = TRUE
          /\ todo[1].t = t
      BY <1>4, <2>2 DEF Starts, Begins, Main, Suspends
    <3>2. todo[1].op = "spawn" /\ WellFormed(todo, 1)
      BY <3>1, TailFacts DEF Typed, Formed
    <3>3. \A i \in 2 .. Len(todo) : todo[i].op = "spawn" => todo[i].t # t
      BY <3>1, <3>2 DEF WellFormed
    <3>4. target'[t].process = "starting" /\ target'[t].window = target[t].window
      BY <1>0, <1>4, <2>2 DEF Starts, TargetRecords
    <3>5. target[t].window = "none"
      <4>1. 1 \in From .. Len(todo)
        BY <1>4, <3>1, TailFacts DEF Starts, Begins, Typed, Formed, From
      <4> QED BY <3>1, <3>2, <4>1 DEF Unstarted
    <3> QED BY <2>2, <3>1, <3>3, <3>4, <3>5 DEF From
  <2> QED BY <2>1, <2>2
<1> QED BY <1>1, <1>2, <1>3, <1>4, StepTargets DEF Unstarted

LEMMA EmptyTail == ASSUME NEW s \in Seq(Steps), Len(s) = 0 PROVE s = <<>>
OBVIOUS

LEMMA ReportLast ==
  ASSUME NEW s, Formed(s), s # <<>>, s[1].op = "report" PROVE Len(s) = 1 /\ Tail(s) = <<>>
<1>1. s \in Seq(Steps) /\ 1 \in 1 .. Len(s)
  BY TailFacts DEF Formed
<1>2. Len(s) = 1
  BY <1>1 DEF Formed, WellFormed
<1>3. Tail(s) \in Seq(Steps) /\ Len(Tail(s)) = 0
  BY <1>1, <1>2, TailFacts
<1> QED BY <1>2, <1>3, EmptyTail

LEMMA StepFinished == Typed /\ Finished /\ [Next]_vars => Finished'
<1> SUFFICES ASSUME Typed, Finished, [Next]_vars, report' # "none" PROVE todo' = <<>>
  BY DEF Finished
<1>1. CASE Goes
  <2>1. CASE report' = report
    BY <1>1, <2>1 DEF Finished, Goes
  <2>2. CASE todo[1].op = "report"
    BY <1>1, <2>2, ReportLast DEF Typed, Goes
  <2> QED BY <1>1, <2>1, <2>2, WhenGoing
<1>2. CASE ~Goes
  <2>1. todo = <<>>
    BY <1>2, WhenNotGoing DEF Finished
  <2>2. UNCHANGED todo
    BY <1>2, <2>1, Moves DEF Waits, Skips, Gives
  <2> QED BY <2>1, <2>2
<1> QED BY <1>1, <1>2

LEMMA StepAttached ==
  ASSUME Typed, Finished, Attached, [Next]_vars PROVE Attached'
<1>0. todo \in Seq(Steps) /\ passing \in BOOLEAN /\ passing' \in BOOLEAN
  BY StepTyped DEF Typed, Formed
<1>1. CASE Goes
  <2> HIDE DEF Goes
  <2>0. todo # <<>> /\ todo' = Tail(todo)
    BY <1>1 DEF Goes
  <2>1. Secured(Tail(todo), parent' # "none", passing')
    BY <1>0, <1>1, <2>0, WhenGoing, SecuredTail DEF Attached
  <2>2. ASSUME report' = "pass" PROVE parent' # "none"
    <3>1. todo[1].op = "report" /\ todo[1].arg = "pass"
      BY <1>1, <2>0, <2>2, WhenGoing DEF Finished
    <3>2. Len(todo) = 1
      BY <2>0, <3>1, ReportLast DEF Typed
    <3>3. Promises(todo)
      BY <3>1, <3>2 DEF Promises
    <3>4. ~Demands(todo) /\ ~Has(todo, "check", 1, Len(todo))
      BY <3>1, <3>2 DEF Demands, Has, Must
    <3>5. parent # "none"
      BY <3>3, <3>4 DEF Attached, Secured
    <3> QED BY <1>1, <3>1, <3>5, WhenGoing
  <2> QED BY <2>0, <2>1, <2>2 DEF Attached
<1>2. CASE ~Goes
  <2>1. UNCHANGED <<report, parent, passing>>
    BY <1>2, WhenNotGoing
  <2>2. CASE todo' = todo
    BY <2>1, <2>2 DEF Attached
  <2>3. CASE Gives
    BY <2>1, <2>3, UnsupportedPromises DEF Attached, Secured, Gives
  <2>4. CASE Skips
    <3> DEFINE r == Tail(todo)
    <3>1. /\ todo[1].op = "command" /\ todo # <<>> /\ r # <<>> /\ r[1].op = "exit"
          /\ r \in Seq(Steps) /\ todo' = Tail(r)
      BY <1>0, <2>4, SkipsTwo, TailFacts DEF Skips
    <3>2. Secured(todo, parent # "none", passing)
      BY DEF Attached
    <3>3. Secured(r, parent # "none", passing)
      <4> HIDE DEF Secured
      <4> QED BY <1>0, <3>1, <3>2, SecuredTail DEF Must
    <3> HIDE DEF r
    <3>4. Secured(Tail(r), parent # "none", passing)
      BY <1>0, <3>1, <3>3, SecuredTail DEF Must
    <3> QED BY <2>1, <3>1, <3>4 DEF Attached
  <2> QED BY <1>2, <2>2, <2>3, <2>4, Moves DEF Waits
<1> QED BY <1>1, <1>2

(* Steps that are skipped or passed take nothing of the rest away.         *)
LEMMA StepTail ==
  ASSUME Typed, [Next]_vars, OneTitle(todo), ConfiguresFirst(todo)
  PROVE  OneTitle(todo') /\ ConfiguresFirst(todo')
<1>0. todo \in Seq(Steps)
  BY DEF Typed, Formed
<1>1. CASE Goes
  BY <1>0, <1>1, TitleTail DEF Goes
<1>2. CASE Skips
  <2> DEFINE r == Tail(todo)
  <2>1. r # <<>> /\ r \in Seq(Steps) /\ todo # <<>> /\ todo' = Tail(r)
    BY <1>0, <1>2, SkipsTwo, TailFacts DEF Skips
  <2>2. OneTitle(r) /\ ConfiguresFirst(r)
    BY <1>0, <2>1, TitleTail
  <2> HIDE DEF r
  <2> QED BY <2>1, <2>2, TitleTail
<1>3. CASE Gives
  BY <1>3, UnsupportedPromises DEF Gives
<1>4. CASE todo' = todo
  BY <1>4
<1> QED BY <1>1, <1>2, <1>3, <1>4, Moves DEF Waits

LEMMA StepConfigured ==
  ASSUME Typed, [Next]_vars, ~Has(todo, "configure", 1, Len(todo))
  PROVE  ~Has(todo', "configure", 1, Len(todo'))
<1>0. todo \in Seq(Steps) /\ Len(todo) \in Nat
  BY DEF Typed, Formed
<1>1. ASSUME NEW s \in Seq(Steps), s # <<>>, ~Has(s, "configure", 1, Len(s))
      PROVE  ~Has(Tail(s), "configure", 1, Len(Tail(s)))
  <2>1. /\ Len(Tail(s)) = Len(s) - 1 /\ Len(s) \in Nat
        /\ \A i \in 1 .. Len(s) - 1 : Tail(s)[i] = s[i + 1] /\ i + 1 \in 1 .. Len(s)
    BY <1>1, TailFacts
  <2> QED BY <1>1, <2>1 DEF Has
<1>2. CASE Goes
  BY <1>0, <1>1, <1>2 DEF Goes
<1>3. CASE Skips
  <2> DEFINE r == Tail(todo)
  <2>1. r # <<>> /\ r \in Seq(Steps) /\ todo # <<>> /\ todo' = Tail(r)
    BY <1>0, <1>3, SkipsTwo, TailFacts DEF Skips
  <2>2. ~Has(r, "configure", 1, Len(r))
    BY <1>0, <1>1, <2>1
  <2> HIDE DEF r
  <2> QED BY <1>1, <2>1, <2>2
<1>4. CASE Gives
  BY <1>4, UnsupportedPromises DEF Gives, Has
<1>5. CASE todo' = todo
  BY <1>5
<1> QED BY <1>2, <1>3, <1>4, <1>5, Moves DEF Waits

LEMMA StepBacked ==
  ASSUME Typed, Backed, OneTitle(todo), [Next]_vars PROVE Backed'
<1>0. todo \in Seq(Steps) /\ parent \in Targets \cup {"none"}
  BY DEF Typed, Formed
<1>1. ConfiguresFirst(todo')
  BY StepTail DEF Backed
<1>2. CASE parent' # "none" /\ parent # "none"
  <2>1. controller # "wayland-electron" /\ ~Has(todo, "configure", 1, Len(todo))
    BY <1>2 DEF Backed
  <2>2. controller' # "wayland-electron"
    <3>1. todo # <<>> => todo[1].op # "configure"
      <4>1. todo # <<>> => 1 \in 1 .. Len(todo)
        BY <1>0, TailFacts
      <4> QED BY <2>1, <4>1 DEF Has
    <3> QED BY <2>1, <3>1, ControllerMoves DEF Goes
  <2> QED BY <1>1, <2>1, <2>2, StepConfigured DEF Backed
<1>3. CASE parent' # "none" /\ parent = "none"
  <2>1. Goes
    BY <1>3, WhenNotGoing
  <2>2. todo[1].op = "attach" /\ controller' = "x11"
    BY <1>3, <2>1, WhenGoing
  <2>3. /\ todo # <<>> /\ todo' = Tail(todo) /\ Len(todo') = Len(todo) - 1 /\ Len(todo) \in Nat
        /\ 1 \in 1 .. Len(todo)
        /\ \A i \in 1 .. Len(todo) - 1 : todo'[i] = todo[i + 1] /\ i + 1 \in 2 .. Len(todo)
    BY <1>0, <2>1, TailFacts DEF Goes
  <2>4. ~Has(todo, "configure", 2, Len(todo))
    BY <2>2, <2>3 DEF Backed, ConfiguresFirst
  <2>5. ~Has(todo', "configure", 1, Len(todo'))
    BY <2>3, <2>4 DEF Has
  <2> QED BY <1>1, <2>2, <2>5 DEF Backed
<1> QED BY <1>1, <1>2, <1>3 DEF Backed

LEMMA StepTitled ==
  ASSUME Typed, Titled, ConfiguresFirst(todo), [Next]_vars PROVE Titled'
<1>0. OneTitle(todo') /\ target \in [Targets -> TargetRecords]
  BY StepTail DEF Titled, Typed, World
<1> SUFFICES ASSUME NEW t \in Targets
             PROVE  /\ target'[t].process # "none" => target'[t].title = "alpha"
                    /\ target'[t].command.action # "set-title"
  BY <1>0 DEF Titled
<1>1. /\ target[t].process # "none" => target[t].title = "alpha"
      /\ target[t].command.action # "set-title"
  BY DEF Titled
<1>2. CASE Advances
  <2>1. Moved(target[t], target'[t])
    BY <1>2 DEF Advances
  <2> QED BY <1>1, <2>1 DEF Moved
<1>3. /\ todo # <<>> /\ Head(todo).op = "spawn" => todo[1].arg = "alpha"
      /\ todo # <<>> /\ Head(todo).op = "command" => todo[1].arg.action # "set-title"
  BY TailFacts DEF Titled, OneTitle, Typed, Formed
<1>4. ASSUME NEW u \in {"first", "second"}, Starts(u) \/ Sends(u), t # u
      PROVE  target'[t] = target[t]
  BY <1>0, <1>4 DEF Starts, Sends
<1>5. ASSUME NEW u \in {"first", "second"}, Starts(u), t = u
      PROVE  target'[t].title = "alpha" /\ target'[t].command = target[t].command
  <2>1. todo[1].arg = "alpha"
    BY <1>3, <1>5 DEF Starts, Begins, Main
  <2> QED BY <1>0, <1>5, <2>1 DEF Starts, TargetRecords
<1>6. ASSUME NEW u \in {"first", "second"}, Sends(u), t = u
      PROVE  /\ target'[t].process = target[t].process /\ target'[t].title = target[t].title
             /\ target'[t].command.action # "set-title"
  <2>1. todo[1].arg.action # "set-title"
    BY <1>3, <1>6 DEF Sends, Begins, Main
  <2> QED BY <1>0, <1>6, <2>1 DEF Sends, TargetRecords
<1> QED BY <1>1, <1>2, <1>4, <1>5, <1>6, StepTargets

(* A window that was seen goes only when its target is over, and for good. *)
LEMMA Lasting ==
  ASSUME Typed, Unstarted, [Next]_vars PROVE (Seen => Seen') /\ (Gone => Gone')
<1>0. /\ target \in [Targets -> TargetRecords] /\ "first" \in Targets
      /\ target["first"] \in TargetRecords
  BY DemoAssumption DEF Typed, World
<1>1. CASE Advances
  <2>1. Moved(target["first"], target'["first"])
    BY <1>0, <1>1 DEF Advances
  <2> QED BY <2>1 DEF Moved, Seen, Gone, Ended, Living
<1>2. ASSUME NEW u \in {"first", "second"}, Starts(u) PROVE (Seen => Seen') /\ (Gone => Gone')
  <2>1. CASE u = "second"
    <3>1. target'["first"] = target["first"]
      BY <1>0, <1>2, <2>1 DEF Starts
    <3> QED BY <3>1 DEF Seen, Gone
  <2>2. CASE u = "first"
    <3>1. todo # <<>> /\ todo[1].op = "spawn" /\ todo[1].t = "first" /\ 1 \in From .. Len(todo)
      BY <1>2, <2>2, TailFacts DEF Starts, Begins, Main, Typed, Formed, From
    <3>2. ~Seen /\ ~Gone
      BY <1>0, <3>1 DEF Unstarted, Seen, Gone, Ended
    <3> QED BY <3>2
  <2> QED BY <2>1, <2>2
<1>3. ASSUME NEW u \in {"first", "second"}, Sends(u) PROVE (Seen => Seen') /\ (Gone => Gone')
  <2> DEFINE c == [sequence |-> Len(sent'[u]), action |-> todo[1].arg.action,
                   detail |-> todo[1].arg.detail]
             r == [target[u] EXCEPT !.command = c]
  <2>1. target' = [target EXCEPT ![u] = r] /\ u \in Targets
    BY <1>3 DEF Sends
  <2>2. r.process = target[u].process /\ r.window = target[u].window
    BY <1>0, <2>1 DEF TargetRecords
  <2> HIDE DEF r
  <2>3. /\ target'["first"].process = target["first"].process
        /\ target'["first"].window = target["first"].window
    BY <1>0, <2>1, <2>2
  <2> QED BY <2>3 DEF Seen, Gone
<1> QED BY <1>1, <1>2, <1>3, StepTargets

LEMMA StepReplaces ==
  ASSUME Typed, Unstarted, Titled, Replaced, [Next]_vars
  PROVE  Replaces(todo', From', Seen', Gone', parent' = "none")
<1>0. /\ todo \in Seq(Steps) /\ Len(todo) \in Nat /\ From \in {1, 2}
      /\ Replaces(todo, From, Seen, Gone, parent = "none")
  BY DEF Typed, Formed, From, Replaced
<1>1. (Seen => Seen') /\ (Gone => Gone')
  BY Lasting
<1> HIDE DEF Seen, Gone
<1>2. CASE Goes
  <2>1. todo # <<>> /\ todo' = Tail(todo) /\ From' = 1
    BY <1>2 DEF Goes, From
  <2>2. Discovers(todo, 1) => Seen
    <3>1. target["second"].process # "none" => Seen
      BY DEF Replaced, Seen, Gone, Ended
    <3>2. ASSUME NEW t \in Targets, Viewable(t)
          PROVE  t \in {"first", "second"} /\ target[t].process \notin {"none", "starting"}
      BY <3>2 DEF Unstarted, Viewable
    <3> QED BY <1>2, <3>1, <3>2, WhenGoing DEF Shows, Seen, Viewable
  <2>3. Misses(todo, 1) /\ Seen => Gone
    <3>1. Seen => target["first"].title = "alpha"
      BY DemoAssumption DEF Titled, Seen
    <3> QED BY <1>2, <3>1, WhenGoing, DemoAssumption DEF Shows, Seen, Gone, Viewable
  <2>4. /\ parent = "none" /\ todo[1].op # "attach" => parent' = "none"
        /\ todo[1].op = "detach" => parent' = "none"
    BY <1>2, WhenGoing
  <2>5. Replaces(Tail(todo), 1, Seen', Gone', parent' = "none")
    <3> DEFINE free == parent = "none"
    <3>1. /\ free /\ todo[1].op # "attach" => free'
          /\ todo[1].op = "detach" => free'
      BY <2>4
    <3>2. Replaces(todo, From, Seen, Gone, free)
      BY <1>0
    <3> HIDE DEF free
    <3>3. Replaces(Tail(todo), 1, Seen', Gone', free')
      BY <1>0, <1>1, <2>1, <2>2, <2>3, <3>1, <3>2, ReplacesTail
    <3> QED BY <3>3 DEF free
  <2> QED BY <2>1, <2>5
<1>3. CASE Waits \/ UNCHANGED <<todo, waiting>>
  <2>1. parent' = parent
    <3>1. CASE Goes
      BY <1>3, <3>1, GoesShorter DEF Waits
    <3>2. CASE ~Goes
      BY <3>2, WhenNotGoing
    <3> QED BY <3>1, <3>2
  <2>2. From' \in {1, 2} /\ From' >= From /\ todo' = todo
    BY <1>0, <1>3 DEF From, Waits
  <2> QED BY <1>0, <1>1, <2>1, <2>2, ReplacesGrows
<1>4. CASE Skips
  <2> DEFINE r == Tail(todo)
  <2>1. /\ todo[1].op = "command" /\ todo # <<>> /\ r # <<>> /\ r[1].op = "exit"
        /\ r \in Seq(Steps) /\ todo' = Tail(r) /\ From' = 1 /\ From = 1
    BY <1>0, <1>4, SkipsTwo, TailFacts DEF Skips, From
  <2>3. parent' = parent
    <3>1. CASE Goes
      <4>1. Len(Tail(todo)) = Len(todo) - 1 /\ Len(Tail(r)) = Len(r) - 1
        BY <1>0, <2>1, TailFacts
      <4> QED BY <1>0, <2>1, <3>1, <4>1 DEF Goes
    <3>2. CASE ~Goes
      BY <3>2, WhenNotGoing
    <3> QED BY <3>1, <3>2
  <2>4. Replaces(r, 1, Seen, Gone, parent = "none")
    BY <1>0, <2>1, ReplacesTail DEF Discovers, Misses
  <2> HIDE DEF r
  <2>5. Replaces(Tail(r), 1, Seen', Gone', parent = "none")
    BY <1>1, <2>1, <2>4, ReplacesTail DEF Discovers, Misses
  <2> QED BY <2>1, <2>3, <2>5
<1>5. CASE Gives
  <2>1. \A i \in 1 .. Len(todo') : todo'[i].op # "spawn"
    BY <1>5, UnsupportedPromises DEF Gives
  <2>2. From' = 1
    BY <1>5 DEF Gives, From
  <2> QED BY <2>1, <2>2 DEF Replaces
<1> QED BY <1>2, <1>3, <1>4, <1>5, Moves

LEMMA StepReplaced ==
  ASSUME Typed, Unstarted, Titled, Replaced, [Next]_vars PROVE Replaced'
<1>0. /\ target \in [Targets -> TargetRecords] /\ {"first", "second"} \subseteq Targets
      /\ \A t \in Targets : target[t] \in TargetRecords
  BY DemoAssumption DEF Typed, World
<1>1. (Seen => Seen') /\ (Gone => Gone')
  BY Lasting
<1>2. CASE parent' \notin {parent, "none"}
  <2>1. Goes
    BY <1>2, WhenNotGoing
  <2>2. parent' \in Targets /\ Viewable(parent') /\ target' = target
    BY <1>2, <2>1, WhenGoing
  <2>3. target[parent'].process # "none" /\ parent' \in {"first", "second"}
    BY <2>2 DEF Unstarted, Viewable
  <2>4. Gone => parent' # "first"
    BY <2>2 DEF Gone, Viewable
  <2>5. /\ target["second"].process = "none" => parent' \in {"none", "first"}
        /\ target["second"].process # "none" => Gone' /\ parent' \in {"none", "second"}
    BY <1>1, <2>3, <2>4 DEF Replaced
  <2> QED BY <2>2, <2>5, StepReplaces DEF Replaced
<1>3. ASSUME Starts("second") PROVE Gone /\ parent = "none"
  <2>1. /\ todo # <<>> /\ todo[1].op = "spawn" /\ todo[1].t = "second" /\ 1 \in From .. Len(todo)
    BY <1>3, TailFacts DEF Starts, Begins, Main, Typed, Formed, From
  <2>2. EndsBefore(todo, 1, Seen, Gone) /\ FreeBefore(todo, 1, parent = "none")
    BY <2>1 DEF Replaced, Replaces
  <2>3. \A j \in 1 .. 1 - 1 : FALSE
    OBVIOUS
  <2> QED BY <2>2, <2>3 DEF EndsBefore, FreeBefore
<1>4. (target'["second"].process = "none") = (target["second"].process = "none") \/ Starts("second")
  <2>1. CASE Advances
    <3>1. Moved(target["second"], target'["second"])
      BY <1>0, <2>1 DEF Advances
    <3> QED BY <3>1 DEF Moved
  <2>2. ASSUME NEW u \in {"first", "second"}, Sends(u)
        PROVE  target'["second"].process = target["second"].process
    <3> DEFINE c == [sequence |-> Len(sent'[u]), action |-> todo[1].arg.action,
                     detail |-> todo[1].arg.detail]
               r == [target[u] EXCEPT !.command = c]
    <3>1. target' = [target EXCEPT ![u] = r]
      BY <2>2 DEF Sends
    <3>2. r.process = target[u].process
      BY <1>0, <2>2 DEF TargetRecords
    <3> HIDE DEF r
    <3> QED BY <1>0, <3>1, <3>2
  <2>3. ASSUME Starts("first") PROVE target'["second"] = target["second"]
    BY <1>0, <2>3 DEF Starts
  <2> QED BY <2>1, <2>2, <2>3, StepTargets
<1>5. CASE parent' \in {parent, "none"}
  <2>1. CASE Starts("second")
    BY <1>1, <1>3, <1>5, <2>1, StepReplaces DEF Replaced
  <2>2. CASE (target'["second"].process = "none") = (target["second"].process = "none")
    BY <1>1, <1>5, <2>2, StepReplaces DEF Replaced
  <2> QED BY <1>4, <2>1, <2>2
<1> QED BY <1>2, <1>5

LEMMA StepSuccession ==
  Typed /\ Unstarted /\ Finished /\ Succession /\ [Next]_vars => Succession'
<1> SUFFICES ASSUME Typed, Unstarted, Finished, Succession, [Next]_vars, scenario' \in Parented
             PROVE  Attached' /\ Backed' /\ Titled' /\ Replaced'
  BY DEF Succession
<1>1. Attached /\ Backed /\ Titled /\ Replaced
  BY ScenarioStays DEF Succession
<1>2. OneTitle(todo) /\ ConfiguresFirst(todo)
  BY <1>1 DEF Titled, Backed
<1> QED
  BY <1>1, <1>2, StepAttached, StepBacked, StepTitled, StepReplaced

(* A scenario that passes with a parent is attached to the target that was *)
(* started last, of two of one title to the replacement, and never on a    *)
(* backend without parents.                                                *)
THEOREM DemoPassMeansAttached == Spec => []PassMeansAttached
<1>1. Typed /\ Succession => PassMeansAttached
  BY DEF Succession, Attached, Backed, Replaced, PassMeansAttached, Newest
<1> QED
  BY <1>1, InitTyped, StepTyped, InitSuccession, StepUnstarted, StepFinished, StepSuccession, PTL
     DEF Spec
=============================================================================

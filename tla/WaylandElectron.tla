--------------------------- MODULE WaylandElectron ---------------------------
(***************************************************************************)
(* WaylandElectronController (index.ts): the policy of a BrowserWindow in  *)
(* a native Wayland session, by Electron's own methods.  A method runs in  *)
(* one turn of JavaScript, in which each of Electron's methods may throw;  *)
(* the compositor makes of the bounds what it likes, also later, and the   *)
(* window may be destroyed before the next turn.                           *)
(***************************************************************************)
EXTENDS Naturals

CONSTANT Places  \* rectangles

VARIABLES
  closed,
  config,   \* bounds, clickThrough, alwaysOnTop and allWorkspaces of state
  call,     \* "unconfigured", or "idle" between two methods
  browser   \* the BrowserWindow

vars == <<closed, config, call, browser>>

Configs == [bounds: Places, clickThrough: BOOLEAN, above: BOOLEAN, everywhere: BOOLEAN]

Init ==
  /\ closed = FALSE /\ call = [at |-> "unconfigured"]
  /\ config \in [bounds: Places, clickThrough: {FALSE}, above: {FALSE}, everywhere: {FALSE}]
  /\ browser \in [alive: {TRUE}, at: Places, ignores: BOOLEAN, top: BOOLEAN, everywhere: {FALSE}]

-----------------------------------------------------------------------------
(* assertOpen().                                                           *)
Open == call.at = "idle" /\ ~closed /\ browser.alive

(* reapply() of state, as far as the first `done` of its calls: setBounds, *)
(* getBounds, setIgnoreMouseEvents, setAlwaysOnTop, all workspaces.        *)
ReapplySteps == 5
Reapplied(done, state, at) ==
  /\ browser' = [browser EXCEPT !.at = IF done >= 1 THEN at ELSE @,
                                !.ignores = IF done >= 3 THEN state.clickThrough ELSE @,
                                !.top = IF done >= 4 THEN state.above ELSE @,
                                !.everywhere = IF done >= 5 THEN state.everywhere ELSE @]
  /\ config' = [state EXCEPT !.bounds = IF done >= 2 THEN at ELSE @]

Reapply ==
  /\ Open
  /\ \E done \in 0 .. ReapplySteps, at \in Places : Reapplied(done, config, at)
  /\ UNCHANGED <<closed, call>>

(* The constructor, if it is not given a parent's position; a controller   *)
(* that throws in it is nobody's.                                          *)
Configure ==
  /\ browser.alive /\ (call.at = "unconfigured" \/ closed)
  /\ closed' = FALSE
  /\ \E state \in Configs, done \in 0 .. ReapplySteps, at \in Places :
       /\ Reapplied(done, state, at)
       /\ call' = [at |-> IF done = ReapplySteps THEN "idle" ELSE "unconfigured"]

SetBounds(bounds) ==
  /\ Open
  /\ \E at \in Places : \* the compositor need not heed what it was asked for
       /\ browser' = [browser EXCEPT !.at = at]
       /\ config' \in {config, [config EXCEPT !.bounds = at]} \* getBounds may throw
  /\ UNCHANGED <<closed, call>>

(* The state changes only once the window has.                             *)
StateFirst(key, value, changed) == \* defect: the state changes first, as in the addons
  /\ config' = [config EXCEPT ![key] = value]
  /\ browser' \in {browser, changed}
WindowFirst(key, value, changed) ==
  \/ UNCHANGED <<browser, config>>
  \/ browser' = changed /\ config' = [config EXCEPT ![key] = value]

SetClickThrough(enabled) ==
  /\ Open
  /\ WindowFirst("clickThrough", enabled, [browser EXCEPT !.ignores = enabled])
  /\ UNCHANGED <<closed, call>>

SetAlwaysOnTop(enabled) ==
  /\ Open
  /\ WindowFirst("above", enabled, [browser EXCEPT !.top = enabled])
  /\ UNCHANGED <<closed, call>>

(* attachParent, detachParent and useParentBounds do nothing at all.       *)

Close ==
  /\ call.at = "idle" /\ closed' = TRUE
  /\ UNCHANGED <<config, call, browser>>

-----------------------------------------------------------------------------
CompositorPlaces ==
  /\ browser.alive /\ \E at \in Places : browser' = [browser EXCEPT !.at = at]
  /\ UNCHANGED <<closed, config, call>>

WindowDestroyed ==
  /\ call.at = "idle" /\ browser.alive /\ browser' = [browser EXCEPT !.alive = FALSE]
  /\ UNCHANGED <<closed, config, call>>

Next ==
  \/ Configure \/ Reapply \/ Close \/ CompositorPlaces \/ WindowDestroyed
  \/ \E bounds \in Places : SetBounds(bounds)
  \/ \E enabled \in BOOLEAN : SetClickThrough(enabled) \/ SetAlwaysOnTop(enabled)

Spec == Init /\ [][Next]_vars

-----------------------------------------------------------------------------
TypeOK ==
  /\ closed \in BOOLEAN /\ call.at \in {"unconfigured", "idle"}
  /\ config \in Configs
  /\ browser \in [alive: BOOLEAN, at: Places, ignores: BOOLEAN, top: BOOLEAN,
                  everywhere: BOOLEAN]

(* Whichever call of whichever method threw, the window has the policy     *)
(* that getState() reports: of the calls before the one that threw, state  *)
(* has what they changed.                                                  *)
PolicyHolds ==
  call.at = "idle" /\ ~closed =>
    /\ browser.ignores = config.clickThrough
    /\ browser.top = config.above /\ browser.everywhere = config.everywhere
=============================================================================

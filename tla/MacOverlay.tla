------------------------------ MODULE MacOverlay -----------------------------
(***************************************************************************)
(* MacOverlay (addon_mac.mm): the policy of an NSWindow.  Its methods run  *)
(* on the main thread, where AppKit answers at once, so each is one step;  *)
(* other processes move and close their windows, Electron hides and shows  *)
(* its own, and displays come and go between two of them.  Cocoa counts    *)
(* from the bottom of the first screen, the controller from its top.       *)
(***************************************************************************)
EXTENDS Integers

CONSTANTS
  Places,    \* rectangles, by their upper edge; each is Height high
  Parents,   \* windows of other processes
  NoParent,  \* std::nullopt
  NoPlace    \* of a window that has gone, or if none was asked for

VARIABLES
  closed,
  config,  \* bounds, position_parent, click_through and always_on_top
  parent,  \* the window of parent_
  cached,  \* its bounds
  call,    \* "unconfigured", or "idle" between two methods
  place,   \* of the other windows
  asked,   \* where the last positioning method was to move the window
  cocoa    \* the NSWindow, and the top of the first screen

controllerVars == <<closed, config, parent, cached>>
vars == <<controllerVars, call, place, asked, cocoa>>

Height == 1
Tops == {10, 20}

(* The frame of an NSWindow, by its lower edge.                            *)
CocoaFrameLowerEdge(bounds) == cocoa.top - bounds \* defect: its height is left out
CocoaFrame(bounds) == cocoa.top - bounds - Height
ElectronBounds(frame) == cocoa.top - (frame + Height)

Init ==
  /\ closed = FALSE /\ parent = NoParent /\ cached \in Places
  /\ config \in [bounds: Places, positionParent: {FALSE}, clickThrough: {FALSE}, above: {FALSE}]
  /\ call = [at |-> "unconfigured"]
  /\ place \in [Parents -> Places] /\ asked = NoPlace
  /\ cocoa \in [top: Tops, frame: {0}, ignores: BOOLEAN, floating: {FALSE}, visible: {FALSE}]

-----------------------------------------------------------------------------
Open == call.at = "idle" /\ ~closed

Exists(w) == place[w] # NoPlace

(* Of the windows on screen that match, the frontmost.                     *)
FindParent == {w \in Parents : Exists(w)}

(* The bounds are optional beside the position of a parent (ReadConfig).   *)
Configs ==
  {c \in [bounds: Places \cup {NoPlace}, positionParent: BOOLEAN, clickThrough: BOOLEAN, above: BOOLEAN] :
     c.positionParent \/ c.bounds # NoPlace}

(* Apply(): styles and level; then the position; and a window that is on   *)
(* top or has a parent is shown, hidden or not.                            *)
Applied(c, p) ==
  [cocoa EXCEPT !.ignores = c.clickThrough, !.floating = c.above,
                !.visible = @ \/ p # NoParent \/ c.above]

Configure ==
  /\ call.at = "unconfigured" \/ closed
  /\ closed' = FALSE /\ call' = [at |-> "idle"]
  /\ config' \in Configs
  /\ \/ parent' = NoParent /\ UNCHANGED cached
     \/ \E w \in FindParent : parent' = w /\ cached' = place[w]
  /\ asked' = IF config'.positionParent /\ parent' # NoParent THEN cached' ELSE config'.bounds
  /\ cocoa' = [Applied(config', parent') EXCEPT !.frame = IF asked' = NoPlace THEN @ ELSE CocoaFrame(asked')]
  /\ UNCHANGED place

Move(bounds) ==
  /\ cocoa' = [cocoa EXCEPT !.frame = CocoaFrame(bounds)]
  /\ asked' = bounds

(* If FindParent finds nothing, null is returned and nothing changes.      *)
AttachParent(w, reposition) ==
  /\ Open /\ w \in FindParent
  /\ parent' = w /\ cached' = place[w]
  /\ IF reposition THEN Move(place[w]) ELSE UNCHANGED <<cocoa, asked>>
  /\ UNCHANGED <<closed, config, call, place>>

DetachParent ==
  /\ Open /\ parent' = NoParent
  /\ UNCHANGED <<closed, config, cached, call, place, asked, cocoa>>

SetBounds(bounds) ==
  /\ Open
  /\ config' = [config EXCEPT !.bounds = bounds, !.positionParent = FALSE]
  /\ Move(bounds)
  /\ UNCHANGED <<closed, parent, cached, call, place>>

(* Returns false if there is no parent, or it has closed.                  *)
UseParentBounds ==
  /\ Open
  /\ config' = [config EXCEPT !.positionParent = TRUE]
  /\ IF parent # NoParent /\ Exists(parent)
     THEN cached' = place[parent] /\ Move(place[parent])
     ELSE UNCHANGED <<cached, cocoa, asked>>
  /\ UNCHANGED <<closed, parent, call, place>>

SetClickThrough(enabled) ==
  /\ Open
  /\ config' = [config EXCEPT !.clickThrough = enabled]
  /\ cocoa' = [cocoa EXCEPT !.ignores = enabled]
  /\ UNCHANGED <<closed, parent, cached, call, place, asked>>

SetAlwaysOnTop(enabled) ==
  /\ Open
  /\ config' = [config EXCEPT !.above = enabled]
  /\ cocoa' = [cocoa EXCEPT !.floating = enabled, !.visible = @ \/ enabled]
  /\ UNCHANGED <<closed, parent, cached, call, place, asked>>

Reapply ==
  /\ Open /\ cocoa' = Applied(config, parent)
  /\ UNCHANGED <<controllerVars, call, place, asked>>

(* close() only lets go of the window.                                     *)
Close ==
  /\ call.at = "idle" /\ closed' = TRUE
  /\ UNCHANGED <<config, parent, cached, call, place, asked, cocoa>>

-----------------------------------------------------------------------------
ParentChanges ==
  /\ \E w \in Parents, at \in Places \cup {NoPlace} :
       Exists(w) /\ place' = [place EXCEPT ![w] = at]
  /\ UNCHANGED <<controllerVars, call, asked, cocoa>>

ElectronShows ==
  /\ cocoa' = [cocoa EXCEPT !.visible = ~@]
  /\ UNCHANGED <<controllerVars, call, place, asked>>

(* Another first screen: the system places the windows anew.               *)
ScreensChange ==
  /\ \E top \in Tops \ {cocoa.top}, at \in Places :
       cocoa' = [cocoa EXCEPT !.top = top, !.frame = top - at - Height]
  /\ asked' = NoPlace
  /\ UNCHANGED <<controllerVars, call, place>>

Next ==
  \/ Configure \/ DetachParent \/ UseParentBounds \/ Reapply \/ Close
  \/ \E w \in Parents, reposition \in BOOLEAN : AttachParent(w, reposition)
  \/ \E bounds \in Places : SetBounds(bounds)
  \/ \E enabled \in BOOLEAN : SetClickThrough(enabled) \/ SetAlwaysOnTop(enabled)
  \/ ParentChanges \/ ElectronShows \/ ScreensChange

Spec == Init /\ [][Next]_vars

-----------------------------------------------------------------------------
TypeOK ==
  /\ closed \in BOOLEAN /\ call.at \in {"unconfigured", "idle"}
  /\ config \in Configs
  /\ parent \in Parents \cup {NoParent} /\ cached \in Places
  /\ place \in [Parents -> Places \cup {NoPlace}] /\ asked \in Places \cup {NoPlace}
  /\ cocoa \in [top: Tops, frame: Int, ignores: BOOLEAN, floating: BOOLEAN, visible: BOOLEAN]

(* The window has the mouse policy and the level that getState() reports.  *)
PolicyHolds ==
  call.at = "idle" /\ ~closed =>
    cocoa.ignores = config.clickThrough /\ cocoa.floating = config.above

(* getState() reports the bounds that were asked for last: Cocoa's frame   *)
(* is turned into them again, wherever the first screen ends.              *)
PositionHolds ==
  call.at = "idle" /\ asked # NoPlace => ElectronBounds(cocoa.frame) = asked
=============================================================================

----------------------------- MODULE Win32Overlay ----------------------------
(***************************************************************************)
(* Win32Overlay (addon_win.cc) below Win32ElectronController (index.ts):   *)
(* both change the one window of a BrowserWindow, the first by Win32       *)
(* calls, the second through Electron, in its own coordinates.  Each of    *)
(* the calls may fail, and then the method throws where it is; the parent  *)
(* belongs to another process, which moves and closes it between any two   *)
(* of them.                                                                *)
(***************************************************************************)
EXTENDS Naturals, Sequences

CONSTANTS
  Places,    \* rectangles, by one of their coordinates in pixels
  Parents,   \* windows of other processes
  NoParent,  \* std::nullopt, or a null HWND
  NoPlace,   \* of a window that has gone, or if none was asked for
  Scale      \* of the display, in percent

VARIABLES
  closed,
  config,   \* config_ and preserve_layered_style_
  parent,   \* the window of parent_
  cached,   \* its bounds
  call,     \* the method in progress: what it has still to do
  electron, \* configure() was given a BrowserWindow, not a Buffer
  window,   \* the overlay window: owner, extended styles, z-order, place
  place,    \* of the other windows
  dirty,    \* a method threw, or the parent closed, since the last Apply
  asked     \* where the last positioning method was to move the window

controllerVars == <<closed, config, parent, cached>>
vars == <<controllerVars, call, electron, window, place, dirty, asked>>

NoCall == [at |-> "idle", of |-> "none", todo |-> <<>>, to |-> 0]
Idle == call.at = "idle"

(* Electron made the window layered (opacity) or not, and lets the mouse   *)
(* through or not, before there is a controller.                           *)
Init ==
  /\ closed = FALSE /\ parent = NoParent /\ cached \in Places
  /\ config \in [bounds: Places, positionParent: {FALSE}, clickThrough: {FALSE},
                 above: {FALSE}, preserveLayered: {FALSE}]
  /\ call = [NoCall EXCEPT !.at = "unconfigured"]
  /\ electron \in BOOLEAN
  /\ \E translucent, through \in BOOLEAN, at \in Places :
       window = [alive |-> TRUE, owner |-> NoParent, transparent |-> through,
                 layered |-> through \/ translucent, topmost |-> FALSE, at |-> at,
                 translucent |-> translucent]
  /\ place \in [Parents -> Places]
  /\ dirty = FALSE /\ asked = NoPlace

-----------------------------------------------------------------------------
IsWindow(w) == w \in Parents /\ place[w] # NoPlace

(* Any that the query's title and class let EnumWindows find.              *)
FindParent == {w \in Parents : IsWindow(w)}

(* Apply(position) and, behind a method of the native controller, what     *)
(* Win32ElectronController does.                                           *)
Apply == <<"styles", "parent", "owner", "zorder">>
ApplyInPlace == <<"styles", "parent", "owner", "position", "zorder">>
WithElectron(steps) == IF electron THEN steps ELSE <<>>

Begins(method, todo, to) ==
  call' = [at |-> "running", of |-> method, todo |-> todo, to |-> to]
Open == Idle /\ ~closed /\ window.alive

(* configure(), on a window that may have had a controller before.         *)
NewConfig == [bounds: Places, positionParent: BOOLEAN, clickThrough: BOOLEAN,
              above: BOOLEAN, preserveLayered: {window.layered}]
Configure ==
  /\ call.at = "unconfigured" \/ (Idle /\ closed /\ window.alive)
  /\ closed' = FALSE
  /\ config' \in NewConfig
  /\ \/ parent' = NoParent /\ UNCHANGED cached
     \/ \E w \in FindParent : parent' = w /\ cached' = place[w]
  /\ Begins("configure", ApplyInPlace \o WithElectron(<<"adopt", "ignore">>), 0)
  /\ dirty' = FALSE /\ asked' = NoPlace
  /\ UNCHANGED <<electron, window, place>>

(* If FindParent finds nothing, null is returned and nothing changes.      *)
AttachParent(w, reposition) ==
  /\ Open /\ w \in FindParent
  /\ parent' = w /\ cached' = place[w]
  /\ Begins("attachParent",
       <<"owner">> \o (IF reposition THEN <<"move">> ELSE <<>>) \o Apply \o <<"answer">>
         \o (IF reposition THEN WithElectron(<<"electronMove">>) ELSE <<>>),
       place[w])
  /\ dirty' = FALSE /\ asked' = IF reposition THEN NoPlace ELSE asked
  /\ UNCHANGED <<closed, config, electron, window, place>>

DetachForgets == UNCHANGED call \* defect: the owner is left to the next reapply()
DetachOwner == Begins("detachParent", <<"owner">>, 0)
DetachParent ==
  /\ Open
  /\ parent' = NoParent
  /\ DetachOwner
  /\ UNCHANGED <<closed, config, cached, electron, window, place, dirty, asked>>

SetBounds(bounds) ==
  /\ Open
  /\ config' = [config EXCEPT !.bounds = bounds, !.positionParent = FALSE]
  /\ Begins("setBounds", <<"move">> \o WithElectron(<<"electronMove">>), bounds)
  /\ asked' = NoPlace
  /\ UNCHANGED <<closed, parent, cached, electron, window, place, dirty>>

(* Returns false if there is no parent, or it has closed or is minimized.  *)
UseParentBounds ==
  /\ Open
  /\ config' = [config EXCEPT !.positionParent = TRUE]
  /\ \/ /\ parent # NoParent /\ IsWindow(parent)
        /\ cached' = place[parent] /\ asked' = NoPlace
        /\ Begins("useParentBounds", <<"move">> \o WithElectron(<<"electronMove">>),
                  place[parent])
     \/ UNCHANGED <<cached, call, asked>>
  /\ UNCHANGED <<closed, parent, electron, window, place, dirty>>

SetClickThrough(enabled) ==
  /\ Open
  /\ config' = [config EXCEPT !.clickThrough = enabled]
  /\ Begins("setClickThrough", <<"styles", "zorder">> \o WithElectron(<<"ignore">>), 0)
  /\ UNCHANGED <<closed, parent, cached, electron, window, place, dirty, asked>>

SetAlwaysOnTop(enabled) ==
  /\ Open
  /\ config' = [config EXCEPT !.above = enabled]
  /\ Begins("setAlwaysOnTop", <<"zorder">>, 0)
  /\ UNCHANGED <<closed, parent, cached, electron, window, place, dirty, asked>>

Reapply ==
  /\ Open
  /\ Begins("reapply", Apply, 0)
  /\ dirty' = FALSE
  /\ UNCHANGED <<controllerVars, electron, window, place, asked>>

(* close() leaves the window as it is.                                     *)
Close ==
  /\ Idle /\ closed' = TRUE
  /\ UNCHANGED <<config, parent, cached, call, electron, window, place, dirty, asked>>

-----------------------------------------------------------------------------
(* The steps of a method.                                                  *)

Doing(step) ==
  /\ call.at = "running" /\ Head(call.todo) = step
  /\ call' = IF Len(call.todo) = 1 THEN NoCall ELSE [call EXCEPT !.todo = Tail(@)]

(* A Win32 call or one of Electron fails: the method throws, and the       *)
(* constructor leaves no controller.                                       *)
Throws ==
  /\ call.at = "running" /\ Head(call.todo) \notin {"parent", "answer"}
  /\ call' = [NoCall EXCEPT !.at = IF call.of = "configure" THEN "unconfigured" ELSE "idle"]
  /\ dirty' = TRUE
  /\ UNCHANGED <<controllerVars, electron, window, place, asked>>

(* ApplyStyles: WS_EX_TRANSPARENT and WS_EX_LAYERED.                       *)
ClearsLayered == config.clickThrough \* defect: takes away Electron's layering
Layered == config.clickThrough \/ (config.preserveLayered /\ window.layered)
ApplyStyles ==
  /\ Doing("styles")
  /\ window' = [window EXCEPT !.transparent = config.clickThrough, !.layered = Layered]
  /\ UNCHANGED <<controllerVars, electron, place, dirty, asked>>

(* A parent that has closed is forgotten.                                  *)
CheckParent ==
  /\ Doing("parent")
  /\ parent' = IF parent # NoParent /\ ~IsWindow(parent) THEN NoParent ELSE parent
  /\ UNCHANGED <<closed, config, cached, electron, window, place, dirty, asked>>

(* The owner is a window, or none, or it is already the owner.             *)
SetOwner ==
  /\ Doing("owner")
  /\ parent \in {window.owner, NoParent} \cup {w \in Parents : IsWindow(w)}
  /\ window' = [window EXCEPT !.owner = parent]
  /\ UNCHANGED <<controllerVars, electron, place, dirty, asked>>

(* Move also sets the z-order.  What the method asked for it has asked of  *)
(* both layers once they have both been told.                              *)
MovedTo(at) == [window EXCEPT !.at = at, !.topmost = config.above]
AskedFor(at) == asked' = IF electron THEN asked ELSE at
Target == IF config.positionParent /\ parent # NoParent THEN cached ELSE config.bounds
Move ==
  /\ \/ Doing("move") /\ window' = MovedTo(call.to) /\ AskedFor(call.to)
     \/ Doing("position") /\ window' = MovedTo(Target) /\ AskedFor(Target)
  /\ UNCHANGED <<controllerVars, electron, place, dirty>>

ApplyZOrder ==
  /\ Doing("zorder")
  /\ window' = [window EXCEPT !.topmost = config.above]
  /\ UNCHANGED <<controllerVars, electron, place, dirty, asked>>

(* AttachParent returns *parent_.  When Apply has forgotten it, that is    *)
(* the value of an empty optional: bounds are any.                         *)
Answer ==
  /\ Doing("answer")
  /\ \/ parent # NoParent /\ UNCHANGED cached
     \/ parent = NoParent /\ cached' \in Places
  /\ UNCHANGED <<closed, config, parent, electron, window, place, dirty, asked>>

(* screenToDipRect answers in whole units of Electron, whose setBounds     *)
(* turns them into whole pixels again.                                     *)
ToDips(pixels) == (100 * pixels) \div Scale
ToPixels(dips) == (dips * Scale) \div 100
ElectronMovesToPixels(bounds) == \* defect: Electron is given pixels for its units
  /\ window' = [window EXCEPT !.at = ToPixels(bounds)]
  /\ asked' = bounds
ElectronMovesTo(bounds) ==
  /\ window' = [window EXCEPT !.at = ToPixels(ToDips(bounds))]
  /\ asked' = bounds

(* applyElectronBounds: with the bounds of the call, of the parent that    *)
(* attachParent returned, or those the controller was created with.        *)
ApplyElectronBounds ==
  /\ \/ Doing("electronMove")
        /\ ElectronMovesTo(IF call.of = "attachParent" THEN cached ELSE call.to)
     \/ /\ Doing("adopt")
        /\ IF config.positionParent /\ parent = NoParent
           THEN UNCHANGED <<window, asked>>
           ELSE ElectronMovesTo(Target)
  /\ UNCHANGED <<controllerVars, electron, place, dirty>>

(* setIgnoreMouseEvents: Electron sets the styles it lets the mouse        *)
(* through with, or takes its own away again.                              *)
SetIgnoreMouseEvents ==
  /\ Doing("ignore")
  /\ \E layered \in BOOLEAN :
       /\ config.clickThrough \/ window.translucent => layered
       /\ window' = [window EXCEPT !.transparent = config.clickThrough, !.layered = layered]
  /\ UNCHANGED <<controllerVars, electron, place, dirty, asked>>

-----------------------------------------------------------------------------
(* Other processes, and the user.  The system forgets an owner that closed *)
(* or keeps its handle.                                                    *)
ParentChanges ==
  /\ \E w \in Parents, at \in Places \cup {NoPlace} :
       /\ IsWindow(w) /\ place' = [place EXCEPT ![w] = at]
       /\ IF at = NoPlace /\ w \in {parent, window.owner}
          THEN /\ dirty' = TRUE
               /\ \/ UNCHANGED window
                  \/ window.owner = w /\ window' = [window EXCEPT !.owner = NoParent]
          ELSE UNCHANGED <<window, dirty>>
  /\ UNCHANGED <<controllerVars, call, electron, asked>>

WindowCloses ==
  /\ Idle /\ window.alive /\ window' = [window EXCEPT !.alive = FALSE]
  /\ UNCHANGED <<controllerVars, call, electron, place, dirty, asked>>

Methods ==
  \/ Configure
  \/ \E w \in Parents, reposition \in BOOLEAN : AttachParent(w, reposition)
  \/ DetachParent \/ UseParentBounds \/ Reapply \/ Close
  \/ \E bounds \in Places : SetBounds(bounds)
  \/ \E enabled \in BOOLEAN : SetClickThrough(enabled) \/ SetAlwaysOnTop(enabled)
Steps ==
  \/ Throws \/ ApplyStyles \/ CheckParent \/ SetOwner \/ Move \/ ApplyZOrder
  \/ Answer \/ ApplyElectronBounds \/ SetIgnoreMouseEvents

Next == Methods \/ Steps \/ ParentChanges \/ WindowCloses

Spec == Init /\ [][Next]_vars

-----------------------------------------------------------------------------
TypeOK ==
  /\ {closed, electron, dirty} \subseteq BOOLEAN
  /\ config \in [bounds: Places, positionParent: BOOLEAN, clickThrough: BOOLEAN,
                 above: BOOLEAN, preserveLayered: BOOLEAN]
  /\ parent \in Parents \cup {NoParent} /\ cached \in Places
  /\ call.at \in {"unconfigured", "idle", "running"}
  /\ call.at = "running" <=> call.todo # <<>>
  /\ window \in [alive: BOOLEAN, owner: Parents \cup {NoParent}, transparent: BOOLEAN,
                 layered: BOOLEAN, topmost: BOOLEAN, at: Nat, translucent: BOOLEAN]
  /\ place \in [Parents -> Places \cup {NoPlace}] /\ asked \in Places \cup {NoPlace}

(* Once an Apply has come to its end, whichever methods threw half way     *)
(* before, and no method after it has thrown nor the parent closed, the    *)
(* window has the owner, styles and z-order that were configured.          *)
(* A window Electron made translucent always keeps its layers: without     *)
(* WS_EX_LAYERED it would be opaque.                                       *)
PolicyHolds ==
  Idle /\ window.alive =>
    /\ window.translucent => window.layered
    /\ ~closed /\ ~dirty =>
         /\ window.owner = parent /\ window.topmost = config.above
         /\ window.transparent = config.clickThrough
         /\ config.clickThrough => window.layered

(* Once both layers have positioned the window, the one in pixels, the     *)
(* other in units of Electron, it is where it was asked to be, or less     *)
(* than one such unit and a pixel before it; exactly where it was asked to *)
(* be if units are pixels.                                                 *)
PositionHolds ==
  Idle /\ asked # NoPlace =>
    /\ window.at <= asked /\ 100 * (asked - window.at) < Scale + 100
    /\ Scale = 100 \/ ~electron => window.at = asked

(* "attachParent(query, ...): ParentInfo | null"                           *)
(* (packages/electron-overlay/README.md): when it found a window it has    *)
(* one to return.                                                          *)
AttachReturnsParent ==
  call.at = "running" /\ Head(call.todo) = "answer" => parent # NoParent
=============================================================================

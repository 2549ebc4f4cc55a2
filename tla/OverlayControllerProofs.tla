------------------------ MODULE OverlayControllerProofs -----------------------
(***************************************************************************)
(* Whatever backend configure() has chosen, the window has the policy that *)
(* was configured and is where it was asked to be: for any places, parents *)
(* and scale of the display, however far the window manager is behind and  *)
(* whichever calls fail.                                                   *)
(***************************************************************************)
EXTENDS OverlayController, Integers, SequenceTheorems, TLAPS

-----------------------------------------------------------------------------
(* The sequences of the two controllers that work in several steps.        *)

(* The message for atom the window manager comes to last, if there is one, *)
(* or else what it has already, is on: after q, it is what is wanted.      *)
Speaks(q, i, atom) == q[i][1] = "state" /\ q[i][2] = atom
EndsAs(q, atoms, atom, on) ==
  /\ \A i \in DOMAIN q :
       Speaks(q, i, atom) /\ (\A j \in DOMAIN q : j > i => ~Speaks(q, j, atom)) => q[i][3] = on
  /\ (\A i \in DOMAIN q : ~Speaks(q, i, atom)) => (atom \in atoms <=> on)

StateSent(q) == \E i \in DOMAIN q : q[i][1] = "state"

Has(q, x) == \E i \in DOMAIN q : q[i] = x

-----------------------------------------------------------------------------
(* X11.                                                                    *)

Messages ==
  {<<"map">>, <<"unmap">>} \cup ({"configure"} \X Places) \cup ({"state"} \X X11!Atoms \X BOOLEAN)

ToDos == {<<>>, <<"above">>, <<"skip">>, <<"above", "skip">>}
X11Calls ==
  [at: {"unconfigured", "idle", "attributes", "message", "read", "write"}, todo: ToDos,
   atom: X11!Atoms \cup {"none"}, read: SUBSET X11!Atoms, apply: BOOLEAN, position: BOOLEAN]

Changes == {"message", "read", "write"}
X11Typed ==
  /\ X11!TypeOK /\ inbox \in Seq(Messages) /\ call \in X11Calls
  /\ call.at \in Changes => call.atom \in X11!Atoms
  /\ call.at \in {"unconfigured", "idle"} => call.todo = <<>> /\ ~call.apply

(* What the server was told at once is as configured, but for the shape    *)
(* that Apply() still has to set.                                          *)
Told ==
  /\ viewable => managed
  /\ transient = parent
  /\ call.at # "unconfigured" => call.apply \/ shape = X11!InputShape(config.clickThrough)

(* While the map state stands still, a call takes one path to the end.     *)
Path ==
  ~dirty =>
    /\ call.at \in {"attributes"} \cup Changes => managed = viewable
    /\ call.at = "message" => viewable
    /\ call.at \in {"read", "write"} => ~viewable
    /\ call.at = "write" => call.read = state
    /\ call.at # "unconfigured" /\ ~managed => ~StateSent(inbox)

(* Of the atoms the call is past, the window manager has what is wanted or *)
(* will have it once it is done with its inbox; if the window is not       *)
(* managed, the property has it.                                           *)
Due(atom) ==
  \/ call.at = "unconfigured" \/ Has(call.todo, atom)
  \/ call.at \in Changes /\ call.atom = atom
AtomsHold ==
  ~dirty => \A atom \in X11!Atoms :
    ~Due(atom) => IF managed THEN EndsAs(inbox, wmState, atom, X11!Wants(atom))
                             ELSE atom \in state <=> X11!Wants(atom)

X11Inv == X11Typed /\ Told /\ Path /\ AtomsHold

-----------------------------------------------------------------------------
(* Win32.                                                                  *)

Win32Steps == {"styles", "parent", "owner", "zorder", "position", "move", "adopt", "ignore",
               "answer", "electronMove"}
Win32Methods == {"none", "configure", "attachParent", "detachParent", "setBounds",
                 "useParentBounds", "setClickThrough", "setAlwaysOnTop", "reapply"}
Win32Calls ==
  [at: {"unconfigured", "idle", "running"}, of: Win32Methods, todo: Seq(Win32Steps), to: Nat]

Owes(step) == Has(call.todo, step)

Win32Typed ==
  /\ Win32!TypeOK /\ call \in Win32Calls
  /\ Owes("move") \/ Owes("electronMove") => call.to \in Places

(* The order of the steps that a method leaves to be done: a parent is     *)
(* forgotten before its window stops being the owner; Electron's layer     *)
(* moves the window last.                                                  *)
Ordered(q) ==
  /\ \A i \in DOMAIN q : q[i] = "parent" => \E j \in DOMAIN q : j > i /\ q[j] = "owner"
  /\ \A i, j \in DOMAIN q :
       i < j /\ q[i] \in {"electronMove", "adopt"} => q[j] \notin {"move", "position"}

(* What the window lacks of the policy is still to be done.                *)
PolicyDue ==
  /\ window.translucent => window.layered
  /\ call.at # "unconfigured" => (window.translucent => config.preserveLayered)
  /\ ~dirty /\ ~closed /\ call.at # "unconfigured" =>
       /\ parent = NoParent \/ Win32!IsWindow(parent) \/ Owes("parent")
       /\ window.owner = parent \/ Owes("owner")
       /\ window.topmost = config.above \/ Owes("zorder")
       /\ window.transparent = config.clickThrough \/ Owes("styles")
       /\ (config.clickThrough => window.layered) \/ Owes("styles")

(* A window that was moved is where its last move led; while both layers   *)
(* have still to move it, no place is claimed.  Only a BrowserWindow is    *)
(* moved by Electron.                                                      *)
Near(at, to) ==
  /\ at <= to /\ 100 * (to - at) < Scale + 100
  /\ Scale = 100 \/ ~electron => at = to
PositionDue ==
  /\ asked # NoPlace => Near(window.at, asked)
  /\ electron /\ (Owes("move") \/ Owes("position")) => asked = NoPlace
  /\ Owes("electronMove") \/ Owes("adopt") => electron

Win32Inv == Win32Typed /\ Ordered(call.todo) /\ PolicyDue /\ PositionDue
-----------------------------------------------------------------------------
(* Wayland-Electron: its invariant is what the properties say of it.       *)

WaylandInv == Wayland!TypeOK /\ Wayland!PolicyHolds

Browsers == [alive: BOOLEAN, at: Places, ignores: BOOLEAN, top: BOOLEAN, everywhere: BOOLEAN]

LEMMA WaylandInit == Wayland!Init => WaylandInv
<1> SUFFICES ASSUME Wayland!Init PROVE WaylandInv
  OBVIOUS
<1>1. config \in Wayland!Configs
  BY DEF Wayland!Init, Wayland!Configs
<1>2. browser \in Browsers
  BY DEF Wayland!Init, Browsers
<1>3. closed = FALSE /\ call.at = "unconfigured"
  BY DEF Wayland!Init
<1> QED
  BY <1>1, <1>2, <1>3 DEF WaylandInv, Wayland!TypeOK, Wayland!PolicyHolds, Browsers

LEMMA StateChanges ==
  ASSUME NEW s \in Wayland!Configs, NEW at \in Places, NEW c, c = [s EXCEPT !.bounds = at]
  PROVE  /\ c \in Wayland!Configs /\ c.clickThrough = s.clickThrough /\ c.above = s.above
         /\ c.everywhere = s.everywhere
         /\ s.bounds \in Places /\ s.clickThrough \in BOOLEAN /\ s.above \in BOOLEAN
         /\ s.everywhere \in BOOLEAN
BY DEF Wayland!Configs

(* Whichever call of reapply() throws: the calls before it changed the     *)
(* window and the state alike.                                             *)
LEMMA WaylandReapplied ==
  ASSUME WaylandInv, NEW given \in Wayland!Configs, NEW done \in 0 .. 5, NEW at \in Places,
         Wayland!Reapplied(done, given, at)
  PROVE  /\ config' \in Wayland!Configs
         /\ browser' \in Browsers
         /\ done = 5 \/ (given = config /\ call.at = "idle" /\ ~closed) =>
              /\ browser'.ignores = config'.clickThrough
              /\ browser'.top = config'.above /\ browser'.everywhere = config'.everywhere
<1> DEFINE place_ == IF done >= 1 THEN at ELSE browser.at
           bounds == IF done >= 2 THEN at ELSE given.bounds
           ignores == IF done >= 3 THEN given.clickThrough ELSE browser.ignores
           top == IF done >= 4 THEN given.above ELSE browser.top
           everywhere == IF done >= 5 THEN given.everywhere ELSE browser.everywhere
<1>1. browser \in Browsers /\ browser' = [browser EXCEPT !.at = place_, !.ignores = ignores,
                                          !.top = top, !.everywhere = everywhere]
  BY DEF WaylandInv, Wayland!TypeOK, Browsers, Wayland!Reapplied
<1>2. config' = [given EXCEPT !.bounds = bounds]
  BY DEF Wayland!Reapplied
<1>3. /\ place_ \in Places /\ ignores \in BOOLEAN /\ top \in BOOLEAN /\ everywhere \in BOOLEAN
      /\ bounds \in Places
  BY <1>1 DEF Browsers, Wayland!Configs
<1> HIDE DEF place_, bounds, ignores, top, everywhere
<1>4. /\ browser' \in Browsers /\ browser'.ignores = ignores /\ browser'.top = top
      /\ browser'.everywhere = everywhere
  BY <1>1, <1>3 DEF Browsers
<1>5. /\ config' \in Wayland!Configs /\ config'.clickThrough = given.clickThrough
      /\ config'.above = given.above /\ config'.everywhere = given.everywhere
  BY <1>2, <1>3, StateChanges
<1>6. ASSUME done = 5 \/ (given = config /\ call.at = "idle" /\ ~closed)
      PROVE  /\ ignores = given.clickThrough /\ top = given.above
             /\ everywhere = given.everywhere
  BY <1>6 DEF WaylandInv, Wayland!PolicyHolds, ignores, top, everywhere
<1> QED
  BY <1>4, <1>5, <1>6

LEMMA WaylandStep == WaylandInv /\ Wayland!Next => WaylandInv'
<1> SUFFICES ASSUME WaylandInv, Wayland!Next PROVE WaylandInv'
  OBVIOUS
<1> USE DEF WaylandInv, Wayland!TypeOK, Wayland!PolicyHolds
<1>1. CASE Wayland!Configure
  <2>1. PICK given \in Wayland!Configs, done \in 0 .. 5, at \in Places :
          /\ Wayland!Reapplied(done, given, at)
          /\ call' = [at |-> IF done = 5 THEN "idle" ELSE "unconfigured"]
    BY <1>1 DEF Wayland!Configure, Wayland!ReapplySteps
  <2>2. closed' = FALSE
    BY <1>1 DEF Wayland!Configure
  <2>3. call'.at = IF done = 5 THEN "idle" ELSE "unconfigured"
    BY <2>1
  <2> QED
    BY <2>1, <2>2, <2>3, WaylandReapplied DEF Browsers
<1>2. CASE Wayland!Reapply
  <2>1. PICK done \in 0 .. 5, at \in Places : Wayland!Reapplied(done, config, at)
    BY <1>2 DEF Wayland!Reapply, Wayland!ReapplySteps
  <2>2. call.at = "idle" /\ ~closed /\ UNCHANGED <<closed, call>>
    BY <1>2 DEF Wayland!Reapply, Wayland!Open
  <2> QED
    BY <2>1, <2>2, WaylandReapplied DEF Browsers
<1>3. CASE \E bounds \in Places : Wayland!SetBounds(bounds)
  BY <1>3 DEF Wayland!SetBounds, Wayland!Open, Wayland!Configs
<1>4. ASSUME NEW enabled \in BOOLEAN, Wayland!SetClickThrough(enabled) PROVE WaylandInv'
  BY <1>4 DEF Wayland!SetClickThrough, Wayland!WindowFirst, Wayland!Open, Wayland!Configs
<1>5. ASSUME NEW enabled \in BOOLEAN, Wayland!SetAlwaysOnTop(enabled) PROVE WaylandInv'
  BY <1>5 DEF Wayland!SetAlwaysOnTop, Wayland!WindowFirst, Wayland!Open, Wayland!Configs
<1>6. CASE Wayland!Close
  BY <1>6 DEF Wayland!Close
<1>7. CASE Wayland!CompositorPlaces
  BY <1>7 DEF Wayland!CompositorPlaces
<1>8. CASE Wayland!WindowDestroyed
  BY <1>8 DEF Wayland!WindowDestroyed
<1> QED
  BY <1>1, <1>2, <1>3, <1>4, <1>5, <1>6, <1>7, <1>8 DEF Wayland!Next

-----------------------------------------------------------------------------
(* macOS: so is its.                                                       *)

MacInv == Mac!TypeOK /\ Mac!PolicyHolds /\ Mac!PositionHolds

Windows == [top: Mac!Tops, frame: Int, ignores: BOOLEAN, floating: BOOLEAN, visible: BOOLEAN]

LEMMA MacInit == Mac!Init => MacInv
<1> SUFFICES ASSUME Mac!Init PROVE MacInv
  OBVIOUS
<1>1. config \in Mac!Configs
  BY PlacesAssumption DEF Mac!Init, Mac!Configs
<1>2. cocoa \in Windows
  <2>1. cocoa \in [top: Mac!Tops, frame: {0}, ignores: BOOLEAN, floating: {FALSE}, visible: {FALSE}]
    BY DEF Mac!Init
  <2>2. {0} \subseteq Int /\ {FALSE} \subseteq BOOLEAN
    OBVIOUS
  <2> QED
    BY <2>1, <2>2, Zenon DEF Windows
<1>3. closed = FALSE /\ call.at = "unconfigured" /\ place \in [Parents -> Places \cup {NoPlace}]
  BY DEF Mac!Init
<1> QED
  BY <1>1, <1>2, <1>3 DEF Mac!Init, MacInv, Mac!TypeOK, Windows, Mac!PolicyHolds, Mac!PositionHolds

(* A window that was moved by Cocoa's frame is where the controller asked. *)
LEMMA FrameOfBounds ==
  ASSUME NEW at \in Places, cocoa \in Windows, NEW c \in Windows, c.top = cocoa.top,
         c.frame = Mac!CocoaFrame(at)
  PROVE  c.top - (c.frame + Mac!Height) = at
BY PlacesAssumption DEF Windows, Mac!Tops, Mac!CocoaFrame, Mac!Height

LEMMA FrameIsInt ==
  ASSUME NEW at \in Places, cocoa \in Windows PROVE Mac!CocoaFrame(at) \in Int
BY PlacesAssumption DEF Windows, Mac!Tops, Mac!CocoaFrame, Mac!Height

LEMMA MacFields ==
  MacInv => /\ closed \in BOOLEAN /\ call.at \in {"unconfigured", "idle"}
            /\ config \in Mac!Configs /\ cocoa \in Windows
            /\ config.clickThrough \in BOOLEAN /\ config.above \in BOOLEAN
            /\ cocoa.visible \in BOOLEAN
            /\ parent \in Parents \cup {NoParent} /\ cached \in Places
            /\ place \in [Parents -> Places \cup {NoPlace}] /\ asked \in Places \cup {NoPlace}
BY DEF MacInv, Mac!TypeOK, Windows, Mac!Configs

(* What a method owes: the window has the policy of the new state, and its *)
(* frame is that of the bounds asked for, or remains.                      *)
LEMMA MacKeeps ==
  ASSUME MacInv,
         closed' \in BOOLEAN, call'.at \in {"unconfigured", "idle"}, config' \in Mac!Configs,
         parent' \in Parents \cup {NoParent}, cached' \in Places, UNCHANGED place,
         cocoa' \in Windows, cocoa'.top = cocoa.top,
         call'.at = "idle" /\ ~closed' =>
           cocoa'.ignores = config'.clickThrough /\ cocoa'.floating = config'.above,
         \/ UNCHANGED <<asked, call>> /\ cocoa'.frame = cocoa.frame
         \/ asked' \in Places /\ cocoa'.frame = Mac!CocoaFrame(asked')
         \/ asked' = NoPlace
  PROVE  MacInv'
<1>1. Mac!TypeOK'
  BY MacFields DEF Mac!TypeOK, Windows, Mac!Configs
<1>2. Mac!PositionHolds'
  <2>1. CASE UNCHANGED <<asked, call>> /\ cocoa'.frame = cocoa.frame
    BY <2>1 DEF MacInv, Mac!PositionHolds, Mac!ElectronBounds
  <2>2. CASE asked' \in Places /\ cocoa'.frame = Mac!CocoaFrame(asked')
    BY <2>2, MacFields, FrameOfBounds DEF Mac!PositionHolds, Mac!ElectronBounds
  <2>3. CASE asked' = NoPlace
    BY <2>3 DEF Mac!PositionHolds
  <2> QED
    BY <2>1, <2>2, <2>3
<1> QED
  BY <1>1, <1>2 DEF MacInv, Mac!PolicyHolds

(* Another frame alone.                                                    *)
LEMMA MacMoves ==
  ASSUME MacInv, NEW at \in Places, Mac!Move(at)
  PROVE  /\ cocoa' \in Windows /\ cocoa'.top = cocoa.top /\ asked' \in Places
         /\ cocoa'.ignores = cocoa.ignores /\ cocoa'.floating = cocoa.floating
         /\ cocoa'.frame = Mac!CocoaFrame(asked')
<1>1. Mac!CocoaFrame(at) \in Int
  BY MacFields, FrameIsInt
<1> QED
  BY <1>1, MacFields DEF Mac!Move, Windows

LEMMA MacApplies ==
  ASSUME MacInv, NEW c \in Mac!Configs, NEW p, NEW frame \in Int,
         cocoa' = [Mac!Applied(c, p) EXCEPT !.frame = frame] \/
           (cocoa' = Mac!Applied(c, p) /\ frame = cocoa.frame)
  PROVE  /\ cocoa' \in Windows /\ cocoa'.top = cocoa.top /\ cocoa'.frame = frame
         /\ cocoa'.ignores = c.clickThrough /\ cocoa'.floating = c.above
<1>1. c.clickThrough \in BOOLEAN /\ c.above \in BOOLEAN
  BY DEF Mac!Configs
<1>2. PICK visible \in BOOLEAN : visible = (cocoa.visible \/ p # NoParent \/ c.above)
  OBVIOUS
<1>3. Mac!Applied(c, p) = [cocoa EXCEPT !.ignores = c.clickThrough, !.floating = c.above,
                                        !.visible = visible]
  BY <1>2 DEF Mac!Applied
<1>4. Mac!Applied(c, p) \in Windows /\ Mac!Applied(c, p).top = cocoa.top
      /\ Mac!Applied(c, p).frame = cocoa.frame
      /\ Mac!Applied(c, p).ignores = c.clickThrough /\ Mac!Applied(c, p).floating = c.above
  BY <1>1, <1>3, MacFields DEF Windows
<1>5. CASE cocoa' = [Mac!Applied(c, p) EXCEPT !.frame = frame]
  BY <1>4, <1>5 DEF Windows
<1>6. CASE cocoa' = Mac!Applied(c, p) /\ frame = cocoa.frame
  BY <1>4, <1>6
<1> QED
  BY <1>5, <1>6

LEMMA MacStep == MacInv /\ Mac!Next => MacInv'
<1> SUFFICES ASSUME MacInv, Mac!Next PROVE MacInv'
  OBVIOUS
<1> USE MacFields DEF Mac!Open, Mac!controllerVars
<1>0. call.at = "idle" /\ ~closed => cocoa.ignores = config.clickThrough /\ cocoa.floating = config.above
  BY DEF MacInv, Mac!PolicyHolds
<1>1. CASE Mac!Configure
  <2>1. /\ config' \in Mac!Configs /\ closed' = FALSE /\ call'.at = "idle"
        /\ parent' \in Parents \cup {NoParent} /\ cached' \in Places /\ UNCHANGED place
    BY <1>1 DEF Mac!Configure, Mac!Configs, Mac!FindParent, Mac!Exists
  <2>2. asked' \in Places \cup {NoPlace}
    BY <1>1, <2>1 DEF Mac!Configure, Mac!Configs
  <2>3. CASE asked' = NoPlace
    <3>1. cocoa' = [Mac!Applied(config', parent') EXCEPT !.frame = @]
      BY <1>1, <2>3 DEF Mac!Configure
    <3>2. cocoa.frame \in Int
      BY DEF Windows
    <3>3. cocoa' = [Mac!Applied(config', parent') EXCEPT !.frame = cocoa.frame]
      BY <3>1 DEF Mac!Applied, Windows
    <3>4. /\ cocoa' \in Windows /\ cocoa'.top = cocoa.top
          /\ cocoa'.ignores = config'.clickThrough /\ cocoa'.floating = config'.above
      BY <2>1, <3>2, <3>3, MacApplies
    <3> QED
      BY <2>1, <2>3, <3>4, MacKeeps
  <2>4. CASE asked' \in Places
    <3>1. Mac!CocoaFrame(asked') \in Int
      BY <2>4, FrameIsInt
    <3>2. cocoa' = [Mac!Applied(config', parent') EXCEPT !.frame = Mac!CocoaFrame(asked')]
      BY <1>1, <2>4, PlacesAssumption DEF Mac!Configure
    <3>3. /\ cocoa' \in Windows /\ cocoa'.top = cocoa.top /\ cocoa'.ignores = config'.clickThrough
          /\ cocoa'.floating = config'.above /\ cocoa'.frame = Mac!CocoaFrame(asked')
      BY <2>1, <3>1, <3>2, MacApplies
    <3> QED
      BY <2>1, <2>4, <3>3, MacKeeps
  <2> QED
    BY <2>2, <2>3, <2>4
<1>2. ASSUME NEW w \in Parents, NEW reposition \in BOOLEAN, Mac!AttachParent(w, reposition)
      PROVE  MacInv'
  <2>1. place[w] \in Places
    BY <1>2 DEF Mac!AttachParent, Mac!FindParent, Mac!Exists
  <2>2. CASE Mac!Move(place[w])
    BY <1>0, <1>2, <2>1, <2>2, MacMoves, MacKeeps DEF Mac!AttachParent
  <2>3. CASE UNCHANGED <<cocoa, asked>>
    BY <1>0, <1>2, <2>1, <2>3, MacKeeps DEF Mac!AttachParent
  <2> QED
    BY <1>2, <2>2, <2>3 DEF Mac!AttachParent
<1>3. CASE Mac!DetachParent
  BY <1>0, <1>3, MacKeeps DEF Mac!DetachParent
<1>4. ASSUME NEW bounds \in Places, Mac!SetBounds(bounds) PROVE MacInv'
  <2>1. /\ config' \in Mac!Configs /\ config'.clickThrough = config.clickThrough
        /\ config'.above = config.above
    BY <1>4, PlacesAssumption DEF Mac!SetBounds, Mac!Configs
  <2> QED
    BY <1>0, <1>4, <2>1, MacMoves, MacKeeps DEF Mac!SetBounds
<1>5. CASE Mac!UseParentBounds
  <2>1. /\ config' \in Mac!Configs /\ config'.clickThrough = config.clickThrough
        /\ config'.above = config.above
    BY <1>5 DEF Mac!UseParentBounds, Mac!Configs
  <2>2. CASE parent # NoParent /\ Mac!Exists(parent)
    <3>1. place[parent] \in Places
      BY <2>2 DEF Mac!Exists
    <3> QED
      BY <1>0, <1>5, <2>1, <2>2, <3>1, MacMoves, MacKeeps DEF Mac!UseParentBounds
  <2>3. CASE UNCHANGED <<cached, cocoa, asked>>
    BY <1>0, <1>5, <2>1, <2>3, MacKeeps DEF Mac!UseParentBounds
  <2> QED
    BY <1>5, <2>2, <2>3 DEF Mac!UseParentBounds
<1>6. ASSUME NEW enabled \in BOOLEAN, Mac!SetClickThrough(enabled) PROVE MacInv'
  <2>1. /\ config' \in Mac!Configs /\ config'.clickThrough = enabled
        /\ config'.above = config.above
    BY <1>6 DEF Mac!SetClickThrough, Mac!Configs
  <2>2. /\ cocoa' \in Windows /\ cocoa'.top = cocoa.top /\ cocoa'.frame = cocoa.frame
        /\ cocoa'.ignores = enabled /\ cocoa'.floating = cocoa.floating
    BY <1>6 DEF Mac!SetClickThrough, Windows
  <2> QED
    BY <1>0, <1>6, <2>1, <2>2, MacKeeps DEF Mac!SetClickThrough
<1>7. ASSUME NEW enabled \in BOOLEAN, Mac!SetAlwaysOnTop(enabled) PROVE MacInv'
  <2>1. /\ config' \in Mac!Configs /\ config'.clickThrough = config.clickThrough
        /\ config'.above = enabled
    BY <1>7 DEF Mac!SetAlwaysOnTop, Mac!Configs
  <2>2. PICK visible \in BOOLEAN :
          cocoa' = [cocoa EXCEPT !.floating = enabled, !.visible = visible]
    <3>1. PICK visible \in BOOLEAN : visible = (cocoa.visible \/ enabled)
      OBVIOUS
    <3> QED
      BY <1>7, <3>1 DEF Mac!SetAlwaysOnTop
  <2>3. /\ cocoa' \in Windows /\ cocoa'.top = cocoa.top /\ cocoa'.frame = cocoa.frame
        /\ cocoa'.ignores = cocoa.ignores /\ cocoa'.floating = enabled
    BY <2>2 DEF Windows
  <2> QED
    BY <1>0, <1>7, <2>1, <2>3, MacKeeps DEF Mac!SetAlwaysOnTop
<1>8. CASE Mac!Reapply
  <2>1. cocoa.frame \in Int
    BY DEF Windows
  <2>2. /\ cocoa' \in Windows /\ cocoa'.top = cocoa.top /\ cocoa'.frame = cocoa.frame
        /\ cocoa'.ignores = config.clickThrough /\ cocoa'.floating = config.above
    BY <1>8, <2>1, MacApplies DEF Mac!Reapply
  <2> QED
    BY <1>8, <2>2, MacKeeps DEF Mac!Reapply
<1>9. CASE Mac!Close
  BY <1>9, MacKeeps DEF Mac!Close
<1>10. CASE Mac!ParentChanges
  BY <1>10 DEF Mac!ParentChanges, MacInv, Mac!TypeOK, Mac!PolicyHolds, Mac!PositionHolds,
               Mac!ElectronBounds
<1>11. CASE Mac!ElectronShows
  <2>1. PICK visible \in BOOLEAN : cocoa' = [cocoa EXCEPT !.visible = visible]
    <3>1. PICK visible \in BOOLEAN : visible = ~cocoa.visible
      OBVIOUS
    <3> QED
      BY <1>11, <3>1 DEF Mac!ElectronShows
  <2>2. /\ cocoa' \in Windows /\ cocoa'.top = cocoa.top /\ cocoa'.frame = cocoa.frame
        /\ cocoa'.ignores = cocoa.ignores /\ cocoa'.floating = cocoa.floating
    BY <2>1 DEF Windows
  <2> QED
    BY <1>0, <1>11, <2>2, MacKeeps DEF Mac!ElectronShows
<1>12. CASE Mac!ScreensChange
  <2>1. PICK top \in Mac!Tops, at \in Places :
          cocoa' = [cocoa EXCEPT !.top = top, !.frame = top - at - Mac!Height]
    BY <1>12 DEF Mac!ScreensChange
  <2>2. top - at - Mac!Height \in Int
    BY PlacesAssumption DEF Mac!Tops, Mac!Height
  <2>3. cocoa' \in Windows /\ cocoa'.ignores = cocoa.ignores /\ cocoa'.floating = cocoa.floating
    BY <2>1, <2>2 DEF Windows
  <2>4. UNCHANGED <<closed, config, parent, cached, call, place>> /\ asked' = NoPlace
    BY <1>12 DEF Mac!ScreensChange
  <2> QED
    BY <1>0, <2>3, <2>4 DEF MacInv, Mac!TypeOK, Mac!Configs, Windows, Mac!PolicyHolds, Mac!PositionHolds
<1> QED
  BY <1>1, <1>2, <1>3, <1>4, <1>5, <1>6, <1>7, <1>8, <1>9, <1>10, <1>11, <1>12 DEF Mac!Next
-----------------------------------------------------------------------------
(* Win32: what the methods leave to be done.                               *)

LEMMA HasOne == \A a, x : (Has(<<a>>, x) <=> x = a) /\ ~Has(<<>>, x)
BY DEF Has

LEMMA HasTail ==
  ASSUME NEW S, NEW q \in Seq(S), q # <<>>
  PROVE  \A x : Has(q, x) <=> x = Head(q) \/ Has(Tail(q), x)
<1>1. /\ Len(q) \in Nat /\ Len(q) > 0 /\ DOMAIN q = 1 .. Len(q) /\ Head(q) = q[1]
      /\ DOMAIN Tail(q) = 1 .. Len(q) - 1
      /\ \A i \in 1 .. Len(q) - 1 : Tail(q)[i] = q[i + 1]
  OBVIOUS
<1> SUFFICES ASSUME NEW x PROVE Has(q, x) <=> x = Head(q) \/ Has(Tail(q), x)
  OBVIOUS
<1>2. ASSUME NEW i \in DOMAIN q, q[i] = x PROVE x = Head(q) \/ Has(Tail(q), x)
  <2>1. CASE i = 1
    BY <1>1, <1>2, <2>1
  <2>2. CASE i # 1
    <3>1. i - 1 \in DOMAIN Tail(q) /\ Tail(q)[i - 1] = x
      BY <1>1, <1>2, <2>2
    <3> QED
      BY <3>1 DEF Has
  <2> QED
    BY <2>1, <2>2
<1>3. ASSUME NEW i \in DOMAIN Tail(q), Tail(q)[i] = x PROVE Has(q, x)
  <2>1. i + 1 \in DOMAIN q /\ q[i + 1] = x
    BY <1>1, <1>3
  <2> QED
    BY <2>1 DEF Has
<1>4. ASSUME x = Head(q) PROVE Has(q, x)
  BY <1>1, <1>4 DEF Has
<1> QED
  BY <1>2, <1>3, <1>4 DEF Has

LEMMA OrderedTail ==
  ASSUME NEW S, NEW q \in Seq(S), q # <<>>, Ordered(q)
  PROVE  /\ Ordered(Tail(q))
         /\ Head(q) = "parent" => Has(Tail(q), "owner")
         /\ Head(q) \in {"electronMove", "adopt"} =>
              ~Has(Tail(q), "move") /\ ~Has(Tail(q), "position")
<1>1. /\ Len(q) \in Nat /\ Len(q) > 0 /\ DOMAIN q = 1 .. Len(q) /\ Head(q) = q[1]
      /\ DOMAIN Tail(q) = 1 .. Len(q) - 1
      /\ \A i \in 1 .. Len(q) - 1 : Tail(q)[i] = q[i + 1]
  OBVIOUS
<1>2. ASSUME NEW i \in DOMAIN Tail(q), Tail(q)[i] = "parent"
      PROVE  \E j \in DOMAIN Tail(q) : j > i /\ Tail(q)[j] = "owner"
  <2>1. i + 1 \in DOMAIN q /\ q[i + 1] = "parent"
    BY <1>1, <1>2
  <2>2. PICK j \in DOMAIN q : j > i + 1 /\ q[j] = "owner"
    BY <2>1 DEF Ordered
  <2>3. j - 1 \in DOMAIN Tail(q) /\ j - 1 > i /\ Tail(q)[j - 1] = "owner"
    BY <1>1, <1>2, <2>2
  <2> QED
    BY <2>3
<1>3. ASSUME NEW i \in DOMAIN Tail(q), NEW j \in DOMAIN Tail(q), i < j,
             Tail(q)[i] \in {"electronMove", "adopt"}
      PROVE  Tail(q)[j] \notin {"move", "position"}
  <2>1. i + 1 \in DOMAIN q /\ j + 1 \in DOMAIN q /\ i + 1 < j + 1
    BY <1>1, <1>3
  <2>2. Tail(q)[i] = q[i + 1] /\ Tail(q)[j] = q[j + 1]
    BY <1>1
  <2> QED
    BY <1>3, <2>1, <2>2 DEF Ordered
<1>4. ASSUME Head(q) = "parent" PROVE Has(Tail(q), "owner")
  <2>1. PICK j \in DOMAIN q : j > 1 /\ q[j] = "owner"
    BY <1>1, <1>4 DEF Ordered
  <2>2. j - 1 \in DOMAIN Tail(q) /\ Tail(q)[j - 1] = "owner"
    BY <1>1, <2>1
  <2> QED
    BY <2>2 DEF Has
<1>5. ASSUME Head(q) \in {"electronMove", "adopt"}, NEW j \in DOMAIN Tail(q)
      PROVE  Tail(q)[j] \notin {"move", "position"}
  <2>1. 1 \in DOMAIN q /\ j + 1 \in DOMAIN q /\ 1 < j + 1 /\ Tail(q)[j] = q[j + 1]
    BY <1>1
  <2> QED
    BY <1>1, <1>5, <2>1 DEF Ordered
<1> QED
  BY <1>2, <1>3, <1>4, <1>5 DEF Ordered, Has

(* One list of steps after the other.                                      *)
LEMMA ToDoThen ==
  ASSUME NEW s \in Seq(Win32Steps), NEW t \in Seq(Win32Steps), Ordered(s), Ordered(t),
         \/ ~Has(s, "electronMove") /\ ~Has(s, "adopt")
         \/ ~Has(t, "move") /\ ~Has(t, "position")
  PROVE  /\ s \o t \in Seq(Win32Steps) /\ Ordered(s \o t)
         /\ \A x : Has(s \o t, x) <=> Has(s, x) \/ Has(t, x)
<1> DEFINE q == s \o t
<1>1. /\ Len(s) \in Nat /\ DOMAIN s = 1 .. Len(s) /\ Len(t) \in Nat /\ DOMAIN t = 1 .. Len(t)
      /\ q \in Seq(Win32Steps) /\ DOMAIN q = 1 .. (Len(s) + Len(t))
      /\ \A i \in 1 .. (Len(s) + Len(t)) : q[i] = IF i <= Len(s) THEN s[i] ELSE t[i - Len(s)]
  OBVIOUS
<1> HIDE DEF q
<1>2. \A i \in DOMAIN s : i \in DOMAIN q /\ q[i] = s[i]
  BY <1>1
<1>3. \A i \in DOMAIN t : i + Len(s) \in DOMAIN q /\ q[i + Len(s)] = t[i] /\ i + Len(s) > Len(s)
  BY <1>1
<1>4. \A i \in DOMAIN q : \/ i \in DOMAIN s /\ q[i] = s[i]
                          \/ i > Len(s) /\ i - Len(s) \in DOMAIN t /\ q[i] = t[i - Len(s)]
  BY <1>1
<1>5. ASSUME NEW x PROVE Has(q, x) <=> Has(s, x) \/ Has(t, x)
  BY <1>2, <1>3, <1>4 DEF Has
<1>6. ASSUME NEW i \in DOMAIN q, q[i] = "parent" PROVE \E j \in DOMAIN q : j > i /\ q[j] = "owner"
  <2>1. CASE i \in DOMAIN s /\ q[i] = s[i]
    <3>1. PICK j \in DOMAIN s : j > i /\ s[j] = "owner"
      BY <1>6, <2>1 DEF Ordered
    <3> QED
      BY <1>2, <3>1
  <2>2. CASE i > Len(s) /\ i - Len(s) \in DOMAIN t /\ q[i] = t[i - Len(s)]
    <3>1. PICK j \in DOMAIN t : j > i - Len(s) /\ t[j] = "owner"
      BY <1>6, <2>2 DEF Ordered
    <3>2. j + Len(s) \in DOMAIN q /\ q[j + Len(s)] = "owner" /\ j + Len(s) > i
      BY <1>1, <1>3, <3>1
    <3> QED
      BY <3>2
  <2> QED
    BY <1>4, <2>1, <2>2
<1>7. ASSUME NEW i \in DOMAIN q, NEW j \in DOMAIN q, i < j, q[i] \in {"electronMove", "adopt"}
      PROVE  q[j] \notin {"move", "position"}
  <2>1. CASE i \in DOMAIN s /\ j \in DOMAIN s /\ q[i] = s[i] /\ q[j] = s[j]
    BY <1>7, <2>1 DEF Ordered
  <2>2. CASE /\ i > Len(s) /\ i - Len(s) \in DOMAIN t /\ q[i] = t[i - Len(s)]
             /\ j > Len(s) /\ j - Len(s) \in DOMAIN t /\ q[j] = t[j - Len(s)]
    <3>1. i - Len(s) < j - Len(s)
      BY <1>1, <1>7
    <3> QED
      BY <1>7, <2>2, <3>1 DEF Ordered
  <2>3. CASE i \in DOMAIN s /\ q[i] = s[i] /\ j - Len(s) \in DOMAIN t /\ q[j] = t[j - Len(s)]
    BY <1>7, <2>3 DEF Has
  <2> QED
    BY <1>1, <1>4, <1>7, <2>1, <2>2, <2>3
<1>8. Ordered(q)
  BY <1>6, <1>7 DEF Ordered
<1> QED
  BY <1>1, <1>5, <1>8 DEF q

LEMMA OneToDo == \A a \in Win32Steps \ {"parent"} : <<a>> \in Seq(Win32Steps) /\ Ordered(<<a>>)
BY DEF Ordered

LEMMA NothingToDo == <<>> \in Seq(Win32Steps) /\ Ordered(<<>>)
BY DEF Ordered

LEMMA ApplyToDo ==
  /\ Win32!Apply \in Seq(Win32Steps) /\ Ordered(Win32!Apply)
  /\ \A x : Has(Win32!Apply, x) <=> x \in {"styles", "parent", "owner", "zorder"}
  /\ Win32!ApplyInPlace \in Seq(Win32Steps) /\ Ordered(Win32!ApplyInPlace)
  /\ \A x : Has(Win32!ApplyInPlace, x) <=> x \in {"styles", "parent", "owner", "position", "zorder"}
<1>1. Win32!Apply \in Seq(Win32Steps) /\ Win32!ApplyInPlace \in Seq(Win32Steps)
  BY DEF Win32!Apply, Win32!ApplyInPlace, Win32Steps
<1>2. \A x : Has(Win32!Apply, x) <=> x \in {"styles", "parent", "owner", "zorder"}
  BY DEF Win32!Apply, Has
<1>3. \A x : Has(Win32!ApplyInPlace, x) <=> x \in {"styles", "parent", "owner", "position", "zorder"}
  BY DEF Win32!ApplyInPlace, Has
<1>4. Ordered(Win32!Apply)
  BY DEF Win32!Apply, Ordered
<1>5. Ordered(Win32!ApplyInPlace)
  BY DEF Win32!ApplyInPlace, Ordered
<1> QED
  BY <1>1, <1>2, <1>3, <1>4, <1>5
(* The window's record and the configuration, by their fields.             *)
Win32Configs == [bounds: Places, positionParent: BOOLEAN, clickThrough: BOOLEAN,
                 above: BOOLEAN, preserveLayered: BOOLEAN]
Win32Windows == [alive: BOOLEAN, owner: Parents \cup {NoParent}, transparent: BOOLEAN,
                 layered: BOOLEAN, topmost: BOOLEAN, at: Nat, translucent: BOOLEAN]

LEMMA Win32Fields ==
  Win32Inv =>
    /\ closed \in BOOLEAN /\ electron \in BOOLEAN /\ dirty \in BOOLEAN
    /\ config \in Win32Configs /\ window \in Win32Windows /\ call \in Win32Calls
    /\ config.clickThrough \in BOOLEAN /\ config.above \in BOOLEAN /\ config.bounds \in Places
    /\ config.preserveLayered \in BOOLEAN
    /\ window.layered \in BOOLEAN /\ window.owner \in Parents \cup {NoParent}
    /\ window.translucent \in BOOLEAN /\ window.at \in Nat
    /\ parent \in Parents \cup {NoParent} /\ cached \in Places
    /\ place \in [Parents -> Places \cup {NoPlace}] /\ asked \in Places \cup {NoPlace}
    /\ call.at \in {"unconfigured", "idle", "running"} /\ (call.at = "running" <=> call.todo # <<>>)
    /\ call.todo \in Seq(Win32Steps) /\ call.to \in Nat
BY DEF Win32Inv, Win32Typed, Win32!TypeOK, Win32Configs, Win32Windows, Win32Calls

(* What a step has to establish.                                           *)
LEMMA Win32Keeps ==
  ASSUME closed' \in BOOLEAN, electron' \in BOOLEAN, dirty' \in BOOLEAN,
         config' \in Win32Configs, window' \in Win32Windows, call' \in Win32Calls,
         parent' \in Parents \cup {NoParent}, cached' \in Places,
         place' \in [Parents -> Places \cup {NoPlace}], asked' \in Places \cup {NoPlace},
         call'.at = "running" <=> call'.todo # <<>>,
         Has(call'.todo, "move") \/ Has(call'.todo, "electronMove") => call'.to \in Places,
         Ordered(call'.todo), PolicyDue', PositionDue'
  PROVE  Win32Inv'
BY DEF Win32Inv, Win32Typed, Win32!TypeOK, Win32Configs, Win32Windows, Win32Calls, Owes

(* A method begins.                                                        *)
LEMMA Win32Begins ==
  ASSUME NEW method \in Win32Methods, NEW todo \in Seq(Win32Steps), todo # <<>>, NEW to \in Nat,
         Win32!Begins(method, todo, to)
  PROVE  /\ call' \in Win32Calls /\ call'.at = "running" /\ call'.todo = todo /\ call'.to = to
BY DEF Win32!Begins, Win32Calls

LEMMA TailFacts ==
  ASSUME NEW S, NEW q \in Seq(S), q # <<>>
  PROVE  Tail(q) \in Seq(S) /\ Head(q) \in S /\ (Tail(q) = <<>> <=> Len(q) = 1)
<1>1. Tail(q) \in Seq(S) /\ Head(q) \in S /\ Len(Tail(q)) = Len(q) - 1 /\ Len(q) \in Nat
  OBVIOUS
<1>2. \A t \in Seq(S) : t = <<>> <=> Len(t) = 0
  BY EmptySeq
<1> QED
  BY <1>1, <1>2

(* A step of it is done.                                                   *)
LEMMA Win32Doing ==
  ASSUME Win32Inv, NEW step, Win32!Doing(step)
  PROVE  /\ call.at = "running" /\ Has(call.todo, step)
         /\ call' \in Win32Calls /\ call'.at \in {"idle", "running"}
         /\ call'.at = "running" <=> call'.todo # <<>>
         /\ call'.todo = Tail(call.todo) /\ Ordered(call'.todo)
         /\ \A x : Has(call.todo, x) => x = step \/ Has(call'.todo, x)
         /\ \A x : Has(call'.todo, x) => Has(call.todo, x)
         /\ Has(call'.todo, "move") \/ Has(call'.todo, "electronMove") => call'.to \in Places
         /\ step = "parent" => Has(call'.todo, "owner")
         /\ step \in {"electronMove", "adopt"} =>
              ~Has(call'.todo, "move") /\ ~Has(call'.todo, "position")
<1> USE Win32Fields
<1>1. call.at = "running" /\ call.todo # <<>> /\ Head(call.todo) = step
  BY DEF Win32!Doing
<1>2. Ordered(call.todo) /\ (Has(call.todo, "move") \/ Has(call.todo, "electronMove") => call.to \in Places)
  BY DEF Win32Inv, Win32Typed, Owes
<1> DEFINE rest == Tail(call.todo)
<1>3. /\ rest \in Seq(Win32Steps) /\ Ordered(rest) /\ (rest = <<>> <=> Len(call.todo) = 1)
      /\ step = "parent" => Has(rest, "owner")
      /\ step \in {"electronMove", "adopt"} => ~Has(rest, "move") /\ ~Has(rest, "position")
  BY <1>1, <1>2, TailFacts, OrderedTail
<1>4. \A x : Has(call.todo, x) <=> x = step \/ Has(rest, x)
  BY <1>1, HasTail
<1>5. CASE Len(call.todo) = 1
  <2>1. call' = Win32!NoCall
    BY <1>5 DEF Win32!Doing
  <2>2. call'.at = "idle" /\ call'.todo = <<>>
    BY <2>1 DEF Win32!NoCall
  <2>3. call' \in Win32Calls
    <3>1. 0 \in Nat
      OBVIOUS
    <3> QED
      BY <2>1, <3>1, NothingToDo, Zenon DEF Win32!NoCall, Win32Calls, Win32Methods
  <2>4. \A x : ~Has(call'.todo, x)
    BY <2>2, HasOne
  <2> QED
    BY <1>1, <1>3, <1>4, <1>5, <2>2, <2>3, <2>4
<1>6. CASE Len(call.todo) # 1
  <2>1. call' = [call EXCEPT !.todo = rest]
    BY <1>6 DEF Win32!Doing
  <2>2. call'.at = call.at /\ call'.todo = rest /\ call'.to = call.to /\ call' \in Win32Calls
    BY <1>3, <2>1 DEF Win32Calls
  <2> QED
    BY <1>1, <1>2, <1>3, <1>4, <1>6, <2>2
<1> QED
  BY <1>5, <1>6

-----------------------------------------------------------------------------
(* The steps.                                                              *)

LEMMA Win32ApplyStyles == Win32Inv /\ Win32!ApplyStyles => Win32Inv'
<1> SUFFICES ASSUME Win32Inv, Win32!ApplyStyles PROVE Win32Inv'
  OBVIOUS
<1> USE Win32Fields
<1>1. UNCHANGED <<closed, config, parent, cached, electron, place, dirty, asked>>
  BY DEF Win32!ApplyStyles, Win32!controllerVars
<1>2. PICK layered \in BOOLEAN :
        /\ layered = (config.clickThrough \/ (config.preserveLayered /\ window.layered))
        /\ window' = [window EXCEPT !.transparent = config.clickThrough, !.layered = layered]
  BY DEF Win32!ApplyStyles, Win32!Layered
<1>3. /\ window' \in Win32Windows /\ window'.owner = window.owner /\ window'.topmost = window.topmost
      /\ window'.transparent = config.clickThrough /\ window'.layered = layered
      /\ window'.at = window.at /\ window'.translucent = window.translucent
  BY <1>2 DEF Win32Windows
<1>4. Win32!Doing("styles")
  BY DEF Win32!ApplyStyles
<1>5. PolicyDue'
  BY <1>1, <1>2, <1>3, <1>4, Win32Doing DEF Win32Inv, PolicyDue, Owes, Win32!IsWindow
<1>6. PositionDue'
  BY <1>1, <1>3, <1>4, Win32Doing DEF Win32Inv, PositionDue, Owes, Near
<1> QED
  BY <1>1, <1>3, <1>4, <1>5, <1>6, Win32Doing, Win32Keeps

LEMMA Win32Throws == Win32Inv /\ Win32!Throws => Win32Inv'
<1> SUFFICES ASSUME Win32Inv, Win32!Throws PROVE Win32Inv'
  OBVIOUS
<1> USE Win32Fields
<1>1. UNCHANGED <<closed, config, parent, cached, electron, window, place, asked>> /\ dirty' = TRUE
  BY DEF Win32!Throws, Win32!controllerVars
<1>2. PICK at \in {"unconfigured", "idle"} : call' = [Win32!NoCall EXCEPT !.at = at]
  BY DEF Win32!Throws
<1>3. call'.at = at /\ call'.todo = <<>>
  BY <1>2 DEF Win32!NoCall
<1>4. call' \in Win32Calls
  <2>1. 0 \in Nat
    OBVIOUS
  <2>2. call' = [at |-> at, of |-> "none", todo |-> <<>>, to |-> 0]
    BY <1>2 DEF Win32!NoCall
  <2> QED
    BY <2>1, <2>2, NothingToDo, Zenon DEF Win32Calls, Win32Methods
<1>5. \A x : ~Has(call'.todo, x)
  BY <1>3, HasOne
<1>6. call.at = "running"
  BY DEF Win32!Throws
<1>7. Ordered(call'.todo)
  BY <1>3, NothingToDo
<1>8. PolicyDue'
  BY <1>1, <1>6 DEF Win32Inv, PolicyDue
<1>9. PositionDue'
  BY <1>1, <1>5 DEF Win32Inv, PositionDue, Owes, Near
<1> QED
  BY <1>1, <1>3, <1>4, <1>5, <1>7, <1>8, <1>9, Win32Keeps

LEMMA Win32CheckParent == Win32Inv /\ Win32!CheckParent => Win32Inv'
<1> SUFFICES ASSUME Win32Inv, Win32!CheckParent PROVE Win32Inv'
  OBVIOUS
<1> USE Win32Fields
<1>1. UNCHANGED <<closed, config, cached, electron, window, place, dirty, asked>>
  BY DEF Win32!CheckParent
<1>2. \/ UNCHANGED parent /\ (parent = NoParent \/ Win32!IsWindow(parent))
      \/ parent' = NoParent
  BY DEF Win32!CheckParent
<1>3. Win32!Doing("parent")
  BY DEF Win32!CheckParent
<1>8. PolicyDue'
  BY <1>1, <1>2, <1>3, Win32Doing DEF Win32Inv, PolicyDue, Owes, Win32!IsWindow
<1>9. PositionDue'
  BY <1>1, <1>3, Win32Doing DEF Win32Inv, PositionDue, Owes, Near
<1> QED
  BY <1>1, <1>2, <1>3, <1>8, <1>9, Win32Doing, Win32Keeps

LEMMA Win32SetOwner == Win32Inv /\ Win32!SetOwner => Win32Inv'
<1> SUFFICES ASSUME Win32Inv, Win32!SetOwner PROVE Win32Inv'
  OBVIOUS
<1> USE Win32Fields
<1>1. UNCHANGED <<closed, config, parent, cached, electron, place, dirty, asked>>
  BY DEF Win32!SetOwner, Win32!controllerVars
<1>2. window' = [window EXCEPT !.owner = parent]
  BY DEF Win32!SetOwner
<1>3. /\ window' \in Win32Windows /\ window'.owner = parent /\ window'.topmost = window.topmost
      /\ window'.transparent = window.transparent /\ window'.layered = window.layered
      /\ window'.at = window.at /\ window'.translucent = window.translucent
  BY <1>2 DEF Win32Windows
<1>4. Win32!Doing("owner")
  BY DEF Win32!SetOwner
<1>8. PolicyDue'
  BY <1>1, <1>3, <1>4, Win32Doing DEF Win32Inv, PolicyDue, Owes, Win32!IsWindow
<1>9. PositionDue'
  BY <1>1, <1>3, <1>4, Win32Doing DEF Win32Inv, PositionDue, Owes, Near
<1> QED
  BY <1>1, <1>3, <1>4, <1>8, <1>9, Win32Doing, Win32Keeps

LEMMA Win32ApplyZOrder == Win32Inv /\ Win32!ApplyZOrder => Win32Inv'
<1> SUFFICES ASSUME Win32Inv, Win32!ApplyZOrder PROVE Win32Inv'
  OBVIOUS
<1> USE Win32Fields
<1>1. UNCHANGED <<closed, config, parent, cached, electron, place, dirty, asked>>
  BY DEF Win32!ApplyZOrder, Win32!controllerVars
<1>2. window' = [window EXCEPT !.topmost = config.above]
  BY DEF Win32!ApplyZOrder
<1>3. /\ window' \in Win32Windows /\ window'.owner = window.owner /\ window'.topmost = config.above
      /\ window'.transparent = window.transparent /\ window'.layered = window.layered
      /\ window'.at = window.at /\ window'.translucent = window.translucent
  BY <1>2 DEF Win32Windows
<1>4. Win32!Doing("zorder")
  BY DEF Win32!ApplyZOrder
<1>8. PolicyDue'
  BY <1>1, <1>3, <1>4, Win32Doing DEF Win32Inv, PolicyDue, Owes, Win32!IsWindow
<1>9. PositionDue'
  BY <1>1, <1>3, <1>4, Win32Doing DEF Win32Inv, PositionDue, Owes, Near
<1> QED
  BY <1>1, <1>3, <1>4, <1>8, <1>9, Win32Doing, Win32Keeps

LEMMA Win32Answer == Win32Inv /\ Win32!Answer => Win32Inv'
<1> SUFFICES ASSUME Win32Inv, Win32!Answer PROVE Win32Inv'
  OBVIOUS
<1> USE Win32Fields
<1>1. UNCHANGED <<closed, config, parent, electron, window, place, dirty, asked>>
  BY DEF Win32!Answer
<1>2. cached' \in Places
  BY DEF Win32!Answer
<1>3. Win32!Doing("answer")
  BY DEF Win32!Answer
<1>8. PolicyDue'
  BY <1>1, <1>3, Win32Doing DEF Win32Inv, PolicyDue, Owes, Win32!IsWindow
<1>9. PositionDue'
  BY <1>1, <1>3, Win32Doing DEF Win32Inv, PositionDue, Owes, Near
<1> QED
  BY <1>1, <1>2, <1>3, <1>8, <1>9, Win32Doing, Win32Keeps

LEMMA Win32SetIgnoreMouseEvents == Win32Inv /\ Win32!SetIgnoreMouseEvents => Win32Inv'
<1> SUFFICES ASSUME Win32Inv, Win32!SetIgnoreMouseEvents PROVE Win32Inv'
  OBVIOUS
<1> USE Win32Fields
<1>1. UNCHANGED <<closed, config, parent, cached, electron, place, dirty, asked>>
  BY DEF Win32!SetIgnoreMouseEvents, Win32!controllerVars
<1>2. PICK layered \in BOOLEAN :
        /\ config.clickThrough \/ window.translucent => layered
        /\ window' = [window EXCEPT !.transparent = config.clickThrough, !.layered = layered]
  BY DEF Win32!SetIgnoreMouseEvents
<1>3. /\ window' \in Win32Windows /\ window'.owner = window.owner /\ window'.topmost = window.topmost
      /\ window'.transparent = config.clickThrough /\ window'.layered = layered
      /\ window'.at = window.at /\ window'.translucent = window.translucent
  BY <1>2 DEF Win32Windows
<1>4. Win32!Doing("ignore")
  BY DEF Win32!SetIgnoreMouseEvents
<1>8. PolicyDue'
  BY <1>1, <1>2, <1>3, <1>4, Win32Doing DEF Win32Inv, PolicyDue, Owes, Win32!IsWindow
<1>9. PositionDue'
  BY <1>1, <1>3, <1>4, Win32Doing DEF Win32Inv, PositionDue, Owes, Near
<1> QED
  BY <1>1, <1>3, <1>4, <1>8, <1>9, Win32Doing, Win32Keeps

(* Pixels to units of Electron and back: less than a unit and a pixel is   *)
(* lost, and nothing on a display of 100%.                                 *)
LEMMA ElectronUnits ==
  ASSUME NEW b \in Nat
  PROVE  LET at == Win32!ToPixels(Win32!ToDips(b)) IN
         at \in Nat /\ at <= b /\ 100 * (b - at) < Scale + 100 /\ (Scale = 100 => at = b)
<1>1. Scale \in Nat /\ Scale > 0
  BY BoundsAssumption
<1> DEFINE d == (100 * b) \div Scale
           at == (d * Scale) \div 100
<1>2. d \in Nat /\ Scale * d <= 100 * b /\ 100 * b < Scale * d + Scale
  BY <1>1
<1>3. PICK p \in Nat : p = Scale * d /\ p = d * Scale
  BY <1>1, <1>2
<1>4. at \in Nat /\ 100 * at <= p /\ p < 100 * at + 100
  BY <1>3
<1>5. Scale = 100 => d = b
  BY <1>2
<1>6. at <= b /\ 100 * (b - at) < Scale + 100 /\ (Scale = 100 => at = b)
  BY <1>1, <1>2, <1>3, <1>4, <1>5
<1> QED
  BY <1>4, <1>6 DEF Win32!ToPixels, Win32!ToDips

(* The native layer moves the window.                                      *)
LEMMA Win32MovedTo ==
  ASSUME Win32Inv, NEW at \in Places, window' = Win32!MovedTo(at)
  PROVE  /\ window' \in Win32Windows /\ window'.owner = window.owner /\ window'.topmost = config.above
         /\ window'.transparent = window.transparent /\ window'.layered = window.layered
         /\ window'.at = at /\ window'.translucent = window.translucent
BY Win32Fields, PlacesAssumption DEF Win32!MovedTo, Win32Windows

LEMMA Win32Move == Win32Inv /\ Win32!Move => Win32Inv'
<1> SUFFICES ASSUME Win32Inv, Win32!Move PROVE Win32Inv'
  OBVIOUS
<1> USE Win32Fields
<1>1. UNCHANGED <<closed, config, parent, cached, electron, place, dirty>>
  BY DEF Win32!Move, Win32!controllerVars
<1>2. PICK step \in {"move", "position"}, at \in Places :
        Win32!Doing(step) /\ window' = Win32!MovedTo(at) /\ Win32!AskedFor(at)
  <2>1. CASE Win32!Doing("move") /\ window' = Win32!MovedTo(call.to) /\ Win32!AskedFor(call.to)
    <3>1. call.to \in Places
      BY <2>1, Win32Doing DEF Win32Inv, Win32Typed, Owes
    <3> QED
      BY <2>1, <3>1
  <2>2. CASE /\ Win32!Doing("position") /\ window' = Win32!MovedTo(Win32!Target)
             /\ Win32!AskedFor(Win32!Target)
    <3>1. Win32!Target \in Places
      BY DEF Win32!Target
    <3> QED
      BY <2>2, <3>1
  <2> QED
    BY <2>1, <2>2 DEF Win32!Move
<1>3. /\ window' \in Win32Windows /\ window'.owner = window.owner /\ window'.topmost = config.above
      /\ window'.transparent = window.transparent /\ window'.layered = window.layered
      /\ window'.at = at /\ window'.translucent = window.translucent
  BY <1>2, Win32MovedTo
<1>4. \/ electron /\ asked = NoPlace /\ asked' = NoPlace
      \/ ~electron /\ asked' = at
  BY <1>2, Win32Doing DEF Win32Inv, PositionDue, Owes, Win32!AskedFor
<1>5. Near(at, at)
  BY PlacesAssumption, BoundsAssumption DEF Near
<1>8. PolicyDue'
  BY <1>1, <1>2, <1>3, Win32Doing DEF Win32Inv, PolicyDue, Owes, Win32!IsWindow
<1>9. PositionDue'
  BY <1>1, <1>2, <1>3, <1>4, <1>5, Win32Doing DEF Win32Inv, PositionDue, Owes, Near
<1> QED
  BY <1>1, <1>2, <1>3, <1>4, <1>8, <1>9, Win32Doing, Win32Keeps

LEMMA Win32ApplyElectronBounds == Win32Inv /\ Win32!ApplyElectronBounds => Win32Inv'
<1> SUFFICES ASSUME Win32Inv, Win32!ApplyElectronBounds PROVE Win32Inv'
  OBVIOUS
<1> USE Win32Fields
<1>1. UNCHANGED <<closed, config, parent, cached, electron, place, dirty>>
  BY DEF Win32!ApplyElectronBounds, Win32!controllerVars
<1>2. PICK step \in {"electronMove", "adopt"} :
        /\ Win32!Doing(step)
        /\ UNCHANGED <<window, asked>> \/ (\E at \in Places : Win32!ElectronMovesTo(at))
  <2>1. CASE Win32!Doing("electronMove") /\
             Win32!ElectronMovesTo(IF call.of = "attachParent" THEN cached ELSE call.to)
    <3>1. call.to \in Places
      BY <2>1, Win32Doing DEF Win32Inv, Win32Typed, Owes
    <3> QED
      BY <2>1, <3>1
  <2>2. CASE Win32!Doing("adopt") /\ (UNCHANGED <<window, asked>> \/ Win32!ElectronMovesTo(Win32!Target))
    <3>1. Win32!Target \in Places
      BY DEF Win32!Target
    <3> QED
      BY <2>2, <3>1
  <2> QED
    BY <2>1, <2>2 DEF Win32!ApplyElectronBounds
<1>3. electron
  BY <1>2, Win32Doing DEF Win32Inv, PositionDue, Owes
<1>4. CASE UNCHANGED <<window, asked>>
  <2>1. PolicyDue'
    BY <1>1, <1>2, <1>4, Win32Doing DEF Win32Inv, PolicyDue, Owes, Win32!IsWindow
  <2>2. PositionDue'
    BY <1>1, <1>2, <1>4, Win32Doing DEF Win32Inv, PositionDue, Owes, Near
  <2> QED
    BY <1>1, <1>2, <1>4, <2>1, <2>2, Win32Doing, Win32Keeps
<1>5. ASSUME NEW at \in Places, Win32!ElectronMovesTo(at) PROVE Win32Inv'
  <2> DEFINE pixels == Win32!ToPixels(Win32!ToDips(at))
  <2>0. at \in Nat
    BY PlacesAssumption
  <2>1. /\ pixels \in Nat
        /\ pixels <= at /\ 100 * (at - pixels) < Scale + 100 /\ (Scale = 100 => pixels = at)
    BY <2>0, ElectronUnits
  <2>9. window' = [window EXCEPT !.at = pixels]
    BY <1>5 DEF Win32!ElectronMovesTo
  <2> HIDE DEF pixels
  <2>2. /\ window' \in Win32Windows /\ window'.owner = window.owner /\ window'.topmost = window.topmost
        /\ window'.transparent = window.transparent /\ window'.layered = window.layered
        /\ window'.at = pixels /\ window'.translucent = window.translucent
    BY <2>1, <2>9 DEF Win32Windows
  <2>3. asked' = at
    BY <1>5 DEF Win32!ElectronMovesTo
  <2>4. PolicyDue'
    BY <1>1, <1>2, <2>2, Win32Doing DEF Win32Inv, PolicyDue, Owes, Win32!IsWindow
  <2>5. PositionDue'
    BY <1>1, <1>2, <1>3, <2>1, <2>2, <2>3, Win32Doing DEF Win32Inv, PositionDue, Owes, Near
  <2> QED
    BY <1>1, <1>2, <2>2, <2>3, <2>4, <2>5, Win32Doing, Win32Keeps
<1> QED
  BY <1>2, <1>4, <1>5

-----------------------------------------------------------------------------
(* The methods.                                                            *)

LEMMA WithElectronToDo ==
  ASSUME electron \in BOOLEAN, NEW s \in Seq(Win32Steps), Ordered(s)
  PROVE  /\ Win32!WithElectron(s) \in Seq(Win32Steps) /\ Ordered(Win32!WithElectron(s))
         /\ \A x : Has(Win32!WithElectron(s), x) <=> electron /\ Has(s, x)
BY NothingToDo, HasOne DEF Win32!WithElectron

LEMMA AdoptToDo ==
  /\ <<"adopt", "ignore">> \in Seq(Win32Steps) /\ Ordered(<<"adopt", "ignore">>)
  /\ \A x : Has(<<"adopt", "ignore">>, x) <=> x \in {"adopt", "ignore"}
<1>1. <<"adopt", "ignore">> \in Seq(Win32Steps)
  BY DEF Win32Steps
<1>2. Ordered(<<"adopt", "ignore">>)
  BY DEF Ordered
<1> QED
  BY <1>1, <1>2 DEF Has

LEMMA Win32Configure == Win32Inv /\ Win32!Configure => Win32Inv'
<1> SUFFICES ASSUME Win32Inv, Win32!Configure PROVE Win32Inv'
  OBVIOUS
<1> USE Win32Fields
<1> DEFINE rest == Win32!WithElectron(<<"adopt", "ignore">>)
           todo == Win32!ApplyInPlace \o rest
<1>1. /\ rest \in Seq(Win32Steps) /\ Ordered(rest)
      /\ \A x : Has(rest, x) <=> electron /\ x \in {"adopt", "ignore"}
  BY AdoptToDo, WithElectronToDo
<1>2. /\ todo \in Seq(Win32Steps) /\ Ordered(todo)
      /\ \A x : Has(todo, x) <=> \/ x \in {"styles", "parent", "owner", "position", "zorder"}
                                 \/ electron /\ x \in {"adopt", "ignore"}
  <2>1. ~Has(Win32!ApplyInPlace, "electronMove") /\ ~Has(Win32!ApplyInPlace, "adopt")
    BY ApplyToDo
  <2> HIDE DEF rest
  <2>2. /\ todo \in Seq(Win32Steps) /\ Ordered(todo)
        /\ \A x : Has(todo, x) <=> Has(Win32!ApplyInPlace, x) \/ Has(rest, x)
    BY <1>1, <2>1, ApplyToDo, ToDoThen
  <2> HIDE DEF todo
  <2> QED
    BY <1>1, <2>2, ApplyToDo
<1>3. todo # <<>>
  BY <1>2, HasOne
<1>4. Win32!Begins("configure", todo, 0)
  BY DEF Win32!Configure
<1> HIDE DEF todo, rest
<1>5. call' \in Win32Calls /\ call'.at = "running" /\ call'.todo = todo
  <2>1. 0 \in Nat /\ "configure" \in Win32Methods
    BY DEF Win32Methods
  <2> QED
    BY <1>2, <1>3, <1>4, <2>1, Win32Begins
<1>6. /\ closed' = FALSE /\ UNCHANGED <<electron, window, place>> /\ dirty' = FALSE
      /\ asked' = NoPlace /\ config' \in Win32Configs /\ config'.preserveLayered = window.layered
      /\ parent' \in Parents \cup {NoParent} /\ cached' \in Places
      /\ parent' # NoParent => Win32!IsWindow(parent')
  <2>1. config' \in Win32Configs /\ config'.preserveLayered = window.layered
    BY DEF Win32!Configure, Win32!NewConfig, Win32Configs
  <2> QED
    BY <2>1 DEF Win32!Configure, Win32!FindParent, Win32!IsWindow
<1>7. PolicyDue'
  BY <1>2, <1>5, <1>6 DEF Win32Inv, PolicyDue, Owes
<1>8. PositionDue'
  BY <1>2, <1>5, <1>6 DEF Win32Inv, PositionDue, Owes
<1>9. ~Has(todo, "move") /\ ~Has(todo, "electronMove")
  BY <1>2
<1> QED
  BY <1>2, <1>3, <1>5, <1>6, <1>7, <1>8, <1>9, Win32Keeps

LEMMA AttachToDo ==
  ASSUME electron \in BOOLEAN, NEW reposition \in BOOLEAN,
         NEW todo,
         todo = <<"owner">> \o (IF reposition THEN <<"move">> ELSE <<>>) \o Win32!Apply
                  \o <<"answer">>
                  \o (IF reposition THEN Win32!WithElectron(<<"electronMove">>) ELSE <<>>)
  PROVE  /\ todo \in Seq(Win32Steps) /\ Ordered(todo)
         /\ \A x : Has(todo, x) <=> \/ x \in {"owner", "styles", "parent", "zorder", "answer"}
                                    \/ x = "move" /\ reposition
                                    \/ x = "electronMove" /\ reposition /\ electron
<1> DEFINE move == IF reposition THEN <<"move">> ELSE <<>>
           last == IF reposition THEN Win32!WithElectron(<<"electronMove">>) ELSE <<>>
           a == <<"owner">> \o move
           b == a \o Win32!Apply
           c == b \o <<"answer">>
<1>1. {"owner", "move", "answer", "electronMove"} \subseteq Win32Steps \ {"parent"}
  BY DEF Win32Steps
<1>2. /\ move \in Seq(Win32Steps) /\ Ordered(move)
      /\ \A x : Has(move, x) <=> x = "move" /\ reposition
  BY <1>1, OneToDo, NothingToDo, HasOne
<1>3. /\ last \in Seq(Win32Steps) /\ Ordered(last)
      /\ \A x : Has(last, x) <=> x = "electronMove" /\ reposition /\ electron
  BY <1>1, OneToDo, NothingToDo, HasOne, WithElectronToDo
<1>4. todo = c \o last
  OBVIOUS
<1> HIDE DEF move, last
<1>5. /\ a \in Seq(Win32Steps) /\ Ordered(a)
      /\ \A x : Has(a, x) <=> x = "owner" \/ (x = "move" /\ reposition)
  BY <1>1, <1>2, OneToDo, HasOne, ToDoThen
<1> HIDE DEF a
<1>6. /\ b \in Seq(Win32Steps) /\ Ordered(b)
      /\ \A x : Has(b, x) <=> \/ x \in {"owner", "styles", "parent", "zorder"}
                              \/ x = "move" /\ reposition
  BY <1>5, ApplyToDo, ToDoThen
<1> HIDE DEF b
<1>7. /\ c \in Seq(Win32Steps) /\ Ordered(c)
      /\ \A x : Has(c, x) <=> \/ x \in {"owner", "styles", "parent", "zorder", "answer"}
                              \/ x = "move" /\ reposition
  BY <1>1, <1>6, OneToDo, HasOne, ToDoThen
<1> HIDE DEF c
<1>8. /\ c \o last \in Seq(Win32Steps) /\ Ordered(c \o last)
      /\ \A x : Has(c \o last, x) <=> Has(c, x) \/ Has(last, x)
  BY <1>3, <1>7, ToDoThen
<1> QED
  BY <1>3, <1>4, <1>7, <1>8

LEMMA Win32AttachParent ==
  ASSUME Win32Inv, NEW w \in Parents, NEW reposition \in BOOLEAN,
         Win32!AttachParent(w, reposition)
  PROVE  Win32Inv'
<1> USE Win32Fields
<1>1. PICK todo : /\ todo = <<"owner">> \o (IF reposition THEN <<"move">> ELSE <<>>) \o Win32!Apply
                         \o <<"answer">>
                         \o (IF reposition THEN Win32!WithElectron(<<"electronMove">>) ELSE <<>>)
                  /\ Win32!Begins("attachParent", todo, place[w])
  BY DEF Win32!AttachParent
<1>2. /\ todo \in Seq(Win32Steps) /\ Ordered(todo)
      /\ \A x : Has(todo, x) <=> \/ x \in {"owner", "styles", "parent", "zorder", "answer"}
                                 \/ x = "move" /\ reposition
                                 \/ x = "electronMove" /\ reposition /\ electron
  BY <1>1, AttachToDo
<1>3. todo # <<>>
  <2>1. Has(todo, "owner")
    BY <1>2
  <2> QED
    BY <2>1, HasOne
<1>4. place[w] \in Places /\ place[w] \in Nat
  BY PlacesAssumption DEF Win32!AttachParent, Win32!FindParent, Win32!IsWindow
<1>5. /\ call' \in Win32Calls /\ call'.at = "running" /\ call'.todo = todo /\ call'.to = place[w]
  BY <1>1, <1>2, <1>3, <1>4, Win32Begins DEF Win32Methods
<1>6. /\ UNCHANGED <<closed, config, electron, window, place>> /\ dirty' = FALSE
      /\ asked' = (IF reposition THEN NoPlace ELSE asked)
      /\ parent' = w /\ cached' = place[w] /\ call.at = "idle" /\ ~closed /\ Win32!IsWindow(w)
  BY DEF Win32!AttachParent, Win32!Open, Win32!Idle, Win32!FindParent
<1>7. PolicyDue'
  BY <1>2, <1>5, <1>6 DEF Win32Inv, PolicyDue, Owes, Win32!IsWindow
<1>8. PositionDue'
  BY <1>2, <1>5, <1>6 DEF Win32Inv, PositionDue, Owes, Near
<1> QED
  BY <1>2, <1>3, <1>4, <1>5, <1>6, <1>7, <1>8, Win32Keeps

(* The methods of a few steps, one after the other.                        *)
LEMMA ShortToDos ==
  ASSUME electron \in BOOLEAN
  PROVE  LET moves == <<"move">> \o Win32!WithElectron(<<"electronMove">>)
             styles == <<"styles", "zorder">> \o Win32!WithElectron(<<"ignore">>)
         IN  /\ moves \in Seq(Win32Steps) /\ Ordered(moves)
             /\ \A x : Has(moves, x) <=> x = "move" \/ (x = "electronMove" /\ electron)
             /\ styles \in Seq(Win32Steps) /\ Ordered(styles)
             /\ \A x : Has(styles, x) <=> x \in {"styles", "zorder"} \/ (x = "ignore" /\ electron)
<1>1. {"move", "ignore", "electronMove"} \subseteq Win32Steps \ {"parent"}
  BY DEF Win32Steps
<1>2. /\ <<"styles", "zorder">> \in Seq(Win32Steps) /\ Ordered(<<"styles", "zorder">>)
      /\ \A x : Has(<<"styles", "zorder">>, x) <=> x \in {"styles", "zorder"}
  BY DEF Win32Steps, Ordered, Has
<1>3. /\ <<"move">> \in Seq(Win32Steps) /\ Ordered(<<"move">>)
      /\ \A x : Has(<<"move">>, x) <=> x = "move"
  BY <1>1, OneToDo, HasOne
<1>4. /\ Win32!WithElectron(<<"electronMove">>) \in Seq(Win32Steps)
      /\ Ordered(Win32!WithElectron(<<"electronMove">>))
      /\ \A x : Has(Win32!WithElectron(<<"electronMove">>), x) <=> electron /\ x = "electronMove"
  BY <1>1, OneToDo, HasOne, WithElectronToDo
<1>5. /\ Win32!WithElectron(<<"ignore">>) \in Seq(Win32Steps)
      /\ Ordered(Win32!WithElectron(<<"ignore">>))
      /\ \A x : Has(Win32!WithElectron(<<"ignore">>), x) <=> electron /\ x = "ignore"
  BY <1>1, OneToDo, HasOne, WithElectronToDo
<1>6. LET moves == <<"move">> \o Win32!WithElectron(<<"electronMove">>)
      IN  /\ moves \in Seq(Win32Steps) /\ Ordered(moves)
          /\ \A x : Has(moves, x) <=> x = "move" \/ (x = "electronMove" /\ electron)
  BY <1>3, <1>4, ToDoThen
<1>7. LET styles == <<"styles", "zorder">> \o Win32!WithElectron(<<"ignore">>)
      IN  /\ styles \in Seq(Win32Steps) /\ Ordered(styles)
          /\ \A x : Has(styles, x) <=> x \in {"styles", "zorder"} \/ (x = "ignore" /\ electron)
  <2> DEFINE last == Win32!WithElectron(<<"ignore">>)
  <2>1. ~Has(<<"styles", "zorder">>, "electronMove") /\ ~Has(<<"styles", "zorder">>, "adopt")
    BY <1>2
  <2> HIDE DEF last
  <2>2. /\ <<"styles", "zorder">> \o last \in Seq(Win32Steps)
        /\ Ordered(<<"styles", "zorder">> \o last)
        /\ \A x : Has(<<"styles", "zorder">> \o last, x) <=>
                    Has(<<"styles", "zorder">>, x) \/ Has(last, x)
    BY <1>2, <1>5, <2>1, ToDoThen DEF last
  <2> QED
    BY <1>2, <1>5, <2>2 DEF last
<1> QED
  BY <1>6, <1>7

LEMMA Win32DetachParent == Win32Inv /\ Win32!DetachParent => Win32Inv'
<1> SUFFICES ASSUME Win32Inv, Win32!DetachParent PROVE Win32Inv'
  OBVIOUS
<1> USE Win32Fields
<1>1. Win32!Begins("detachParent", <<"owner">>, 0)
  BY DEF Win32!DetachParent, Win32!DetachOwner
<1>2. /\ <<"owner">> \in Seq(Win32Steps) /\ Ordered(<<"owner">>) /\ <<"owner">> # <<>>
      /\ \A x : Has(<<"owner">>, x) <=> x = "owner"
  BY OneToDo, HasOne DEF Win32Steps
<1>3. 0 \in Nat /\ "detachParent" \in Win32Methods
  BY DEF Win32Methods
<1>4. call' \in Win32Calls /\ call'.at = "running" /\ call'.todo = <<"owner">>
  BY <1>1, <1>2, <1>3, Win32Begins
<1>5. /\ UNCHANGED <<closed, config, cached, electron, window, place, dirty, asked>>
      /\ parent' = NoParent /\ call.at = "idle" /\ call.todo = <<>>
  BY DEF Win32!DetachParent, Win32!Open, Win32!Idle
<1>6. \A x : ~Has(call.todo, x)
  BY <1>5, HasOne
<1>7. PolicyDue'
  BY <1>2, <1>4, <1>5, <1>6 DEF Win32Inv, PolicyDue, Owes
<1>8. PositionDue'
  BY <1>2, <1>4, <1>5, <1>6 DEF Win32Inv, PositionDue, Owes, Near
<1> QED
  BY <1>2, <1>4, <1>5, <1>7, <1>8, Win32Keeps

LEMMA Win32SetBounds == ASSUME Win32Inv, NEW bounds \in Places, Win32!SetBounds(bounds) PROVE Win32Inv'
<1> USE Win32Fields
<1> DEFINE todo == <<"move">> \o Win32!WithElectron(<<"electronMove">>)
<1>1. Win32!Begins("setBounds", todo, bounds)
  BY DEF Win32!SetBounds
<1>2. /\ todo \in Seq(Win32Steps) /\ Ordered(todo)
      /\ \A x : Has(todo, x) <=> x = "move" \/ (x = "electronMove" /\ electron)
  BY ShortToDos
<1>3. todo # <<>>
  BY <1>2, HasOne
<1> HIDE DEF todo
<1>4. bounds \in Nat /\ "setBounds" \in Win32Methods
  BY PlacesAssumption DEF Win32Methods
<1>5. call' \in Win32Calls /\ call'.at = "running" /\ call'.todo = todo /\ call'.to = bounds
  BY <1>1, <1>2, <1>3, <1>4, Win32Begins
<1>6. /\ UNCHANGED <<closed, parent, cached, electron, window, place, dirty>> /\ asked' = NoPlace
      /\ call.at = "idle" /\ call.todo = <<>>
  BY DEF Win32!SetBounds, Win32!Open, Win32!Idle
<1>7. /\ config' \in Win32Configs /\ config'.clickThrough = config.clickThrough
      /\ config'.above = config.above /\ config'.preserveLayered = config.preserveLayered
  BY DEF Win32!SetBounds, Win32Configs
<1>8. \A x : ~Has(call.todo, x)
  BY <1>6, HasOne
<1>9. PolicyDue'
  BY <1>2, <1>5, <1>6, <1>7, <1>8 DEF Win32Inv, PolicyDue, Owes, Win32!IsWindow
<1>10. PositionDue'
  BY <1>2, <1>5, <1>6 DEF Win32Inv, PositionDue, Owes
<1> QED
  BY <1>2, <1>3, <1>5, <1>6, <1>7, <1>9, <1>10, Win32Keeps

LEMMA Win32UseParentBounds == Win32Inv /\ Win32!UseParentBounds => Win32Inv'
<1> SUFFICES ASSUME Win32Inv, Win32!UseParentBounds PROVE Win32Inv'
  OBVIOUS
<1> USE Win32Fields
<1> DEFINE todo == <<"move">> \o Win32!WithElectron(<<"electronMove">>)
<1>2. /\ todo \in Seq(Win32Steps) /\ Ordered(todo)
      /\ \A x : Has(todo, x) <=> x = "move" \/ (x = "electronMove" /\ electron)
  BY ShortToDos
<1>3. todo # <<>>
  BY <1>2, HasOne
<1>6. /\ UNCHANGED <<closed, parent, electron, window, place, dirty>>
      /\ call.at = "idle" /\ call.todo = <<>>
  BY DEF Win32!UseParentBounds, Win32!Open, Win32!Idle
<1>7. /\ config' \in Win32Configs /\ config'.clickThrough = config.clickThrough
      /\ config'.above = config.above /\ config'.preserveLayered = config.preserveLayered
  BY DEF Win32!UseParentBounds, Win32Configs
<1>8. \A x : ~Has(call.todo, x)
  BY <1>6, HasOne
<1>9. CASE /\ parent # NoParent /\ Win32!IsWindow(parent)
           /\ cached' = place[parent] /\ asked' = NoPlace
           /\ Win32!Begins("useParentBounds", todo, place[parent])
  <2>1. place[parent] \in Places /\ place[parent] \in Nat /\ "useParentBounds" \in Win32Methods
    BY <1>9, PlacesAssumption DEF Win32Methods, Win32!IsWindow
  <2> HIDE DEF todo
  <2>2. call' \in Win32Calls /\ call'.at = "running" /\ call'.todo = todo /\ call'.to = place[parent]
    BY <1>2, <1>3, <1>9, <2>1, Win32Begins
  <2>3. PolicyDue'
    BY <1>2, <2>2, <1>6, <1>7, <1>8 DEF Win32Inv, PolicyDue, Owes, Win32!IsWindow
  <2>4. PositionDue'
    BY <1>2, <1>9, <2>2, <1>6 DEF Win32Inv, PositionDue, Owes
  <2> QED
    BY <1>2, <1>3, <1>6, <1>7, <1>9, <2>1, <2>2, <2>3, <2>4, Win32Keeps
<1>10. CASE UNCHANGED <<cached, call, asked>>
  <2>1. PolicyDue'
    BY <1>6, <1>7, <1>10 DEF Win32Inv, PolicyDue, Owes, Win32!IsWindow
  <2>2. PositionDue'
    BY <1>6, <1>10 DEF Win32Inv, PositionDue, Owes, Near
  <2>3. Ordered(call.todo) /\ ~Has(call.todo, "move") /\ ~Has(call.todo, "electronMove")
    BY <1>8 DEF Win32Inv
  <2> QED
    BY <1>6, <1>7, <1>10, <2>1, <2>2, <2>3, Win32Keeps
<1> QED
  BY <1>9, <1>10 DEF Win32!UseParentBounds

LEMMA Win32SetClickThrough ==
  ASSUME Win32Inv, NEW enabled \in BOOLEAN, Win32!SetClickThrough(enabled) PROVE Win32Inv'
<1> USE Win32Fields
<1> DEFINE todo == <<"styles", "zorder">> \o Win32!WithElectron(<<"ignore">>)
<1>1. Win32!Begins("setClickThrough", todo, 0)
  BY DEF Win32!SetClickThrough
<1>2. /\ todo \in Seq(Win32Steps) /\ Ordered(todo)
      /\ \A x : Has(todo, x) <=> x \in {"styles", "zorder"} \/ (x = "ignore" /\ electron)
  BY ShortToDos
<1>3. todo # <<>>
  BY <1>2, HasOne
<1> HIDE DEF todo
<1>4. 0 \in Nat /\ "setClickThrough" \in Win32Methods
  BY DEF Win32Methods
<1>5. call' \in Win32Calls /\ call'.at = "running" /\ call'.todo = todo
  BY <1>1, <1>2, <1>3, <1>4, Win32Begins
<1>6. /\ UNCHANGED <<closed, parent, cached, electron, window, place, dirty, asked>>
      /\ call.at = "idle" /\ call.todo = <<>>
  BY DEF Win32!SetClickThrough, Win32!Open, Win32!Idle
<1>7. /\ config' \in Win32Configs /\ config'.above = config.above
      /\ config'.preserveLayered = config.preserveLayered
  BY DEF Win32!SetClickThrough, Win32Configs
<1>8. \A x : ~Has(call.todo, x)
  BY <1>6, HasOne
<1>9. PolicyDue'
  BY <1>2, <1>5, <1>6, <1>7, <1>8 DEF Win32Inv, PolicyDue, Owes, Win32!IsWindow
<1>10. PositionDue'
  BY <1>2, <1>5, <1>6 DEF Win32Inv, PositionDue, Owes, Near
<1>11. ~Has(todo, "move") /\ ~Has(todo, "electronMove")
  BY <1>2
<1> QED
  BY <1>2, <1>3, <1>5, <1>6, <1>7, <1>9, <1>10, <1>11, Win32Keeps

LEMMA Win32SetAlwaysOnTop ==
  ASSUME Win32Inv, NEW enabled \in BOOLEAN, Win32!SetAlwaysOnTop(enabled) PROVE Win32Inv'
<1> USE Win32Fields
<1>1. Win32!Begins("setAlwaysOnTop", <<"zorder">>, 0)
  BY DEF Win32!SetAlwaysOnTop
<1>2. /\ <<"zorder">> \in Seq(Win32Steps) /\ Ordered(<<"zorder">>) /\ <<"zorder">> # <<>>
      /\ \A x : Has(<<"zorder">>, x) <=> x = "zorder"
  BY OneToDo, HasOne DEF Win32Steps
<1>4. 0 \in Nat /\ "setAlwaysOnTop" \in Win32Methods
  BY DEF Win32Methods
<1>5. call' \in Win32Calls /\ call'.at = "running" /\ call'.todo = <<"zorder">>
  BY <1>1, <1>2, <1>4, Win32Begins
<1>6. /\ UNCHANGED <<closed, parent, cached, electron, window, place, dirty, asked>>
      /\ call.at = "idle" /\ call.todo = <<>>
  BY DEF Win32!SetAlwaysOnTop, Win32!Open, Win32!Idle
<1>7. /\ config' \in Win32Configs /\ config'.clickThrough = config.clickThrough
      /\ config'.preserveLayered = config.preserveLayered
  BY DEF Win32!SetAlwaysOnTop, Win32Configs
<1>8. \A x : ~Has(call.todo, x)
  BY <1>6, HasOne
<1>9. PolicyDue'
  BY <1>2, <1>5, <1>6, <1>7, <1>8 DEF Win32Inv, PolicyDue, Owes, Win32!IsWindow
<1>10. PositionDue'
  BY <1>2, <1>5, <1>6 DEF Win32Inv, PositionDue, Owes, Near
<1>11. ~Has(<<"zorder">>, "move") /\ ~Has(<<"zorder">>, "electronMove")
  BY <1>2
<1> QED
  BY <1>2, <1>5, <1>6, <1>7, <1>9, <1>10, <1>11, Win32Keeps

LEMMA Win32Reapply == Win32Inv /\ Win32!Reapply => Win32Inv'
<1> SUFFICES ASSUME Win32Inv, Win32!Reapply PROVE Win32Inv'
  OBVIOUS
<1> USE Win32Fields
<1>1. Win32!Begins("reapply", Win32!Apply, 0)
  BY DEF Win32!Reapply
<1>2. Win32!Apply # <<>>
  <2>1. Has(Win32!Apply, "owner")
    BY ApplyToDo
  <2> QED
    BY <2>1, HasOne
<1>4. 0 \in Nat /\ "reapply" \in Win32Methods
  BY DEF Win32Methods
<1>5. call' \in Win32Calls /\ call'.at = "running" /\ call'.todo = Win32!Apply
  BY <1>1, <1>2, <1>4, ApplyToDo, Win32Begins
<1>6. /\ UNCHANGED <<closed, config, parent, cached, electron, window, place, asked>>
      /\ dirty' = FALSE /\ call.at = "idle"
  BY DEF Win32!Reapply, Win32!Open, Win32!Idle, Win32!controllerVars
<1>9. PolicyDue'
  BY <1>5, <1>6, ApplyToDo DEF Win32Inv, PolicyDue, Owes
<1>10. PositionDue'
  BY <1>5, <1>6, ApplyToDo DEF Win32Inv, PositionDue, Owes, Near
<1>11. ~Has(Win32!Apply, "move") /\ ~Has(Win32!Apply, "electronMove") /\ Ordered(Win32!Apply)
  BY ApplyToDo
<1> QED
  BY <1>2, <1>5, <1>6, <1>9, <1>10, <1>11, Win32Keeps

LEMMA Win32Close == Win32Inv /\ Win32!Close => Win32Inv'
<1> SUFFICES ASSUME Win32Inv, Win32!Close PROVE Win32Inv'
  OBVIOUS
<1> USE Win32Fields
<1>1. /\ UNCHANGED <<config, parent, cached, call, electron, window, place, dirty, asked>>
      /\ closed' = TRUE
  BY DEF Win32!Close
<1>2. PolicyDue'
  BY <1>1 DEF Win32Inv, PolicyDue
<1>3. PositionDue'
  BY <1>1 DEF Win32Inv, PositionDue, Owes, Near
<1>4. Ordered(call.todo) /\ (Has(call.todo, "move") \/ Has(call.todo, "electronMove") => call.to \in Places)
  BY DEF Win32Inv, Win32Typed, Owes
<1> QED
  BY <1>1, <1>2, <1>3, <1>4, Win32Keeps

LEMMA Win32ParentChanges == Win32Inv /\ Win32!ParentChanges => Win32Inv'
<1> SUFFICES ASSUME Win32Inv, Win32!ParentChanges PROVE Win32Inv'
  OBVIOUS
<1> USE Win32Fields
<1>1. UNCHANGED <<closed, config, parent, cached, call, electron, asked>>
  BY DEF Win32!ParentChanges, Win32!controllerVars
<1>2. PICK w \in Parents, at \in Places \cup {NoPlace} :
        /\ place' = [place EXCEPT ![w] = at]
        /\ IF at = NoPlace /\ w \in {parent, window.owner}
           THEN /\ dirty' = TRUE
                /\ \/ UNCHANGED window
                   \/ window.owner = w /\ window' = [window EXCEPT !.owner = NoParent]
           ELSE UNCHANGED <<window, dirty>>
  BY DEF Win32!ParentChanges
<1>3. place' \in [Parents -> Places \cup {NoPlace}]
  BY <1>2
<1>4. Ordered(call.todo) /\ (Has(call.todo, "move") \/ Has(call.todo, "electronMove") => call.to \in Places)
  BY DEF Win32Inv, Win32Typed, Owes
<1>5. /\ window' \in Win32Windows /\ window'.topmost = window.topmost
      /\ window'.transparent = window.transparent /\ window'.layered = window.layered
      /\ window'.at = window.at /\ window'.translucent = window.translucent
      /\ dirty' \in BOOLEAN
      /\ ~dirty' => ~dirty /\ window'.owner = window.owner
  BY <1>2 DEF Win32Windows
<1>6. ~dirty' /\ Win32!IsWindow(parent) => parent \in Parents /\ place'[parent] # NoPlace
  BY <1>2 DEF Win32!IsWindow
<1>7. PolicyDue'
  BY <1>1, <1>5, <1>6 DEF Win32Inv, PolicyDue, Owes, Win32!IsWindow
<1>8. PositionDue'
  BY <1>1, <1>5 DEF Win32Inv, PositionDue, Owes, Near
<1> QED
  BY <1>1, <1>3, <1>4, <1>5, <1>7, <1>8, Win32Keeps

LEMMA Win32WindowCloses == Win32Inv /\ Win32!WindowCloses => Win32Inv'
<1> SUFFICES ASSUME Win32Inv, Win32!WindowCloses PROVE Win32Inv'
  OBVIOUS
<1> USE Win32Fields
<1>1. UNCHANGED <<closed, config, parent, cached, call, electron, place, dirty, asked>>
  BY DEF Win32!WindowCloses, Win32!controllerVars
<1>2. window' = [window EXCEPT !.alive = FALSE]
  BY DEF Win32!WindowCloses
<1>3. /\ window' \in Win32Windows /\ window'.owner = window.owner /\ window'.topmost = window.topmost
      /\ window'.transparent = window.transparent /\ window'.layered = window.layered
      /\ window'.at = window.at /\ window'.translucent = window.translucent
  BY <1>2 DEF Win32Windows
<1>4. Ordered(call.todo) /\ (Has(call.todo, "move") \/ Has(call.todo, "electronMove") => call.to \in Places)
  BY DEF Win32Inv, Win32Typed, Owes
<1>5. PolicyDue'
  BY <1>1, <1>3 DEF Win32Inv, PolicyDue, Owes, Win32!IsWindow
<1>6. PositionDue'
  BY <1>1, <1>3 DEF Win32Inv, PositionDue, Owes, Near
<1> QED
  BY <1>1, <1>3, <1>4, <1>5, <1>6, Win32Keeps

LEMMA Win32Step == Win32Inv /\ Win32!Next => Win32Inv'
<1> SUFFICES ASSUME Win32Inv, Win32!Next PROVE Win32Inv'
  OBVIOUS
<1>1. CASE Win32!Methods
  BY <1>1, Win32Configure, Win32AttachParent, Win32DetachParent, Win32UseParentBounds,
     Win32Reapply, Win32Close, Win32SetBounds, Win32SetClickThrough, Win32SetAlwaysOnTop
     DEF Win32!Methods
<1>2. CASE Win32!Steps
  BY <1>2, Win32Throws, Win32ApplyStyles, Win32CheckParent, Win32SetOwner, Win32Move,
     Win32ApplyZOrder, Win32Answer, Win32ApplyElectronBounds, Win32SetIgnoreMouseEvents
     DEF Win32!Steps
<1> QED
  BY <1>1, <1>2, Win32ParentChanges, Win32WindowCloses DEF Win32!Next

LEMMA Win32Initially == Win32!Init => Win32Inv
<1> SUFFICES ASSUME Win32!Init PROVE Win32Inv
  OBVIOUS
<1>1. config \in Win32Configs
  BY DEF Win32!Init, Win32Configs
<1>2. call = [at |-> "unconfigured", of |-> "none", todo |-> <<>>, to |-> 0]
  BY DEF Win32!Init, Win32!NoCall
<1>3. call.at = "unconfigured" /\ call.todo = <<>>
  BY <1>2
<1>4. call \in Win32Calls
  <2>1. 0 \in Nat
    OBVIOUS
  <2> QED
    BY <1>2, <2>1, NothingToDo, Zenon DEF Win32Calls, Win32Methods
<1>5. \A x : ~Has(call.todo, x)
  BY <1>3, HasOne
<1>6. Ordered(call.todo)
  BY <1>3, NothingToDo
<1>7. window \in Win32Windows /\ (window.translucent => window.layered)
  <2>1. PICK translucent \in BOOLEAN, through \in BOOLEAN, at \in Places :
          window = [alive |-> TRUE, owner |-> NoParent, transparent |-> through,
                    layered |-> through \/ translucent, topmost |-> FALSE, at |-> at,
                    translucent |-> translucent]
    BY DEF Win32!Init
  <2>2. PICK layered \in BOOLEAN : layered = (through \/ translucent)
    OBVIOUS
  <2>3. window = [alive |-> TRUE, owner |-> NoParent, transparent |-> through,
                  layered |-> layered, topmost |-> FALSE, at |-> at,
                  translucent |-> translucent]
    BY <2>1, <2>2
  <2>4. at \in Nat
    BY PlacesAssumption
  <2> QED
    BY <2>2, <2>3, <2>4 DEF Win32Windows
<1>8. PolicyDue
  BY <1>3, <1>7 DEF PolicyDue
<1>9. PositionDue
  BY <1>5 DEF PositionDue, Win32!Init, Owes
<1>10. /\ closed \in BOOLEAN /\ electron \in BOOLEAN /\ dirty \in BOOLEAN
       /\ parent \in Parents \cup {NoParent} /\ cached \in Places
       /\ place \in [Parents -> Places \cup {NoPlace}] /\ asked \in Places \cup {NoPlace}
  BY DEF Win32!Init
<1> QED
  BY <1>1, <1>3, <1>4, <1>5, <1>6, <1>7, <1>8, <1>9, <1>10
     DEF Win32Inv, Win32Typed, Win32!TypeOK, Win32Configs, Win32Windows, Win32Calls, Owes

LEMMA Win32Implies == Win32Inv => Win32!TypeOK /\ Win32!PolicyHolds /\ Win32!PositionHolds
<1> SUFFICES ASSUME Win32Inv PROVE Win32!TypeOK /\ Win32!PolicyHolds /\ Win32!PositionHolds
  OBVIOUS
<1>1. Win32!Idle => call.todo = <<>> /\ call.at = "idle"
  BY Win32Fields DEF Win32!Idle
<1>2. Win32!Idle => \A x : ~Has(call.todo, x)
  BY <1>1, HasOne
<1>3. Win32!TypeOK
  BY DEF Win32Inv, Win32Typed
<1>4. Win32!PolicyHolds
  BY <1>1, <1>2 DEF Win32Inv, PolicyDue, Owes, Win32!PolicyHolds
<1>5. Win32!PositionHolds
  BY <1>1, <1>2 DEF Win32Inv, PositionDue, Near, Win32!PositionHolds
<1> QED
  BY <1>3, <1>4, <1>5

-----------------------------------------------------------------------------
(* X11: what the inbox of the window manager comes to.                     *)

LEMMA AppendFacts ==
  ASSUME NEW S, NEW q \in Seq(S), NEW m
  PROVE  /\ Len(q) \in Nat /\ DOMAIN q = 1 .. Len(q)
         /\ DOMAIN Append(q, m) = 1 .. Len(q) + 1
         /\ Append(q, m)[Len(q) + 1] = m
         /\ \A i \in 1 .. Len(q) : Append(q, m)[i] = q[i]
OBVIOUS

LEMMA TailIndices ==
  ASSUME NEW S, NEW q \in Seq(S), q # <<>>
  PROVE  /\ Len(q) \in Nat /\ Len(q) > 0 /\ DOMAIN q = 1 .. Len(q) /\ Head(q) = q[1]
         /\ DOMAIN Tail(q) = 1 .. Len(q) - 1
         /\ \A i \in 1 .. Len(q) - 1 : Tail(q)[i] = q[i + 1]
OBVIOUS

LEMMA StateSentAppend ==
  ASSUME NEW S, NEW q \in Seq(S), NEW m
  PROVE  StateSent(Append(q, m)) <=> StateSent(q) \/ m[1] = "state"
<1> DEFINE r == Append(q, m)
<1>1. /\ Len(q) \in Nat /\ DOMAIN q = 1 .. Len(q) /\ DOMAIN r = 1 .. Len(q) + 1
      /\ r[Len(q) + 1] = m /\ \A i \in 1 .. Len(q) : r[i] = q[i]
  BY AppendFacts
<1> HIDE DEF r
<1>2. /\ Len(q) + 1 \in DOMAIN r /\ \A i \in DOMAIN q : i \in DOMAIN r
      /\ \A i \in DOMAIN r : i \in DOMAIN q \/ i = Len(q) + 1
  BY <1>1
<1> QED
  BY <1>1, <1>2 DEF StateSent, r

LEMMA StateSentTail ==
  ASSUME NEW S, NEW q \in Seq(S), q # <<>>, StateSent(Tail(q))
  PROVE  StateSent(q)
<1>1. PICK i \in DOMAIN Tail(q) : Tail(q)[i][1] = "state"
  BY DEF StateSent
<1>2. i + 1 \in DOMAIN q /\ q[i + 1] = Tail(q)[i]
  BY TailIndices
<1> QED
  BY <1>1, <1>2 DEF StateSent

(* Without messages, it has what it has.                                   *)
LEMMA EndsAsIs ==
  ASSUME NEW q, NEW atoms, NEW atom, NEW on \in BOOLEAN, ~StateSent(q)
  PROVE  EndsAs(q, atoms, atom, on) <=> (atom \in atoms <=> on)
BY DEF EndsAs, StateSent, Speaks

LEMMA EndsAsAppendOther ==
  ASSUME NEW S, NEW q \in Seq(S), NEW m, NEW atoms, NEW atom, NEW on \in BOOLEAN,
         ~(m[1] = "state" /\ m[2] = atom), EndsAs(q, atoms, atom, on)
  PROVE  EndsAs(Append(q, m), atoms, atom, on)
<1> DEFINE r == Append(q, m)
<1>1. /\ Len(q) \in Nat /\ DOMAIN q = 1 .. Len(q) /\ DOMAIN r = 1 .. Len(q) + 1
      /\ r[Len(q) + 1] = m /\ \A i \in 1 .. Len(q) : r[i] = q[i]
  BY AppendFacts
<1> HIDE DEF r
<1>2. \A i \in DOMAIN r : (i \in DOMAIN q /\ r[i] = q[i]) \/ i = Len(q) + 1
  BY <1>1
<1>3. \A i \in DOMAIN q : i \in DOMAIN r /\ r[i] = q[i]
  BY <1>1
<1>4. \A i \in DOMAIN r : Speaks(r, i, atom) => i \in DOMAIN q /\ Speaks(q, i, atom)
  BY <1>1, <1>2 DEF Speaks
<1>5. \A i \in DOMAIN q : Speaks(q, i, atom) => Speaks(r, i, atom)
  BY <1>3 DEF Speaks
<1>6. ASSUME NEW i \in DOMAIN r, Speaks(r, i, atom), \A j \in DOMAIN r : j > i => ~Speaks(r, j, atom)
      PROVE  r[i][3] = on
  <2>1. i \in DOMAIN q /\ Speaks(q, i, atom) /\ \A j \in DOMAIN q : j > i => ~Speaks(q, j, atom)
    BY <1>3, <1>4, <1>5, <1>6
  <2> QED
    BY <1>3, <2>1 DEF EndsAs
<1>7. ASSUME \A i \in DOMAIN r : ~Speaks(r, i, atom) PROVE atom \in atoms <=> on
  <2>1. \A i \in DOMAIN q : ~Speaks(q, i, atom)
    BY <1>3, <1>5, <1>7
  <2> QED
    BY <2>1 DEF EndsAs
<1>8. EndsAs(r, atoms, atom, on)
  BY <1>6, <1>7 DEF EndsAs
<1> QED
  BY <1>8 DEF r

LEMMA EndsAsAppendOwn ==
  ASSUME NEW S, NEW q \in Seq(S), NEW atoms, NEW atom, NEW on \in BOOLEAN
  PROVE  EndsAs(Append(q, <<"state", atom, on>>), atoms, atom, on)
<1> DEFINE m == <<"state", atom, on>>
           r == Append(q, m)
<1>1. /\ Len(q) \in Nat /\ DOMAIN q = 1 .. Len(q) /\ DOMAIN r = 1 .. Len(q) + 1
      /\ r[Len(q) + 1] = m /\ \A i \in 1 .. Len(q) : r[i] = q[i]
  BY AppendFacts
<1>2. m[1] = "state" /\ m[2] = atom /\ m[3] = on
  OBVIOUS
<1> HIDE DEF m, r
<1>3. Len(q) + 1 \in DOMAIN r /\ Speaks(r, Len(q) + 1, atom) /\ r[Len(q) + 1][3] = on
  BY <1>1, <1>2 DEF Speaks
<1>4. \A i \in DOMAIN r : i = Len(q) + 1 \/ Len(q) + 1 > i
  BY <1>1
<1>5. EndsAs(r, atoms, atom, on)
  BY <1>3, <1>4 DEF EndsAs
<1> QED
  BY <1>5 DEF m, r

(* The first message is done.                                              *)
LEMMA EndsAsTail ==
  ASSUME NEW S, NEW q \in Seq(S), q # <<>>, NEW atoms, NEW left, NEW atom, NEW on \in BOOLEAN,
         EndsAs(q, atoms, atom, on),
         IF Head(q)[1] = "state" /\ Head(q)[2] = atom
         THEN atom \in left <=> (Head(q)[3] = TRUE)
         ELSE atom \in left <=> atom \in atoms
  PROVE  EndsAs(Tail(q), left, atom, on)
<1> DEFINE r == Tail(q)
<1>1. /\ Len(q) \in Nat /\ Len(q) > 0 /\ DOMAIN q = 1 .. Len(q) /\ Head(q) = q[1]
      /\ DOMAIN r = 1 .. Len(q) - 1 /\ \A i \in 1 .. Len(q) - 1 : r[i] = q[i + 1]
  BY TailIndices
<1> HIDE DEF r
<1>2. \A i \in DOMAIN r : i \in Nat /\ i + 1 \in DOMAIN q /\ q[i + 1] = r[i]
  BY <1>1
<1>3. \A i \in DOMAIN q : i = 1 \/ (i - 1 \in DOMAIN r /\ q[i] = r[i - 1])
  BY <1>1
<1>4. \A i \in DOMAIN r : Speaks(r, i, atom) <=> Speaks(q, i + 1, atom)
  BY <1>2 DEF Speaks
<1>5. ASSUME NEW i \in DOMAIN r, Speaks(r, i, atom), \A j \in DOMAIN r : j > i => ~Speaks(r, j, atom)
      PROVE  r[i][3] = on
  <2>1. i + 1 \in DOMAIN q /\ Speaks(q, i + 1, atom)
    BY <1>2, <1>4, <1>5
  <2>2. ASSUME NEW j \in DOMAIN q, j > i + 1 PROVE ~Speaks(q, j, atom)
    <3>1. j - 1 \in DOMAIN r /\ j - 1 > i /\ q[j] = r[j - 1]
      BY <1>1, <1>2, <1>3, <2>2
    <3> QED
      BY <1>5, <3>1 DEF Speaks
  <2> QED
    BY <1>2, <2>1, <2>2 DEF EndsAs
<1>6. ASSUME \A i \in DOMAIN r : ~Speaks(r, i, atom) PROVE atom \in left <=> on
  <2>1. \A j \in DOMAIN q : j # 1 => ~Speaks(q, j, atom)
    BY <1>3, <1>6 DEF Speaks
  <2>2. 1 \in DOMAIN q
    BY <1>1
  <2>3. CASE Head(q)[1] = "state" /\ Head(q)[2] = atom
    <3>1. Speaks(q, 1, atom) /\ \A j \in DOMAIN q : j > 1 => ~Speaks(q, j, atom)
      BY <1>1, <2>1, <2>3 DEF Speaks
    <3>2. q[1][3] = on
      BY <2>2, <3>1 DEF EndsAs
    <3> QED
      BY <1>1, <2>3, <3>2
  <2>4. CASE ~(Head(q)[1] = "state" /\ Head(q)[2] = atom)
    <3>1. ~Speaks(q, 1, atom)
      BY <1>1, <2>4 DEF Speaks
    <3>2. \A j \in DOMAIN q : ~Speaks(q, j, atom)
      BY <2>1, <3>1
    <3> QED
      BY <2>4, <3>2 DEF EndsAs
  <2> QED
    BY <2>3, <2>4
<1>7. EndsAs(r, left, atom, on)
  BY <1>5, <1>6 DEF EndsAs
<1> QED
  BY <1>7 DEF r

LEMMA MessageFacts ==
  \A m \in Messages :
    /\ m[1] = "configure" => m[2] \in Places
    /\ m[1] = "state" => m[2] \in X11!Atoms /\ m[3] \in BOOLEAN
BY DEF Messages

LEMMA MessagesMade ==
  /\ <<"map">> \in Messages /\ <<"unmap">> \in Messages
  /\ \A at \in Places : <<"configure", at>> \in Messages
  /\ \A atom \in X11!Atoms, on \in BOOLEAN : <<"state", atom, on>> \in Messages
BY DEF Messages

LEMMA ToDoFacts ==
  ASSUME NEW q \in ToDos, q # <<>>
  PROVE  /\ Head(q) \in X11!Atoms /\ Tail(q) \in ToDos
         /\ \A x : Has(q, x) <=> x = Head(q) \/ Has(Tail(q), x)
<1>1. CASE q = <<"above">>
  BY <1>1 DEF ToDos, X11!Atoms, Has
<1>2. CASE q = <<"skip">>
  BY <1>2 DEF ToDos, X11!Atoms, Has
<1>3. CASE q = <<"above", "skip">>
  <2>1. Head(q) = "above" /\ Tail(q) = <<"skip">>
    BY <1>3
  <2> QED
    BY <1>3, <2>1 DEF ToDos, X11!Atoms, Has
<1> QED
  BY <1>1, <1>2, <1>3 DEF ToDos

-----------------------------------------------------------------------------
(* X11: the steps.                                                         *)

X11Configs == [bounds: Places, positionParent: BOOLEAN, clickThrough: BOOLEAN, above: BOOLEAN]
X11At == {"unconfigured", "idle", "attributes", "message", "read", "write"}

LEMMA X11Fields ==
  X11Inv =>
    /\ closed \in BOOLEAN /\ viewable \in BOOLEAN /\ managed \in BOOLEAN /\ shown \in BOOLEAN
    /\ dirty \in BOOLEAN /\ config \in X11Configs
    /\ config.clickThrough \in BOOLEAN /\ config.above \in BOOLEAN /\ config.bounds \in Places
    /\ parent \in Parents \cup {NoParent} /\ cached \in Places
    /\ call \in X11Calls /\ call.at \in X11At /\ call.todo \in ToDos
    /\ call.apply \in BOOLEAN /\ call.position \in BOOLEAN /\ call.read \subseteq X11!Atoms
    /\ state \subseteq X11!Atoms /\ wmState \subseteq X11!Atoms
    /\ transient \in Parents \cup {NoParent} /\ shape \in {"window", "empty"}
    /\ geometry \in Places /\ place \in [Parents -> Places \cup {NoPlace}]
    /\ inbox \in Seq(Messages)
    /\ call.at \in Changes => call.atom \in X11!Atoms
    /\ call.at \in {"unconfigured", "idle"} => call.todo = <<>> /\ ~call.apply
BY DEF X11Inv, X11Typed, X11!TypeOK, X11Configs, X11Calls, X11At

(* What a step has to establish.                                           *)
LEMMA X11Keeps ==
  ASSUME closed' \in BOOLEAN, viewable' \in BOOLEAN, managed' \in BOOLEAN, shown' \in BOOLEAN,
         dirty' \in BOOLEAN, config' \in X11Configs, parent' \in Parents \cup {NoParent},
         cached' \in Places, call' \in X11Calls,
         state' \subseteq X11!Atoms, wmState' \subseteq X11!Atoms,
         transient' \in Parents \cup {NoParent}, shape' \in {"window", "empty"},
         geometry' \in Places, place' \in [Parents -> Places \cup {NoPlace}],
         inbox' \in Seq(Messages),
         call'.at \in Changes => call'.atom \in X11!Atoms,
         call'.at \in {"unconfigured", "idle"} => call'.todo = <<>> /\ ~call'.apply,
         Told', Path', AtomsHold'
  PROVE  X11Inv'
BY DEF X11Inv, X11Typed, X11!TypeOK, X11Configs, X11Calls

LEMMA WantsIsBoolean == X11Inv => \A atom \in X11!Atoms : X11!Wants(atom) \in BOOLEAN
BY DEF X11!Wants

(* A message that says nothing of the atoms.                               *)
LEMMA X11Sends ==
  ASSUME X11Inv, NEW m \in Messages, m[1] # "state", inbox' = Append(inbox, m)
  PROVE  /\ inbox' \in Seq(Messages)
         /\ StateSent(inbox') <=> StateSent(inbox)
         /\ \A atoms, atom : \A on \in BOOLEAN :
              EndsAs(inbox, atoms, atom, on) => EndsAs(inbox', atoms, atom, on)
<1>1. inbox \in Seq(Messages)
  BY X11Fields
<1>2. inbox' \in Seq(Messages)
  BY <1>1
<1>3. StateSent(Append(inbox, m)) <=> StateSent(inbox)
  BY <1>1, StateSentAppend
<1>4. ASSUME NEW atoms, NEW atom, NEW on \in BOOLEAN, EndsAs(inbox, atoms, atom, on)
      PROVE  EndsAs(Append(inbox, m), atoms, atom, on)
  BY <1>1, <1>4, EndsAsAppendOther
<1> QED
  BY <1>2, <1>3, <1>4

(* XMoveResizeWindow, if it is called.                                     *)
LEMMA X11MaySend ==
  ASSUME X11Inv, UNCHANGED inbox \/ \E at \in Places : X11!Move(at)
  PROVE  /\ inbox' \in Seq(Messages)
         /\ StateSent(inbox') <=> StateSent(inbox)
         /\ \A atoms, atom : \A on \in BOOLEAN :
              EndsAs(inbox, atoms, atom, on) => EndsAs(inbox', atoms, atom, on)
<1>1. CASE UNCHANGED inbox
  BY <1>1, X11Fields
<1>2. ASSUME NEW at \in Places, X11!Move(at)
      PROVE  /\ inbox' \in Seq(Messages)
             /\ StateSent(inbox') <=> StateSent(inbox)
             /\ \A atoms, atom : \A on \in BOOLEAN :
                  EndsAs(inbox, atoms, atom, on) => EndsAs(inbox', atoms, atom, on)
  <2> DEFINE m == <<"configure", at>>
  <2>1. m \in Messages /\ m[1] # "state"
    BY MessagesMade
  <2>2. inbox' = Append(inbox, m)
    BY <1>2 DEF X11!Move
  <2> HIDE DEF m
  <2> QED
    BY <2>1, <2>2, X11Sends
<1> QED
  BY <1>1, <1>2

(* While no call is in progress, the server and the window manager keep    *)
(* what was established, as long as they are told nothing of the atoms.    *)
LEMMA X11Quiet ==
  ASSUME X11Inv, UNCHANGED <<call, viewable, managed, state, wmState>>,
         config'.above = config.above, dirty' \in BOOLEAN, dirty => dirty',
         inbox' \in Seq(Messages), StateSent(inbox') <=> StateSent(inbox),
         \A atoms, atom : \A on \in BOOLEAN :
           EndsAs(inbox, atoms, atom, on) => EndsAs(inbox', atoms, atom, on)
  PROVE  Path' /\ AtomsHold'
<1>1. Path'
  BY X11Fields DEF X11Inv, Path
<1>2. ASSUME ~dirty', NEW atom \in X11!Atoms, ~Due(atom)'
      PROVE  IF managed' THEN EndsAs(inbox', wmState', atom, X11!Wants(atom)')
                         ELSE atom \in state' <=> X11!Wants(atom)'
  <2>1. ~dirty /\ ~Due(atom)
    BY <1>2, X11Fields DEF Due
  <2>2. X11!Wants(atom)' = X11!Wants(atom) /\ X11!Wants(atom) \in BOOLEAN
    BY X11Fields DEF X11!Wants
  <2>3. IF managed THEN EndsAs(inbox, wmState, atom, X11!Wants(atom))
                   ELSE atom \in state <=> X11!Wants(atom)
    BY <2>1 DEF X11Inv, AtomsHold
  <2> QED
    BY <2>2, <2>3
<1> QED
  BY <1>1, <1>2 DEF AtomsHold

(* Apply begins.                                                           *)
LEMMA X11Applies ==
  ASSUME X11Inv, NEW position \in BOOLEAN, X11!ApplyBegin(position),
         UNCHANGED <<viewable, managed>>, transient' = parent',
         inbox' \in Seq(Messages), StateSent(inbox') <=> StateSent(inbox)
  PROVE  /\ call' \in X11Calls /\ call'.at = "attributes" /\ dirty' \in BOOLEAN
         /\ Told' /\ Path' /\ AtomsHold'
<1>1. call' = [at |-> "attributes", todo |-> <<"above", "skip">>, atom |-> "none", read |-> {},
               apply |-> TRUE, position |-> position]
  BY DEF X11!ApplyBegin, X11!NoCall
<1>2. dirty' = (managed # viewable \/ (~viewable /\ StateSent(inbox)))
  BY DEF X11!ApplyBegin, X11!Changing, X11!Overtaken, X11!Pending, StateSent
<1>3. call' \in X11Calls
  BY <1>1, Zenon DEF X11Calls, ToDos
<1>4. call'.at = "attributes" /\ call'.todo = <<"above", "skip">> /\ call'.apply = TRUE
  BY <1>1
<1>5. Told'
  BY <1>4 DEF X11Inv, Told
<1>6. Path'
  <2>1. managed \in BOOLEAN /\ viewable \in BOOLEAN
    BY X11Fields
  <2>4. ~dirty' => managed = viewable /\ (~viewable => ~StateSent(inbox))
    BY <1>2
  <2>5. managed' = managed /\ viewable' = viewable
    OBVIOUS
  <2>2. ~dirty' => managed' = viewable' /\ (~managed' => ~StateSent(inbox'))
    BY <2>4, <2>5, <2>1
  <2>3. call'.at \notin Changes
    BY <1>4 DEF Changes
  <2> QED
    BY <1>4, <2>2, <2>3 DEF Path, Changes
<1>7. ASSUME NEW atom \in X11!Atoms PROVE Has(call'.todo, atom)
  <2>1. Has(<<"above", "skip">>, "above") /\ Has(<<"above", "skip">>, "skip")
    BY DEF Has
  <2> QED
    BY <1>4, <2>1 DEF X11!Atoms
<1>8. AtomsHold'
  BY <1>7 DEF AtomsHold, Due
<1> QED
  BY <1>2, <1>3, <1>4, <1>5, <1>6, <1>8

LEMMA X11Configure == X11Inv /\ X11!Configure => X11Inv'
<1> SUFFICES ASSUME X11Inv, X11!Configure PROVE X11Inv'
  OBVIOUS
<1> USE X11Fields
<1>1. /\ UNCHANGED <<closed, viewable, state, shape, geometry, inbox, managed, wmState, shown, place>>
      /\ transient' = parent' /\ X11!ApplyBegin(TRUE)
  BY DEF X11!Configure, X11!wmVars, X11!worldVars
<1>2. config' \in X11Configs /\ parent' \in Parents \cup {NoParent} /\ cached' \in Places
  BY DEF X11!Configure, X11Configs, X11!FindParent, X11!Visible
<1>3. /\ call' \in X11Calls /\ call'.at = "attributes" /\ dirty' \in BOOLEAN
      /\ Told' /\ Path' /\ AtomsHold'
  BY <1>1, X11Applies
<1> QED
  BY <1>1, <1>2, <1>3, X11Keeps DEF Changes

LEMMA X11AttachParent ==
  ASSUME X11Inv, NEW w \in Parents, NEW reposition \in BOOLEAN, X11!AttachParent(w, reposition)
  PROVE  X11Inv'
<1> USE X11Fields
<1>1. /\ UNCHANGED <<closed, config, viewable, state, shape, geometry, managed, wmState, shown, place>>
      /\ transient' = parent' /\ X11!ApplyBegin(FALSE)
  BY DEF X11!AttachParent, X11!worldVars
<1>2. parent' \in Parents \cup {NoParent} /\ cached' \in Places /\ place[w] \in Places
  BY DEF X11!AttachParent, X11!FindParent, X11!Visible
<1>3. UNCHANGED inbox \/ \E at \in Places : X11!Move(at)
  BY <1>2 DEF X11!AttachParent
<1>4. inbox' \in Seq(Messages) /\ (StateSent(inbox') <=> StateSent(inbox))
  BY <1>3, X11MaySend
<1>5. /\ call' \in X11Calls /\ call'.at = "attributes" /\ dirty' \in BOOLEAN
      /\ Told' /\ Path' /\ AtomsHold'
  BY <1>1, <1>4, X11Applies
<1> QED
  BY <1>1, <1>2, <1>4, <1>5, X11Keeps DEF Changes

LEMMA X11Reapply == X11Inv /\ X11!Reapply => X11Inv'
<1> SUFFICES ASSUME X11Inv, X11!Reapply PROVE X11Inv'
  OBVIOUS
<1> USE X11Fields
<1>1. /\ UNCHANGED <<closed, config, parent, cached, viewable, state, shape, geometry, inbox, managed,
                     wmState, shown, place>>
      /\ transient' = parent' /\ X11!ApplyBegin(FALSE)
  BY DEF X11!Reapply, X11!wmVars, X11!worldVars, X11!controllerVars
<1>2. /\ call' \in X11Calls /\ call'.at = "attributes" /\ dirty' \in BOOLEAN
      /\ Told' /\ Path' /\ AtomsHold'
  BY <1>1, X11Applies
<1> QED
  BY <1>1, <1>2, X11Keeps DEF Changes

LEMMA X11DetachParent == X11Inv /\ X11!DetachParent => X11Inv'
<1> SUFFICES ASSUME X11Inv, X11!DetachParent PROVE X11Inv'
  OBVIOUS
<1> USE X11Fields
<1>1. /\ UNCHANGED <<closed, config, cached, call, viewable, state, shape, geometry, inbox, managed,
                     wmState, shown, place, dirty>>
      /\ parent' = NoParent /\ transient' = NoParent
  BY DEF X11!DetachParent, X11!wmVars, X11!worldVars
<1>2. Path' /\ AtomsHold'
  BY <1>1, X11Quiet
<1>3. Told'
  BY <1>1 DEF X11Inv, Told, X11!InputShape
<1> QED
  BY <1>1, <1>2, <1>3, X11Keeps

LEMMA X11SetBounds == ASSUME X11Inv, NEW bounds \in Places, X11!SetBounds(bounds) PROVE X11Inv'
<1> USE X11Fields
<1>1. UNCHANGED <<closed, parent, cached, call, viewable, state, transient, shape, geometry, managed,
                  wmState, shown, place, dirty>>
  BY DEF X11!SetBounds, X11!windowVars, X11!worldVars
<1>2. /\ config' \in X11Configs /\ config'.above = config.above
      /\ config'.clickThrough = config.clickThrough
  BY DEF X11!SetBounds, X11Configs
<1>3. /\ inbox' \in Seq(Messages) /\ (StateSent(inbox') <=> StateSent(inbox))
      /\ \A atoms, atom : \A on \in BOOLEAN :
           EndsAs(inbox, atoms, atom, on) => EndsAs(inbox', atoms, atom, on)
  BY X11MaySend DEF X11!SetBounds
<1>4. Path' /\ AtomsHold'
  BY <1>1, <1>2, <1>3, X11Quiet
<1>5. Told'
  BY <1>1, <1>2 DEF X11Inv, Told, X11!InputShape
<1> QED
  BY <1>1, <1>2, <1>3, <1>4, <1>5, X11Keeps

LEMMA X11UseParentBounds == X11Inv /\ X11!UseParentBounds => X11Inv'
<1> SUFFICES ASSUME X11Inv, X11!UseParentBounds PROVE X11Inv'
  OBVIOUS
<1> USE X11Fields
<1>1. UNCHANGED <<closed, parent, call, viewable, state, transient, shape, geometry, managed,
                  wmState, shown, place, dirty>>
  BY DEF X11!UseParentBounds, X11!windowVars, X11!worldVars
<1>2. /\ config' \in X11Configs /\ config'.above = config.above
      /\ config'.clickThrough = config.clickThrough
  BY DEF X11!UseParentBounds, X11Configs
<1>3. cached' \in Places /\ (UNCHANGED inbox \/ \E at \in Places : X11!Move(at))
  BY DEF X11!UseParentBounds, X11!Visible
<1>4. /\ inbox' \in Seq(Messages) /\ (StateSent(inbox') <=> StateSent(inbox))
      /\ \A atoms, atom : \A on \in BOOLEAN :
           EndsAs(inbox, atoms, atom, on) => EndsAs(inbox', atoms, atom, on)
  BY <1>3, X11MaySend
<1>5. Path' /\ AtomsHold'
  BY <1>1, <1>2, <1>4, X11Quiet
<1>6. Told'
  BY <1>1, <1>2 DEF X11Inv, Told, X11!InputShape
<1> QED
  BY <1>1, <1>2, <1>3, <1>4, <1>5, <1>6, X11Keeps

LEMMA X11SetClickThrough ==
  ASSUME X11Inv, NEW enabled \in BOOLEAN, X11!SetClickThrough(enabled) PROVE X11Inv'
<1> USE X11Fields
<1>1. UNCHANGED <<closed, parent, cached, call, viewable, state, transient, geometry, inbox, managed,
                  wmState, shown, place, dirty>>
  BY DEF X11!SetClickThrough, X11!wmVars, X11!worldVars
<1>2. /\ config' \in X11Configs /\ config'.above = config.above /\ config'.clickThrough = enabled
      /\ shape' = X11!InputShape(enabled) /\ shape' \in {"window", "empty"}
  BY DEF X11!SetClickThrough, X11Configs, X11!InputShape
<1>3. Path' /\ AtomsHold'
  BY <1>1, <1>2, X11Quiet
<1>4. Told'
  BY <1>1, <1>2 DEF X11Inv, Told
<1> QED
  BY <1>1, <1>2, <1>3, <1>4, X11Keeps

LEMMA X11SetAlwaysOnTop ==
  ASSUME X11Inv, NEW enabled \in BOOLEAN, X11!SetAlwaysOnTop(enabled) PROVE X11Inv'
<1> USE X11Fields
<1>1. /\ UNCHANGED <<closed, parent, cached, viewable, state, transient, shape, geometry, inbox,
                     managed, wmState, shown, place>>
      /\ call.at = "idle"
  BY DEF X11!SetAlwaysOnTop, X11!Begins, X11!Idle, X11!wmVars, X11!windowVars, X11!worldVars
<1>2. /\ config' \in X11Configs /\ config'.clickThrough = config.clickThrough
      /\ config'.above = enabled
  BY DEF X11!SetAlwaysOnTop, X11Configs
<1>3. call' = [at |-> "attributes", todo |-> <<"above">>, atom |-> "none", read |-> {},
               apply |-> FALSE, position |-> FALSE]
  BY DEF X11!SetAlwaysOnTop, X11!NoCall
<1>4. call' \in X11Calls
  BY <1>3, Zenon DEF X11Calls, ToDos
<1>5. call'.at = "attributes" /\ call'.todo = <<"above">>
  BY <1>3
<1>6. dirty' = (dirty \/ managed # viewable)
  BY DEF X11!SetAlwaysOnTop, X11!Changing
<1>7. Path'
  BY <1>1, <1>5, <1>6 DEF X11Inv, Path, Changes
<1>8. Told'
  BY <1>1, <1>2 DEF X11Inv, Told, X11!InputShape
<1>9. ASSUME ~dirty', NEW atom \in X11!Atoms, ~Due(atom)'
      PROVE  IF managed' THEN EndsAs(inbox', wmState', atom, X11!Wants(atom)')
                         ELSE atom \in state' <=> X11!Wants(atom)'
  <2>1. Has(call'.todo, "above")
    BY <1>5, HasOne
  <2>2. atom = "skip"
    BY <1>9, <2>1 DEF Due, X11!Atoms
  <2>3. ~Due(atom)
    BY <1>1, HasOne DEF Due, Changes
  <2>4. X11!Wants(atom)' = X11!Wants(atom)
    BY <2>2 DEF X11!Wants
  <2> QED
    BY <1>1, <1>6, <1>9, <2>3, <2>4 DEF X11Inv, AtomsHold
<1>10. AtomsHold'
  BY <1>9 DEF AtomsHold
<1> QED
  BY <1>1, <1>2, <1>4, <1>5, <1>6, <1>7, <1>8, <1>10, X11Keeps DEF Changes

LEMMA X11Close == X11Inv /\ X11!Close => X11Inv'
<1> SUFFICES ASSUME X11Inv, X11!Close PROVE X11Inv'
  OBVIOUS
<1> USE X11Fields
<1>1. /\ UNCHANGED <<config, parent, cached, call, viewable, state, transient, shape, geometry, inbox,
                     managed, wmState, shown, place, dirty>>
      /\ closed' = TRUE
  BY DEF X11!Close, X11!wmVars, X11!windowVars, X11!worldVars
<1>2. Path' /\ AtomsHold'
  BY <1>1, X11Quiet
<1>3. Told'
  BY <1>1 DEF X11Inv, Told, X11!InputShape
<1> QED
  BY <1>1, <1>2, <1>3, X11Keeps

LEMMA X11GetAttributes == X11Inv /\ X11!GetAttributes => X11Inv'
<1> SUFFICES ASSUME X11Inv, X11!GetAttributes PROVE X11Inv'
  OBVIOUS
<1> USE X11Fields
<1>1. /\ UNCHANGED <<closed, config, parent, cached, viewable, state, transient, shape, geometry, inbox,
                     managed, wmState, shown, place, dirty>>
      /\ call.at = "attributes" /\ call.todo # <<>>
  BY DEF X11!GetAttributes, X11!controllerVars, X11!wmVars, X11!windowVars, X11!worldVars
<1>2. PICK at \in {"message", "read"} :
        /\ at = IF viewable THEN "message" ELSE "read"
        /\ call' = [call EXCEPT !.atom = Head(call.todo), !.todo = Tail(call.todo), !.at = at]
  BY DEF X11!GetAttributes, X11!ThroughManager
<1>3. /\ Head(call.todo) \in X11!Atoms /\ Tail(call.todo) \in ToDos
      /\ \A x : Has(call.todo, x) <=> x = Head(call.todo) \/ Has(Tail(call.todo), x)
  BY <1>1, ToDoFacts
<1>4. /\ call' \in X11Calls /\ call'.at = at /\ call'.todo = Tail(call.todo)
      /\ call'.atom = Head(call.todo) /\ call'.apply = call.apply
  BY <1>2, <1>3 DEF X11Calls
<1>5. Told'
  BY <1>1, <1>2, <1>4 DEF X11Inv, Told, X11!InputShape
<1>6. Path'
  BY <1>1, <1>2, <1>4 DEF X11Inv, Path, Changes
<1>7. \A atom : Due(atom) => Due(atom)'
  BY <1>1, <1>2, <1>3, <1>4 DEF Due, Changes
<1>8. AtomsHold'
  BY <1>1, <1>7 DEF X11Inv, AtomsHold, X11!Wants
<1> QED
  BY <1>1, <1>2, <1>3, <1>4, <1>5, <1>6, <1>8, X11Keeps

LEMMA X11SendMessage == X11Inv /\ X11!SendMessage => X11Inv'
<1> SUFFICES ASSUME X11Inv, X11!SendMessage PROVE X11Inv'
  OBVIOUS
<1> USE X11Fields
<1>1. /\ UNCHANGED <<closed, config, parent, cached, viewable, state, transient, shape, geometry,
                     managed, wmState, shown, place, dirty>>
      /\ call.at = "message" /\ call.atom \in X11!Atoms
  BY DEF X11!SendMessage, X11!controllerVars, X11!windowVars, X11!worldVars, Changes
<1>2. PICK on \in BOOLEAN : on = X11!Wants(call.atom)
  BY <1>1, WantsIsBoolean
<1> DEFINE m == <<"state", call.atom, on>>
<1>3. inbox' = Append(inbox, m)
  BY <1>2 DEF X11!SendMessage
<1>4. m \in Messages /\ m[1] = "state" /\ m[2] = call.atom
  BY <1>1, MessagesMade
<1>5. \A atoms : EndsAs(inbox', atoms, call.atom, on)
  BY <1>3, EndsAsAppendOwn
<1> HIDE DEF m
<1>6. call' = [call EXCEPT !.at = "attributes"]
  BY DEF X11!SendMessage
<1>7. /\ call' \in X11Calls /\ call'.at = "attributes" /\ call'.todo = call.todo
      /\ call'.apply = call.apply
  BY <1>6 DEF X11Calls
<1>8. Told'
  BY <1>1, <1>7 DEF X11Inv, Told, X11!InputShape
<1>9. ~dirty => viewable /\ managed
  BY <1>1 DEF X11Inv, Path, Changes
<1>10. Path'
  BY <1>1, <1>7, <1>9 DEF Path, Changes
<1>11. ASSUME ~dirty', NEW atom \in X11!Atoms, ~Due(atom)'
       PROVE  EndsAs(inbox', wmState', atom, X11!Wants(atom)')
  <2>1. X11!Wants(atom)' = X11!Wants(atom) /\ X11!Wants(atom) \in BOOLEAN
    BY <1>1, WantsIsBoolean DEF X11!Wants
  <2>2. CASE atom = call.atom
    BY <1>1, <1>2, <1>5, <2>1, <2>2
  <2>3. CASE atom # call.atom
    <3>1. ~Due(atom)
      BY <1>1, <1>7, <1>11, <2>3 DEF Due
    <3>2. EndsAs(inbox, wmState, atom, X11!Wants(atom))
      BY <1>1, <1>9, <1>11, <3>1 DEF X11Inv, AtomsHold
    <3>3. EndsAs(Append(inbox, m), wmState, atom, X11!Wants(atom))
      BY <1>4, <2>1, <2>3, <3>2, EndsAsAppendOther
    <3> QED
      BY <1>1, <1>3, <2>1, <3>3
  <2> QED
    BY <2>2, <2>3
<1>12. AtomsHold'
  BY <1>1, <1>9, <1>11 DEF AtomsHold
<1>13. inbox' \in Seq(Messages)
  BY <1>3, <1>4
<1> QED
  BY <1>1, <1>7, <1>8, <1>10, <1>12, <1>13, X11Keeps DEF Changes

LEMMA X11ReadState == X11Inv /\ X11!ReadState => X11Inv'
<1> SUFFICES ASSUME X11Inv, X11!ReadState PROVE X11Inv'
  OBVIOUS
<1> USE X11Fields
<1>1. /\ UNCHANGED <<closed, config, parent, cached, viewable, state, transient, shape, geometry, inbox,
                     managed, wmState, shown, place, dirty>>
      /\ call.at = "read"
  BY DEF X11!ReadState, X11!controllerVars, X11!wmVars, X11!windowVars, X11!worldVars
<1>2. call' = [call EXCEPT !.at = "write", !.read = state]
  BY DEF X11!ReadState
<1>3. /\ call' \in X11Calls /\ call'.at = "write" /\ call'.todo = call.todo
      /\ call'.atom = call.atom /\ call'.apply = call.apply /\ call'.read = state
  BY <1>2 DEF X11Calls
<1>4. Told'
  BY <1>1, <1>3 DEF X11Inv, Told, X11!InputShape
<1>5. Path'
  BY <1>1, <1>3 DEF X11Inv, Path, Changes
<1>6. \A atom : Due(atom) => Due(atom)'
  BY <1>1, <1>3 DEF Due, Changes
<1>7. AtomsHold'
  BY <1>1, <1>6 DEF X11Inv, AtomsHold, X11!Wants
<1> QED
  BY <1>1, <1>3, <1>4, <1>5, <1>7, X11Keeps DEF Changes

LEMMA ChangedFacts ==
  ASSUME NEW atoms \in SUBSET X11!Atoms, NEW atom \in X11!Atoms, NEW on \in BOOLEAN
  PROVE  /\ X11!Changed(atoms, atom, on) \subseteq X11!Atoms
         /\ atom \in X11!Changed(atoms, atom, on) <=> on
         /\ \A other : other # atom => (other \in X11!Changed(atoms, atom, on) <=> other \in atoms)
BY DEF X11!Changed

LEMMA X11WriteState == X11Inv /\ X11!WriteState => X11Inv'
<1> SUFFICES ASSUME X11Inv, X11!WriteState PROVE X11Inv'
  OBVIOUS
<1> USE X11Fields
<1>1. /\ UNCHANGED <<closed, config, parent, cached, viewable, transient, shape, geometry, inbox,
                     managed, wmState, shown, place, dirty>>
      /\ call.at = "write" /\ call.atom \in X11!Atoms
  BY DEF X11!WriteState, X11!controllerVars, X11!wmVars, X11!worldVars, Changes
<1>2. PICK on \in BOOLEAN : on = X11!Wants(call.atom)
  BY <1>1, WantsIsBoolean
<1>3. state' = X11!Changed(call.read, call.atom, on)
  BY <1>2 DEF X11!WriteState
<1>4. /\ state' \subseteq X11!Atoms /\ (call.atom \in state' <=> on)
      /\ \A other : other # call.atom => (other \in state' <=> other \in call.read)
  BY <1>1, <1>3, ChangedFacts
<1>5. call' = [call EXCEPT !.at = "attributes", !.read = {}]
  BY DEF X11!WriteState
<1>6. /\ call' \in X11Calls /\ call'.at = "attributes" /\ call'.todo = call.todo
      /\ call'.apply = call.apply
  BY <1>5 DEF X11Calls
<1>7. Told'
  BY <1>1, <1>6 DEF X11Inv, Told, X11!InputShape
<1>8. ~dirty => ~viewable /\ ~managed /\ call.read = state
  BY <1>1 DEF X11Inv, Path, Changes
<1>9. Path'
  BY <1>1, <1>6 DEF X11Inv, Path, Changes
<1>10. ASSUME ~dirty', NEW atom \in X11!Atoms, ~Due(atom)'
       PROVE  atom \in state' <=> X11!Wants(atom)'
  <2>1. X11!Wants(atom)' <=> X11!Wants(atom)
    BY <1>1 DEF X11!Wants
  <2>2. CASE atom = call.atom
    BY <1>2, <1>4, <2>1, <2>2
  <2>3. CASE atom # call.atom
    <3>1. ~Due(atom)
      BY <1>1, <1>6, <1>10, <2>3 DEF Due
    <3>2. atom \in state <=> X11!Wants(atom)
      BY <1>1, <1>8, <1>10, <3>1 DEF X11Inv, AtomsHold
    <3> QED
      BY <1>1, <1>4, <1>8, <1>10, <2>1, <2>3, <3>2
  <2> QED
    BY <2>2, <2>3
<1>11. AtomsHold'
  BY <1>1, <1>8, <1>10 DEF AtomsHold
<1> QED
  BY <1>1, <1>4, <1>6, <1>7, <1>9, <1>11, X11Keeps DEF Changes

LEMMA X11NoCall ==
  /\ X11!NoCall \in X11Calls /\ X11!NoCall.at = "idle" /\ X11!NoCall.todo = <<>>
  /\ ~X11!NoCall.apply
<1>1. X11!NoCall \in X11Calls
  BY Zenon DEF X11!NoCall, X11Calls, ToDos
<1> QED
  BY <1>1 DEF X11!NoCall

LEMMA X11CallEnds == X11Inv /\ X11!CallEnds => X11Inv'
<1> SUFFICES ASSUME X11Inv, X11!CallEnds PROVE X11Inv'
  OBVIOUS
<1> USE X11Fields
<1>1. /\ UNCHANGED <<closed, config, parent, cached, viewable, state, transient, geometry,
                     managed, wmState, shown, place, dirty>>
      /\ call.at = "attributes" /\ call.todo = <<>> /\ call' = X11!NoCall
      /\ shape' = IF call.apply THEN X11!InputShape(config.clickThrough) ELSE shape
  BY DEF X11!CallEnds, X11!controllerVars, X11!worldVars
<1>2. UNCHANGED inbox \/ \E at \in Places : X11!Move(at)
  BY DEF X11!CallEnds
<1>3. /\ inbox' \in Seq(Messages) /\ (StateSent(inbox') <=> StateSent(inbox))
      /\ \A atoms, atom : \A on \in BOOLEAN :
           EndsAs(inbox, atoms, atom, on) => EndsAs(inbox', atoms, atom, on)
  BY <1>2, X11MaySend
<1>4. call' \in X11Calls /\ call'.at = "idle" /\ call'.todo = <<>> /\ ~call'.apply
  BY <1>1, X11NoCall
<1>5. shape' \in {"window", "empty"} /\ Told'
  BY <1>1, <1>4 DEF X11Inv, Told, X11!InputShape
<1>6. Path'
  BY <1>1, <1>3, <1>4 DEF X11Inv, Path, Changes
<1>7. ASSUME ~dirty', NEW atom \in X11!Atoms
      PROVE  IF managed' THEN EndsAs(inbox', wmState', atom, X11!Wants(atom)')
                         ELSE atom \in state' <=> X11!Wants(atom)'
  <2>1. ~Due(atom)
    BY <1>1, HasOne DEF Due, Changes
  <2>2. X11!Wants(atom)' = X11!Wants(atom) /\ X11!Wants(atom) \in BOOLEAN
    BY <1>1, WantsIsBoolean DEF X11!Wants
  <2>3. IF managed THEN EndsAs(inbox, wmState, atom, X11!Wants(atom))
                   ELSE atom \in state <=> X11!Wants(atom)
    BY <1>1, <1>7, <2>1 DEF X11Inv, AtomsHold
  <2> QED
    BY <1>1, <1>3, <2>2, <2>3
<1>8. AtomsHold'
  BY <1>7 DEF AtomsHold
<1> QED
  BY <1>1, <1>3, <1>4, <1>5, <1>6, <1>8, X11Keeps DEF Changes

LEMMA X11Show == X11Inv /\ X11!Show => X11Inv'
<1> SUFFICES ASSUME X11Inv, X11!Show PROVE X11Inv'
  OBVIOUS
<1> USE X11Fields
<1>1. /\ UNCHANGED <<closed, config, parent, cached, call, viewable, state, transient, shape, geometry,
                     managed, wmState, place, dirty>>
      /\ shown' = TRUE
  BY DEF X11!Show, X11!controllerVars, X11!windowVars
<1> DEFINE m == <<"map">>
<1>2. m \in Messages /\ m[1] # "state" /\ inbox' = Append(inbox, m)
  BY MessagesMade DEF X11!Show
<1> HIDE DEF m
<1>3. /\ inbox' \in Seq(Messages) /\ (StateSent(inbox') <=> StateSent(inbox))
      /\ \A atoms, atom : \A on \in BOOLEAN :
           EndsAs(inbox, atoms, atom, on) => EndsAs(inbox', atoms, atom, on)
  BY <1>2, X11Sends
<1>4. Told'
  BY <1>1 DEF X11Inv, Told, X11!InputShape
<1>5. Path' /\ AtomsHold'
  BY <1>1, <1>3, X11Quiet
<1> QED
  BY <1>1, <1>3, <1>4, <1>5, X11Keeps

LEMMA X11Hide == X11Inv /\ X11!Hide => X11Inv'
<1> SUFFICES ASSUME X11Inv, X11!Hide PROVE X11Inv'
  OBVIOUS
<1> USE X11Fields
<1>1. /\ UNCHANGED <<closed, config, parent, cached, call, state, transient, shape, geometry,
                     managed, wmState, place>>
      /\ shown' = FALSE /\ viewable' = FALSE
  BY DEF X11!Hide, X11!controllerVars
<1> DEFINE m == <<"unmap">>
<1>2. m \in Messages /\ m[1] # "state" /\ inbox' = Append(inbox, m)
  BY MessagesMade DEF X11!Hide
<1> HIDE DEF m
<1>3. /\ inbox' \in Seq(Messages) /\ (StateSent(inbox') <=> StateSent(inbox))
      /\ \A atoms, atom : \A on \in BOOLEAN :
           EndsAs(inbox, atoms, atom, on) => EndsAs(inbox', atoms, atom, on)
  BY <1>2, X11Sends
<1>4. dirty' \in BOOLEAN /\ (~dirty' => ~dirty /\ call.at = "idle")
  BY DEF X11!Hide, X11!Idle
<1>5. Told'
  BY <1>1 DEF X11Inv, Told, X11!InputShape
<1>6. Path'
  BY <1>1, <1>3, <1>4 DEF X11Inv, Path, Changes
<1>7. ASSUME ~dirty', NEW atom \in X11!Atoms, ~Due(atom)'
      PROVE  IF managed' THEN EndsAs(inbox', wmState', atom, X11!Wants(atom)')
                         ELSE atom \in state' <=> X11!Wants(atom)'
  <2>1. ~Due(atom)
    BY <1>1, <1>7 DEF Due
  <2>2. X11!Wants(atom)' = X11!Wants(atom) /\ X11!Wants(atom) \in BOOLEAN
    BY <1>1, WantsIsBoolean DEF X11!Wants
  <2>3. IF managed THEN EndsAs(inbox, wmState, atom, X11!Wants(atom))
                   ELSE atom \in state <=> X11!Wants(atom)
    BY <1>4, <1>7, <2>1 DEF X11Inv, AtomsHold
  <2> QED
    BY <1>1, <1>3, <2>2, <2>3
<1>8. AtomsHold'
  BY <1>7 DEF AtomsHold
<1> QED
  BY <1>1, <1>3, <1>4, <1>5, <1>6, <1>8, X11Keeps

LEMMA X11ParentChanges == X11Inv /\ X11!ParentChanges => X11Inv'
<1> SUFFICES ASSUME X11Inv, X11!ParentChanges PROVE X11Inv'
  OBVIOUS
<1> USE X11Fields
<1>1. UNCHANGED <<closed, config, parent, cached, call, viewable, state, transient, shape, geometry,
                  inbox, managed, wmState, shown, dirty>>
  BY DEF X11!ParentChanges, X11!controllerVars, X11!windowVars, X11!wmVars
<1>2. place' \in [Parents -> Places \cup {NoPlace}]
  <2>1. PICK w \in Parents, at \in Places \cup {NoPlace} : place' = [place EXCEPT ![w] = at]
    BY DEF X11!ParentChanges
  <2> QED
    BY <2>1
<1>3. Told'
  BY <1>1 DEF X11Inv, Told, X11!InputShape
<1>4. Path' /\ AtomsHold'
  BY <1>1, X11Quiet
<1> QED
  BY <1>1, <1>2, <1>3, <1>4, X11Keeps

(* The window manager maps the window: it takes over the property, in      *)
(* which the policy was written while the window was not mapped.           *)
LEMMA X11Manages == X11Inv /\ X11!Manages => X11Inv'
<1> SUFFICES ASSUME X11Inv, X11!Manages PROVE X11Inv'
  OBVIOUS
<1> USE X11Fields
<1>1. /\ UNCHANGED <<closed, config, parent, cached, call, viewable, state, transient, shape, geometry,
                     inbox, shown, place>>
      /\ ~managed /\ managed' = TRUE /\ wmState' = state
  BY DEF X11!Manages, X11!controllerVars, X11!windowVars, X11!worldVars
<1>2. dirty' \in BOOLEAN /\ (~dirty' => ~dirty /\ call.at = "idle")
  BY DEF X11!Manages, X11!Idle
<1>3. Told'
  BY <1>1 DEF X11Inv, Told, X11!InputShape
<1>4. Path'
  BY <1>1, <1>2 DEF Path, Changes
<1>5. ASSUME ~dirty', NEW atom \in X11!Atoms, ~Due(atom)'
      PROVE  EndsAs(inbox', wmState', atom, X11!Wants(atom)')
  <2>1. ~Due(atom)
    BY <1>1, <1>5 DEF Due
  <2>2. X11!Wants(atom)' = X11!Wants(atom) /\ X11!Wants(atom) \in BOOLEAN
    BY <1>1, WantsIsBoolean DEF X11!Wants
  <2>3. (atom \in state <=> X11!Wants(atom)) /\ ~StateSent(inbox)
    BY <1>1, <1>2, <1>5, <2>1 DEF X11Inv, AtomsHold, Path
  <2>4. EndsAs(inbox, state, atom, X11!Wants(atom))
    BY <2>2, <2>3, EndsAsIs
  <2> QED
    BY <1>1, <2>2, <2>4
<1>6. AtomsHold'
  BY <1>1, <1>5 DEF AtomsHold
<1> QED
  BY <1>1, <1>2, <1>3, <1>4, <1>6, X11Keeps

(* It hears of something else than a state.                                *)
LEMMA X11Hears ==
  ASSUME X11Inv, NEW kind, X11!Hears(kind)
  PROVE  /\ inbox # <<>> /\ Head(inbox) \in Messages /\ Head(inbox)[1] = kind
         /\ inbox' = Tail(inbox) /\ inbox' \in Seq(Messages)
         /\ StateSent(inbox') => StateSent(inbox)
         /\ kind # "state" => \A atoms, atom : \A on \in BOOLEAN :
              EndsAs(inbox, atoms, atom, on) => EndsAs(inbox', atoms, atom, on)
<1>1. inbox # <<>> /\ Head(inbox)[1] = kind /\ inbox' = Tail(inbox) /\ inbox \in Seq(Messages)
  BY X11Fields DEF X11!Hears
<1>2. Head(inbox) \in Messages /\ Tail(inbox) \in Seq(Messages)
  BY <1>1, TailFacts
<1>3. StateSent(Tail(inbox)) => StateSent(inbox)
  BY <1>1, StateSentTail
<1>4. ASSUME kind # "state", NEW atoms, NEW atom, NEW on \in BOOLEAN, EndsAs(inbox, atoms, atom, on)
      PROVE  EndsAs(Tail(inbox), atoms, atom, on)
  BY <1>1, <1>4, EndsAsTail
<1> QED
  BY <1>1, <1>2, <1>3, <1>4

LEMMA X11Maps == X11Inv /\ X11!Maps => X11Inv'
<1> SUFFICES ASSUME X11Inv, X11!Maps PROVE X11Inv'
  OBVIOUS
<1> USE X11Fields
<1>1. /\ UNCHANGED <<closed, config, parent, cached, call, state, transient, shape, geometry,
                     managed, wmState, shown, place>>
      /\ managed /\ viewable' = TRUE
  BY DEF X11!Maps, X11!controllerVars, X11!worldVars
<1>2. dirty' \in BOOLEAN /\ (~dirty' => ~dirty /\ call.at = "idle")
  BY DEF X11!Maps, X11!Idle
<1>3. /\ inbox' \in Seq(Messages) /\ (StateSent(inbox') => StateSent(inbox))
      /\ \A atoms, atom : \A on \in BOOLEAN :
           EndsAs(inbox, atoms, atom, on) => EndsAs(inbox', atoms, atom, on)
  BY X11Hears DEF X11!Maps
<1>4. Told'
  BY <1>1 DEF X11Inv, Told, X11!InputShape
<1>5. Path'
  BY <1>1, <1>2 DEF Path, Changes
<1>6. ASSUME ~dirty', NEW atom \in X11!Atoms, ~Due(atom)'
      PROVE  EndsAs(inbox', wmState', atom, X11!Wants(atom)')
  <2>1. ~Due(atom)
    BY <1>1, <1>6 DEF Due
  <2>2. X11!Wants(atom)' = X11!Wants(atom) /\ X11!Wants(atom) \in BOOLEAN
    BY <1>1, WantsIsBoolean DEF X11!Wants
  <2>3. EndsAs(inbox, wmState, atom, X11!Wants(atom))
    BY <1>1, <1>2, <1>6, <2>1 DEF X11Inv, AtomsHold
  <2> QED
    BY <1>1, <1>3, <2>2, <2>3
<1>7. AtomsHold'
  BY <1>1, <1>6 DEF AtomsHold
<1> QED
  BY <1>1, <1>2, <1>3, <1>4, <1>5, <1>7, X11Keeps

LEMMA X11Withdraws == X11Inv /\ X11!Withdraws => X11Inv'
<1> SUFFICES ASSUME X11Inv, X11!Withdraws PROVE X11Inv'
  OBVIOUS
<1> USE X11Fields
<1>1. /\ UNCHANGED <<closed, config, parent, cached, call, transient, shape, geometry, shown, place>>
      /\ viewable' = FALSE /\ managed' = FALSE /\ wmState' = {} /\ state' = {} /\ dirty' = TRUE
  BY DEF X11!Withdraws, X11!controllerVars, X11!worldVars
<1>2. inbox' \in Seq(Messages)
  BY X11Hears DEF X11!Withdraws
<1>3. Told'
  BY <1>1 DEF X11Inv, Told, X11!InputShape
<1>4. Path' /\ AtomsHold'
  BY <1>1 DEF Path, AtomsHold
<1> QED
  BY <1>1, <1>2, <1>3, <1>4, X11Keeps

LEMMA X11Moves == X11Inv /\ X11!Moves => X11Inv'
<1> SUFFICES ASSUME X11Inv, X11!Moves PROVE X11Inv'
  OBVIOUS
<1> USE X11Fields
<1>1. /\ UNCHANGED <<closed, config, parent, cached, call, viewable, state, transient, shape,
                     managed, wmState, shown, place, dirty>>
      /\ geometry' = Head(inbox)[2]
  BY DEF X11!Moves, X11!controllerVars, X11!worldVars
<1>2. /\ Head(inbox) \in Messages /\ Head(inbox)[1] = "configure"
      /\ inbox' \in Seq(Messages) /\ (StateSent(inbox') => StateSent(inbox))
      /\ \A atoms, atom : \A on \in BOOLEAN :
           EndsAs(inbox, atoms, atom, on) => EndsAs(inbox', atoms, atom, on)
  BY X11Hears DEF X11!Moves
<1>3. geometry' \in Places
  BY <1>1, <1>2, MessageFacts
<1>4. Told'
  BY <1>1 DEF X11Inv, Told, X11!InputShape
<1>5. Path'
  BY <1>1, <1>2 DEF X11Inv, Path
<1>6. ASSUME ~dirty', NEW atom \in X11!Atoms, ~Due(atom)'
      PROVE  IF managed' THEN EndsAs(inbox', wmState', atom, X11!Wants(atom)')
                         ELSE atom \in state' <=> X11!Wants(atom)'
  <2>1. ~Due(atom)
    BY <1>1, <1>6 DEF Due
  <2>2. X11!Wants(atom)' = X11!Wants(atom) /\ X11!Wants(atom) \in BOOLEAN
    BY <1>1, WantsIsBoolean DEF X11!Wants
  <2>3. IF managed THEN EndsAs(inbox, wmState, atom, X11!Wants(atom))
                   ELSE atom \in state <=> X11!Wants(atom)
    BY <1>1, <1>6, <2>1 DEF X11Inv, AtomsHold
  <2> QED
    BY <1>1, <1>2, <2>2, <2>3
<1>7. AtomsHold'
  BY <1>6 DEF AtomsHold
<1> QED
  BY <1>1, <1>2, <1>3, <1>4, <1>5, <1>7, X11Keeps

(* It hears of a state: it has it, or will have a later one.               *)
LEMMA X11ChangesState == X11Inv /\ X11!ChangesState => X11Inv'
<1> SUFFICES ASSUME X11Inv, X11!ChangesState PROVE X11Inv'
  OBVIOUS
<1> USE X11Fields
<1>1. UNCHANGED <<closed, config, parent, cached, call, viewable, transient, shape, geometry,
                  managed, shown, place, dirty>>
  BY DEF X11!ChangesState, X11!controllerVars, X11!worldVars
<1>2. /\ inbox # <<>> /\ Head(inbox) \in Messages /\ Head(inbox)[1] = "state"
      /\ inbox' = Tail(inbox) /\ inbox' \in Seq(Messages) /\ (StateSent(inbox') => StateSent(inbox))
  BY X11Hears DEF X11!ChangesState
<1>3. Head(inbox)[2] \in X11!Atoms /\ Head(inbox)[3] \in BOOLEAN
  BY <1>2, MessageFacts
<1> DEFINE changed == X11!Changed(wmState, Head(inbox)[2], Head(inbox)[3])
<1>4. IF managed THEN wmState' = changed /\ state' = changed ELSE UNCHANGED <<wmState, state>>
  BY DEF X11!ChangesState
<1>5. /\ changed \subseteq X11!Atoms
      /\ Head(inbox)[2] \in changed <=> Head(inbox)[3]
      /\ \A other : other # Head(inbox)[2] => (other \in changed <=> other \in wmState)
  BY <1>3, ChangedFacts
<1> HIDE DEF changed
<1>6. wmState' \subseteq X11!Atoms /\ state' \subseteq X11!Atoms
  BY <1>4, <1>5
<1>7. Told'
  BY <1>1 DEF X11Inv, Told, X11!InputShape
<1>8. Path'
  BY <1>1, <1>2, <1>4 DEF X11Inv, Path, Changes
<1>9. ASSUME ~dirty', NEW atom \in X11!Atoms, ~Due(atom)'
      PROVE  IF managed' THEN EndsAs(inbox', wmState', atom, X11!Wants(atom)')
                         ELSE atom \in state' <=> X11!Wants(atom)'
  <2>1. ~Due(atom)
    BY <1>1, <1>9 DEF Due
  <2>2. X11!Wants(atom)' = X11!Wants(atom) /\ X11!Wants(atom) \in BOOLEAN
    BY <1>1, WantsIsBoolean DEF X11!Wants
  <2>3. IF managed THEN EndsAs(inbox, wmState, atom, X11!Wants(atom))
                   ELSE atom \in state <=> X11!Wants(atom)
    BY <1>1, <1>9, <2>1 DEF X11Inv, AtomsHold
  <2>4. CASE managed
    <3>1. IF Head(inbox)[1] = "state" /\ Head(inbox)[2] = atom
          THEN atom \in changed <=> (Head(inbox)[3] = TRUE)
          ELSE atom \in changed <=> atom \in wmState
      BY <1>2, <1>3, <1>5
    <3>2. EndsAs(Tail(inbox), changed, atom, X11!Wants(atom))
      BY <1>2, <2>2, <2>3, <2>4, <3>1, EndsAsTail
    <3> QED
      BY <1>1, <1>2, <1>4, <2>2, <2>4, <3>2
  <2>5. CASE ~managed
    BY <1>1, <1>4, <2>2, <2>3, <2>5
  <2> QED
    BY <2>4, <2>5
<1>10. AtomsHold'
  BY <1>9 DEF AtomsHold
<1> QED
  BY <1>1, <1>2, <1>6, <1>7, <1>8, <1>10, X11Keeps

LEMMA X11Step == X11Inv /\ X11!Next => X11Inv'
<1> SUFFICES ASSUME X11Inv, X11!Next PROVE X11Inv'
  OBVIOUS
<1>1. CASE X11!Methods
  BY <1>1, X11Configure, X11AttachParent, X11DetachParent, X11UseParentBounds, X11Reapply, X11Close,
     X11SetBounds, X11SetClickThrough, X11SetAlwaysOnTop DEF X11!Methods
<1>2. CASE X11!Running
  BY <1>2, X11GetAttributes, X11SendMessage, X11ReadState, X11WriteState, X11CallEnds DEF X11!Running
<1>3. CASE X11!World
  BY <1>3, X11Show, X11Hide, X11ParentChanges, X11Manages, X11Maps, X11Withdraws, X11ChangesState,
     X11Moves DEF X11!World
<1> QED
  BY <1>1, <1>2, <1>3 DEF X11!Next

LEMMA X11Initially == X11!Init => X11Inv
<1> SUFFICES ASSUME X11!Init PROVE X11Inv
  OBVIOUS
<1>1. config \in X11Configs
  BY DEF X11!Init, X11Configs
<1>2. call = [at |-> "unconfigured", todo |-> <<>>, atom |-> "none", read |-> {}, apply |-> FALSE,
              position |-> FALSE]
  BY DEF X11!Init, X11!NoCall
<1>3. call.at = "unconfigured" /\ call.todo = <<>> /\ ~call.apply /\ call.read = {}
  BY <1>2
<1>4. call \in X11Calls
  BY <1>2, Zenon DEF X11Calls, ToDos
<1>5. inbox \in Seq(Messages) /\ ~StateSent(inbox)
  BY DEF X11!Init, StateSent
<1>6. Told /\ Path /\ AtomsHold
  BY <1>3, <1>5 DEF Told, Path, AtomsHold, Due, Changes, X11!Init
<1>7. X11!TypeOK
  BY <1>1, <1>3 DEF X11!Init, X11!TypeOK, X11Configs
<1> QED
  BY <1>3, <1>4, <1>5, <1>6, <1>7 DEF X11Inv, X11Typed, Changes

LEMMA X11Implies == X11Inv => X11!TypeOK /\ X11!PolicyHolds
<1> SUFFICES ASSUME X11Inv PROVE X11!TypeOK /\ X11!PolicyHolds
  OBVIOUS
<1>1. X11!TypeOK
  BY DEF X11Inv, X11Typed
<1> SUFFICES ASSUME X11!Idle PROVE X11!PolicyHolds
  BY <1>1 DEF X11!PolicyHolds
<1> USE X11Fields
<1>2. call.at = "idle" /\ call.todo = <<>> /\ ~call.apply
  BY DEF X11!Idle
<1>3. transient = parent /\ shape = X11!InputShape(config.clickThrough)
  BY <1>2 DEF X11Inv, Told
<1>4. ASSUME ~dirty, ~X11!Pending("state")
      PROVE  (IF managed THEN wmState ELSE state) = {atom \in X11!Atoms : X11!Wants(atom)}
  <2>1. ~StateSent(inbox)
    BY <1>4 DEF StateSent, X11!Pending
  <2>2. ASSUME NEW atom \in X11!Atoms
        PROVE  atom \in (IF managed THEN wmState ELSE state) <=> X11!Wants(atom)
    <3>1. ~Due(atom)
      BY <1>2, HasOne DEF Due, Changes
    <3>2. IF managed THEN EndsAs(inbox, wmState, atom, X11!Wants(atom))
                     ELSE atom \in state <=> X11!Wants(atom)
      BY <1>4, <3>1 DEF X11Inv, AtomsHold
    <3> QED
      BY <2>1, <3>2, WantsIsBoolean, EndsAsIs
  <2> QED
    BY <2>2
<1> QED
  BY <1>1, <1>3, <1>4 DEF X11!PolicyHolds

-----------------------------------------------------------------------------
(* The backend that was chosen.                                            *)

Inv ==
  /\ backend \in {"x11", "win32", "macos", "wayland-electron"}
  /\ backend = "x11" => X11Inv
  /\ backend = "win32" => Win32Inv
  /\ backend = "macos" => MacInv
  /\ backend = "wayland-electron" => WaylandInv

LEMMA Initially == Init => Inv
BY X11Initially, Win32Initially, MacInit, WaylandInit DEF Init, Inv

LEMMA Stutter == Inv /\ UNCHANGED vars => Inv'
<1> SUFFICES ASSUME Inv, UNCHANGED vars PROVE Inv'
  OBVIOUS
<1>1. UNCHANGED <<backend, closed, config, parent, cached, call, place, dirty, viewable, state,
                  transient, shape, geometry, inbox, managed, wmState, shown, electron, window,
                  asked, cocoa, browser>>
  BY DEF vars, x11Vars, win32Vars
<1>2. ASSUME X11Inv PROVE X11Inv'
  <2>1. X11Typed'
    BY <1>1, <1>2 DEF X11Inv, X11Typed, X11!TypeOK
  <2>2. Told' /\ Path'
    BY <1>1, <1>2 DEF X11Inv, Told, Path, X11!InputShape
  <2>3. AtomsHold'
    BY <1>1, <1>2 DEF X11Inv, AtomsHold, Due, X11!Wants
  <2> QED
    BY <2>1, <2>2, <2>3 DEF X11Inv
<1>3. ASSUME Win32Inv PROVE Win32Inv'
  <2>1. Win32Typed'
    BY <1>1, <1>3 DEF Win32Inv, Win32Typed, Win32!TypeOK, Owes
  <2>2. PolicyDue'
    BY <1>1, <1>3 DEF Win32Inv, PolicyDue, Owes, Win32!IsWindow
  <2>3. Ordered(call'.todo) /\ PositionDue'
    BY <1>1, <1>3 DEF Win32Inv, PositionDue, Owes, Near
  <2> QED
    BY <2>1, <2>2, <2>3 DEF Win32Inv
<1>4. ASSUME MacInv PROVE MacInv'
  BY <1>1, <1>4 DEF MacInv, Mac!TypeOK, Mac!PolicyHolds, Mac!PositionHolds, Mac!ElectronBounds
<1>5. ASSUME WaylandInv PROVE WaylandInv'
  BY <1>1, <1>5 DEF WaylandInv, Wayland!TypeOK, Wayland!PolicyHolds
<1> QED
  BY <1>1, <1>2, <1>3, <1>4, <1>5 DEF Inv

LEMMA Step == Inv /\ [Next]_vars => Inv'
<1> SUFFICES ASSUME Inv, Next PROVE Inv'
  BY Stutter
<1>1. CASE backend = "x11" /\ X11!Next /\ UNCHANGED backend
  BY <1>1, X11Step DEF Inv
<1>2. CASE backend = "win32" /\ Win32!Next /\ UNCHANGED backend
  BY <1>2, Win32Step DEF Inv
<1>3. CASE backend = "macos" /\ Mac!Next /\ UNCHANGED backend
  BY <1>3, MacStep DEF Inv
<1>4. CASE backend = "wayland-electron" /\ Wayland!Next /\ UNCHANGED backend
  BY <1>4, WaylandStep DEF Inv
<1> QED
  BY <1>1, <1>2, <1>3, <1>4 DEF Next

LEMMA Holds == Inv => TypeOK /\ PolicyHolds /\ PositionHolds
<1> SUFFICES ASSUME Inv PROVE TypeOK /\ PolicyHolds /\ PositionHolds
  OBVIOUS
<1>1. CASE backend = "x11"
  BY <1>1, X11Implies DEF Inv, TypeOK, PolicyHolds, PositionHolds
<1>2. CASE backend = "win32"
  BY <1>2, Win32Implies DEF Inv, TypeOK, PolicyHolds, PositionHolds
<1>3. CASE backend = "macos"
  BY <1>3 DEF Inv, MacInv, TypeOK, PolicyHolds, PositionHolds
<1>4. CASE backend = "wayland-electron"
  BY <1>4 DEF Inv, WaylandInv, TypeOK, PolicyHolds, PositionHolds
<1> QED
  BY <1>1, <1>2, <1>3, <1>4 DEF Inv

(* Whatever fails and whichever process comes between two steps, the state *)
(* of the controller, of its window and of the window manager is one of    *)
(* those the code expects (TypeOK of the four controllers).                *)
THEOREM Typed == Spec => []TypeOK
<1>1. Inv => TypeOK
  BY Holds
<1> QED
  BY <1>1, Initially, Step, PTL DEF Spec

(* When a method of the controller has returned, the window has the        *)
(* policy that was configured, or will have it in the window manager's     *)
(* time (ChangeAtomState, Apply, reapply in the addons and index.ts): for  *)
(* an inbox of any length, any parents and any methods that threw before.  *)
THEOREM PolicyObeyed == Spec => []PolicyHolds
<1>1. Inv => PolicyHolds
  BY Holds
<1> QED
  BY <1>1, Initially, Step, PTL DEF Spec

(* A window that was positioned is where it was asked to be, through the   *)
(* units of Electron on a display of any scale and the coordinates of      *)
(* Cocoa on a first screen of any height (Move, applyElectronBounds,       *)
(* CocoaFrame).                                                            *)
THEOREM PositionObeyed == Spec => []PositionHolds
<1>1. Inv => PositionHolds
  BY Holds
<1> QED
  BY <1>1, Initially, Step, PTL DEF Spec
=============================================================================

----------------------- MODULE LayerShellOverlayProofs -----------------------
(***************************************************************************)
(* LayerShellOverlayController gives every texture back once, serves its   *)
(* window until it closes, submits frames in order and leaves nothing      *)
(* behind: proofs for every value of LayerShellOverlay's constants.        *)
(*                                                                         *)
(* The safety properties speak of the moments between callbacks, or of a   *)
(* frame being accepted.  What makes them inductive is what a callback may *)
(* rely on in between: Stage says which callbacks reach which code,        *)
(* Attachment that whoever works on a frame works for the attached source, *)
(* Numbered orders the generations of a source and of the frame under way, *)
(* Served names who goes on while a callback has not ended, Owned,         *)
(* Retained and Closing relate textures, leases and the native controller. *)
(* Then there is one lemma per action.  Steps within a callback mostly     *)
(* leave the native controller and the leases alone: Inside,               *)
(* SubmittingStep, TextureStep, CapturingStep, OuterStep, DetachStep and   *)
(* Starting say once what is left to show of such a step.                  *)
(***************************************************************************)
EXTENDS LayerShellOverlay, FiniteSetTheorems, WellFoundedInduction, TLAPS

USE BoundsAssumption, NamesAssumption

-----------------------------------------------------------------------------
(* Where a callback stands.                                                *)
SubmittingTexture ==
  {"texture", "textureResize", "submitDmabuf", "rejected", "submitted", "submittedState"}
SubmittingImage == {"image", "imageResize", "submitFrame", "frameRejected"}
Submitting == SubmittingTexture \cup SubmittingImage
Outer == {"attachResize", "invalidating", "attached", "monitorResize", "monitored"}
Stations ==
  Submitting \cup Outer \cup
    {"idle", "paint", "schedule", "startCapture", "captureRejected", "finally", "close", "closing"}
Callers == {"none", "attach", "timer", "monitor", "destroyed", "capture", "paint", "user"}
Tasks ==
  [at: Stations, by: 0 .. MaxSources, caller: Callers, gen: 0 .. MaxGeneration,
   texture: Textures \cup {NoTexture}, info: Infos, image: Images,
   outer: {"none", "attached", "monitored"}]

(* What the code a callback has reached says of the callback: only a paint *)
(* submits a texture, a capture comes from no call of invalidate(), and    *)
(* invalidate() knows where its caller goes on.                            *)
Stage ==
  /\ task \in Tasks
  /\ task.at = "idle" => task = NoTask
  /\ task.by = 0 => task.at \in {"idle", "finally", "close", "closing"} /\ task.outer = "none"
  /\ task.caller = "user" =>
       task.at \in {"finally", "close", "closing"} /\ task.outer = "none"
  /\ task.caller = "capture" =>
       /\ task.at \in SubmittingImage \cup {"captureRejected", "finally", "close", "closing"}
       /\ task.outer = "none" /\ task.by # 0
  /\ task.at \in SubmittingTexture \cup {"paint"} => task.caller = "paint"
  /\ task.at \in Outer => (task.outer # "none" <=> task.at = "invalidating")

(* The one attached source is the newest, and it is the one whose frame a  *)
(* callback submits and that a callback closes the overlay for.            *)
Attachment ==
  /\ \A a \in Sources : sources[a].active <=> a = bound
  /\ bound # 0 => bound = generation /\ ~closed
  /\ ~closed => generation <= MaxSources
  /\ task.at \in Submitting => task.by = bound
  /\ task.outer # "none" => closed \/ task.by = bound
  /\ task.at \notin {"idle", "paint", "finally"} /\ task.caller # "user" =>
       closed \/ task.by = bound

(* No generation of a source is newer than its last paint, and the frame   *)
(* under way is not older than the last one submitted.                     *)
Numbered ==
  /\ \A a \in Sources :
       /\ sources[a].submitted <= sources[a].latest
       /\ sources[a].pending <= sources[a].latest
       /\ sources[a].capture <= sources[a].latest
  /\ task.at \in Submitting \cup {"schedule"} => task.gen <= Src.latest
  /\ task.at \in Submitting => Src.submitted <= task.gen

(* Timers and intervals belong to the attached source; it is monitored, or *)
(* attachOffscreenWindow has not ended, and a capture it wants is under    *)
(* way, has its timer or is being scheduled by the callback that runs.     *)
Served ==
  \A a \in Sources :
    /\ sources[a].timer \/ sources[a].monitor => sources[a].active
    /\ sources[a].active =>
         /\ sources[a].monitor \/ task.outer = "attached"
              \/ task.at \in {"attachResize", "attached"}
         /\ sources[a].pending # 0 =>
              \/ sources[a].capture # 0 \/ sources[a].timer
              \/ task.by = a /\ task.at \in {"schedule", "startCapture"}
    /\ task.caller = "capture" /\ task.by = a => sources[a].capture # 0

(* Electron's textures that are out are those of the leases and the one    *)
(* the callback holds, all different.                                      *)
Owned ==
  /\ \A i, j \in Ids : Leased(i) /\ leases[i] = leases[j] => i = j
  /\ task.texture # NoTexture => \A i \in Ids : leases[i] # task.texture
  /\ out = ({leases[i] : i \in Ids} \cup {task.texture}) \ {NoTexture}
  /\ task.at \in Outer => task.texture = NoTexture
  /\ task.at \in {"texture", "submitDmabuf"} => task.texture # NoTexture

(* A lease stays while the native side holds its id.  allocateSubmissionId *)
(* takes an id without a lease: it has been drained before, so that an id  *)
(* completed for the texture leased earlier is not taken for its own.      *)
Retained ==
  /\ LeasesMonitored
  /\ \A id \in holding : Leased(id)
  /\ holding \cap queue = {}
  /\ task.at \in {"texture", "submitDmabuf"} => \A id \in queue : Leased(id)

(* closed, the native life cycle and the callback inside close() agree.    *)
Closing ==
  /\ closed <=> life # "open"
  /\ life = "closed" => holding = {}
  /\ task.at = "closing" => closed
  /\ closed /\ task.at # "closing" => life = "closed" /\ \A id \in Ids : ~Leased(id)
  /\ life = "closing" => task.at = "closing"

OverlayInv == Stage /\ Attachment /\ Numbered /\ Served /\ Owned /\ Retained /\ Closing

-----------------------------------------------------------------------------
LEMMA InitOverlay == Init => TypeOK /\ OverlayInv
<1> SUFFICES ASSUME Init PROVE TypeOK /\ OverlayInv
  OBVIOUS
<1>1. TypeOK
  <2>1. Native!TypeOK /\ content \in WindowSizes
    BY DEF Init, Native!Init, Native!TypeOK, WindowSizes
  <2>2. sources \in [Sources -> [active: BOOLEAN, latest: 0 .. MaxGeneration,
          submitted: 0 .. MaxGeneration, pending: 0 .. MaxGeneration,
          capture: 0 .. MaxGeneration, timer: BOOLEAN, fallback: BOOLEAN,
          invalidate: BOOLEAN, monitor: BOOLEAN]]
    BY DEF Init, NewSource
  <2>3. leases \in [Ids -> Textures \cup {NoTexture}] /\ nextSubmissionId \in Ids
    BY DEF Init, Ids
  <2>4. /\ closed \in BOOLEAN /\ leaseMonitor \in BOOLEAN /\ due \in BOOLEAN
        /\ failed \in BOOLEAN /\ out \subseteq Textures /\ fed \in {"none", "shm", "dmabuf"}
    BY DEF Init
  <2>5. generation \in 0 .. MaxSources + 1 /\ bound \in 0 .. MaxSources /\ configures \in 0 .. MaxConfigures
    BY DEF Init
  <2> QED
    BY <2>1, <2>2, <2>3, <2>4, <2>5 DEF TypeOK
<1>2. Stage
  <2>1. NoTask \in Tasks
    BY DEF NoTask, Tasks, Stations, Callers, Infos, Images
  <2> QED
    BY <2>1 DEF Init, Stage, NoTask, SubmittingTexture
<1>3. Attachment /\ Numbered /\ Served /\ Retained /\ Closing
  BY DEF Init, Attachment, Numbered, Served, Retained, Closing, LeasesMonitored, Leased, NoTask,
     NewSource, Native!Init, Sources, Submitting, SubmittingTexture, SubmittingImage
<1>4. Owned
  BY DEF Init, Owned, Leased, NoTask, Ids
<1> QED
  BY <1>1, <1>2, <1>3, <1>4 DEF OverlayInv

LEMMA FreeId ==
  ASSUME \E id \in Ids : ~Leased(id)
  PROVE  Allocated \in Ids /\ ~Leased(Allocated)
<1>1. ASSUME NEW S \in SUBSET Ids, S # {} PROVE \E id \in S : \A i \in S : id <= i
  <2>1. S \subseteq Nat
    BY DEF Ids
  <2>2. PICK id \in S : \A i \in S : <<i, id>> \notin OpToRel(<, Nat)
    BY <1>1, <2>1, WFMin, NatLessThanWellFounded, Zenon
  <2>3. \A i \in S : ~(i < id)
    BY <2>1, <2>2, Zenon DEF OpToRel
  <2> QED
    BY <2>1, <2>3
<1> DEFINE FirstFrom(id) == {i \in Ids : i >= id /\ ~Leased(i)}
           candidates == IF FirstFrom(nextSubmissionId) # {}
                         THEN FirstFrom(nextSubmissionId) ELSE FirstFrom(1)
<1>2. FirstFrom(1) # {}
  BY DEF Ids
<1>3. candidates \in SUBSET Ids /\ candidates # {} /\ \A i \in candidates : ~Leased(i)
  BY <1>2
<1>4. Allocated = CHOOSE id \in candidates : \A i \in candidates : id <= i
  BY DEF Allocated
<1> HIDE DEF candidates
<1> QED
  BY <1>1, <1>3, <1>4

-----------------------------------------------------------------------------
(* The invariant in the parts the steps of a proof need one by one.        *)
Good == TypeOK /\ OverlayInv

Generations == 0 .. MaxGeneration
SourceRecords ==
  [active: BOOLEAN, latest: Generations, submitted: Generations,
   pending: Generations, capture: Generations, timer: BOOLEAN,
   fallback: BOOLEAN, invalidate: BOOLEAN, monitor: BOOLEAN]
Records == sources \in [Sources -> SourceRecords]
Scalars ==
  /\ closed \in BOOLEAN /\ generation \in 0 .. MaxSources + 1 /\ bound \in 0 .. MaxSources
  /\ content \in WindowSizes /\ due \in BOOLEAN
  /\ fed \in {"none", "shm", "dmabuf"} /\ failed \in BOOLEAN /\ configures \in 0 .. MaxConfigures
LeasesTyped ==
  /\ leases \in [Ids -> Textures \cup {NoTexture}]
  /\ nextSubmissionId \in Ids /\ leaseMonitor \in BOOLEAN /\ out \subseteq Textures

LEMMA Types == TypeOK <=> Native!TypeOK /\ Scalars /\ LeasesTyped /\ Records
BY DEF TypeOK, Scalars, LeasesTyped, Records, SourceRecords, Generations

LEMMA Parts ==
  Good => /\ task \in Tasks /\ Native!TypeOK /\ Scalars /\ LeasesTyped /\ Records
          /\ Stage /\ Attachment /\ Numbered /\ Served /\ Owned /\ Retained /\ Closing
BY Types DEF Good, OverlayInv, Stage

LEMMA Whole ==
  Good' <=> /\ Native!TypeOK' /\ Scalars' /\ LeasesTyped' /\ Records'
            /\ Stage' /\ Attachment' /\ Numbered' /\ Served' /\ Owned' /\ Retained' /\ Closing'
BY Types, PTL DEF Good, OverlayInv

LEMMA Blank ==
  /\ "invalid" \in Infos /\ "none" \in Images
  /\ 0 \in Generations /\ 0 \in 0 .. MaxSources
  /\ NoTexture \in Textures \cup {NoTexture} /\ 0 \notin Sources
BY DEF Infos, Images, Sources, Generations

LEMMA Fields ==
  ASSUME task \in Tasks
  PROVE  /\ task.by \in 0 .. MaxSources /\ task.at \in Stations /\ task.caller \in Callers
         /\ task.outer \in {"none", "attached", "monitored"} /\ task.gen \in Generations
         /\ task.texture \in Textures \cup {NoTexture}
         /\ (task.by # 0 => task.by \in Sources)
BY DEF Tasks, Sources, Generations

LEMMA SourceFields ==
  Records => \A a \in Sources :
    /\ sources[a].latest \in Generations /\ sources[a].submitted \in Generations
    /\ sources[a].pending \in Generations /\ sources[a].capture \in Generations
BY DEF Records, SourceRecords

-----------------------------------------------------------------------------
(* How a step changes the callback, and a source.                          *)
Carries ==
  /\ task' \in Tasks
  /\ task'.by = task.by /\ task'.caller = task.caller
  /\ task'.texture = task.texture /\ task'.outer = task.outer

LEMMA Ended == ASSUME task \in Tasks, Done PROVE Carries /\ task'.at = "finally"
BY Blank DEF Done, Carries, Tasks, Stations, Generations

LEMMA Gone ==
  ASSUME task \in Tasks, NEW s \in Stations, Goto(s)
  PROVE  Carries /\ task'.at = s /\ task'.gen = task.gen
BY DEF Goto, Carries, Tasks

LEMMA Started ==
  ASSUME NEW a \in 0 .. MaxSources, NEW c \in Callers, NEW s \in Stations, Start(a, c, s)
  PROVE  /\ task' \in Tasks /\ task.at = "idle"
         /\ task'.at = s /\ task'.by = a /\ task'.caller = c
         /\ task'.gen = 0 /\ task'.texture = NoTexture /\ task'.outer = "none"
BY Blank DEF Start, NoTask, Tasks, Generations

SameBinding(a) == sources'[a].active = sources[a].active /\ sources'[a].monitor = sources[a].monitor
SameWork(a) ==
  /\ sources'[a].timer = sources[a].timer /\ sources'[a].pending = sources[a].pending
  /\ sources'[a].capture = sources[a].capture
SameFrames(a) ==
  sources'[a].latest = sources[a].latest /\ sources'[a].submitted = sources[a].submitted
Same(a) == SameBinding(a) /\ SameWork(a) /\ SameFrames(a)

LEMMA Unchanged ==
  ASSUME Records, UNCHANGED sources
  PROVE  Records' /\ \A a \in Sources : Same(a)
BY DEF Records, Same, SameBinding, SameWork, SameFrames

LEMMA Flagged ==
  ASSUME Records, NEW f \in {"fallback", "invalidate"}, NEW v \in BOOLEAN, Update(f, v)
  PROVE  Records' /\ \A a \in Sources : Same(a)
BY DEF Update, Records, SourceRecords, Same, SameBinding, SameWork, SameFrames

LEMMA Detaches ==
  ASSUME Records, NEW b \in Sources, Detach(b)
  PROVE  /\ Records'
         /\ \A a \in Sources :
              IF a = b
              THEN /\ SameFrames(a) /\ sources'[a].capture = sources[a].capture
                   /\ sources'[a].pending = 0
                   /\ ~sources'[a].active /\ ~sources'[a].timer /\ ~sources'[a].monitor
              ELSE sources'[a] = sources[a]
         /\ bound' = IF bound = b THEN 0 ELSE bound
BY Blank DEF Detach, Detached, Records, SourceRecords, SameFrames

(* A step within a callback that changes neither the native controller nor *)
(* a lease nor which source is attached.                                   *)
LEMMA Inside ==
  ASSUME Good, Carries, UNCHANGED <<nativeVars, leaseVars, closed, generation, bound>>,
         \A a \in Sources : sources'[a].active = sources[a].active,
         task.at \notin {"idle", "paint", "finally", "close", "closing"},
         task'.at \notin {"idle", "paint", "closing"},
         task'.at \in Submitting => task.at \in Submitting,
         task'.at \in Outer => task.at \in Outer,
         task'.at \in {"texture", "submitDmabuf"} => task.at \in {"texture", "submitDmabuf"}
  PROVE  Native!TypeOK' /\ LeasesTyped' /\ Attachment' /\ Owned' /\ Retained' /\ Closing'
<1>1. Native!TypeOK'
  BY Parts DEF Native!TypeOK, nativeVars
<1>2. LeasesTyped'
  BY Parts DEF LeasesTyped, leaseVars
<1>3. Attachment'
  BY Parts DEF Attachment, Carries
<1>4. Owned'
  BY Parts DEF Owned, Carries, Leased, leaseVars
<1>5. Retained'
  BY Parts DEF Retained, LeasesMonitored, Leased, leaseVars, nativeVars
<1>6. Closing'
  BY Parts DEF Closing, Leased, leaseVars, nativeVars
<1> QED
  BY <1>1, <1>2, <1>3, <1>4, <1>5, <1>6

-----------------------------------------------------------------------------
(* Frames and images.                                                      *)
LEMMA Working ==
  ASSUME Good, task.at \in Submitting \cup {"schedule", "startCapture", "captureRejected"}
  PROVE  /\ task.by \in Sources /\ task.caller # "user"
         /\ task.at \in Stations
         /\ task.at \notin {"idle", "paint", "finally", "close", "closing"}
<1>1. Stage /\ task.by \in 0 .. MaxSources /\ (task.by # 0 => task.by \in Sources) /\ task.at \in Stations
  BY Parts, Fields
<1> QED
  BY <1>1 DEF Stage, Submitting, SubmittingTexture, SubmittingImage

(* Retries: a paint schedules a capture, a capture asks for another one.   *)
LEMMA Retries ==
  ASSUME Good, Retry, task.at \in SubmittingImage
  PROVE  /\ Records' /\ Carries
         /\ \A a \in Sources : SameBinding(a) /\ SameFrames(a)
         /\ IF task.caller = "capture"
            THEN /\ task'.at = "finally"
                 /\ \A a \in Sources :
                      IF a = task.by
                      THEN /\ sources'[a].capture = sources[a].capture
                           /\ sources'[a].timer = sources[a].timer
                           /\ sources'[a].pending = sources[a].latest
                      ELSE SameWork(a)
            ELSE /\ task'.at = "schedule" /\ task'.gen = task.gen
                 /\ \A a \in Sources : SameWork(a)
<1>0. /\ task.by \in Sources /\ Records /\ task \in Tasks /\ Numbered
  BY Working, Parts DEF Submitting
<1>1. CASE task.caller = "capture"
  <2>1. Carries /\ task'.at = "finally"
    BY <1>0, <1>1, Ended DEF Retry
  <2>2. task.gen \in Generations /\ Src.latest \in Generations /\ task.gen <= Src.latest
    BY <1>0, Fields, SourceFields DEF Numbered, Src, Submitting
  <2>3. Larger(task.gen, Src.latest) = Src.latest
    BY <2>2 DEF Larger, Generations
  <2>4. sources' = [sources EXCEPT ![task.by].pending = Src.latest]
    BY <1>1, <2>3 DEF Retry, Update
  <2>5. Records'
    BY <1>0, <2>2, <2>4 DEF Records, SourceRecords
  <2>6. \A a \in Sources :
          /\ SameBinding(a) /\ SameFrames(a)
          /\ IF a = task.by
             THEN /\ sources'[a].capture = sources[a].capture
                  /\ sources'[a].timer = sources[a].timer
                  /\ sources'[a].pending = sources[a].latest
             ELSE SameWork(a)
    BY <1>0, <2>4 DEF Records, SourceRecords, SameBinding, SameFrames, SameWork, Src
  <2> QED
    BY <1>1, <2>1, <2>5, <2>6
<1>2. CASE task.caller # "capture"
  <2>1. Carries /\ task'.at = "schedule" /\ task'.gen = task.gen
    BY <1>0, <1>2, Gone DEF Retry, Stations
  <2>2. Records' /\ \A a \in Sources : Same(a)
    BY <1>0, <1>2, Unchanged DEF Retry
  <2> QED
    BY <1>2, <2>1, <2>2 DEF Same
<1> QED
  BY <1>1, <1>2

(* What is left to show of a step within submitImage.                      *)
LEMMA SubmittingStep ==
  ASSUME Good, UNCHANGED <<nativeVars, leaseVars, closed, generation, bound>>, Scalars',
         task.at \in SubmittingImage, Carries, Records',
         \A a \in Sources : SameBinding(a) /\ SameFrames(a),
         \/ task'.at = "finally" /\ \A a \in Sources : SameWork(a)
         \/ task'.at = "close" /\ \A a \in Sources : SameWork(a)
         \/ task'.at \in SubmittingImage /\ task'.gen = task.gen /\ \A a \in Sources : SameWork(a)
         \/ Retry
  PROVE  Good'
<1>0. /\ task.by \in Sources /\ task.caller # "user" /\ task.at \in Submitting
      /\ Stage /\ Numbered /\ Served /\ Records /\ Attachment
  BY Working, Parts DEF Submitting
<1>1. task'.at \in SubmittingImage \cup {"finally", "close", "schedule"}
  BY Retries
<1>2. Native!TypeOK' /\ LeasesTyped' /\ Attachment' /\ Owned' /\ Retained' /\ Closing'
  BY <1>0, <1>1, Inside DEF SameBinding, Submitting, SubmittingTexture, SubmittingImage, Outer
<1>3. Stage'
  BY <1>0, <1>1, Retries DEF Stage, Carries, SubmittingImage, SubmittingTexture, Outer
<1>4. Numbered'
  <2>1. ASSUME NEW a \in Sources
        PROVE  /\ sources'[a].submitted <= sources'[a].latest
               /\ sources'[a].pending <= sources'[a].latest
               /\ sources'[a].capture <= sources'[a].latest
    <3>1. /\ sources'[a].latest = sources[a].latest /\ sources'[a].submitted = sources[a].submitted
          /\ sources'[a].capture = sources[a].capture
          /\ sources'[a].pending \in {sources[a].pending, sources[a].latest}
      BY <1>0, <2>1, Retries DEF SameFrames, SameWork
    <3> QED
      BY <1>0, <2>1, <3>1, SourceFields DEF Numbered, Generations
  <2>2. task'.at \in Submitting \cup {"schedule"} =>
          /\ task'.gen = task.gen /\ task'.by = task.by
          /\ sources'[task.by].latest = sources[task.by].latest
          /\ sources'[task.by].submitted = sources[task.by].submitted
    BY <1>0, Retries DEF Carries, SameFrames, Submitting, SubmittingImage, SubmittingTexture
  <2> QED
    BY <1>0, <2>1, <2>2 DEF Numbered, Src
<1>5. Served'
  BY <1>0, Retries DEF Served, Carries, SameBinding, SameWork, SubmittingImage
<1> QED
  BY <1>2, <1>3, <1>4, <1>5, Whole

LEMMA StepSubmitImage == Good /\ SubmitImage => Good'
<1> SUFFICES ASSUME Good, SubmitImage PROVE Good'
  OBVIOUS
<1>1. /\ UNCHANGED <<nativeVars, leaseVars, closed, generation, bound>> /\ Scalars'
      /\ task.at \in SubmittingImage /\ task \in Tasks /\ Records
  BY Parts DEF SubmitImage, Scalars, leaseVars, windowVars, surfaceVars, SubmittingImage
<1>2. CASE Retry
  BY <1>1, <1>2, Retries, SubmittingStep
<1>3. ASSUME UNCHANGED sources,
             Done \/ Goto("close") \/ Goto("imageResize") \/ Goto("submitFrame")
      PROVE  Good'
  <2>1. Records' /\ \A a \in Sources : SameBinding(a) /\ SameFrames(a) /\ SameWork(a)
    BY <1>1, <1>3, Unchanged DEF Same
  <2>2. /\ Carries
        /\ task'.at \in {"finally", "close"} \/ (task'.at \in SubmittingImage /\ task'.gen = task.gen)
    BY <1>1, <1>3, Ended, Gone DEF Stations, SubmittingImage, Submitting
  <2> QED
    BY <1>1, <2>1, <2>2, SubmittingStep
<1>4. Retry \/ (UNCHANGED sources /\ (Done \/ Goto("close") \/ Goto("imageResize") \/ Goto("submitFrame")))
  BY DEF SubmitImage
<1> QED
  BY <1>2, <1>3, <1>4

LEMMA StepImageResize == Good /\ ImageResize => Good'
<1> SUFFICES ASSUME Good, ImageResize PROVE Good'
  OBVIOUS
<1>1. /\ UNCHANGED <<nativeVars, leaseVars, closed, generation, bound>>
      /\ task.at \in SubmittingImage /\ task \in Tasks /\ Records
  BY Parts DEF ImageResize, SubmittingImage
<1>2. Scalars'
  BY Parts DEF ImageResize, Scalars, surfaceVars, SizesRead, WindowSizes, Native!TypeOK
<1>3. CASE Retry
  BY <1>1, <1>2, <1>3, Retries, SubmittingStep
<1>4. CASE Update("invalidate", TRUE) /\ Done
  <2>1. Records' /\ \A a \in Sources : SameBinding(a) /\ SameFrames(a) /\ SameWork(a)
    BY <1>1, <1>4, Flagged DEF Same
  <2>2. Carries /\ task'.at = "finally"
    BY <1>1, <1>4, Ended
  <2> QED
    BY <1>1, <1>2, <2>1, <2>2, SubmittingStep
<1> QED
  BY <1>3, <1>4 DEF ImageResize

(* A frame is accepted: its generation is the last that was submitted.     *)
LEMMA Submits ==
  ASSUME Good, task.at \in Submitting, Update("submitted", Larger(Src.submitted, task.gen))
  PROVE  /\ Records'
         /\ \A a \in Sources :
              /\ SameBinding(a) /\ SameWork(a) /\ sources'[a].latest = sources[a].latest
              /\ sources'[a].submitted = IF a = task.by THEN task.gen ELSE sources[a].submitted
         /\ task.gen <= sources[task.by].latest
<1>0. task \in Tasks /\ Records /\ Numbered
  BY Parts
<1>1. task.by \in Sources
  BY Working
<1>3. /\ task.gen \in Generations /\ Src.submitted \in Generations
      /\ Src.submitted <= task.gen /\ task.gen <= Src.latest
  BY <1>0, <1>1, Fields, SourceFields DEF Numbered, Src
<1>4. Larger(Src.submitted, task.gen) = task.gen
  BY <1>3 DEF Larger, Generations
<1>5. sources' = [sources EXCEPT ![task.by].submitted = task.gen]
  BY <1>4 DEF Update
<1>6. Records'
  BY <1>0, <1>3, <1>5 DEF Records, SourceRecords
<1>7. \A a \in Sources :
        /\ SameBinding(a) /\ SameWork(a) /\ sources'[a].latest = sources[a].latest
        /\ sources'[a].submitted = IF a = task.by THEN task.gen ELSE sources[a].submitted
  BY <1>0, <1>1, <1>5 DEF Records, SourceRecords, SameBinding, SameWork
<1> QED
  BY <1>3, <1>6, <1>7 DEF Src

LEMMA StepFrameSubmitted == Good /\ FrameSubmitted => Good'
<1> SUFFICES ASSUME Good, FrameSubmitted PROVE Good'
  OBVIOUS
<1>0. /\ task.at \in Submitting /\ task.at \in SubmittingImage /\ task \in Tasks /\ Records
      /\ Stage /\ Numbered /\ Served /\ Attachment
  BY Parts DEF FrameSubmitted, Submitting, SubmittingImage
<1>1. task.by \in Sources /\ task.caller # "user"
  BY <1>0, Working
<1>2. Carries /\ task'.at = "finally"
  BY <1>0, Ended DEF FrameSubmitted
<1>3. Update("submitted", Larger(Src.submitted, task.gen))
  BY DEF FrameSubmitted
<1>7. /\ Records'
      /\ \A a \in Sources :
           /\ SameBinding(a) /\ SameWork(a) /\ sources'[a].latest = sources[a].latest
           /\ sources'[a].submitted = IF a = task.by THEN task.gen ELSE sources[a].submitted
      /\ task.gen <= sources[task.by].latest
  BY <1>0, <1>3, Submits
<1>8. UNCHANGED <<nativeVars, leaseVars, closed, generation, bound>> /\ Scalars'
  BY Parts DEF FrameSubmitted, Scalars, windowVars
<1>9. Native!TypeOK' /\ LeasesTyped' /\ Attachment' /\ Owned' /\ Retained' /\ Closing'
  BY <1>0, <1>2, <1>7, <1>8, Inside
     DEF SameBinding, Submitting, SubmittingTexture, SubmittingImage, Outer
<1>10. Stage'
  BY <1>0, <1>1, <1>2 DEF Stage, Carries, SubmittingImage, SubmittingTexture, Outer
<1>11. Numbered'
  BY <1>0, <1>1, <1>2, <1>7, SourceFields
     DEF Numbered, Src, SameWork, Submitting, SubmittingTexture, SubmittingImage
<1>12. Served'
  BY <1>0, <1>2, <1>7 DEF Served, Carries, SameBinding, SameWork, SubmittingImage
<1> QED
  BY <1>7, <1>8, <1>9, <1>10, <1>11, <1>12, Whole

LEMMA StepFrameRejected == Good /\ (FrameRejected \/ FrameRejectedState) => Good'
<1> SUFFICES ASSUME Good, FrameRejected \/ FrameRejectedState PROVE Good'
  OBVIOUS
<1>1. /\ UNCHANGED <<nativeVars, leaseVars, closed, generation, bound>> /\ Scalars'
      /\ task.at \in SubmittingImage /\ task \in Tasks /\ Records
  BY Parts
     DEF FrameRejected, FrameRejectedState, Scalars, sourceVars, windowVars, surfaceVars,
         SubmittingImage
<1>2. CASE Retry
  BY <1>1, <1>2, Retries, SubmittingStep
<1>3. ASSUME UNCHANGED sources, Goto("close") \/ Goto("frameRejected") PROVE Good'
  <2>1. Records' /\ \A a \in Sources : SameBinding(a) /\ SameFrames(a) /\ SameWork(a)
    BY <1>1, <1>3, Unchanged DEF Same
  <2>2. /\ Carries
        /\ task'.at = "close" \/ (task'.at \in SubmittingImage /\ task'.gen = task.gen)
    BY <1>1, <1>3, Gone DEF Stations, SubmittingImage, Submitting
  <2> QED
    BY <1>1, <2>1, <2>2, SubmittingStep
<1> QED
  BY <1>2, <1>3 DEF FrameRejected, FrameRejectedState, sourceVars

-----------------------------------------------------------------------------
(* Textures.                                                               *)
LEMMA TextureStep ==
  ASSUME Good, UNCHANGED <<nativeVars, leaseVars, closed, generation, bound>>, Scalars',
         task.at \in SubmittingTexture, Carries, Records', \A a \in Sources : Same(a),
         \/ task'.at \in {"finally", "close"}
         \/ /\ task'.at \in Submitting \cup {"schedule"} /\ task'.gen = task.gen
            /\ task'.at \in {"texture", "submitDmabuf"} => task.at \in {"texture", "submitDmabuf"}
  PROVE  Good'
<1>0. /\ task.by \in Sources /\ task.caller = "paint" /\ task.at \in Submitting
      /\ task.at \notin {"schedule", "startCapture"}
      /\ Stage /\ Numbered /\ Served /\ Records /\ Attachment
  BY Working, Parts DEF Stage, Submitting, SubmittingTexture
<1>2. Native!TypeOK' /\ LeasesTyped' /\ Attachment' /\ Owned' /\ Retained' /\ Closing'
  BY <1>0, Inside DEF Same, SameBinding, Submitting, SubmittingTexture, SubmittingImage, Outer
<1>3. Stage'
  BY <1>0 DEF Stage, Carries, Submitting, SubmittingImage, SubmittingTexture, Outer
<1>4. Numbered'
  <2>1. ASSUME NEW a \in Sources
        PROVE  /\ sources'[a].submitted <= sources'[a].latest
               /\ sources'[a].pending <= sources'[a].latest
               /\ sources'[a].capture <= sources'[a].latest
    BY <1>0, <2>1 DEF Numbered, Same, SameFrames, SameWork
  <2>2. task'.at \in Submitting \cup {"schedule"} =>
          /\ task'.gen = task.gen /\ task'.by = task.by
          /\ sources'[task.by].latest = sources[task.by].latest
          /\ sources'[task.by].submitted = sources[task.by].submitted
    BY <1>0 DEF Carries, Same, SameFrames, Submitting, SubmittingImage, SubmittingTexture
  <2> QED
    BY <1>0, <2>1, <2>2 DEF Numbered, Src
<1>5. Served'
  BY <1>0
     DEF Served, Carries, Same, SameBinding, SameWork, Submitting, SubmittingImage,
         SubmittingTexture
<1> QED
  BY <1>2, <1>3, <1>4, <1>5, Whole

LEMMA FallsBack ==
  ASSUME Records, task \in Tasks, Goto(IF task.image = "none" THEN "schedule" ELSE "image")
  PROVE  /\ Carries /\ task'.at \in Submitting \cup {"schedule"} /\ task'.gen = task.gen
         /\ task'.at \notin {"texture", "submitDmabuf"}
<1>1. Goto("schedule") \/ Goto("image")
  BY DEF Goto
<1> QED
  BY <1>1, Gone DEF Stations, Submitting, SubmittingImage

LEMMA StepTexture ==
  Good /\ (PaintTexture \/ NoSubmissionId \/ DmabufRejectedState \/ DmabufSubmittedState) => Good'
<1> SUFFICES ASSUME Good, PaintTexture \/ NoSubmissionId \/ DmabufRejectedState \/ DmabufSubmittedState
             PROVE  Good'
  OBVIOUS
<1>1. /\ UNCHANGED <<nativeVars, leaseVars, closed, generation, bound>> /\ Scalars'
      /\ task.at \in SubmittingTexture /\ task \in Tasks /\ Records
  BY Parts DEF PaintTexture, NoSubmissionId, DmabufRejectedState, DmabufSubmittedState,
     Scalars, windowVars, surfaceVars, SubmittingTexture
<1>2. CASE Fallback
  <2>1. Records' /\ \A a \in Sources : Same(a)
    BY <1>1, <1>2, Flagged DEF Fallback
  <2> QED
    BY <1>1, <1>2, <2>1, FallsBack, TextureStep DEF Fallback
<1>3. CASE Goto("close") /\ UNCHANGED sources
  BY <1>1, <1>3, Gone, Unchanged, TextureStep DEF Stations
<1>4. CASE Update("fallback", FALSE) /\ Done
  BY <1>1, <1>4, Ended, Flagged, TextureStep
<1>5. CASE /\ task.at = "texture" /\ (Goto("textureResize") \/ Goto("submitDmabuf"))
           /\ UNCHANGED sources
  BY <1>1, <1>5, Gone, Unchanged, TextureStep DEF Stations, Submitting, SubmittingTexture
<1> QED
  BY <1>2, <1>3, <1>4, <1>5
     DEF PaintTexture, NoSubmissionId, DmabufRejectedState, DmabufSubmittedState

LEMMA StepTextureResize == Good /\ TextureResize => Good'
<1> SUFFICES ASSUME Good, TextureResize PROVE Good'
  OBVIOUS
<1>1. /\ UNCHANGED <<nativeVars, leaseVars, closed, generation, bound>>
      /\ task.at \in SubmittingTexture /\ task.at \in Submitting /\ task \in Tasks /\ Records
  BY Parts DEF TextureResize, SubmittingTexture, Submitting
<1>2. Scalars'
  BY Parts DEF TextureResize, Scalars, surfaceVars, SizesRead, WindowSizes, Native!TypeOK
<1>3. sources' = [sources EXCEPT ![task.by].invalidate = @ \/ ~Terminal,
                                 ![task.by].fallback = TRUE]
  BY DEF TextureResize
<1>4. Records'
  <2>1. PICK v \in BOOLEAN :
          sources' = [sources EXCEPT ![task.by].invalidate = v, ![task.by].fallback = TRUE]
    BY <1>3
  <2> QED
    BY <1>1, <2>1 DEF Records, SourceRecords
<1>5. \A a \in Sources : Same(a)
  BY <1>1, <1>3 DEF Records, SourceRecords, Same, SameBinding, SameWork, SameFrames
<1> QED
  BY <1>1, <1>2, <1>4, <1>5, FallsBack, TextureStep DEF TextureResize

(* drainReleasedDmabufs.                                                   *)
LEMMA Drains ==
  ASSUME Good, Drain
  PROVE  /\ UNCHANGED <<size, open, usable, health, life, holding, nextSubmissionId>>
         /\ life # "closing" /\ queue' = {}
         /\ Native!TypeOK' /\ LeasesTyped'
         /\ \A id \in Ids : leases'[id] = IF id \in queue THEN NoTexture ELSE leases[id]
         /\ out' = out \ TexturesOf(queue)
         /\ leaseMonitor' = (leaseMonitor /\ \E id \in Ids \ queue : Leased(id))
<1>1. /\ UNCHANGED <<size, open, usable, health, life, holding, nextSubmissionId>>
      /\ life # "closing" /\ queue' = {}
      /\ leases' = [id \in Ids |-> IF id \in queue THEN NoTexture ELSE leases[id]]
      /\ out' = out \ TexturesOf(queue)
      /\ leaseMonitor' = (leaseMonitor /\ \E id \in Ids \ queue : Leased(id))
  BY DEF Drain, Native!Take, Release, GiveBack
<1>2. Native!TypeOK'
  BY <1>1, Parts DEF Native!TypeOK
<1>3. LeasesTyped'
  <2>1. leases' \in [Ids -> Textures \cup {NoTexture}]
    BY <1>1, Parts DEF LeasesTyped
  <2> QED
    BY <1>1, <2>1, Parts DEF LeasesTyped
<1> QED
  BY <1>1, <1>2, <1>3

LEMMA DrainsOwned ==
  ASSUME Good, Drain, task'.texture = task.texture,
         task'.at \in Outer => NoTexture = task.texture,
         task'.at \in {"texture", "submitDmabuf"} => task.texture # NoTexture
  PROVE  Owned' /\ Retained'
<1>1. Owned /\ Retained
  BY Parts
<1>2. out' = ({leases'[i] : i \in Ids} \cup {task'.texture}) \ {NoTexture}
  <2>1. queue \subseteq Ids
    BY Parts DEF Native!TypeOK
  <2>2. ASSUME NEW t PROVE t \in out' <=> t \in ({leases'[i] : i \in Ids} \cup {task'.texture}) \ {NoTexture}
    <3>1. t \in out <=> t # NoTexture /\ (t = task.texture \/ \E i \in Ids : leases[i] = t)
      BY <1>1 DEF Owned
    <3>2. t \in TexturesOf(queue) <=> \E i \in Ids : i \in queue /\ leases[i] = t /\ t # NoTexture
      BY <2>1 DEF TexturesOf, Leased
    <3>3. t \in out' <=> t \in out /\ t \notin TexturesOf(queue)
      BY Drains
    <3>4. \A i, j \in Ids : leases[i] = t /\ leases[j] = t /\ t # NoTexture => i = j
      BY <1>1 DEF Owned, Leased
    <3>5. t = task.texture /\ t # NoTexture => \A i \in Ids : leases[i] # t
      BY <1>1 DEF Owned
    <3>6. t # NoTexture =>
            ((\E i \in Ids : leases'[i] = t) <=> \E i \in Ids : i \notin queue /\ leases[i] = t)
      BY Drains
    <3> QED
      BY <3>1, <3>2, <3>3, <3>4, <3>5, <3>6
  <2> QED
    BY <2>2, Zenon
<1>3. Owned'
  BY <1>1, <1>2, Drains DEF Owned, Leased
<1>4. LeasesMonitored'
  BY <1>1, Drains DEF Retained, LeasesMonitored, Leased
<1>5. \A id \in holding : leases'[id] # NoTexture
  BY <1>1, Drains, Parts DEF Retained, Leased, Native!TypeOK
<1> QED
  BY <1>1, <1>3, <1>4, <1>5, Drains DEF Retained, Leased

LEMMA StepDrainAfterSubmit == Good /\ DrainAfterSubmit => Good'
<1> SUFFICES ASSUME Good, DrainAfterSubmit PROVE Good'
  OBVIOUS
<1>0. /\ task.at = "submitted" /\ task.at \in Submitting /\ task \in Tasks /\ Drain
      /\ UNCHANGED <<closed, generation, bound, sources>>
      /\ Records /\ Stage /\ Attachment /\ Numbered /\ Served /\ Closing
  BY Parts DEF DrainAfterSubmit, Submitting, SubmittingTexture, sourceVars
<1>1. Carries /\ task'.at = "submittedState" /\ task'.gen = task.gen
  BY <1>0, Gone DEF DrainAfterSubmit, Stations, Submitting, SubmittingTexture
<1>2. Scalars'
  BY <1>0, Parts DEF DrainAfterSubmit, Scalars, windowVars, surfaceVars
<1>3. Records' /\ Numbered' /\ Served' /\ Attachment'
  BY <1>0, <1>1
     DEF Records, Numbered, Served, Attachment, Carries, Src, Submitting, SubmittingTexture,
         SubmittingImage
<1>4. Stage'
  BY <1>0, <1>1, Working DEF Stage, Carries, SubmittingTexture, SubmittingImage, Outer
<1>5. Owned' /\ Retained'
  BY <1>0, <1>1, DrainsOwned DEF Carries, Outer
<1>6. Closing'
  BY <1>0, <1>1, Drains DEF Closing, Leased
<1> QED
  BY <1>0, <1>2, <1>3, <1>4, <1>5, <1>6, Drains, Whole

LEMMA StepIdleDrain == Good /\ (LeaseMonitorTicks \/ GetState) => Good'
<1> SUFFICES ASSUME Good, LeaseMonitorTicks \/ GetState PROVE Good'
  OBVIOUS
<1>0. /\ task.at = "idle" /\ Drain
      /\ UNCHANGED <<closed, generation, bound, sources, task>>
      /\ Records /\ Stage /\ Attachment /\ Numbered /\ Served /\ Closing
  BY Parts DEF LeaseMonitorTicks, GetState, sourceVars
<1>2. Scalars'
  BY <1>0, Parts DEF LeaseMonitorTicks, GetState, Scalars, windowVars, surfaceVars
<1>3. Records' /\ Numbered' /\ Served' /\ Attachment' /\ Stage'
  BY <1>0 DEF Records, Numbered, Served, Attachment, Src, Stage, NoTask
<1>5. Owned' /\ Retained'
  BY <1>0, DrainsOwned DEF Outer
<1>6. Closing'
  BY <1>0, Drains DEF Closing, Leased
<1> QED
  BY <1>0, <1>2, <1>3, <1>5, <1>6, Drains, Whole

LEMMA StepDmabufSubmitted == Good /\ DmabufSubmitted => Good'
<1> SUFFICES ASSUME Good, DmabufSubmitted PROVE Good'
  OBVIOUS
<1> DEFINE id == Allocated
<1>0. /\ task.at = "submitDmabuf" /\ task.at \in Submitting /\ task \in Tasks /\ Records
      /\ Stage /\ Numbered /\ Served /\ Attachment /\ Owned /\ Retained /\ Closing
      /\ LeasesTyped /\ Native!TypeOK
  BY Parts DEF DmabufSubmitted, Submitting, SubmittingTexture
<1>1. task.by \in Sources /\ task.caller = "paint"
  BY <1>0, Working DEF Stage, SubmittingTexture
<1>2. id \in Ids /\ ~Leased(id)
  BY FreeId DEF DmabufSubmitted
<1>3. task.texture # NoTexture /\ task.texture \in Textures
  BY <1>0, Fields DEF Owned
<1>4. /\ task' \in Tasks /\ task'.at = "submitted" /\ task'.gen = task.gen
      /\ task'.by = task.by /\ task'.caller = task.caller /\ task'.outer = task.outer
      /\ task'.texture = NoTexture
  BY <1>0 DEF DmabufSubmitted, Tasks, Stations, Submitting, SubmittingTexture
<1>5. Update("submitted", Larger(Src.submitted, task.gen))
  BY DEF DmabufSubmitted
<1>6. /\ Records'
      /\ \A a \in Sources :
           /\ SameBinding(a) /\ SameWork(a) /\ sources'[a].latest = sources[a].latest
           /\ sources'[a].submitted = IF a = task.by THEN task.gen ELSE sources[a].submitted
      /\ task.gen <= sources[task.by].latest
  BY <1>0, <1>5, Submits
<1>7. /\ UNCHANGED <<size, open, usable, health, life, queue, closed, generation, bound, out>>
      /\ holding' = holding \cup {id} /\ life = "open" /\ leaseMonitor' = TRUE
      /\ leases' = [leases EXCEPT ![id] = task.texture]
  BY DEF DmabufSubmitted, Native!Lend, Native!Accepts
<1>8. \A i \in Ids : leases'[i] = IF i = id THEN task.texture ELSE leases[i]
  BY <1>0, <1>2, <1>7 DEF LeasesTyped
<1> HIDE DEF id
<1>9. Native!TypeOK'
  BY <1>0, <1>2, <1>7 DEF Native!TypeOK
<1>10. LeasesTyped'
  <2>1. leases' \in [Ids -> Textures \cup {NoTexture}]
    BY <1>0, <1>3, <1>7 DEF LeasesTyped
  <2>2. nextSubmissionId' \in Ids
    BY <1>2 DEF DmabufSubmitted, IdAfter, Ids, id
  <2> QED
    BY <1>0, <1>7, <2>1, <2>2 DEF LeasesTyped
<1>11. Scalars'
  BY Parts DEF DmabufSubmitted, Scalars, windowVars
<1>12. Stage'
  BY <1>0, <1>1, <1>4 DEF Stage, SubmittingTexture, SubmittingImage, Outer
<1>13. Attachment'
  BY <1>0, <1>1, <1>4, <1>6, <1>7 DEF Attachment, SameBinding
<1>14. Numbered'
  <2>1. ASSUME NEW a \in Sources
        PROVE  /\ sources'[a].submitted <= sources'[a].latest
               /\ sources'[a].pending <= sources'[a].latest
               /\ sources'[a].capture <= sources'[a].latest
    BY <1>0, <1>6, <2>1 DEF Numbered, SameWork
  <2>2. /\ sources'[task.by].submitted = task.gen /\ sources'[task.by].latest = sources[task.by].latest
        /\ task.gen \in Generations
    BY <1>0, <1>1, <1>6, Fields
  <2> QED
    BY <1>4, <1>6, <2>1, <2>2 DEF Numbered, Src, Generations
<1>15. Served'
  BY <1>0, <1>4, <1>6 DEF Served, SameBinding, SameWork
<1>16. Owned'
  <2>1. \A i, j \in Ids : leases'[i] # NoTexture /\ leases'[i] = leases'[j] => i = j
    BY <1>0, <1>2, <1>3, <1>8 DEF Owned, Leased
  <2>2. out = ({leases'[i] : i \in Ids} \cup {NoTexture}) \ {NoTexture}
    <3>1. ASSUME NEW t PROVE t \in out <=> t # NoTexture /\ \E i \in Ids : leases'[i] = t
      <4>1. t \in out <=> t # NoTexture /\ (t = task.texture \/ \E i \in Ids : leases[i] = t)
        BY <1>0 DEF Owned
      <4>2. t # NoTexture =>
              ((\E i \in Ids : leases'[i] = t) <=> (t = task.texture \/ \E i \in Ids : leases[i] = t))
        BY <1>2, <1>8 DEF Leased
      <4> QED
        BY <4>1, <4>2
    <3> QED
      BY <3>1
  <2> QED
    BY <1>4, <1>7, <2>1, <2>2 DEF Owned, Leased, Outer
<1>17. Retained'
  <2>1. \A i \in holding : i \in Ids /\ leases'[i] # NoTexture
    BY <1>0, <1>2, <1>3, <1>8 DEF Retained, Leased, Native!TypeOK
  <2>2. leases'[id] # NoTexture /\ id \notin queue
    BY <1>0, <1>2, <1>3, <1>8 DEF Retained
  <2>3. LeasesMonitored'
    BY <1>2, <1>7, <2>2 DEF LeasesMonitored, Leased
  <2> QED
    BY <1>0, <1>4, <1>7, <2>1, <2>2, <2>3 DEF Retained, Leased
<1>18. Closing'
  BY <1>0, <1>4, <1>7 DEF Closing, Leased
<1> QED
  BY <1>6, <1>9, <1>10, <1>11, <1>12, <1>13, <1>14, <1>15, <1>16, <1>17, <1>18, Whole

LEMMA StepDmabufRejected == Good /\ DmabufRejected => Good'
<1> SUFFICES ASSUME Good, DmabufRejected PROVE Good'
  OBVIOUS
<1>0. /\ task.at = "submitDmabuf" /\ task.at \in Submitting /\ task \in Tasks /\ Records
      /\ Stage /\ Numbered /\ Served /\ Attachment /\ Owned /\ Retained /\ Closing
      /\ LeasesTyped /\ Native!TypeOK
  BY Parts DEF DmabufRejected, Submitting, SubmittingTexture
<1>1. task.by \in Sources /\ task.caller = "paint"
  BY <1>0, Working DEF Stage, SubmittingTexture
<1>2. Allocated \in Ids /\ ~Leased(Allocated)
  BY FreeId DEF DmabufRejected
<1>3. Carries /\ task'.at = "rejected" /\ task'.gen = task.gen
  BY <1>0, Gone DEF DmabufRejected, Stations, Submitting, SubmittingTexture
<1>4. /\ UNCHANGED <<size, open, usable, health, life, holding, closed, generation, bound, sources>>
      /\ UNCHANGED <<leases, leaseMonitor, out>>
      /\ queue' \in {queue, queue \cup {Allocated}}
  BY DEF DmabufRejected, sourceVars
<1>5. Native!TypeOK'
  BY <1>0, <1>2, <1>4 DEF Native!TypeOK
<1>6. LeasesTyped'
  BY <1>0, <1>2, <1>4 DEF LeasesTyped, DmabufRejected, IdAfter, Ids
<1>7. Scalars'
  BY Parts DEF DmabufRejected, Scalars, windowVars, sourceVars, surfaceVars
<1>8. Records' /\ Attachment' /\ Numbered' /\ Served'
  BY <1>0, <1>3, <1>4 DEF Records, Attachment, Numbered, Served, Carries, Src
<1>9. Stage'
  BY <1>0, <1>1, <1>3 DEF Stage, Carries, SubmittingTexture, SubmittingImage, Outer
<1>10. Owned' /\ Closing'
  BY <1>0, <1>3, <1>4 DEF Owned, Closing, Carries, Leased, Outer
<1>11. Retained'
  BY <1>0, <1>2, <1>3, <1>4 DEF Retained, LeasesMonitored, Leased
<1> QED
  BY <1>5, <1>6, <1>7, <1>8, <1>9, <1>10, <1>11, Whole

-----------------------------------------------------------------------------
(* Paints.                                                                 *)
LEMMA StepPaint ==
  ASSUME Good, NEW a \in Sources, NEW texture \in Textures \cup {NoTexture}, NEW info \in Infos,
         NEW image \in Images, Paint(a, texture, info, image)
  PROVE  Good'
<1>0. /\ task \in Tasks /\ Records
      /\ Stage /\ Numbered /\ Served /\ Attachment /\ Owned /\ Retained /\ Closing
      /\ LeasesTyped /\ Native!TypeOK
  BY Parts
<1>1. /\ task.at = "idle" \/ (task.at = "invalidating" /\ a = task.by)
      /\ texture \notin out /\ out' = out \cup ({texture} \ {NoTexture})
      /\ UNCHANGED <<size, open, usable, health, life, holding, queue>>
      /\ UNCHANGED <<closed, generation, bound, sources, leases, nextSubmissionId, leaseMonitor>>
  BY DEF Paint, nativeVars, sourceVars
<1>2. /\ task' \in Tasks /\ task'.at = "paint" /\ task'.by = a /\ task'.caller = "paint"
      /\ task'.texture = texture /\ task'.outer = task.outer
  <2>1. a \in 0 .. MaxSources
    BY DEF Sources
  <2> QED
    BY <1>0, <2>1, Blank, Fields DEF Paint, Tasks, Stations, Callers, Generations
<1>3. task.at = "idle" => task.outer = "none" /\ task.texture = NoTexture /\ task.caller = "none"
  BY <1>0 DEF Stage, NoTask
<1>4. task.texture = NoTexture /\ a # 0
  BY <1>0, <1>1, <1>3, Blank DEF Owned, Outer
<1>5. Native!TypeOK'
  BY <1>0, <1>1 DEF Native!TypeOK
<1>6. LeasesTyped'
  BY <1>0, <1>1 DEF LeasesTyped
<1>7. Scalars'
  BY Parts DEF Paint, Scalars, sourceVars, surfaceVars
<1>8. Stage'
  BY <1>2, <1>4 DEF Stage, SubmittingTexture, Outer
<1>9. Records' /\ Attachment' /\ Numbered' /\ Served'
  BY <1>0, <1>1, <1>2, <1>3
     DEF Records, Attachment, Numbered, Served, Submitting, SubmittingTexture, SubmittingImage
<1>10. Owned'
  <2>1. texture # NoTexture => \A i \in Ids : leases[i] # texture
    BY <1>0, <1>1 DEF Owned
  <2>2. out' = ({leases[i] : i \in Ids} \cup {texture}) \ {NoTexture}
    BY <1>0, <1>1, <1>4 DEF Owned
  <2> QED
    BY <1>0, <1>1, <1>2, <2>1, <2>2 DEF Owned, Leased, Outer
<1>11. Retained' /\ Closing'
  BY <1>0, <1>1, <1>2 DEF Retained, Closing, LeasesMonitored, Leased
<1> QED
  BY <1>5, <1>6, <1>7, <1>8, <1>9, <1>10, <1>11, Whole

(* A source has a new generation.                                          *)
LEMMA NewGeneration ==
  ASSUME Records, task.by \in Sources
  PROVE  /\ NextGeneration \in Generations /\ sources[task.by].latest <= NextGeneration
         /\ sources[task.by].latest \in Generations
BY SourceFields DEF NextGeneration, Src, Generations

LEMMA StepPaintBegin == Good /\ PaintBegin => Good'
<1> SUFFICES ASSUME Good, PaintBegin PROVE Good'
  OBVIOUS
<1>0. /\ task \in Tasks /\ Records /\ task.at = "paint"
      /\ Stage /\ Numbered /\ Served /\ Attachment /\ Owned /\ Retained /\ Closing
      /\ LeasesTyped /\ Native!TypeOK
  BY Parts DEF PaintBegin
<1>1. UNCHANGED <<closed, generation, bound>> /\ Scalars'
  BY Parts DEF PaintBegin, Scalars, windowVars, surfaceVars
<1>2. /\ task.by \in Sources /\ task.caller # "user" /\ task.caller # "capture"
  BY <1>0, Fields DEF Stage, SubmittingImage
<1>3. CASE Current(task.by)
  <2>1. /\ Drain /\ Update("latest", NextGeneration) /\ sources[task.by].active /\ ~closed
        /\ task' = [task EXCEPT !.gen = NextGeneration,
                      !.at = IF task.texture # NoTexture THEN "texture"
                             ELSE IF task.image = "none" THEN "schedule" ELSE "image"]
    BY <1>0, <1>3 DEF PaintBegin, Current, Live
  <2>2. NextGeneration \in Generations /\ sources[task.by].latest <= NextGeneration
    BY <1>0, <1>2, NewGeneration
  <2>3. /\ Carries /\ task'.gen = NextGeneration /\ task'.at \in {"texture", "schedule", "image"}
        /\ task'.at = "texture" <=> task.texture # NoTexture
    <3> DEFINE s == IF task.texture # NoTexture THEN "texture"
                    ELSE IF task.image = "none" THEN "schedule" ELSE "image"
    <3>1. s \in {"texture", "schedule", "image"} /\ (s = "texture" <=> task.texture # NoTexture)
      OBVIOUS
    <3>2. s \in Stations
      BY <3>1 DEF Stations, Submitting, SubmittingTexture, SubmittingImage
    <3>3. task' = [task EXCEPT !.gen = NextGeneration, !.at = s]
      BY <2>1
    <3> HIDE DEF s
    <3>4. Carries /\ task'.gen = NextGeneration /\ task'.at = s
      BY <1>0, <2>2, <3>2, <3>3 DEF Tasks, Carries, Generations
    <3> QED
      BY <3>1, <3>4
  <2>4. sources' = [sources EXCEPT ![task.by].latest = NextGeneration]
    BY <2>1 DEF Update
  <2>5. Records'
    BY <1>0, <2>2, <2>4 DEF Records, SourceRecords
  <2>6. \A a \in Sources :
          /\ SameBinding(a) /\ SameWork(a) /\ sources'[a].submitted = sources[a].submitted
          /\ sources'[a].latest = IF a = task.by THEN NextGeneration ELSE sources[a].latest
    BY <1>0, <2>4 DEF Records, SourceRecords, SameBinding, SameWork
  <2>7. Stage'
    BY <1>0, <1>2, <2>3 DEF Stage, Carries, SubmittingTexture, SubmittingImage, Outer
  <2>8. Attachment'
    BY <1>0, <1>1, <1>2, <2>1, <2>3, <2>6 DEF Attachment, Carries, SameBinding
  <2>9. Numbered'
    <3>1. ASSUME NEW a \in Sources
          PROVE  /\ sources'[a].submitted <= sources'[a].latest
                 /\ sources'[a].pending <= sources'[a].latest
                 /\ sources'[a].capture <= sources'[a].latest
      BY <1>0, <2>2, <2>6, <3>1, SourceFields DEF Numbered, SameWork, Generations
    <3>2. /\ task'.gen = sources'[task.by].latest /\ task'.by = task.by
          /\ sources'[task.by].submitted <= task'.gen /\ task'.gen \in Generations
      BY <1>2, <2>2, <2>3, <2>6, <3>1 DEF Carries
    <3> QED
      BY <3>1, <3>2 DEF Numbered, Src, Generations
  <2>10. Served'
    BY <1>0, <1>2, <2>3, <2>6 DEF Served, Carries, SameBinding, SameWork
  <2>11. Owned' /\ Retained'
    BY <2>1, <2>3, DrainsOwned DEF Carries, Outer
  <2>12. Closing'
    BY <1>0, <1>1, <2>1, <2>3, Drains DEF Closing, Leased
  <2> QED
    BY <1>1, <2>1, <2>5, <2>7, <2>8, <2>9, <2>10, <2>11, <2>12, Drains, Whole
<1>4. CASE ~Current(task.by)
  <2>1. /\ Carries /\ task'.at = "finally"
        /\ UNCHANGED <<nativeVars, sources, leaseVars>>
    BY <1>0, <1>4, Ended DEF PaintBegin
  <2>2. Native!TypeOK' /\ LeasesTyped' /\ Records'
    BY <1>0, <2>1 DEF Native!TypeOK, LeasesTyped, Records, nativeVars, leaseVars
  <2>3. Stage' /\ Attachment'
    BY <1>0, <1>1, <1>2, <2>1
       DEF Stage, Attachment, Carries, Submitting, SubmittingTexture, SubmittingImage, Outer
  <2>4. Numbered' /\ Served'
    BY <1>0, <1>2, <2>1
       DEF Numbered, Served, Carries, Submitting, SubmittingTexture, SubmittingImage
  <2>5. Owned'
    BY <1>0, <2>1 DEF Owned, Carries, Outer, Leased, leaseVars
  <2>6. Retained' /\ Closing'
    BY <1>0, <1>1, <2>1 DEF Retained, Closing, LeasesMonitored, Leased, leaseVars, nativeVars
  <2> QED
    BY <1>1, <2>2, <2>3, <2>4, <2>5, <2>6, Whole
<1> QED
  BY <1>3, <1>4

-----------------------------------------------------------------------------
(* Callbacks start.                                                        *)
Starts(a, c, s) ==
  /\ task' \in Tasks /\ task.at = "idle"
  /\ task'.at = s /\ task'.by = a /\ task'.caller = c
  /\ task'.texture = NoTexture /\ task'.outer = "none"

LEMMA Starting ==
  ASSUME Good, NEW a \in 0 .. MaxSources, NEW c \in Callers,
         NEW s \in {"startCapture", "captureRejected", "image", "close", "finally"},
         Starts(a, c, s),
         UNCHANGED <<nativeVars, leaseVars, closed, generation, bound>>
  PROVE  /\ Native!TypeOK' /\ LeasesTyped' /\ Owned' /\ Retained' /\ Closing'
         /\ task.caller = "none" /\ task.outer = "none"
<1>0. /\ task.at = "idle" /\ task = NoTask /\ Owned /\ Retained /\ Closing /\ Native!TypeOK /\ LeasesTyped
  BY Parts DEF Starts, Stage
<1>1. task.texture = NoTexture /\ task.caller = "none" /\ task.outer = "none"
  BY <1>0 DEF NoTask
<1>2. Native!TypeOK' /\ LeasesTyped'
  BY <1>0 DEF Native!TypeOK, LeasesTyped, nativeVars, leaseVars
<1>3. Owned'
  BY <1>0, <1>1 DEF Owned, Starts, Leased, Outer, leaseVars
<1>4. Retained' /\ Closing'
  BY <1>0 DEF Retained, Closing, Starts, LeasesMonitored, Leased, leaseVars, nativeVars
<1> QED
  BY <1>1, <1>2, <1>3, <1>4

LEMMA StepUserCloses == Good /\ UserCloses => Good'
<1> SUFFICES ASSUME Good, UserCloses PROVE Good'
  OBVIOUS
<1>0. /\ Records /\ Stage /\ Numbered /\ Served /\ Attachment /\ UNCHANGED sources
      /\ UNCHANGED <<nativeVars, leaseVars, closed, generation, bound>> /\ Scalars'
  BY Parts DEF UserCloses, Scalars, sourceVars, windowVars, surfaceVars
<1>1. Starts(0, "user", "close")
  BY Started, Blank DEF UserCloses, Starts, Callers, Stations
<1>2. task.outer = "none" /\ task.caller = "none"
  BY <1>1, Parts DEF Starts, Stage, NoTask
<1>3. Native!TypeOK' /\ LeasesTyped' /\ Owned' /\ Retained' /\ Closing'
  BY <1>0, <1>1, Starting, Blank DEF Callers
<1>4. Stage' /\ Records'
  BY <1>0, <1>1 DEF Stage, Starts, Records, SubmittingTexture, Outer
<1>5. Attachment' /\ Numbered' /\ Served'
  BY <1>0, <1>1, <1>2
     DEF Attachment, Numbered, Served, Starts, Submitting, SubmittingTexture, SubmittingImage
<1> QED
  BY <1>0, <1>3, <1>4, <1>5, Whole

LEMMA StepDestroyed == ASSUME Good, NEW a \in Sources, Destroyed(a) PROVE Good'
<1>0. /\ Records /\ Stage /\ Numbered /\ Served /\ Attachment /\ UNCHANGED sources
      /\ UNCHANGED <<nativeVars, leaseVars, closed, generation, bound>> /\ Scalars'
      /\ a \in 0 .. MaxSources /\ a # 0
  BY Parts DEF Destroyed, Scalars, sourceVars, windowVars, surfaceVars, Sources
<1>1. \/ Starts(a, "destroyed", "close") /\ sources[a].active
      \/ Starts(a, "destroyed", "finally")
  <2>1. CASE Current(a)
    <3>1. Start(a, "destroyed", "close")
      BY <2>1 DEF Destroyed
    <3> QED
      BY <1>0, <2>1, <3>1, Started DEF Starts, Callers, Stations, Current, Live
  <2>2. CASE ~Current(a)
    <3>1. Start(a, "destroyed", "finally")
      BY <2>2 DEF Destroyed
    <3> QED
      BY <1>0, <3>1, Started DEF Starts, Callers, Stations
  <2> QED
    BY <2>1, <2>2
<1>2. task.outer = "none" /\ task.caller = "none"
  BY <1>1, Parts DEF Starts, Stage, NoTask
<1>3. Native!TypeOK' /\ LeasesTyped' /\ Owned' /\ Retained' /\ Closing'
  BY <1>0, <1>1, Starting, Blank DEF Callers
<1>4. Stage' /\ Records'
  BY <1>0, <1>1 DEF Stage, Starts, Records, SubmittingTexture, Outer
<1>5. Attachment' /\ Numbered' /\ Served'
  BY <1>0, <1>1, <1>2
     DEF Attachment, Numbered, Served, Starts, Submitting, SubmittingTexture, SubmittingImage
<1> QED
  BY <1>0, <1>3, <1>4, <1>5, Whole

LEMMA StepTimerFires == ASSUME Good, NEW a \in Sources, TimerFires(a) PROVE Good'
<1>0. /\ Records /\ Stage /\ Numbered /\ Served /\ Attachment
      /\ UNCHANGED <<nativeVars, leaseVars, closed, generation, bound>> /\ Scalars'
      /\ a \in 0 .. MaxSources /\ a # 0
  BY Parts DEF TimerFires, Scalars, sourceVars, windowVars, surfaceVars, Sources
<1>1. Starts(a, "timer", "startCapture") /\ sources[a].active
  BY <1>0, Started DEF TimerFires, Starts, Callers, Stations, Served
<1>2. task.outer = "none" /\ task.caller = "none"
  BY <1>1, Parts DEF Starts, Stage, NoTask
<1>3. Native!TypeOK' /\ LeasesTyped' /\ Owned' /\ Retained' /\ Closing'
  BY <1>0, <1>1, Starting, Blank DEF Callers
<1>4. Records' /\ \A b \in Sources :
                    /\ SameBinding(b) /\ SameFrames(b)
                    /\ sources'[b].capture = sources[b].capture /\ sources'[b].pending = sources[b].pending
                    /\ sources'[b].timer => sources[b].timer
                    /\ b # a => sources'[b].timer = sources[b].timer
  BY <1>0 DEF TimerFires, Records, SourceRecords, SameBinding, SameFrames
<1>5. Stage'
  BY <1>0, <1>1 DEF Stage, Starts, SubmittingTexture, Outer
<1>6. Attachment'
  BY <1>0, <1>1, <1>2, <1>4
     DEF Attachment, Starts, SameBinding, Submitting, SubmittingTexture, SubmittingImage
<1>7. Numbered'
  BY <1>0, <1>1, <1>4
     DEF Numbered, Starts, SameFrames, Submitting, SubmittingTexture, SubmittingImage
<1>8. Served'
  BY <1>0, <1>1, <1>2, <1>4 DEF Served, Starts, SameBinding
<1> QED
  BY <1>0, <1>3, <1>4, <1>5, <1>6, <1>7, <1>8, Whole

-----------------------------------------------------------------------------
(* Captures.                                                               *)
LEMMA StepCaptureResolves ==
  ASSUME Good, NEW a \in Sources, NEW image \in Images, CaptureResolves(a, image) PROVE Good'
<1>0. /\ Records /\ Stage /\ Numbered /\ Served /\ Attachment /\ UNCHANGED sources
      /\ UNCHANGED <<nativeVars, leaseVars, closed, generation, bound>> /\ Scalars'
      /\ a \in 0 .. MaxSources /\ a # 0 /\ sources[a].capture # 0 /\ sources[a].capture \in Generations
  BY Parts, SourceFields
     DEF CaptureResolves, Scalars, sourceVars, windowVars, surfaceVars, Sources
<1> DEFINE s == IF Current(a) /\ ~StaleCapture(a) THEN "image" ELSE "finally"
<1>1. /\ s = "finally" \/ (s = "image" /\ sources[a].active /\ ~StaleCapture(a))
      /\ s \in Stations
  BY DEF Current, Live, Stations, Submitting, SubmittingImage
<1>2. /\ task.at = "idle"
      /\ task' = [NoTask EXCEPT !.by = a, !.caller = "capture", !.image = image,
                    !.gen = sources[a].capture, !.at = s]
  BY DEF CaptureResolves
<1> HIDE DEF s
<1>3. Starts(a, "capture", s) /\ task'.gen = sources[a].capture
  BY <1>0, <1>1, <1>2, Blank DEF NoTask, Starts, Tasks, Callers, Generations
<1>4. task.outer = "none" /\ task.caller = "none"
  BY <1>2, Parts DEF Stage, NoTask
<1>5. Native!TypeOK' /\ LeasesTyped' /\ Owned' /\ Retained' /\ Closing'
  BY <1>0, <1>1, <1>3, Starting, Blank DEF Callers
<1>6. Stage' /\ Records'
  BY <1>0, <1>1, <1>3 DEF Stage, Starts, Records, SubmittingTexture, SubmittingImage, Outer
<1>7. Attachment' /\ Served'
  BY <1>0, <1>1, <1>3, <1>4
     DEF Attachment, Served, Starts, Submitting, SubmittingTexture, SubmittingImage
<1>8. Numbered'
  <2>1. s = "image" => /\ sources[a].capture <= sources[a].latest
                       /\ sources[a].submitted <= sources[a].capture
    BY <1>0, <1>1, SourceFields DEF Numbered, StaleCapture, Generations
  <2> QED
    BY <1>0, <1>1, <1>3, <2>1
       DEF Numbered, Starts, Src, Submitting, SubmittingTexture, SubmittingImage
<1> QED
  BY <1>0, <1>5, <1>6, <1>7, <1>8, Whole

LEMMA StepCaptureRejects == ASSUME Good, NEW a \in Sources, CaptureRejects(a) PROVE Good'
<1>0. /\ Records /\ Stage /\ Numbered /\ Served /\ Attachment
      /\ UNCHANGED <<nativeVars, leaseVars, closed, generation, bound>> /\ Scalars'
      /\ a \in 0 .. MaxSources /\ a # 0 /\ sources[a].capture # 0
  BY Parts DEF CaptureRejects, Scalars, sourceVars, windowVars, surfaceVars, Sources
<1>1. Larger(sources[a].capture, sources[a].latest) = sources[a].latest /\ sources[a].latest \in Generations
  BY <1>0, SourceFields DEF Larger, Numbered, Generations
<1>2. \/ /\ Start(a, "capture", "captureRejected") /\ sources[a].active
         /\ sources' = [sources EXCEPT ![a].pending = sources[a].latest]
      \/ Start(a, "capture", "finally") /\ UNCHANGED sources
  BY <1>1 DEF CaptureRejects, Live
<1>3. \/ Starts(a, "capture", "captureRejected") /\ sources[a].active
      \/ Starts(a, "capture", "finally")
  BY <1>0, <1>2, Started DEF Starts, Callers, Stations
<1>4. task.outer = "none" /\ task.caller = "none"
  BY <1>3, Parts DEF Starts, Stage, NoTask
<1>5. Native!TypeOK' /\ LeasesTyped' /\ Owned' /\ Retained' /\ Closing'
  BY <1>0, <1>3, Starting, Blank DEF Callers
<1>6. Records'
  BY <1>0, <1>1, <1>2 DEF Records, SourceRecords
<1>7. \A b \in Sources :
        /\ SameBinding(b) /\ SameFrames(b)
        /\ sources'[b].capture = sources[b].capture /\ sources'[b].timer = sources[b].timer
        /\ sources'[b].pending \in {sources[b].pending, sources[b].latest}
        /\ b # a => sources'[b].pending = sources[b].pending
  BY <1>0, <1>2 DEF Records, SourceRecords, SameBinding, SameFrames
<1>8. Stage'
  BY <1>0, <1>3 DEF Stage, Starts, SubmittingTexture, SubmittingImage, Outer
<1>9. Attachment'
  BY <1>0, <1>3, <1>4, <1>7
     DEF Attachment, Starts, SameBinding, Submitting, SubmittingTexture, SubmittingImage
<1>10. Numbered'
  BY <1>0, <1>3, <1>7, SourceFields
     DEF Numbered, Starts, SameFrames, Generations, Submitting, SubmittingTexture,
         SubmittingImage
<1>11. Served'
  BY <1>0, <1>3, <1>4, <1>7 DEF Served, Starts, SameBinding
<1> QED
  BY <1>0, <1>5, <1>6, <1>8, <1>9, <1>10, <1>11, Whole

(* What is left to show of a step that schedules or starts a capture.      *)
LEMMA CapturingStep ==
  ASSUME Good, UNCHANGED <<nativeVars, leaseVars, closed, generation, bound>>, Scalars',
         task.at \in {"schedule", "startCapture", "captureRejected"}, Carries, Records',
         task'.at \in {"finally", "close"} \/ (task.at = "schedule" /\ task'.at = "startCapture"),
         \A a \in Sources :
           /\ SameBinding(a) /\ SameFrames(a)
           /\ \/ SameWork(a)
              \/ /\ a = task.by /\ task.at # "captureRejected"
                 /\ sources'[a].pending <= sources[a].latest /\ sources'[a].capture <= sources[a].latest,
         Served'
  PROVE  Good'
<1>0. /\ task.by \in Sources /\ task.caller # "user" /\ Stage /\ Numbered /\ Records /\ Attachment
  BY Working, Parts
<1>1. Native!TypeOK' /\ LeasesTyped' /\ Attachment' /\ Owned' /\ Retained' /\ Closing'
  BY Inside DEF SameBinding, Submitting, SubmittingTexture, SubmittingImage, Outer
<1>2. Stage'
  BY <1>0 DEF Stage, Carries, SubmittingImage, SubmittingTexture, Outer
<1>3. Numbered'
  <2>1. ASSUME NEW a \in Sources
        PROVE  /\ sources'[a].submitted <= sources'[a].latest
               /\ sources'[a].pending <= sources'[a].latest
               /\ sources'[a].capture <= sources'[a].latest
    BY <1>0, <2>1 DEF Numbered, SameFrames, SameWork
  <2> QED
    BY <2>1 DEF Numbered, Submitting, SubmittingImage, SubmittingTexture
<1> QED
  BY <1>1, <1>2, <1>3, Whole

LEMMA StepScheduleCapture == Good /\ ScheduleCapture => Good'
<1> SUFFICES ASSUME Good, ScheduleCapture PROVE Good'
  OBVIOUS
<1>0. /\ task.at = "schedule" /\ task \in Tasks /\ Records
      /\ UNCHANGED <<nativeVars, leaseVars, closed, generation, bound>> /\ Scalars'
      /\ Numbered /\ Served /\ Attachment /\ Stage
  BY Parts DEF ScheduleCapture, Scalars, windowVars, surfaceVars
<1>1. task.by \in Sources /\ task.caller # "capture" /\ 0 \notin Sources
  BY <1>0, Working, Blank DEF Stage, SubmittingImage
<1>2. CASE ~Live(task.by)
  <2>1. Carries /\ task'.at = "finally"
    BY <1>0, <1>2, Ended DEF ScheduleCapture
  <2>2. Records' /\ \A a \in Sources : Same(a)
    BY <1>0, <1>2, Unchanged DEF ScheduleCapture
  <2>3. Served'
    BY <1>0, <1>1, <1>2, <2>1, <2>2
       DEF Served, Attachment, Live, Carries, Same, SameBinding, SameWork
  <2> QED
    BY <1>0, <2>1, <2>2, <2>3, CapturingStep DEF Same
<1>3. CASE Live(task.by)
  <2>1. PICK now \in BOOLEAN :
          /\ sources' = [sources EXCEPT ![task.by].pending = task.gen,
                           ![task.by].timer = @ \/ (MaySchedule /\ ~now)]
          /\ IF MaySchedule /\ now THEN Goto("startCapture") ELSE Done
    BY <1>3 DEF ScheduleCapture
  <2>2. /\ Carries
        /\ IF MaySchedule /\ now THEN task'.at = "startCapture" ELSE task'.at = "finally"
    BY <1>0, <2>1, Ended, Gone DEF Stations
  <2>3. task.gen \in Generations /\ task.gen <= sources[task.by].latest
    BY <1>0, <1>1, Fields DEF Numbered, Src
  <2>4. PICK timer \in BOOLEAN :
          /\ timer <=> (sources[task.by].timer \/ (MaySchedule /\ ~now))
          /\ sources' = [sources EXCEPT ![task.by].pending = task.gen, ![task.by].timer = timer]
    BY <2>1
  <2>5. Records'
    <3>1. sources[task.by] \in SourceRecords
      BY <1>0, <1>1 DEF Records
    <3>2. [sources[task.by] EXCEPT !.pending = task.gen, !.timer = timer] \in SourceRecords
      BY <2>3, <3>1 DEF SourceRecords
    <3>3. sources' = [sources EXCEPT ![task.by] =
                        [sources[task.by] EXCEPT !.pending = task.gen, !.timer = timer]]
      BY <1>0, <1>1, <2>4 DEF Records
    <3> QED
      BY <1>0, <3>2, <3>3 DEF Records
  <2>6. \A a \in Sources :
          /\ SameBinding(a) /\ SameFrames(a) /\ sources'[a].capture = sources[a].capture
          /\ IF a = task.by THEN sources'[a].pending = task.gen /\ sources'[a].timer = timer
             ELSE SameWork(a)
    BY <1>0, <2>4 DEF Records, SourceRecords, SameBinding, SameFrames, SameWork
  <2>7. Served'
    <3>1. /\ sources'[task.by].active => sources'[task.by].monitor \/ task.outer = "attached"
          /\ sources'[task.by].capture # 0 \/ sources'[task.by].timer \/ task'.at = "startCapture"
      BY <1>0, <1>1, <2>2, <2>4, <2>6 DEF Served, MaySchedule, Src, SameBinding
    <3>2. sources[task.by].active
      BY <1>3 DEF Live
    <3> QED
      BY <1>0, <1>1, <2>2, <2>6, <3>1, <3>2 DEF Served, Carries, SameBinding, SameWork
  <2>8. \A a \in Sources :
          SameWork(a) \/ (a = task.by /\ sources'[a].pending <= sources[a].latest
                                      /\ sources'[a].capture <= sources[a].latest)
    BY <1>0, <2>3, <2>6 DEF Numbered
  <2> QED
    BY <1>0, <2>2, <2>5, <2>6, <2>7, <2>8, CapturingStep
<1> QED
  BY <1>2, <1>3

LEMMA StepStartCapture == Good /\ (StartCapture \/ StartCaptureThrows) => Good'
<1> SUFFICES ASSUME Good, StartCapture \/ StartCaptureThrows PROVE Good'
  OBVIOUS
<1>0. /\ task.at = "startCapture" /\ task \in Tasks /\ Records
      /\ UNCHANGED <<nativeVars, leaseVars, closed, generation, bound>> /\ Scalars'
      /\ Numbered /\ Served /\ Attachment /\ Stage
  BY Parts DEF StartCapture, StartCaptureThrows, Scalars, windowVars, surfaceVars
<1>1. task.by \in Sources /\ task.caller # "capture" /\ 0 \notin Sources
  BY <1>0, Working, Blank DEF Stage, SubmittingImage
<1>2. sources[task.by].latest \in Generations /\ sources[task.by].pending \in Generations
  BY <1>0, <1>1, SourceFields
<1>3. CASE StartCapture /\ MayCapture
  <2>1. Carries /\ task'.at \in {"finally", "close"}
    BY <1>0, <1>3, Ended, Gone DEF StartCapture, Stations
  <2>2. PICK capture \in {0, sources[task.by].pending} :
          sources' = [sources EXCEPT ![task.by].pending = 0, ![task.by].capture = capture]
    BY <1>3 DEF StartCapture, Src
  <2>3. Records'
    <3>1. capture \in Generations /\ 0 \in Generations
      BY <1>2, Blank
    <3> QED
      BY <1>0, <2>2, <3>1 DEF Records, SourceRecords
  <2>4. \A a \in Sources :
          /\ SameBinding(a) /\ SameFrames(a) /\ sources'[a].timer = sources[a].timer
          /\ IF a = task.by THEN sources'[a].pending = 0 /\ sources'[a].capture = capture
             ELSE SameWork(a)
    BY <1>0, <2>2 DEF Records, SourceRecords, SameBinding, SameFrames, SameWork
  <2>5. Served'
    BY <1>0, <1>1, <2>1, <2>4 DEF Served, Carries, SameBinding, SameWork
  <2>6. 0 <= sources[task.by].latest /\ capture <= sources[task.by].latest
    BY <1>0, <1>1, <1>2, <2>2 DEF Numbered, Generations
  <2>7. \A a \in Sources :
          SameWork(a) \/ (a = task.by /\ sources'[a].pending <= sources[a].latest
                                      /\ sources'[a].capture <= sources[a].latest)
    BY <2>4, <2>6
  <2> QED
    BY <1>0, <2>1, <2>3, <2>4, <2>5, <2>7, CapturingStep
<1>4. CASE StartCapture /\ ~MayCapture
  <2>1. Carries /\ task'.at = "finally"
    BY <1>0, <1>4, Ended DEF StartCapture
  <2>2. Records' /\ \A a \in Sources : Same(a)
    BY <1>0, <1>4, Unchanged DEF StartCapture
  <2>3. Served'
    BY <1>0, <1>1, <1>4, <2>1, <2>2
       DEF Served, Attachment, Live, MayCapture, Src, Carries, Same, SameBinding, SameWork
  <2> QED
    BY <1>0, <2>1, <2>2, <2>3, CapturingStep DEF Same
<1>5. CASE StartCaptureThrows
  <2>1. Carries /\ task'.at = "finally"
    BY <1>0, <1>5, Ended DEF StartCaptureThrows
  <2>2. sources' = [sources EXCEPT ![task.by].timer = TRUE] /\ Live(task.by)
    BY <1>5 DEF StartCaptureThrows, Update, MayCapture
  <2>3. Records'
    BY <1>0, <2>2 DEF Records, SourceRecords
  <2>4. \A a \in Sources :
          /\ SameBinding(a) /\ SameFrames(a)
          /\ sources'[a].pending = sources[a].pending /\ sources'[a].capture = sources[a].capture
          /\ IF a = task.by THEN sources'[a].timer = TRUE ELSE SameWork(a)
    BY <1>0, <2>2 DEF Records, SourceRecords, SameBinding, SameFrames, SameWork
  <2>5. Served'
    BY <1>0, <1>1, <2>1, <2>2, <2>4 DEF Served, Live, Carries, SameBinding, SameWork
  <2>6. \A a \in Sources :
          SameWork(a) \/ (a = task.by /\ sources'[a].pending <= sources[a].latest
                                      /\ sources'[a].capture <= sources[a].latest)
    BY <1>0, <2>4 DEF Numbered
  <2> QED
    BY <1>0, <2>1, <2>3, <2>4, <2>5, <2>6, CapturingStep
<1> QED
  BY <1>3, <1>4, <1>5

LEMMA StepCaptureRejectedState == Good /\ CaptureRejectedState => Good'
<1> SUFFICES ASSUME Good, CaptureRejectedState PROVE Good'
  OBVIOUS
<1>0. /\ task.at = "captureRejected" /\ task \in Tasks /\ Records /\ UNCHANGED sources
      /\ UNCHANGED <<nativeVars, leaseVars, closed, generation, bound>> /\ Scalars' /\ Served
  BY Parts DEF CaptureRejectedState, Scalars, sourceVars, windowVars, surfaceVars
<1>1. Carries /\ task'.at \in {"finally", "close"}
  BY <1>0, Ended, Gone DEF CaptureRejectedState, Stations
<1>2. Records' /\ \A a \in Sources : Same(a)
  BY <1>0, Unchanged
<1>3. Served'
  BY <1>0, <1>1, <1>2 DEF Served, Carries, Same, SameBinding, SameWork
<1> QED
  BY <1>0, <1>1, <1>2, <1>3, CapturingStep DEF Same

-----------------------------------------------------------------------------
(* Attaching a window and following the size of the surface.               *)
LEMMA Surrounding ==
  ASSUME Good, task.at \in Outer
  PROVE  /\ task.by \in Sources /\ task.caller \notin {"user", "capture"} /\ task.texture = NoTexture
         /\ task.at \notin {"idle", "paint", "finally", "close", "closing", "schedule", "startCapture"}
         /\ task.at \notin Submitting
         /\ closed \/ task.by = bound
<1>1. Stage /\ Attachment /\ Owned /\ task.by \in 0 .. MaxSources /\ (task.by # 0 => task.by \in Sources)
  BY Parts, Fields
<1> QED
  BY <1>1 DEF Stage, Attachment, Owned, Outer, Submitting, SubmittingTexture, SubmittingImage

Leaves ==
  /\ task' \in Tasks /\ task'.at = "finally"
  /\ task'.by = task.by /\ task'.caller = task.caller
  /\ task'.texture = task.texture /\ task'.outer = "none"

LEMMA DetachStep ==
  ASSUME Good, task.at \in Outer, Leaves, Detach(task.by), Scalars',
         UNCHANGED <<nativeVars, leaseVars, closed, generation>>
  PROVE  Good'
<1>0. /\ Stage /\ Numbered /\ Served /\ Attachment /\ Owned /\ Retained /\ Closing
      /\ LeasesTyped /\ Native!TypeOK /\ Records /\ 0 \notin Sources
  BY Parts, Blank
<1>1. /\ task.by \in Sources /\ task.caller \notin {"user", "capture"} /\ task.texture = NoTexture
      /\ task.at \notin {"idle", "paint", "finally", "close", "closing", "schedule", "startCapture"}
      /\ task.at \notin Submitting
      /\ closed \/ task.by = bound
  BY Surrounding
<1>2. /\ Records'
      /\ \A a \in Sources :
           IF a = task.by
           THEN /\ SameFrames(a) /\ sources'[a].capture = sources[a].capture
                /\ sources'[a].pending = 0
                /\ ~sources'[a].active /\ ~sources'[a].timer /\ ~sources'[a].monitor
           ELSE sources'[a] = sources[a]
      /\ bound' = IF bound = task.by THEN 0 ELSE bound
  BY <1>0, <1>1, Detaches
<1>3. Native!TypeOK' /\ LeasesTyped'
  BY <1>0 DEF Native!TypeOK, LeasesTyped, nativeVars, leaseVars
<1>4. Stage'
  BY <1>1 DEF Stage, Leaves, SubmittingTexture, Outer
<1>5. Attachment'
  BY <1>0, <1>1, <1>2 DEF Attachment, Leaves, Submitting, SubmittingTexture, SubmittingImage
<1>6. Numbered'
  <2>1. ASSUME NEW a \in Sources
        PROVE  /\ sources'[a].submitted <= sources'[a].latest
               /\ sources'[a].pending <= sources'[a].latest
               /\ sources'[a].capture <= sources'[a].latest
    BY <1>0, <1>2, <2>1, SourceFields DEF Numbered, SameFrames, Generations
  <2> QED
    BY <2>1 DEF Numbered, Leaves, Submitting, SubmittingTexture, SubmittingImage
<1>7. Served'
  BY <1>0, <1>1, <1>2 DEF Served, Attachment, Leaves
<1>8. Owned'
  BY <1>0, <1>1 DEF Owned, Leaves, Leased, Outer, leaseVars
<1>9. Retained' /\ Closing'
  BY <1>0, <1>1 DEF Retained, Closing, Leaves, LeasesMonitored, Leased, leaseVars, nativeVars
<1> QED
  BY <1>2, <1>3, <1>4, <1>5, <1>6, <1>7, <1>8, <1>9, Whole

(* What is left to show of a step around webContents.invalidate().         *)
LEMMA OuterStep ==
  ASSUME Good, task.at \in Outer, UNCHANGED <<nativeVars, leaseVars, closed, generation, bound>>, Scalars',
         task' \in Tasks, task'.by = task.by, task'.caller = task.caller, task'.texture = task.texture,
         Records', \A a \in Sources : SameFrames(a) /\ SameWork(a) /\ sources'[a].active = sources[a].active,
         \A a \in Sources : sources'[a].monitor => sources[a].monitor \/ sources[a].active,
         \A a \in Sources : sources'[a].active =>
            sources'[a].monitor \/ task'.outer = "attached" \/ task'.at \in {"attachResize", "attached"},
         \/ task'.at \in {"attached", "monitored", "close", "finally"} /\ task'.outer = "none"
         \/ task'.at = "invalidating" /\ task'.outer # "none"
  PROVE  Good'
<1>0. /\ Stage /\ Numbered /\ Served /\ Attachment /\ Owned /\ Retained /\ Closing
      /\ LeasesTyped /\ Native!TypeOK /\ Records /\ 0 \notin Sources
  BY Parts, Blank
<1>1. /\ task.by \in Sources /\ task.caller \notin {"user", "capture"} /\ task.texture = NoTexture
      /\ task.at \notin {"idle", "paint", "finally", "close", "closing", "schedule", "startCapture"}
      /\ task.at \notin Submitting
      /\ closed \/ task.by = bound
  BY Surrounding
<1>3. Native!TypeOK' /\ LeasesTyped'
  BY <1>0 DEF Native!TypeOK, LeasesTyped, nativeVars, leaseVars
<1>4. Stage'
  BY <1>0, <1>1 DEF Stage, SubmittingTexture, Outer
<1>5. Attachment'
  BY <1>0, <1>1 DEF Attachment, Submitting, SubmittingTexture, SubmittingImage
<1>6. Numbered'
  <2>1. ASSUME NEW a \in Sources
        PROVE  /\ sources'[a].submitted <= sources'[a].latest
               /\ sources'[a].pending <= sources'[a].latest
               /\ sources'[a].capture <= sources'[a].latest
    BY <1>0, <2>1 DEF Numbered, SameFrames, SameWork
  <2> QED
    BY <2>1 DEF Numbered, Submitting, SubmittingTexture, SubmittingImage
<1>7. Served'
  BY <1>0, <1>1 DEF Served, SameWork
<1>8. Owned'
  BY <1>0, <1>1 DEF Owned, Leased, Outer, leaseVars
<1>9. Retained' /\ Closing'
  BY <1>0, <1>1 DEF Retained, Closing, LeasesMonitored, Leased, leaseVars, nativeVars
<1> QED
  BY <1>3, <1>4, <1>5, <1>6, <1>7, <1>8, <1>9, Whole

LEMMA StepAttachResize == Good /\ AttachResize => Good'
<1> SUFFICES ASSUME Good, AttachResize PROVE Good'
  OBVIOUS
<1>0. /\ task.at = "attachResize" /\ task.at \in Outer /\ task \in Tasks /\ Records
      /\ UNCHANGED <<nativeVars, leaseVars, closed, generation>>
      /\ Stage /\ Served /\ Scalars /\ task.outer = "none" /\ task.by \in Sources
  BY Parts, Surrounding DEF AttachResize, Outer, Stage
<1>1. CASE Detach(task.by) /\ Done /\ UNCHANGED windowVars
  <2>1. Leaves
    BY <1>0, <1>1, Ended DEF Leaves, Carries
  <2>2. bound' \in {0, bound}
    BY <1>0, <1>1, Detaches
  <2>3. Scalars'
    BY <1>0, <1>1, <2>2, Blank DEF AttachResize, Scalars, windowVars, surfaceVars
  <2> QED
    BY <1>0, <1>1, <2>1, <2>3, DetachStep
<1>2. CASE /\ content' \in SizesRead
           /\ task' = [task EXCEPT !.at = "invalidating", !.outer = "attached"]
           /\ UNCHANGED <<due, bound, sources>>
  <2>1. /\ task' \in Tasks /\ task'.by = task.by /\ task'.caller = task.caller
        /\ task'.texture = task.texture /\ task'.at = "invalidating" /\ task'.outer = "attached"
    BY <1>0, <1>2 DEF Tasks, Stations, Outer
  <2>2. Scalars'
    BY <1>0, <1>2, Parts
       DEF AttachResize, Scalars, surfaceVars, SizesRead, WindowSizes, Native!TypeOK
  <2>3. Records' /\ \A a \in Sources : Same(a)
    BY <1>0, <1>2, Unchanged
  <2> QED
    BY <1>0, <1>2, <2>1, <2>2, <2>3, OuterStep DEF Same, SameBinding
<1> QED
  BY <1>1, <1>2 DEF AttachResize

LEMMA StepInvalidateReturns == Good /\ InvalidateReturns => Good'
<1> SUFFICES ASSUME Good, InvalidateReturns PROVE Good'
  OBVIOUS
<1>0. /\ task.at = "invalidating" /\ task.at \in Outer /\ task \in Tasks /\ Records
      /\ UNCHANGED <<nativeVars, leaseVars, closed, generation, bound, sources>> /\ Scalars'
      /\ Stage /\ Served /\ task.outer \in {"attached", "monitored"}
  BY Parts, Fields DEF InvalidateReturns, Outer, Stage, Scalars, sourceVars, surfaceVars
<1>1. /\ task' \in Tasks /\ task'.by = task.by /\ task'.caller = task.caller
      /\ task'.texture = task.texture /\ task'.at = task.outer /\ task'.outer = "none"
  <2>1. task.outer \in Stations
    BY <1>0 DEF Stations, Outer
  <2> QED
    BY <1>0, <2>1 DEF InvalidateReturns, Tasks
<1>2. Records' /\ \A a \in Sources : Same(a)
  BY <1>0, Unchanged
<1>3. \A a \in Sources : sources[a].active => sources[a].monitor \/ task.outer = "attached"
  BY <1>0 DEF Served
<1> QED
  BY <1>0, <1>1, <1>2, <1>3, OuterStep DEF Same, SameBinding

LEMMA StepInvalidateThrows == Good /\ InvalidateThrows => Good'
<1> SUFFICES ASSUME Good, InvalidateThrows PROVE Good'
  OBVIOUS
<1>0. /\ task.at = "invalidating" /\ task.at \in Outer /\ task \in Tasks /\ Records
      /\ UNCHANGED <<nativeVars, leaseVars, closed, generation>>
      /\ Stage /\ Served /\ Scalars /\ task.outer \in {"attached", "monitored"} /\ task.by \in Sources
  BY Parts, Fields, Surrounding DEF InvalidateThrows, Outer, Stage
<1>1. CASE task.outer = "attached"
  <2>1. Leaves
    BY <1>0, <1>1 DEF InvalidateThrows, Leaves, Tasks, Stations
  <2>2. Detach(task.by) /\ bound' \in {0, bound}
    BY <1>0, <1>1, Detaches DEF InvalidateThrows
  <2>3. Scalars'
    BY <1>0, <2>2, Blank DEF InvalidateThrows, Scalars, windowVars, surfaceVars
  <2> QED
    BY <1>0, <2>1, <2>2, <2>3, DetachStep
<1>2. CASE task.outer = "monitored"
  <2>1. /\ task' \in Tasks /\ task'.by = task.by /\ task'.caller = task.caller
        /\ task'.texture = task.texture /\ task'.at = "close" /\ task'.outer = "none"
        /\ UNCHANGED <<sources, bound>>
    BY <1>0, <1>2 DEF InvalidateThrows, Tasks, Stations
  <2>2. Scalars'
    BY <1>0, <2>1 DEF InvalidateThrows, Scalars, windowVars, surfaceVars
  <2>3. Records' /\ \A a \in Sources : Same(a)
    BY <1>0, <2>1, Unchanged
  <2>4. \A a \in Sources : sources[a].active => sources[a].monitor
    BY <1>0, <1>2 DEF Served
  <2> QED
    BY <1>0, <2>1, <2>2, <2>3, <2>4, OuterStep DEF Same, SameBinding
<1> QED
  BY <1>0, <1>1, <1>2

LEMMA StepAttached == Good /\ Attached => Good'
<1> SUFFICES ASSUME Good, Attached PROVE Good'
  OBVIOUS
<1>0. /\ task.at = "attached" /\ task.at \in Outer /\ task \in Tasks /\ Records /\ Done
      /\ UNCHANGED <<nativeVars, leaseVars, closed, generation>>
      /\ Stage /\ Served /\ Attachment /\ Scalars /\ task.outer = "none" /\ task.by \in Sources
      /\ (closed \/ task.by = bound)
  BY Parts, Surrounding DEF Attached, Outer, Stage
<1>1. Leaves /\ Carries
  BY <1>0, Ended DEF Leaves, Carries
<1>2. CASE closed
  <2>1. Detach(task.by) /\ bound' \in {0, bound}
    BY <1>0, <1>2, Detaches DEF Attached
  <2>2. Scalars'
    BY <1>0, <2>1, Blank DEF Attached, Scalars, windowVars, surfaceVars
  <2> QED
    BY <1>0, <1>1, <2>1, <2>2, DetachStep
<1>3. CASE ~closed
  <2>1. sources' = [sources EXCEPT ![task.by].monitor = TRUE] /\ UNCHANGED bound
    BY <1>3 DEF Attached, Update
  <2>2. Scalars'
    BY <1>0, <2>1 DEF Attached, Scalars, windowVars, surfaceVars
  <2>3. Records'
    BY <1>0, <2>1 DEF Records, SourceRecords
  <2>4. \A a \in Sources :
          /\ SameFrames(a) /\ SameWork(a) /\ sources'[a].active = sources[a].active
          /\ sources'[a].monitor <=> sources[a].monitor \/ a = task.by
    BY <1>0, <2>1 DEF Records, SourceRecords, SameFrames, SameWork
  <2>5. \A a \in Sources : sources[a].active <=> a = task.by
    BY <1>0, <1>3 DEF Attachment
  <2> QED
    BY <1>0, <1>1, <2>1, <2>2, <2>3, <2>4, <2>5, OuterStep DEF Leaves
<1> QED
  BY <1>2, <1>3

LEMMA StepAttach == Good /\ Attach => Good'
<1> SUFFICES ASSUME Good, Attach PROVE Good'
  OBVIOUS
<1> DEFINE new == generation + 1
<1>0. /\ task.at = "idle" /\ ~closed /\ generation < MaxSources /\ task = NoTask /\ task.caller = "none"
      /\ task.outer = "none" /\ task.texture = NoTexture
      /\ Stage /\ Numbered /\ Served /\ Attachment /\ Owned /\ Retained /\ Closing
      /\ LeasesTyped /\ Native!TypeOK /\ Records /\ Scalars /\ 0 \notin Sources
  BY Parts, Blank DEF Attach, Stage, NoTask
<1>1. /\ generation' = new /\ bound' = new /\ closed' = closed
      /\ UNCHANGED <<nativeVars, leaseVars>>
      /\ task' = [NoTask EXCEPT !.at = "attachResize", !.by = new, !.caller = "attach"]
      /\ sources' = [a \in Sources |->
           IF a = new THEN [NewSource EXCEPT !.active = TRUE]
           ELSE IF a = bound THEN Detached(sources[a]) ELSE sources[a]]
  BY DEF Attach
<1>2. new \in Sources /\ new \in 0 .. MaxSources /\ new # 0 /\ new \in 0 .. MaxSources + 1
  BY <1>0 DEF Scalars, Sources
<1> HIDE DEF new
<1>3. /\ task' \in Tasks /\ task'.at = "attachResize" /\ task'.by = new /\ task'.caller = "attach"
      /\ task'.texture = NoTexture /\ task'.outer = "none"
  BY <1>1, <1>2, Blank DEF NoTask, Tasks, Stations, Outer, Callers, Generations
<1>4. Records'
  <2>1. [NewSource EXCEPT !.active = TRUE] \in SourceRecords
    BY Blank DEF NewSource, SourceRecords
  <2>2. \A a \in Sources : sources[a] \in SourceRecords /\ Detached(sources[a]) \in SourceRecords
    BY <1>0, Blank DEF Records, Detached, SourceRecords
  <2> QED
    BY <1>1, <2>1, <2>2 DEF Records
<1>5. \A a \in Sources :
        IF a = new
        THEN /\ sources'[a].active /\ ~sources'[a].timer /\ ~sources'[a].monitor
             /\ sources'[a].latest = 0 /\ sources'[a].submitted = 0
             /\ sources'[a].pending = 0 /\ sources'[a].capture = 0
        ELSE IF a = bound
        THEN /\ SameFrames(a) /\ sources'[a].capture = sources[a].capture
             /\ sources'[a].pending = 0
             /\ ~sources'[a].active /\ ~sources'[a].timer /\ ~sources'[a].monitor
        ELSE sources'[a] = sources[a]
  BY <1>0, <1>1 DEF NewSource, Detached, Records, SourceRecords, SameFrames
<1>6. Native!TypeOK' /\ LeasesTyped'
  BY <1>0, <1>1 DEF Native!TypeOK, LeasesTyped, nativeVars, leaseVars
<1>7. Scalars'
  BY <1>0, <1>1, <1>2 DEF Attach, Scalars, surfaceVars, WindowSizes
<1>8. Stage'
  BY <1>2, <1>3 DEF Stage, SubmittingTexture, Outer
<1>9. Attachment'
  <2>1. \A a \in Sources : sources'[a].active <=> a = bound'
    BY <1>0, <1>1, <1>5 DEF Attachment
  <2>2. generation' <= MaxSources
    BY <1>1, <1>2
  <2> QED
    BY <1>0, <1>1, <1>3, <2>1, <2>2
       DEF Attachment, Submitting, SubmittingTexture, SubmittingImage
<1>10. Numbered'
  <2>1. ASSUME NEW a \in Sources
        PROVE  /\ sources'[a].submitted <= sources'[a].latest
               /\ sources'[a].pending <= sources'[a].latest
               /\ sources'[a].capture <= sources'[a].latest
    BY <1>0, <1>5, <2>1, SourceFields DEF Numbered, SameFrames, Generations
  <2> QED
    BY <1>3, <2>1 DEF Numbered, Submitting, SubmittingTexture, SubmittingImage
<1>11. Served'
  BY <1>0, <1>3, <1>5 DEF Served, Attachment
<1>12. Owned'
  BY <1>0, <1>1, <1>3 DEF Owned, Leased, Outer, leaseVars
<1>13. Retained' /\ Closing'
  BY <1>0, <1>1, <1>3 DEF Retained, Closing, LeasesMonitored, Leased, leaseVars, nativeVars
<1> QED
  BY <1>4, <1>6, <1>7, <1>8, <1>9, <1>10, <1>11, <1>12, <1>13, Whole

LEMMA StepMonitorSize == ASSUME Good, NEW a \in Sources, MonitorSize(a) PROVE Good'
<1>0. /\ Records /\ Stage /\ Numbered /\ Served /\ Attachment /\ Closing /\ Drain
      /\ UNCHANGED <<sources, closed, generation, bound>> /\ Scalars'
      /\ a \in 0 .. MaxSources /\ a # 0 /\ sources[a].active
  BY Parts DEF MonitorSize, Scalars, sourceVars, windowVars, surfaceVars, Sources, Served
<1>1. Starts(a, "monitor", "monitorResize")
  BY <1>0, Started DEF MonitorSize, Starts, Callers, Stations, Outer
<1>2. task.outer = "none" /\ task.caller = "none" /\ task.texture = NoTexture
  BY <1>0, <1>1 DEF Starts, Stage, NoTask
<1>3. Owned' /\ Retained'
  BY <1>0, <1>1, <1>2, DrainsOwned DEF Starts
<1>4. Stage' /\ Records'
  BY <1>0, <1>1 DEF Stage, Starts, Records, SubmittingTexture, Outer
<1>5. Attachment' /\ Numbered' /\ Served'
  BY <1>0, <1>1, <1>2
     DEF Attachment, Numbered, Served, Starts, Submitting, SubmittingTexture, SubmittingImage
<1>6. Closing'
  BY <1>0, <1>1, Drains DEF Closing, Starts, Leased
<1> QED
  BY <1>0, <1>3, <1>4, <1>5, <1>6, Drains, Whole

LEMMA StepMonitorResize == Good /\ MonitorResize => Good'
<1> SUFFICES ASSUME Good, MonitorResize PROVE Good'
  OBVIOUS
<1>0. /\ task.at = "monitorResize" /\ task.at \in Outer /\ task \in Tasks /\ Records
      /\ UNCHANGED <<nativeVars, leaseVars, closed, generation, bound>>
      /\ Stage /\ Served /\ task.outer = "none"
  BY Parts DEF MonitorResize, Outer, Stage
<1>1. Scalars'
  BY Parts DEF MonitorResize, Scalars, surfaceVars, SizesRead, WindowSizes, Native!TypeOK
<1>2. Records' /\ \A a \in Sources : Same(a)
  BY <1>0, Flagged, Unchanged DEF MonitorResize
<1>3. /\ task' \in Tasks /\ task'.by = task.by /\ task'.caller = task.caller /\ task'.texture = task.texture
      /\ \/ task'.at \in {"monitored", "close"} /\ task'.outer = "none"
         \/ task'.at = "invalidating" /\ task'.outer = "monitored"
  <2>1. \/ task' = [task EXCEPT !.at = "close"]
        \/ task' = [task EXCEPT !.at = "monitored"]
        \/ task' = [task EXCEPT !.at = "invalidating", !.outer = "monitored"]
    BY DEF MonitorResize, Goto
  <2> QED
    BY <1>0, <2>1 DEF Tasks, Stations, Outer
<1>4. \A a \in Sources : sources[a].active => sources[a].monitor
  BY <1>0 DEF Served
<1> QED
  BY <1>0, <1>1, <1>2, <1>3, <1>4, OuterStep DEF Same, SameBinding

LEMMA StepMonitored == Good /\ Monitored => Good'
<1> SUFFICES ASSUME Good, Monitored PROVE Good'
  OBVIOUS
<1>0. /\ task.at = "monitored" /\ task.at \in Outer /\ task \in Tasks /\ Records
      /\ UNCHANGED <<nativeVars, leaseVars, closed, generation, bound>> /\ Scalars'
      /\ Stage /\ Served /\ Numbered /\ Attachment /\ task.outer = "none"
  BY Parts DEF Monitored, Outer, Stage, Scalars, windowVars, surfaceVars
<1>1. task.by \in Sources /\ task.caller \notin {"user", "capture"}
  BY <1>0, Surrounding
<1>2. \A a \in Sources : sources[a].active => sources[a].monitor
  BY <1>0 DEF Served
<1>3. CASE HasBackend
  <2>1. Carries /\ task'.at = "finally"
    BY <1>0, <1>3, Ended DEF Monitored
  <2>2. Records' /\ \A a \in Sources : Same(a)
    BY <1>0, <1>3, Unchanged DEF Monitored
  <2> QED
    BY <1>0, <1>2, <2>1, <2>2, OuterStep DEF Carries, Same, SameBinding
<1>4. CASE ~HasBackend
  <2>1. NextGeneration \in Generations /\ sources[task.by].latest <= NextGeneration
    BY <1>0, <1>1, NewGeneration
  <2>2. /\ sources' = [sources EXCEPT ![task.by].fallback = TRUE, ![task.by].latest = NextGeneration]
        /\ task' = [task EXCEPT !.at = "schedule", !.gen = NextGeneration]
    BY <1>4 DEF Monitored
  <2>3. Carries /\ task'.at = "schedule" /\ task'.gen = NextGeneration
    BY <1>0, <2>1, <2>2 DEF Carries, Tasks, Stations, Generations
  <2>4. Records'
    BY <1>0, <2>1, <2>2 DEF Records, SourceRecords
  <2>5. \A a \in Sources :
          /\ SameBinding(a) /\ SameWork(a) /\ sources'[a].submitted = sources[a].submitted
          /\ sources'[a].latest = IF a = task.by THEN NextGeneration ELSE sources[a].latest
    BY <1>0, <2>2 DEF Records, SourceRecords, SameBinding, SameWork
  <2>6. Native!TypeOK' /\ LeasesTyped' /\ Attachment' /\ Owned' /\ Retained' /\ Closing'
    BY <1>0, <2>3, <2>5, Inside
       DEF SameBinding, Submitting, SubmittingTexture, SubmittingImage, Outer
  <2>7. Stage'
    BY <1>0, <1>1, <2>3 DEF Stage, Carries, SubmittingTexture, SubmittingImage, Outer
  <2>8. Numbered'
    <3>1. ASSUME NEW a \in Sources
          PROVE  /\ sources'[a].submitted <= sources'[a].latest
                 /\ sources'[a].pending <= sources'[a].latest
                 /\ sources'[a].capture <= sources'[a].latest
      BY <1>0, <2>1, <2>5, <3>1, SourceFields DEF Numbered, SameWork, Generations
    <3>2. task'.gen = sources'[task.by].latest /\ task'.by = task.by /\ task'.gen \in Generations
      BY <1>1, <2>1, <2>3, <2>5 DEF Carries
    <3> QED
      BY <2>3, <3>1, <3>2
         DEF Numbered, Src, Generations, Submitting, SubmittingTexture, SubmittingImage
  <2>9. Served'
    BY <1>0, <1>1, <2>3, <2>5 DEF Served, Carries, SameBinding, SameWork
  <2> QED
    BY <1>0, <2>4, <2>6, <2>7, <2>8, <2>9, Whole
<1> QED
  BY <1>3, <1>4

-----------------------------------------------------------------------------
(* The end of a callback, and close().                                     *)
LEMMA StepFinally == Good /\ Finally => Good'
<1> SUFFICES ASSUME Good, Finally PROVE Good'
  OBVIOUS
<1>0. /\ task.at = "finally" /\ task \in Tasks /\ Records
      /\ Stage /\ Numbered /\ Served /\ Attachment /\ Owned /\ Retained /\ Closing
      /\ LeasesTyped /\ Native!TypeOK /\ 0 \notin Sources
  BY Parts, Blank DEF Finally
<1>1. /\ UNCHANGED <<nativeVars, closed, generation, bound, leases, nextSubmissionId, leaseMonitor>>
      /\ out' = out \ {task.texture} /\ Scalars'
  BY Parts DEF Finally, Scalars, windowVars, surfaceVars
<1>2. /\ Native!TypeOK' /\ LeasesTyped'
  BY <1>0, <1>1 DEF Native!TypeOK, LeasesTyped, nativeVars
<1>3. ASSUME task'.texture = NoTexture, task'.at \in {"idle", "schedule", "attached", "monitored"}
      PROVE  Owned' /\ Retained' /\ Closing'
  <2>1. out' = {leases[i] : i \in Ids} \ {NoTexture}
    BY <1>0, <1>1 DEF Owned
  <2>2. Owned'
    BY <1>0, <1>1, <1>3, <2>1 DEF Owned, Leased
  <2>3. Retained' /\ Closing'
    BY <1>0, <1>1, <1>3 DEF Retained, Closing, LeasesMonitored, Leased, nativeVars
  <2> QED
    BY <2>2, <2>3
<1>4. NoTask \in Tasks /\ NoTask.at = "idle" /\ NoTask.by = 0 /\ NoTask.caller = "none"
      /\ NoTask.texture = NoTexture /\ NoTask.outer = "none"
  BY Blank DEF NoTask, Tasks, Stations, Callers, Generations
<1>5. CASE task.caller # "capture"
  <2>1. UNCHANGED sources
    BY <1>5 DEF Finally
  <2>2. CASE task.outer = "none"
    <3>1. task' = NoTask
      BY <1>5, <2>2 DEF Finally
    <3>2. Stage'
      BY <1>4, <3>1 DEF Stage, SubmittingTexture, Outer, NoTask
    <3>3. Records' /\ Attachment' /\ Numbered' /\ Served'
      BY <1>0, <1>1, <1>4, <2>1, <2>2, <3>1
         DEF Records, Attachment, Numbered, Served, Submitting, SubmittingTexture,
         SubmittingImage
    <3> QED
      BY <1>1, <1>2, <1>3, <1>4, <3>1, <3>2, <3>3, Whole
  <2>3. CASE task.outer # "none"
    <3>1. task.by \in Sources /\ task.outer \in {"attached", "monitored"}
      BY <1>0, <2>3, Fields DEF Stage
    <3>2. task' = [NoTask EXCEPT !.at = task.outer, !.by = task.by]
      BY <1>5, <2>3 DEF Finally
    <3>3. /\ task' \in Tasks /\ task'.at = task.outer /\ task'.by = task.by /\ task'.caller = "none"
          /\ task'.texture = NoTexture /\ task'.outer = "none"
      <4>1. task.by \in 0 .. MaxSources /\ task.outer \in Stations
        BY <1>0, <3>1, Fields DEF Stations, Outer
      <4> QED
        BY <1>4, <3>2, <4>1 DEF Tasks
    <3>4. Stage'
      BY <1>0, <3>1, <3>3 DEF Stage, SubmittingTexture, SubmittingImage, Outer
    <3>5. Attachment'
      BY <1>0, <1>1, <2>1, <3>1, <3>3
         DEF Attachment, Submitting, SubmittingTexture, SubmittingImage
    <3>6. Records' /\ Numbered' /\ Served'
      BY <1>0, <1>1, <2>1, <3>1, <3>3
         DEF Records, Numbered, Served, Submitting, SubmittingTexture, SubmittingImage
    <3> QED
      BY <1>1, <1>2, <1>3, <3>1, <3>3, <3>4, <3>5, <3>6, Whole
  <2> QED
    BY <2>2, <2>3
<1>6. CASE task.caller = "capture"
  <2>1. task.by \in Sources /\ task.outer = "none"
    BY <1>0, <1>6, Fields DEF Stage
  <2>2. sources' = [sources EXCEPT ![task.by].capture = 0]
    BY <1>6 DEF Finally, Update
  <2>3. Records'
    BY <1>0, <2>2, Blank DEF Records, SourceRecords
  <2>4. \A a \in Sources :
          /\ SameBinding(a) /\ SameFrames(a)
          /\ sources'[a].timer = sources[a].timer /\ sources'[a].pending = sources[a].pending
          /\ sources'[a].capture = IF a = task.by THEN 0 ELSE sources[a].capture
    BY <1>0, <2>2 DEF Records, SourceRecords, SameBinding, SameFrames
  <2>5. \A a \in Sources :
          /\ sources'[a].submitted <= sources'[a].latest
          /\ sources'[a].pending <= sources'[a].latest
          /\ sources'[a].capture <= sources'[a].latest
    BY <1>0, <2>4, SourceFields DEF Numbered, SameFrames, Generations
  <2>6. CASE CapturesAgain
    <3>1. /\ task' = [NoTask EXCEPT !.at = "schedule", !.by = task.by, !.gen = sources[task.by].pending]
          /\ sources[task.by].active /\ ~closed
      BY <1>6, <2>6 DEF Finally, CapturesAgain, Live, Src
    <3>2. /\ task' \in Tasks /\ task'.at = "schedule" /\ task'.by = task.by /\ task'.caller = "none"
          /\ task'.texture = NoTexture /\ task'.outer = "none" /\ task'.gen = sources[task.by].pending
      <4>1. task.by \in 0 .. MaxSources /\ sources[task.by].pending \in Generations
        BY <1>0, <2>1, Fields, SourceFields
      <4> QED
        BY <1>4, <3>1, <4>1 DEF Tasks, Stations, Generations
    <3>3. Stage'
      BY <2>1, <3>2, <1>0 DEF Stage, SubmittingTexture, Outer
    <3>4. Attachment'
      BY <1>0, <1>1, <2>1, <2>4, <3>1, <3>2
         DEF Attachment, SameBinding, Submitting, SubmittingTexture, SubmittingImage
    <3>5. Numbered'
      BY <2>1, <2>4, <2>5, <3>2
         DEF Numbered, Src, Submitting, SubmittingTexture, SubmittingImage
    <3>6. Served'
      BY <1>0, <1>6, <2>1, <2>4, <3>2 DEF Served, SameBinding
    <3> QED
      BY <1>1, <1>2, <1>3, <2>3, <3>2, <3>3, <3>4, <3>5, <3>6, Whole
  <2>7. CASE ~CapturesAgain
    <3>1. task' = NoTask
      BY <1>6, <2>7 DEF Finally
    <3>2. Stage'
      BY <1>4, <3>1 DEF Stage, SubmittingTexture, Outer, NoTask
    <3>3. Attachment' /\ Numbered'
      BY <1>0, <1>1, <1>4, <2>4, <2>5, <3>1
         DEF Attachment, Numbered, SameBinding, Submitting, SubmittingTexture, SubmittingImage
    <3>4. sources[task.by].active => sources[task.by].pending = 0
      BY <1>0, <2>1, <2>7 DEF CapturesAgain, Live, Src, Attachment
    <3>5. Served'
      BY <1>0, <1>4, <2>1, <2>4, <3>1, <3>4 DEF Served, SameBinding
    <3> QED
      BY <1>1, <1>2, <1>3, <1>4, <2>3, <3>1, <3>2, <3>3, <3>5, Whole
  <2> QED
    BY <2>6, <2>7
<1> QED
  BY <1>5, <1>6

LEMMA StepCloseBegin == Good /\ CloseBegin => Good'
<1> SUFFICES ASSUME Good, CloseBegin PROVE Good'
  OBVIOUS
<1>0. /\ task.at = "close" /\ task \in Tasks /\ Records
      /\ Stage /\ Numbered /\ Served /\ Attachment /\ Owned /\ Retained /\ Closing
      /\ LeasesTyped /\ Native!TypeOK /\ Scalars /\ 0 \notin Sources
  BY Parts, Blank DEF CloseBegin
<1>1. UNCHANGED leaseVars /\ UNCHANGED windowVars /\ UNCHANGED surfaceVars
  BY DEF CloseBegin
<1>2. CASE closed
  <2>1. Carries /\ task'.at = "finally" /\ UNCHANGED <<nativeVars, closed, generation, bound, sources>>
    BY <1>0, <1>2, Ended DEF CloseBegin, sourceVars
  <2>2. Native!TypeOK' /\ LeasesTyped' /\ Records' /\ Scalars'
    BY <1>0, <1>1, <2>1
       DEF Native!TypeOK, LeasesTyped, Records, Scalars, nativeVars, leaseVars, windowVars, surfaceVars
  <2>3. Stage'
    BY <1>0, <2>1 DEF Stage, Carries, SubmittingTexture, SubmittingImage, Outer
  <2>4. Attachment' /\ Numbered' /\ Served'
    BY <1>0, <2>1
       DEF Attachment, Numbered, Served, Carries, Submitting, SubmittingTexture, SubmittingImage
  <2>5. Owned' /\ Retained' /\ Closing'
    BY <1>0, <1>1, <2>1
       DEF Owned, Retained, Closing, Carries, LeasesMonitored, Leased, Outer, leaseVars,
       nativeVars
  <2> QED
    BY <2>2, <2>3, <2>4, <2>5, Whole
<1>3. CASE ~closed
  <2>1. /\ Carries /\ task'.at = "closing" /\ closed' = TRUE /\ generation' = generation + 1
        /\ UNCHANGED <<size, open, usable, health, holding, queue>> /\ life = "open" /\ life' = "closing"
    BY <1>0, <1>3, Gone DEF CloseBegin, Native!Close, Stations
  <2>2. Records' /\ bound' = 0 /\ \A a \in Sources :
          /\ SameFrames(a) /\ sources'[a].capture = sources[a].capture
          /\ sources'[a].pending = 0 \/ sources'[a].pending = sources[a].pending
          /\ sources'[a].timer => sources[a].timer
          /\ sources'[a].monitor => sources[a].monitor
          /\ sources[a].active => ~sources'[a].timer /\ ~sources'[a].monitor
          /\ ~sources'[a].active
    <3>1. CASE bound = 0
      BY <1>0, <1>3, <3>1, Unchanged
         DEF CloseBegin, Attachment, Same, SameBinding, SameWork, SameFrames
    <3>2. CASE bound # 0
      <4>1. bound \in Sources /\ Detach(bound)
        BY <1>0, <1>3, <3>2 DEF CloseBegin, Scalars, Sources
      <4>2. \A a \in Sources : sources[a].active <=> a = bound
        BY <1>0 DEF Attachment
      <4> QED
        BY <1>0, <4>1, <4>2, Detaches DEF SameFrames
    <3> QED
      BY <3>1, <3>2
  <2>3. Native!TypeOK' /\ LeasesTyped'
    BY <1>0, <1>1, <2>1 DEF Native!TypeOK, LeasesTyped, leaseVars
  <2>4. Scalars'
    <3>1. generation' \in 0 .. MaxSources + 1 /\ bound' \in 0 .. MaxSources
      BY <1>0, <1>3, <2>1, <2>2 DEF Scalars, Attachment
    <3> QED
      BY <1>0, <1>1, <2>1, <3>1 DEF Scalars, windowVars, surfaceVars
  <2>5. Stage'
    BY <1>0, <2>1 DEF Stage, Carries, SubmittingTexture, SubmittingImage, Outer
  <2>6. Attachment'
    BY <1>0, <2>1, <2>2 DEF Attachment, Submitting, SubmittingTexture, SubmittingImage
  <2>7. Numbered'
    <3>1. ASSUME NEW a \in Sources
          PROVE  /\ sources'[a].submitted <= sources'[a].latest
                 /\ sources'[a].pending <= sources'[a].latest
                 /\ sources'[a].capture <= sources'[a].latest
      BY <1>0, <2>2, <3>1, SourceFields DEF Numbered, SameFrames, Generations
    <3> QED
      BY <2>1, <3>1 DEF Numbered, Submitting, SubmittingTexture, SubmittingImage
  <2>8. Served'
    BY <1>0, <2>1, <2>2 DEF Served, Carries
  <2>9. Owned' /\ Retained' /\ Closing'
    BY <1>0, <1>1, <2>1
       DEF Owned, Retained, Closing, Carries, LeasesMonitored, Leased, Outer, leaseVars
  <2> QED
    BY <2>2, <2>3, <2>4, <2>5, <2>6, <2>7, <2>8, <2>9, Whole
<1> QED
  BY <1>2, <1>3

LEMMA StepCloseEnd == Good /\ CloseEnd => Good'
<1> SUFFICES ASSUME Good, CloseEnd PROVE Good'
  OBVIOUS
<1>0. /\ task.at = "closing" /\ life = "closed" /\ task \in Tasks /\ Records
      /\ Stage /\ Numbered /\ Served /\ Attachment /\ Owned /\ Retained /\ Closing
      /\ LeasesTyped /\ Native!TypeOK
  BY Parts DEF CloseEnd
<1>1. /\ UNCHANGED <<size, open, usable, health, life, holding, nextSubmissionId>>
      /\ UNCHANGED <<closed, generation, bound, sources>>
      /\ queue' = {} /\ leaseMonitor' = FALSE
      /\ leases' = [id \in Ids |-> NoTexture]
      /\ out' = out \ TexturesOf(Ids)
  BY DEF CloseEnd, CloseReleases, Native!Take, Release, GiveBack, sourceVars
<1>2. Carries /\ task'.at = "finally"
  BY <1>0, Ended DEF CloseEnd
<1>3. Native!TypeOK' /\ Records'
  BY <1>0, <1>1 DEF Native!TypeOK, Records
<1>4. Scalars'
  BY <1>1, Parts DEF CloseEnd, Scalars, windowVars, surfaceVars
<1>5. LeasesTyped'
  <2>1. leases' \in [Ids -> Textures \cup {NoTexture}]
    BY <1>1
  <2> QED
    BY <1>0, <1>1, <2>1 DEF LeasesTyped
<1>6. Stage'
  BY <1>0, <1>2 DEF Stage, Carries, SubmittingTexture, SubmittingImage, Outer
<1>7. Attachment' /\ Numbered' /\ Served'
  BY <1>0, <1>1, <1>2
     DEF Attachment, Numbered, Served, Carries, Submitting, SubmittingTexture, SubmittingImage
<1>8. Owned'
  <2>1. out' = ({leases'[i] : i \in Ids} \cup {task.texture}) \ {NoTexture}
    BY <1>0, <1>1 DEF Owned, TexturesOf, Leased
  <2> QED
    BY <1>1, <1>2, <2>1 DEF Owned, Carries, Leased, Outer
<1>9. Retained' /\ Closing'
  BY <1>0, <1>1, <1>2 DEF Retained, Closing, LeasesMonitored, Leased
<1> QED
  BY <1>3, <1>4, <1>5, <1>6, <1>7, <1>8, <1>9, Whole

LEMMA StepNativeMoves == Good /\ NativeMoves => Good'
<1> SUFFICES ASSUME Good, NativeMoves PROVE Good'
  OBVIOUS
<1>0. /\ Records /\ Stage /\ Numbered /\ Served /\ Attachment /\ Owned /\ Retained /\ Closing
      /\ LeasesTyped /\ Native!TypeOK /\ Scalars
  BY Parts
<1>1. Native!Native /\ UNCHANGED <<leaseVars, closed, generation, bound, sources, task, content, due>>
  BY DEF NativeMoves, sourceVars, windowVars
<1>2. Native!TypeOK'
  BY <1>0, <1>1
     DEF Native!Native, Native!CloseReturns, Native!Fail, Native!Finish, Native!Shut,
         Native!End,
     Native!Reopen, Native!Complete, Native!TypeOK
<1>3. PICK ids \in SUBSET holding : holding' = holding \ ids /\ queue' = queue \cup ids
  BY <1>0, <1>1
     DEF Native!Native, Native!CloseReturns, Native!Fail, Native!Finish, Native!Shut,
         Native!End,
     Native!Reopen, Native!Complete, Native!TypeOK
<1>4. \/ life' = life
      \/ life = "closing" /\ life' = "closed" /\ holding = {}
  BY <1>1
     DEF Native!Native, Native!CloseReturns, Native!Fail, Native!Finish, Native!Shut,
         Native!End,
     Native!Reopen, Native!Complete
<1>5. fed' \in {"none", "shm", "dmabuf"} /\ failed' \in BOOLEAN
  BY <1>0 DEF NativeMoves, Scalars
<1>6. configures' \in 0 .. MaxConfigures
  BY <1>0 DEF NativeMoves, Scalars
<1>7. Scalars'
  BY <1>0, <1>1, <1>5, <1>6 DEF Scalars
<1>8. LeasesTyped' /\ Records' /\ Stage' /\ Attachment' /\ Numbered' /\ Served'
  BY <1>0, <1>1
     DEF LeasesTyped, Records, Stage, Attachment, Numbered, Served, Src, NoTask, leaseVars
<1>9. Owned'
  BY <1>0, <1>1 DEF Owned, Leased, leaseVars
<1>10. Retained'
  BY <1>0, <1>1, <1>3 DEF Retained, LeasesMonitored, Leased, leaseVars
<1>11. Closing'
  BY <1>0, <1>1, <1>3, <1>4 DEF Closing, Leased, leaseVars
<1> QED
  BY <1>2, <1>7, <1>8, <1>9, <1>10, <1>11, Whole

-----------------------------------------------------------------------------
LEMMA Step == Good /\ [Next]_vars => Good'
<1>1. Good /\ UNCHANGED vars => Good'
  <2> SUFFICES ASSUME Good, UNCHANGED vars PROVE Good'
    OBVIOUS
  <2>1. UNCHANGED <<nativeVars, leaseVars, closed, generation, bound, sources, task,
                    content, due, surfaceVars>>
    BY DEF vars, sourceVars, windowVars
  <2>2. Native!TypeOK' /\ Scalars' /\ LeasesTyped' /\ Records'
    BY <2>1, Parts
       DEF Native!TypeOK, Scalars, LeasesTyped, Records, nativeVars, leaseVars, surfaceVars
  <2>3. Stage' /\ Attachment' /\ Numbered' /\ Served'
    BY <2>1, Parts DEF Stage, Attachment, Numbered, Served, Src, NoTask
  <2>4. Owned' /\ Retained' /\ Closing'
    BY <2>1, Parts DEF Owned, Retained, Closing, LeasesMonitored, Leased, nativeVars, leaseVars
  <2> QED
    BY <2>2, <2>3, <2>4, Whole
<1>2. Good /\ Callbacks => Good'
  <2> SUFFICES ASSUME Good, Callbacks PROVE Good'
    OBVIOUS
  <2>1. CASE Painting
    BY <2>1, StepPaint DEF Painting
  <2>2. CASE LeaseMonitorTicks
    BY <2>2, StepIdleDrain
  <2>3. ASSUME NEW a \in Sources,
               \/ TimerFires(a) \/ MonitorSize(a) \/ Destroyed(a) \/ CaptureRejects(a)
               \/ \E image \in Images \ {"none"} : CaptureResolves(a, image)
        PROVE  Good'
    BY <2>3, StepTimerFires, StepMonitorSize, StepDestroyed, StepCaptureRejects, StepCaptureResolves
  <2> QED
    BY <2>1, <2>2, <2>3 DEF Callbacks
<1>3. Good /\ Running => Good'
  BY StepAttachResize, StepInvalidateReturns, StepInvalidateThrows, StepAttached,
  StepPaintBegin,
     StepTexture, StepTextureResize, StepDmabufSubmitted, StepDmabufRejected,
     StepDrainAfterSubmit,
     StepSubmitImage, StepImageResize, StepFrameSubmitted, StepFrameRejected,
     StepScheduleCapture,
     StepStartCapture, StepCaptureRejectedState, StepMonitorResize, StepMonitored, StepFinally,
     StepCloseBegin, StepCloseEnd DEF Running
<1> QED
  BY <1>1, <1>2, <1>3, StepAttach, StepUserCloses, StepIdleDrain, StepNativeMoves DEF Next

LEMMA Invariant == Spec => []Good
<1>1. Init => Good
  BY InitOverlay DEF Good
<1> QED
  BY <1>1, Step, PTL DEF Spec

(* The variables of LayerShellOverlayController keep their types: a source *)
(* has one record per attachOffscreenWindow, a lease is a texture of the   *)
(* pool or none, and submission ids stay within safe integers.             *)
THEOREM Typed == Spec => []TypeOK
BY Invariant, PTL DEF Good

(* paint() and dmabufLeases: every texture Electron handed over and has    *)
(* not got back is owned once, by the callback that runs or by one lease.  *)
THEOREM OwnedOnce == Spec => []TextureOwnedOnce
<1>1. Good => TextureOwnedOnce
  <2> SUFFICES ASSUME Good, NEW t \in Textures
               PROVE  Cardinality({id \in Ids : leases[id] = t}) + (IF task.texture = t THEN 1 ELSE 0)
                      = IF t \in out THEN 1 ELSE 0
    BY DEF TextureOwnedOnce
  <2>1. Owned /\ t # NoTexture
    BY Parts
  <2>2. t \in out <=> task.texture = t \/ \E id \in Ids : leases[id] = t
    BY <2>1 DEF Owned
  <2>3. CASE \E id \in Ids : leases[id] = t
    <3>1. PICK id \in Ids : leases[id] = t
      BY <2>3
    <3>2. {i \in Ids : leases[i] = t} = {id}
      BY <2>1, <3>1 DEF Owned, Leased
    <3>3. task.texture # t
      BY <2>1, <3>1 DEF Owned
    <3>4. Cardinality({i \in Ids : leases[i] = t}) = 1
      BY <3>2, FS_Singleton
    <3> QED
      BY <2>2, <2>3, <3>3, <3>4
  <2>4. CASE ~\E id \in Ids : leases[id] = t
    <3>1. {i \in Ids : leases[i] = t} = {}
      BY <2>4
    <3>2. Cardinality({i \in Ids : leases[i] = t}) = 0
      BY <3>1, FS_EmptySet
    <3> QED
      BY <2>2, <2>4, <3>2
  <2> QED
    BY <2>3, <2>4
<1> QED
  BY <1>1, Invariant, PTL

(* allocateSubmissionId and drainReleasedDmabufs: the texture of a DMA-BUF *)
(* the native side may still use is not given back, however often the ids  *)
(* wrap, and the interval that gives textures back runs while there is one.*)
THEOREM TexturesRetained == Spec => []HeldTexturesRetained
<1>1. Good => HeldTexturesRetained
  BY Parts DEF Retained, HeldTexturesRetained
<1> QED
  BY <1>1, Invariant, PTL

(* No callback of an attached window ends with nobody left to go on: its   *)
(* size is monitored, and a capture it wants is under way or has a timer.  *)
THEOREM WindowServed == Spec => []SourceServed
<1>1. Good => SourceServed
  <2> SUFFICES ASSUME Good, task.at = "idle", NEW a \in Sources, Live(a)
               PROVE  /\ sources[a].monitor
                      /\ sources[a].pending # 0 => sources[a].capture # 0 \/ sources[a].timer
    BY DEF SourceServed
  <2>1. task.outer = "none"
    BY Parts DEF Stage, NoTask
  <2> QED
    BY <2>1, Parts DEF Served, Live
<1> QED
  BY <1>1, Invariant, PTL

(* close(), whoever called it, leaves nothing behind: every texture is     *)
(* back, and no listener, interval or timer of the controller is left.     *)
THEOREM CloseLeavesNothing == Spec => []ClosedIsClean
<1>1. Good => ClosedIsClean
  <2> SUFFICES ASSUME Good, closed, task.at = "idle"
               PROVE  /\ life = "closed" /\ out = {} /\ ~leaseMonitor /\ bound = 0
                      /\ \A a \in Sources : ~(sources[a].timer \/ sources[a].monitor \/ sources[a].active)
    BY DEF ClosedIsClean
  <2>1. life = "closed" /\ \A id \in Ids : ~Leased(id)
    BY Parts DEF Closing
  <2>2. task.texture = NoTexture
    BY Parts DEF Stage, NoTask
  <2>3. out = {} /\ ~leaseMonitor
    BY <2>1, <2>2, Parts DEF Owned, Retained, LeasesMonitored, Leased
  <2>4. bound = 0 /\ \A a \in Sources : ~sources[a].active
    BY Parts, Blank DEF Attachment
  <2> QED
    BY <2>1, <2>3, <2>4, Parts DEF Served
<1> QED
  BY <1>1, Invariant, PTL

LEMMA OnlyCloseCloses == [Next]_vars /\ closed' # closed => CloseBegin
<1> SUFFICES ASSUME [Next]_vars, closed' # closed PROVE CloseBegin
  OBVIOUS
<1> USE DEF sourceVars
<1>1. ~(Attach \/ UserCloses \/ GetState \/ NativeMoves \/ UNCHANGED vars)
  BY DEF Attach, UserCloses, GetState, NativeMoves, vars
<1>2. ~Callbacks
  BY DEF Callbacks, Painting, Paint, LeaseMonitorTicks, TimerFires, MonitorSize, Destroyed,
  CaptureRejects,
     CaptureResolves
<1>3. ~(AttachResize \/ InvalidateReturns \/ InvalidateThrows \/ Attached \/ PaintBegin \/ PaintTexture
        \/ TextureResize \/ DmabufSubmitted \/ DmabufRejected \/ NoSubmissionId \/ DmabufRejectedState
        \/ DrainAfterSubmit \/ DmabufSubmittedState)
  BY DEF AttachResize, InvalidateReturns, InvalidateThrows, Attached, PaintBegin, PaintTexture,
  TextureResize,
     DmabufSubmitted, DmabufRejected, NoSubmissionId, DmabufRejectedState, DrainAfterSubmit,
     DmabufSubmittedState
<1>4. ~(SubmitImage \/ ImageResize \/ FrameSubmitted \/ FrameRejected \/ FrameRejectedState
        \/ ScheduleCapture \/ StartCapture \/ StartCaptureThrows \/ CaptureRejectedState \/ MonitorResize
        \/ Monitored \/ Finally \/ CloseEnd)
  BY DEF SubmitImage, ImageResize, FrameSubmitted, FrameRejected, FrameRejectedState,
  ScheduleCapture,
     StartCapture, StartCaptureThrows, CaptureRejectedState, MonitorResize, Monitored, Finally,
     CloseEnd
<1> QED
  BY <1>1, <1>2, <1>3, <1>4 DEF Next, Running

(* A late paint, capture or "destroyed" of a window that was replaced      *)
(* submits no frame and does not close the overlay.                        *)
THEOREM LateCallbacks == Spec => LateCallbacksInert
<1>1. Good /\ [Next]_vars =>
        [Given \/ (closed' /\ ~closed /\ task.caller # "user") => task.by = bound]_vars
  <2> SUFFICES ASSUME Good, [Next]_vars, Given \/ (closed' /\ ~closed /\ task.caller # "user")
               PROVE  task.by = bound
    OBVIOUS
  <2>1. Attachment
    BY Parts
  <2>2. CASE Given
    BY <2>1, <2>2 DEF Given, Attachment, Submitting, SubmittingTexture, SubmittingImage
  <2>3. CASE closed' /\ ~closed /\ task.caller # "user"
    <3>2. task.at = "close"
      BY <2>3, OnlyCloseCloses DEF CloseBegin
    <3> QED
      BY <2>1, <2>3, <3>2 DEF Attachment
  <2> QED
    BY <2>2, <2>3
<1> QED
  BY <1>1, Invariant, PTL DEF Spec, LateCallbacksInert

(* A frame that is accepted is never older than the last of its window: a  *)
(* capture that a newer paint overtook does not replace it.                *)
THEOREM InOrder == Spec => FramesInOrder
<1>1. Good /\ [Next]_vars => [Given => task.gen >= Src.submitted]_vars
  <2> SUFFICES ASSUME Good, Given PROVE task.gen >= Src.submitted
    OBVIOUS
  <2>1. task.at \in Submitting
    BY DEF Given, Submitting, SubmittingTexture, SubmittingImage
  <2>2. Src.submitted <= task.gen /\ Src.submitted \in Generations /\ task.gen \in Generations
    BY <2>1, Parts, Working, Fields, SourceFields DEF Numbered, Src
  <2> QED
    BY <2>2 DEF Generations
<1> QED
  BY <1>1, Invariant, PTL DEF Spec, FramesInOrder
=============================================================================

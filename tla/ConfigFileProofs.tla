-------------------------- MODULE ConfigFileProofs --------------------------
(***************************************************************************)
(* Proofs about ConfigFile, for any set of editors, cameras, workstations, *)
(* zones and payloads and any bounds.                                      *)
(*                                                                         *)
(* Two invariants are inductive: every configuration in the file, in the   *)
(* hands of a writer or in the dashboard's memory is sound (AllSound), and *)
(* until a write overlaps another or ends half-way, a writer is alone and  *)
(* writes the last write's configuration with its edit applied, or with    *)
(* the keys the dashboard's requests have set (Kept).                      *)
(***************************************************************************)
EXTENDS ConfigFile, TLAPS

\* What an editor has merged was merged into the last write's configuration.
EditorFresh(e) ==
    /\ editor[e].pc = "checked" /\ editor[e].edit.kind = "models" =>
        Applied(editor[e].edit, wanted) = Intended(editor[e].edit, wanted)
    /\ editor[e].pc = "read" => editor[e].data = Intended(editor[e].edit, wanted)

\* The dashboard's copy is the last write's, with the keys its requests have set.
DashboardFresh == dashboard.copy = Laid(wanted, laid)

\* So is what a request has made of the copy, with the keys set until then.
SaverFresh(v) ==
    /\ "dashboard" \in fresh
    /\ saver[v].pc = "dumped" => saver[v].data = Laid(wanted, saver[v].laid)

\* A writer at work is the only one, and has the text after the last write.
EditorWrites(e) ==
    /\ Writing = {e} /\ fresh = {}
    /\ e \in clear
    /\ editor[e].data = Intended(editor[e].edit, wanted)

SaverWrites(v) ==
    /\ Writing = {v} /\ fresh = {"dashboard"}
    /\ v \in clear
    /\ saver[v].data = Laid(wanted, saver[v].laid)

\* The edits before any overlap and any crash are in the file or on their way.
Kept ==
    ~overlapped /\ ~torn =>
        /\ ~garbled
        /\ Quiet => file = wanted
        /\ \A e \in Editors \intersect fresh : EditorFresh(e)
        /\ "dashboard" \in fresh => DashboardFresh
        /\ \A v \in Savers \intersect fresh : SaverFresh(v)
        /\ \A e \in Editors : editor[e].pc = "writing" => EditorWrites(e)
        /\ \A v \in Savers : saver[v].pc = "writing" => SaverWrites(v)

\* No writer is called like another.
WriterNames == Editors \intersect Savers = {} /\ "dashboard" \notin Editors \union Savers

\* What the lemmas about Kept need of the shape of the state.
Domain ==
    /\ DOMAIN editor = Editors /\ DOMAIN saver = Savers
    /\ fresh \subseteq Editors \union Savers \union {"dashboard"}

-----------------------------------------------------------------------------
(* Kept edits.                                                             *)

\* The checked flags of a PATCH of the model controls are the payload's over
\* those of the file.
LEMMA MergedAsIntended ==
    ASSUME NEW edit, NEW config, edit.kind = "models",
           edit.flags = [s \in Stages |->
               IF s \in DOMAIN edit.payload THEN edit.payload[s] ELSE config.flags[s]]
    PROVE  Applied(edit, config) = Intended(edit, config)
BY DEF Applied, Intended, WithFlags

\* Any other edit is intended to do what it does.
LEMMA OthersAsIntended ==
    ASSUME NEW edit, NEW config, edit.kind # "models"
    PROVE  Applied(edit, config) = Intended(edit, config)
BY DEF Intended

\* A writer that holds the last write finds nobody writing, and the dashboard
\* none but its own requests.
LEMMA FreshMeansQuiet ==
    ASSUME Kept, Domain, WriterNames, ~overlapped, ~torn
    PROVE  /\ \A w \in Editors \union Savers : w \in fresh => Quiet
           /\ "dashboard" \in fresh => \A e \in Editors : editor[e].pc # "writing"
BY DEF Kept, EditorWrites, SaverWrites, Quiet, Writing, WriterNames

\* An edit begins.
LEMMA KeptBegin ==
    ASSUME Kept, Domain, WriterNames, NEW e \in Editors, NEW edit, Begin(e, edit),
           edit.kind = "models" /\ Quiet /\ ~overlapped /\ ~torn =>
               Applied(edit, wanted) = Intended(edit, wanted)
    PROVE  Kept'
BY FreshMeansQuiet, OthersAsIntended DEF Begin, text, Kept, EditorFresh, DashboardFresh,
   SaverFresh, EditorWrites, SaverWrites, board, Quiet, Writing, Domain, WriterNames

\* The file is read: if nobody writes, it is the last write's configuration.
LEMMA KeptReadRaw ==
    ASSUME Kept, Domain, WriterNames, NEW e \in Editors, ReadRaw(e)
    PROVE  Kept'
BY FreshMeansQuiet, OthersAsIntended DEF ReadRaw, text, board, bounds, UsesCheck,
   Kept, EditorFresh, DashboardFresh, SaverFresh, EditorWrites, SaverWrites, Quiet, Writing,
   Domain, WriterNames

\* A handler ends with an error.
LEMMA KeptReadFails ==
    ASSUME Kept, Domain, WriterNames, NEW e \in Editors, ReadFails(e)
    PROVE  Kept'
BY FreshMeansQuiet, OthersAsIntended DEF ReadFails, text, board, bounds, history,
   Idle, Kept, EditorFresh, DashboardFresh, SaverFresh, EditorWrites, SaverWrites, Quiet,
   Writing, Domain, WriterNames

\* A writer that has read the last write is alone.
LEMMA KeptTruncate ==
    ASSUME Kept, Domain, WriterNames, NEW e \in Editors, Truncate(e)
    PROVE  Kept'
<1> SUFFICES ASSUME ~overlapped', ~torn' PROVE Kept'
  BY DEF Kept
<1>1. /\ ~overlapped /\ ~torn /\ e \in fresh
      /\ garbled' = FALSE /\ clear' = clear \union {e} /\ fresh' = {}
      /\ UNCHANGED <<saver, wanted>>
  BY DEF Truncate, Emptied, bounds, board
<1>2. Quiet /\ editor[e].data = Intended(editor[e].edit, wanted)
  BY <1>1, FreshMeansQuiet DEF Kept, EditorFresh, Truncate
<1>3. /\ editor'[e].pc = "writing" /\ editor'[e].data = editor[e].data
      /\ editor'[e].edit = editor[e].edit
      /\ \A d \in Editors : d # e => editor'[d] = editor[d]
  BY DEF Truncate, Domain
<1>4. Writing' = {e}
  BY <1>1, <1>2, <1>3 DEF Quiet, Writing
<1>5. EditorWrites(e)'
  BY <1>1, <1>2, <1>3, <1>4 DEF EditorWrites
<1>6. \A d \in Editors : d # e => editor'[d].pc # "writing"
  BY <1>2, <1>3 DEF Quiet, Writing
<1>7. \A v \in Savers : saver'[v].pc # "writing"
  BY <1>1, <1>2 DEF Quiet, Writing
<1>. QED
  BY <1>1, <1>4, <1>5, <1>6, <1>7 DEF Kept, Quiet

\* What it writes is what its edit was meant to make of the last write.
LEMMA KeptWriteText ==
    ASSUME Kept, Domain, WriterNames, NEW e \in Editors, WriteText(e)
    PROVE  Kept'
<1> SUFFICES ASSUME ~overlapped', ~torn' PROVE Kept'
  BY DEF Kept
<1>1. ~overlapped /\ ~torn /\ EditorWrites(e)
  BY DEF WriteText, bounds, Kept
<1>2. file' = wanted' /\ ~garbled' /\ fresh' = {}
  BY <1>1 DEF WriteText, Written, EditorWrites
<1>3. /\ editor'[e].pc = "written"
      /\ \A d \in Editors : d # e => editor'[d] = editor[d]
  BY DEF WriteText, Domain
<1>4. Writing' = {}
  <2>1. \A d \in Editors : editor'[d].pc # "writing"
    BY <1>1, <1>3 DEF EditorWrites, Writing
  <2>2. \A v \in Savers : saver'[v].pc # "writing"
    BY <1>1 DEF WriteText, board, EditorWrites, Writing, WriterNames
  <2>. QED
    BY <2>1, <2>2 DEF Writing
<1>. QED
  BY <1>2, <1>4 DEF Kept, Quiet, Writing

\* The handler ends.
LEMMA KeptAudit ==
    ASSUME Kept, Domain, WriterNames, NEW e \in Editors, Audit(e)
    PROVE  Kept'
BY FreshMeansQuiet, OthersAsIntended DEF Audit, text, board, bounds, history, Idle,
   Kept, EditorFresh, DashboardFresh, SaverFresh, EditorWrites, SaverWrites, Quiet, Writing,
   Domain, WriterNames

\* A crash in the middle of a write is told by torn.
LEMMA KeptCrash ==
    ASSUME Kept, Domain, WriterNames, Crash
    PROVE  Kept'
BY FreshMeansQuiet, OthersAsIntended DEF Crash, board, Idle, Kept, EditorFresh,
   DashboardFresh, SaverFresh, EditorWrites, SaverWrites, Quiet, Writing, Domain, WriterNames

-----------------------------------------------------------------------------
(* What an edit makes of a configuration.                                  *)

CameraMaps == UNION {[C -> Camera] : C \in SUBSET Cameras}
Routes == UNION {[W -> Cameras] : W \in SUBSET Workstations}

\* A configuration every reader may rely on.
Sound(config) ==
    /\ config \in Config
    /\ Legal(config.flags)
    /\ RoutesSound(config)

EditSound(edit) ==
    /\ edit \in Edits
    /\ edit.kind = "models" => Legal(edit.flags)

\* A map of cameras.
LEMMA CameraMapsAre ==
    ASSUME NEW f
    PROVE  f \in CameraMaps <=> f \in [DOMAIN f -> Camera] /\ DOMAIN f \subseteq Cameras
BY DEF CameraMaps

\* A route.
LEMMA RoutesAre ==
    ASSUME NEW f
    PROVE  f \in Routes <=> f \in [DOMAIN f -> Cameras] /\ DOMAIN f \subseteq Workstations
BY DEF Routes

\* The four parts of a configuration.
LEMMA ConfigIs ==
    Config = [cameras: CameraMaps, route: Routes, allowed: SUBSET Workstations,
              flags: [Stages -> BOOLEAN]]
BY DEF Config, CameraMaps, Routes

\* A configuration with other cameras.
LEMMA CamerasReplaced ==
    ASSUME NEW config \in Config, NEW cameras \in CameraMaps, NEW new,
           new = [config EXCEPT !.cameras = cameras]
    PROVE  /\ new \in Config
           /\ new.flags = config.flags /\ new.route = config.route
           /\ new.allowed = config.allowed
BY ConfigIs

\* A configuration with other flags.
LEMMA FlagsReplaced ==
    ASSUME NEW config \in Config, NEW flags \in [Stages -> BOOLEAN], NEW new,
           new = [config EXCEPT !.flags = flags]
    PROVE  /\ new \in Config
           /\ new.flags = flags /\ new.route = config.route
           /\ new.allowed = config.allowed
BY ConfigIs

\* A configuration without anything in it.
LEMMA EmptySound == Sound(Empty)
<1>1. NoFunction \in CameraMaps /\ NoFunction \in Routes
  BY CameraMapsAre, RoutesAre DEF NoFunction
<1>2. DefaultFlags \in [Stages -> BOOLEAN] /\ Legal(DefaultFlags)
  BY DEF DefaultFlags, Legal, Stages
<1>3. Empty \in Config
  BY <1>1, <1>2, ConfigIs DEF Empty
<1>. QED
  BY <1>2, <1>3 DEF Sound, Empty, RoutesSound, NoFunction, IsInjective

\* A key of a camera.
LEMMA WithCameraSound ==
    ASSUME NEW config \in Config, NEW c, NEW key, NEW value,
           \/ key \in {"source", "prompts"} /\ value \in Texts
           \/ key \in {"zones", "view"} /\ value \in SUBSET Rois
    PROVE  /\ WithCamera(config, c, key, value) \in Config
           /\ Sound(config) => Sound(WithCamera(config, c, key, value))
<1> DEFINE cameras == [config.cameras EXCEPT ![c] = [@ EXCEPT ![key] = value]]
<1>1. config.cameras \in [DOMAIN config.cameras -> Camera] /\ DOMAIN config.cameras \subseteq Cameras
  BY ConfigIs, CameraMapsAre
<1>2. \A camera \in Camera : [camera EXCEPT ![key] = value] \in Camera
  BY DEF Camera
<1>3. cameras \in CameraMaps
  <2>1. cameras \in [DOMAIN config.cameras -> Camera]
    BY <1>1, <1>2
  <2>. QED
    BY <1>1, <2>1, CameraMapsAre
<1>4. WithCamera(config, c, key, value) = [config EXCEPT !.cameras = cameras]
  BY ConfigIs DEF WithCamera
<1>. HIDE DEF cameras
<1>5. /\ WithCamera(config, c, key, value) \in Config
      /\ WithCamera(config, c, key, value).flags = config.flags
      /\ WithCamera(config, c, key, value).route = config.route
      /\ WithCamera(config, c, key, value).allowed = config.allowed
  BY <1>3, <1>4, CamerasReplaced
<1>. QED
  BY <1>5 DEF Sound, RoutesSound

\* The workstation of a camera: it is the only one, and allowed.
LEMMA WithWorkstationSound ==
    ASSUME NEW config \in Config, NEW c \in Cameras, NEW w \in Workstations \union {NoWorkstation}
    PROVE  /\ WithWorkstation(config, c, w) \in Config
           /\ Sound(config) => Sound(WithWorkstation(config, c, w))
<1> DEFINE others == {v \in DOMAIN config.route : config.route[v] # c}
           kept == Without(config.route, {v \in DOMAIN config.route : config.route[v] = c})
           moved == IF w = NoWorkstation THEN kept
                    ELSE [v \in DOMAIN kept \union {w} |-> IF v = w THEN c ELSE kept[v]]
           allowed == IF w = NoWorkstation THEN config.allowed ELSE config.allowed \union {w}
<1>1. /\ config.route \in [DOMAIN config.route -> Cameras]
      /\ DOMAIN config.route \subseteq Workstations
      /\ config.allowed \subseteq Workstations
  BY ConfigIs, RoutesAre
<1>2. kept = [v \in others |-> config.route[v]]
  BY DEF Without, Restrict
<1>3. DOMAIN moved = IF w = NoWorkstation THEN others ELSE others \union {w}
  BY <1>2
<1>4. \A v \in DOMAIN moved :
        \/ w # NoWorkstation /\ v = w /\ moved[v] = c
        \/ v \in others /\ moved[v] = config.route[v]
  BY <1>2
<1>5. moved \in [DOMAIN moved -> Cameras]
  BY <1>1, <1>2, <1>4
<1>6. moved \in Routes /\ allowed \in SUBSET Workstations
  BY <1>1, <1>3, <1>5, RoutesAre
<1>7. WithWorkstation(config, c, w) = [config EXCEPT !.route = moved, !.allowed = allowed]
  BY ConfigIs DEF WithWorkstation
<1>8. ASSUME Sound(config)
      PROVE  DOMAIN moved \subseteq allowed /\ IsInjective(moved)
  <2>1. DOMAIN config.route \subseteq config.allowed /\ IsInjective(config.route)
    BY <1>8 DEF Sound, RoutesSound
  <2>2. DOMAIN moved \subseteq allowed
    BY <1>3, <2>1
  <2>3. ASSUME NEW u \in DOMAIN moved, NEW v \in DOMAIN moved, moved[u] = moved[v]
        PROVE  u = v
    BY <1>4, <2>1, <2>3 DEF IsInjective
  <2>. QED
    BY <2>2, <2>3 DEF IsInjective
<1>. HIDE DEF moved, allowed, kept, others
<1>9. /\ WithWorkstation(config, c, w) \in Config
      /\ WithWorkstation(config, c, w).flags = config.flags
      /\ WithWorkstation(config, c, w).route = moved
      /\ WithWorkstation(config, c, w).allowed = allowed
  BY <1>6, <1>7, ConfigIs
<1>. QED
  BY <1>8, <1>9 DEF Sound, RoutesSound

\* The element of a field that is not left out.
LEMMA OptionalIs ==
    ASSUME NEW S, NEW x \in Optional(S), x # {}
    PROVE  (CHOOSE y \in x : TRUE) \in S
BY DEF Optional

\* Source and workstation.
LEMMA WithSettingsSound ==
    ASSUME NEW config \in Config, NEW edit,
           edit \in [kind: {"settings"}, camera: Cameras, source: Optional(Values),
                     workstation: Optional(Workstations \union {NoWorkstation})]
    PROVE  /\ WithSettings(config, edit) \in Config
           /\ Sound(config) => Sound(WithSettings(config, edit))
<1> DEFINE sourced == IF edit.source = {} THEN config
                      ELSE WithCamera(config, edit.camera, "source",
                                      CHOOSE x \in edit.source : TRUE)
<1>1. sourced \in Config /\ (Sound(config) => Sound(sourced))
  <2>1. CASE edit.source = {}
    BY <2>1
  <2>2. CASE edit.source # {}
    <3> DEFINE value == CHOOSE x \in edit.source : TRUE
    <3>1. value \in Texts
      BY <2>2, OptionalIs DEF Texts
    <3>2. sourced = WithCamera(config, edit.camera, "source", value)
      BY <2>2
    <3>. HIDE DEF value, sourced
    <3>. QED
      BY <3>1, <3>2, WithCameraSound
  <2>. QED
    BY <2>1, <2>2
<1>. HIDE DEF sourced
<1>2. CASE edit.workstation = {}
  BY <1>1, <1>2 DEF WithSettings, sourced
<1>3. CASE edit.workstation # {}
  <2> DEFINE chosen == CHOOSE w \in edit.workstation : TRUE
  <2>1. chosen \in Workstations \union {NoWorkstation} /\ edit.camera \in Cameras
    BY <1>3, OptionalIs
  <2>2. WithSettings(config, edit) = WithWorkstation(sourced, edit.camera, chosen)
    BY <1>3 DEF WithSettings, sourced
  <2>. HIDE DEF chosen
  <2>. QED
    BY <1>1, <2>1, <2>2, WithWorkstationSound
<1>. QED
  BY <1>2, <1>3

\* Zones and model view.
LEMMA WithRoisSound ==
    ASSUME NEW config \in Config, NEW edit,
           edit \in [kind: {"rois"}, camera: Cameras, zones: SUBSET Rois,
                     view: Optional(SUBSET Rois)]
    PROVE  /\ WithRois(config, edit) \in Config
           /\ Sound(config) => Sound(WithRois(config, edit))
<1> DEFINE zoned == IF edit.zones = {} THEN config
                    ELSE WithCamera(config, edit.camera, "zones", edit.zones)
<1>1. zoned \in Config /\ (Sound(config) => Sound(zoned))
  BY WithCameraSound
<1>. HIDE DEF zoned
<1>2. CASE edit.view = {}
  BY <1>1, <1>2 DEF WithRois, zoned
<1>3. CASE edit.view # {}
  <2>1. (CHOOSE v \in edit.view : TRUE) \in SUBSET Rois
    BY <1>3, OptionalIs
  <2>2. WithRois(config, edit) =
          WithCamera(zoned, edit.camera, "view", CHOOSE v \in edit.view : TRUE)
    BY <1>3 DEF WithRois, zoned
  <2>. QED
    BY <1>1, <2>1, <2>2, WithCameraSound
<1>. QED
  BY <1>2, <1>3

\* There are four kinds of edits.
LEMMA EditKinds ==
    ASSUME NEW edit \in Edits
    PROVE  edit.kind \in {"prompts", "settings", "rois", "models"}
BY DEF Edits

\* Every edit makes a sound configuration of a sound one.
LEMMA AppliedSound ==
    ASSUME NEW config \in Config, NEW edit \in Edits
    PROVE  /\ Applied(edit, config) \in Config
           /\ Sound(config) /\ EditSound(edit) => Sound(Applied(edit, config))
<1>1. CASE edit.kind = "prompts"
  BY <1>1, WithCameraSound DEF Edits, Applied, Texts
<1>2. CASE edit.kind = "settings"
  BY <1>2, WithSettingsSound DEF Edits, Applied
<1>3. CASE edit.kind = "rois"
  BY <1>3, WithRoisSound DEF Edits, Applied
<1>4. CASE edit.kind = "models"
  <2>1. edit.flags \in [Stages -> BOOLEAN] /\ Applied(edit, config) = [config EXCEPT !.flags = edit.flags]
    BY <1>4 DEF Edits, Applied, WithFlags
  <2>2. /\ Applied(edit, config) \in Config
        /\ Applied(edit, config).flags = edit.flags
        /\ Applied(edit, config).route = config.route
        /\ Applied(edit, config).allowed = config.allowed
    BY <2>1, FlagsReplaced
  <2>. QED
    BY <1>4, <2>2 DEF Sound, EditSound, RoutesSound
<1>. QED
  BY <1>1, <1>2, <1>3, <1>4, EditKinds

\* So does what an edit is meant to do, as far as the shape goes.
LEMMA IntendedTyped ==
    ASSUME NEW config \in Config, NEW edit \in Edits
    PROVE  Intended(edit, config) \in Config
<1> DEFINE flags == [s \in Stages |-> IF s \in DOMAIN edit.payload THEN edit.payload[s]
                                      ELSE config.flags[s]]
<1>1. CASE edit.kind = "models"
  <2>1. config.flags \in [Stages -> BOOLEAN]
    BY ConfigIs
  <2>2. edit.payload \in Payloads
    BY <1>1 DEF Edits
  <2>3. \A s \in DOMAIN edit.payload : edit.payload[s] \in BOOLEAN
    BY <2>2, PayloadsAssumption
  <2>4. flags \in [Stages -> BOOLEAN]
    BY <2>1, <2>3
  <2>5. Intended(edit, config) = [config EXCEPT !.flags = flags]
    BY <1>1, ConfigIs DEF Intended
  <2>. HIDE DEF flags
  <2>. QED
    BY <2>4, <2>5, FlagsReplaced
<1>2. CASE edit.kind # "models"
  BY <1>2, AppliedSound DEF Intended
<1>. QED
  BY <1>1, <1>2

-----------------------------------------------------------------------------
(* The keys that were set.                                                 *)

\* A camera with the keys that were set of it.
LaidCamera(camera, c, set) ==
    [key \in DOMAIN camera |-> IF <<c, key>> \in DOMAIN set THEN set[<<c, key>>] ELSE camera[key]]

\* A camera has four keys.
LEMMA CameraKeys ==
    ASSUME NEW camera
    PROVE  camera \in Camera <=>
              /\ camera = [key \in {"source", "prompts", "zones", "view"} |-> camera[key]]
              /\ camera["source"] \in Texts /\ camera["prompts"] \in Texts
              /\ camera["zones"] \in SUBSET Rois /\ camera["view"] \in SUBSET Rois
BY DEF Camera

\* It is a camera.
LEMMA LaidCameraIs ==
    ASSUME NEW camera \in Camera, NEW c, NEW set, LaidOK(set)
    PROVE  LaidCamera(camera, c, set) \in Camera
<1>1. DOMAIN camera = {"source", "prompts", "zones", "view"}
  BY CameraKeys
<1>2. /\ <<c, "source">> \in DOMAIN set => set[<<c, "source">>] \in Texts
      /\ <<c, "prompts">> \in DOMAIN set => set[<<c, "prompts">>] \in Texts
      /\ <<c, "zones">> \in DOMAIN set => set[<<c, "zones">>] \in SUBSET Rois
      /\ <<c, "view">> \notin DOMAIN set
  BY DEF LaidOK
<1>. QED
  BY <1>1, <1>2, CameraKeys DEF LaidCamera

\* What is set again counts.
LEMMA LaidCameraTwice ==
    ASSUME NEW camera \in Camera, NEW c, NEW s, NEW t, DOMAIN s \subseteq DOMAIN t
    PROVE  LaidCamera(LaidCamera(camera, c, s), c, t) = LaidCamera(camera, c, t)
BY CameraKeys DEF LaidCamera

\* Nothing was set.
LEMMA LaidCameraNothing ==
    ASSUME NEW camera \in Camera, NEW c
    PROVE  LaidCamera(camera, c, NoFunction) = camera
BY CameraKeys DEF LaidCamera, NoFunction

\* The keys that were set, with one more.
More(set, c, key, value) ==
    [x \in DOMAIN set \union {<<c, key>>} |-> IF x = <<c, key>> THEN value ELSE set[x]]

\* A key is set after others.
LEMMA LaidCameraMore ==
    ASSUME NEW camera \in Camera, NEW c, NEW d, NEW key \in {"source", "prompts", "zones"}, NEW value, NEW set
    PROVE  LaidCamera(camera, d, More(set, c, key, value)) =
              IF d = c THEN [LaidCamera(camera, c, set) EXCEPT ![key] = value]
              ELSE LaidCamera(camera, d, set)
<1>1. DOMAIN camera = {"source", "prompts", "zones", "view"}
  BY CameraKeys
<1>. QED
  BY <1>1 DEF LaidCamera, More

\* The cameras of a configuration with the keys that were set.
LEMMA LaidIs ==
    ASSUME NEW config \in Config, NEW set, LaidOK(set)
    PROVE  /\ Laid(config, set) \in Config
           /\ DOMAIN Laid(config, set).cameras = DOMAIN config.cameras
           /\ \A c \in DOMAIN config.cameras :
                 Laid(config, set).cameras[c] = LaidCamera(config.cameras[c], c, set)
<1> DEFINE cameras == [c \in DOMAIN config.cameras |-> LaidCamera(config.cameras[c], c, set)]
<1>1. config.cameras \in [DOMAIN config.cameras -> Camera] /\ DOMAIN config.cameras \subseteq Cameras
  BY ConfigIs, CameraMapsAre
<1>2. cameras \in CameraMaps
  BY <1>1, LaidCameraIs, CameraMapsAre
<1>3. Laid(config, set) = [config EXCEPT !.cameras = cameras]
  BY ConfigIs DEF Laid, LaidCamera
<1>4. Laid(config, set).cameras = cameras
  BY <1>3, ConfigIs
<1>. HIDE DEF cameras
<1>5. Laid(config, set) \in Config
  BY <1>2, <1>3, CamerasReplaced
<1>. QED
  BY <1>4, <1>5 DEF cameras

\* Other parts are left alone: a configuration is known by its cameras.
LEMMA LaidCameras ==
    ASSUME NEW config \in Config, NEW set
    PROVE  Laid(config, set) = [config EXCEPT !.cameras =
              [c \in DOMAIN config.cameras |-> LaidCamera(config.cameras[c], c, set)]]
BY ConfigIs DEF Laid, LaidCamera

\* The same of whole configurations: nothing was set,
LEMMA LaidNothing ==
    ASSUME NEW config \in Config
    PROVE  Laid(config, NoFunction) = config
<1> DEFINE cameras == [c \in DOMAIN config.cameras |-> LaidCamera(config.cameras[c], c, NoFunction)]
<1>1. config.cameras \in [DOMAIN config.cameras -> Camera]
  BY ConfigIs, CameraMapsAre
<1>2. cameras = config.cameras
  BY <1>1, LaidCameraNothing
<1>3. Laid(config, NoFunction) = [config EXCEPT !.cameras = cameras]
  BY LaidCameras
<1>. HIDE DEF cameras
<1>. QED
  BY <1>2, <1>3, ConfigIs

\* the keys are set again with others,
LEMMA LaidTwice ==
    ASSUME NEW config \in Config, NEW s, NEW t, LaidOK(s), DOMAIN s \subseteq DOMAIN t
    PROVE  Laid(Laid(config, s), t) = Laid(config, t)
<1> DEFINE once == Laid(config, s)
           cameras == [c \in DOMAIN config.cameras |-> LaidCamera(config.cameras[c], c, t)]
           twice == [c \in DOMAIN once.cameras |-> LaidCamera(once.cameras[c], c, t)]
           first == [c \in DOMAIN config.cameras |-> LaidCamera(config.cameras[c], c, s)]
<1>1. config.cameras \in [DOMAIN config.cameras -> Camera]
  BY ConfigIs, CameraMapsAre
<1>2. /\ once \in Config /\ DOMAIN once.cameras = DOMAIN config.cameras
      /\ \A c \in DOMAIN config.cameras : once.cameras[c] = LaidCamera(config.cameras[c], c, s)
  BY LaidIs
<1>3. twice = cameras
  BY <1>1, <1>2, LaidCameraTwice
<1>4. /\ Laid(once, t) = [once EXCEPT !.cameras = twice]
      /\ Laid(config, t) = [config EXCEPT !.cameras = cameras]
      /\ once = [config EXCEPT !.cameras = first]
  BY <1>2, LaidCameras
<1>. HIDE DEF cameras, twice, once, first
<1>5. Laid(once, t) = Laid(config, t)
  BY <1>3, <1>4, ConfigIs
<1>. QED
  BY <1>5 DEF once

\* one more is set.
LEMMA LaidMore ==
    ASSUME NEW config \in Config, NEW set, LaidOK(set), NEW c \in DOMAIN config.cameras,
           NEW key \in {"source", "prompts", "zones"}, NEW value
    PROVE  WithCamera(Laid(config, set), c, key, value) = Laid(config, More(set, c, key, value))
<1> DEFINE before == Laid(config, set)
           cameras == [before.cameras EXCEPT ![c] = [@ EXCEPT ![key] = value]]
           first == [d \in DOMAIN config.cameras |-> LaidCamera(config.cameras[d], d, set)]
           more == [d \in DOMAIN config.cameras |->
                       LaidCamera(config.cameras[d], d, More(set, c, key, value))]
<1>1. config.cameras \in [DOMAIN config.cameras -> Camera]
  BY ConfigIs, CameraMapsAre
<1>2. /\ before \in Config /\ DOMAIN before.cameras = DOMAIN config.cameras
      /\ before.cameras \in [DOMAIN before.cameras -> Camera]
      /\ \A d \in DOMAIN config.cameras : before.cameras[d] = LaidCamera(config.cameras[d], d, set)
  BY LaidIs, ConfigIs, CameraMapsAre
<1>3. cameras = more
  <2>1. cameras = [d \in DOMAIN config.cameras |->
                      IF d = c THEN [before.cameras[d] EXCEPT ![key] = value] ELSE before.cameras[d]]
    BY <1>2
  <2>2. ASSUME NEW d \in DOMAIN config.cameras
        PROVE  LaidCamera(config.cameras[d], d, More(set, c, key, value)) =
                  IF d = c THEN [before.cameras[d] EXCEPT ![key] = value] ELSE before.cameras[d]
    <3>1. config.cameras[d] \in Camera
      BY <1>1
    <3>2. ASSUME NEW camera \in Camera
          PROVE  LaidCamera(camera, d, More(set, c, key, value)) =
                    IF d = c THEN [LaidCamera(camera, c, set) EXCEPT ![key] = value]
                    ELSE LaidCamera(camera, d, set)
      BY LaidCameraMore
    <3>3. before.cameras[d] = LaidCamera(config.cameras[d], d, set)
      BY <1>2
    <3>. HIDE DEF before
    <3>. QED
      BY <3>1, <3>2, <3>3
  <2>. QED
    BY <2>1, <2>2
<1>4. WithCamera(before, c, key, value) = [before EXCEPT !.cameras = cameras]
  BY <1>2, ConfigIs DEF WithCamera
<1>5. /\ Laid(config, More(set, c, key, value)) = [config EXCEPT !.cameras = more]
      /\ before = [config EXCEPT !.cameras = first]
  BY LaidCameras
<1>. HIDE DEF cameras, more, before, first
<1>6. WithCamera(before, c, key, value) = Laid(config, More(set, c, key, value))
  BY <1>3, <1>4, <1>5, ConfigIs
<1>. QED
  BY <1>6 DEF before

-----------------------------------------------------------------------------
(* Every configuration that is or will be written is sound.                *)

EditorOK(r) ==
    /\ r.pc \in {"idle", "checked", "read", "writing", "written"}
    /\ r.pc # "idle" => EditSound(r.edit)
    /\ r.pc \in {"read", "writing"} => Sound(r.data)

DashboardOK(r) ==
    /\ r.pc \in {"down", "up"}
    /\ r.pc = "up" => Sound(r.copy)

\* What a request has made text of has no key that was not set by then.
SaverOK(r) ==
    /\ r.pc \in {"idle", "setting", "dumped", "writing"}
    /\ r.pc = "setting" => r.camera \in Cameras
    /\ r.pc \in {"dumped", "writing"} =>
          Sound(r.data) /\ LaidOK(r.laid) /\ DOMAIN r.laid \subseteq DOMAIN laid

SaversOK ==
    /\ DOMAIN saver = Savers
    /\ \A v \in Savers : SaverOK(saver[v])

\* The dashboard starts with nothing set and nobody at work.
DownOK ==
    dashboard.pc = "down" =>
        /\ "dashboard" \notin fresh /\ laid = NoFunction
        /\ \A v \in Savers : saver[v].pc = "idle"

BoardOK == DashboardOK(dashboard) /\ LaidOK(laid) /\ SaversOK /\ DownOK

EditorsOK ==
    /\ DOMAIN editor = Editors
    /\ \A e \in Editors : EditorOK(editor[e])

WritersOK ==
    /\ fresh \subseteq Editors \union Savers \union {"dashboard"}
    /\ clear \subseteq Writing

CountsOK ==
    /\ garbled \in BOOLEAN /\ overlapped \in BOOLEAN /\ torn \in BOOLEAN
    /\ edits \in 0..MaxEdits /\ crashes \in 0..MaxCrashes /\ saves \in 0..MaxSaves

AllSound ==
    /\ Sound(file) /\ wanted \in Config
    /\ EditorsOK /\ BoardOK
    /\ WritersOK /\ CountsOK

\* The bounds are numbers.
LEMMA BoundsNatural == MaxEdits \in Nat /\ MaxCrashes \in Nat /\ MaxSaves \in Nat
BY ConfigBoundsAssumption

\* An editor goes on to a record that is right.
LEMMA EditorGoes ==
    ASSUME EditorsOK, NEW e \in Editors, NEW r, EditorOK(r),
           editor' = [editor EXCEPT ![e] = r]
    PROVE  EditorsOK' /\ editor'[e] = r /\ \A d \in Editors : d # e => editor'[d] = editor[d]
BY DEF EditorsOK

\* An editor leaves the dashboard as it is.
LEMMA BoardSame ==
    ASSUME BoardOK, UNCHANGED board, "dashboard" \in fresh' => "dashboard" \in fresh
    PROVE  BoardOK' /\ UNCHANGED <<dashboard, saver, laid>>
<1>1. UNCHANGED <<dashboard, saver, laid>>
  BY DEF board
<1>2. LaidOK(laid)' /\ DashboardOK(dashboard)' /\ DownOK'
  BY <1>1 DEF BoardOK, LaidOK, DashboardOK, DownOK
<1>3. SaversOK'
  BY <1>1 DEF BoardOK, SaversOK, SaverOK
<1>. QED
  BY <1>1, <1>2, <1>3 DEF BoardOK

\* A checked edit.
LEMMA SoundBegin ==
    ASSUME AllSound, NEW e \in Editors, NEW edit, EditSound(edit), Begin(e, edit)
    PROVE  AllSound'
<1> DEFINE r == [pc |-> "checked", edit |-> edit]
<1>1. editor' = [editor EXCEPT ![e] = r] /\ r.pc = "checked" /\ EditorOK(r)
  BY DEF Begin, EditorOK
<1>. HIDE DEF r
<1>2. EditorsOK' /\ editor'[e].pc = "checked" /\ \A d \in Editors : d # e => editor'[d] = editor[d]
  BY <1>1, EditorGoes DEF AllSound
<1>3. BoardOK' /\ UNCHANGED <<dashboard, saver, laid>>
  BY BoardSame, WritersAssumption DEF AllSound, Begin
<1>4. WritersOK'
  BY <1>2, <1>3 DEF AllSound, WritersOK, Writing, Begin, text
<1>5. CountsOK'
  BY BoundsNatural DEF AllSound, CountsOK, Begin, text
<1>. QED
  BY <1>2, <1>3, <1>4, <1>5 DEF AllSound, Begin, text

\* What is read is the file with the edit applied.
LEMMA SoundReadRaw ==
    ASSUME AllSound, NEW e \in Editors, ReadRaw(e)
    PROVE  AllSound'
<1> DEFINE r == [pc |-> "read", edit |-> editor[e].edit, data |-> Applied(editor[e].edit, file)]
<1>1. EditSound(editor[e].edit) /\ editor[e].edit \in Edits
  BY DEF AllSound, EditorsOK, EditorOK, ReadRaw, EditSound
<1>2. Sound(r.data)
  BY <1>1, AppliedSound DEF AllSound, Sound
<1>3. EditorOK(r)
  BY <1>1, <1>2 DEF EditorOK
<1>4. editor' = [editor EXCEPT ![e] = r]
  BY DEF ReadRaw
<1>. HIDE DEF r
<1>5. EditorsOK' /\ editor'[e] = r /\ \A d \in Editors : d # e => editor'[d] = editor[d]
  BY <1>3, <1>4, EditorGoes DEF AllSound
<1>6. BoardOK' /\ UNCHANGED <<dashboard, saver, laid>>
  BY BoardSame, WritersAssumption DEF AllSound, ReadRaw
<1>7. WritersOK'
  <2>1. editor[e].pc # "writing"
    BY DEF ReadRaw
  <2>2. r.pc # "writing"
    BY DEF r
  <2>. QED
    BY <1>5, <1>6, <2>1, <2>2 DEF AllSound, WritersOK, Writing, ReadRaw, text
<1>. QED
  BY <1>5, <1>6, <1>7 DEF AllSound, CountsOK, ReadRaw, text, bounds

\* A handler ends, with an error or after its audit row.
LEMMA SoundEnds ==
    ASSUME AllSound, NEW e \in Editors, ReadFails(e) \/ Audit(e)
    PROVE  AllSound'
<1>1. EditorOK(Idle)
  BY DEF EditorOK, Idle
<1>2. EditorsOK' /\ editor'[e] = Idle /\ \A d \in Editors : d # e => editor'[d] = editor[d]
  BY <1>1, EditorGoes DEF ReadFails, Audit, AllSound
<1>3. BoardOK' /\ UNCHANGED <<dashboard, saver, laid>>
  BY BoardSame DEF AllSound, ReadFails, Audit, history
<1>4. WritersOK'
  BY <1>2, <1>3 DEF AllSound, WritersOK, Writing, ReadFails, Audit, text, history
<1>. QED
  BY <1>2, <1>3, <1>4 DEF AllSound, CountsOK, ReadFails, Audit, text, bounds, history

\* The emptied file is sound.
LEMMA SoundTruncate ==
    ASSUME AllSound, NEW e \in Editors, Truncate(e)
    PROVE  AllSound'
<1> DEFINE r == [editor[e] EXCEPT !.pc = "writing"]
<1>1. r.pc = "writing" /\ r.edit = editor[e].edit /\ r.data = editor[e].data
  BY DEF Truncate
<1>2. EditorOK(r)
  BY <1>1 DEF AllSound, EditorsOK, EditorOK, Truncate
<1>3. editor' = [editor EXCEPT ![e] = r]
  BY DEF Truncate
<1>. HIDE DEF r
<1>4. EditorsOK' /\ editor'[e] = r /\ \A d \in Editors : d # e => editor'[d] = editor[d]
  BY <1>2, <1>3, EditorGoes DEF AllSound
<1>5. BoardOK' /\ UNCHANGED <<dashboard, saver, laid>>
  BY BoardSame DEF AllSound, Truncate, Emptied
<1>6. WritersOK'
  BY <1>1, <1>4, <1>5 DEF AllSound, WritersOK, Writing, Truncate, Emptied
<1>7. CountsOK'
  BY DEF AllSound, CountsOK, Truncate, Emptied, bounds
<1>. QED
  BY <1>4, <1>5, <1>6, <1>7, EmptySound DEF AllSound, Truncate, Emptied

\* What an editor writes is what it has merged.
LEMMA SoundWriteText ==
    ASSUME AllSound, NEW e \in Editors, WriteText(e)
    PROVE  AllSound'
<1> DEFINE r == [pc |-> "written", edit |-> editor[e].edit]
<1>1. EditSound(editor[e].edit) /\ editor[e].edit \in Edits /\ Sound(editor[e].data)
  BY DEF AllSound, EditorsOK, EditorOK, WriteText, EditSound
<1>2. EditorOK(r)
  BY <1>1 DEF EditorOK
<1>3. editor' = [editor EXCEPT ![e] = r]
  BY DEF WriteText
<1>4. EditorsOK'
  BY <1>2, <1>3, EditorGoes DEF AllSound
<1>5. Sound(file') /\ wanted' \in Config
  BY <1>1, IntendedTyped DEF AllSound, WriteText, Written
<1>6. BoardOK'
  BY BoardSame DEF AllSound, WriteText, Written
<1>7. WritersOK'
  BY DEF AllSound, WritersOK, WriteText, Written
<1>8. CountsOK'
  BY DEF AllSound, CountsOK, WriteText, Written, bounds
<1>. QED
  BY <1>4, <1>5, <1>6, <1>7, <1>8 DEF AllSound, WriteText

\* A crash leaves the file as it is.
LEMMA SoundCrash ==
    ASSUME AllSound, Crash
    PROVE  AllSound'
<1>1. EditorsOK'
  BY DEF Crash, EditorsOK, EditorOK, Idle
<1>2. BoardOK' /\ UNCHANGED <<dashboard, saver, laid>>
  BY BoardSame DEF AllSound, Crash
<1>3. WritersOK'
  BY <1>2 DEF AllSound, WritersOK, Writing, Crash
<1>4. CountsOK'
  BY BoundsNatural DEF AllSound, CountsOK, Crash
<1>. QED
  BY <1>1, <1>2, <1>3, <1>4 DEF AllSound, Crash

\* A thread of the dashboard goes on to a record that is right.
LEMMA SaverGoes ==
    ASSUME SaversOK, NEW v \in Savers, NEW r, SaverOK(r), laid' = laid,
           saver' = [saver EXCEPT ![v] = r]
    PROVE  SaversOK' /\ saver'[v] = r /\ \A u \in Savers : u # v => saver'[u] = saver[u]
<1>1. /\ saver'[v] = r /\ \A u \in Savers : u # v => saver'[u] = saver[u]
      /\ DOMAIN saver' = Savers
  BY DEF SaversOK
<1>2. ASSUME NEW u \in Savers PROVE SaverOK(saver[u])' 
  BY <1>1 DEF SaversOK, SaverOK
<1>. QED
  BY <1>1, <1>2 DEF SaversOK

\* The dashboard's copy is the file.
LEMMA SoundStart ==
    ASSUME AllSound, DashboardStart
    PROVE  AllSound'
<1>1. DashboardOK(dashboard') /\ dashboard'.pc = "up" /\ UNCHANGED <<saver, laid, editor>>
  BY DEF DashboardStart, DashboardOK, AllSound
<1>2. BoardOK'
  BY <1>1 DEF AllSound, BoardOK, SaversOK, SaverOK, DownOK
<1>3. WritersOK'
  BY <1>1 DEF AllSound, WritersOK, Writing, DashboardStart, text
<1>. QED
  BY <1>1, <1>2, <1>3 DEF AllSound, EditorsOK, CountsOK, DashboardStart, text, bounds

\* A key is set to something it may hold.
LEMMA SoundSets ==
    ASSUME AllSound, NEW v \in Savers, NEW c \in Cameras, NEW at, NEW key, NEW value,
           Sets(v, c, at, key, value), saver[v].pc \in {"idle", "setting"},
           \/ key \in {"source", "prompts"} /\ value \in Texts
           \/ key = "zones" /\ value \in SUBSET Rois
    PROVE  AllSound'
<1> DEFINE r == [pc |-> "setting", camera |-> c, at |-> at]
<1>1. /\ Sound(dashboard.copy) /\ dashboard.pc = "up"
      /\ dashboard' = [dashboard EXCEPT !.copy = WithCamera(dashboard.copy, c, key, value)]
      /\ laid' = More(laid, c, key, value)
      /\ saver' = [saver EXCEPT ![v] = r]
      /\ UNCHANGED <<file, garbled, clear, editor, wanted, fresh, overlapped, torn, bounds>>
  BY DEF AllSound, BoardOK, DashboardOK, Sets, More, text, history
<1>2. Sound(WithCamera(dashboard.copy, c, key, value))
  BY <1>1, WithCameraSound DEF Sound
<1>3. DashboardOK(dashboard') /\ dashboard'.pc = "up"
  <2>1. DOMAIN dashboard = DOMAIN dashboard' /\ dashboard'.pc = "up"
    BY <1>1
  <2>2. Sound(dashboard'.copy)
    BY <1>1, <1>2 DEF AllSound, BoardOK, DashboardOK
  <2>. QED
    BY <2>1, <2>2 DEF DashboardOK
<1>4. LaidOK(laid') /\ DOMAIN laid \subseteq DOMAIN laid'
  <2>1. DOMAIN laid' = DOMAIN laid \union {<<c, key>>}
    BY <1>1 DEF More
  <2>2. \A x \in DOMAIN laid' : laid'[x] = IF x = <<c, key>> THEN value ELSE laid[x]
    BY <1>1 DEF More
  <2>3. LaidOK(laid)
    BY DEF AllSound, BoardOK
  <2>. QED
    BY <2>1, <2>2, <2>3 DEF LaidOK
<1>5. /\ saver'[v] = r /\ \A u \in Savers : u # v => saver'[u] = saver[u]
      /\ DOMAIN saver' = Savers /\ r.pc = "setting" /\ r.camera \in Cameras
  BY <1>1 DEF AllSound, BoardOK, SaversOK
<1>. HIDE DEF r
<1>6. SaversOK'
  <2>1. ASSUME NEW u \in Savers PROVE SaverOK(saver[u])'
    BY <1>4, <1>5 DEF AllSound, BoardOK, SaversOK, SaverOK
  <2>. QED
    BY <1>5, <2>1 DEF SaversOK
<1>7. BoardOK'
  BY <1>3, <1>4, <1>6 DEF BoardOK, DownOK
<1>8. Writing' = Writing
  BY <1>1, <1>5 DEF Writing
<1>9. WritersOK' /\ CountsOK'
  BY <1>1, <1>8 DEF AllSound, WritersOK, CountsOK, bounds
<1>. QED
  BY <1>1, <1>7, <1>9 DEF AllSound, EditorsOK

\* A request that is refused is over.
LEMMA SoundRefuse ==
    ASSUME AllSound, NEW v \in Savers, RefuseClassifier(v)
    PROVE  AllSound'
<1>1. SaverOK(Idle) /\ SaversOK /\ laid' = laid /\ dashboard' = dashboard /\ Idle.pc = "idle"
  BY DEF AllSound, BoardOK, SaverOK, Idle, RefuseClassifier
<1>2. SaversOK' /\ saver'[v] = Idle /\ \A u \in Savers : u # v => saver'[u] = saver[u]
  BY <1>1, SaverGoes DEF RefuseClassifier
<1>3. BoardOK'
  BY <1>1, <1>2 DEF AllSound, BoardOK, DownOK, RefuseClassifier, history
<1>4. Writing' = Writing
  BY <1>1, <1>2 DEF Writing, RefuseClassifier
<1>. QED
  BY <1>3, <1>4 DEF AllSound, EditorsOK, WritersOK, CountsOK, RefuseClassifier, text, history,
     bounds

\* What becomes text is the copy.
LEMMA SoundDump ==
    ASSUME AllSound, NEW v \in Savers, Dump(v)
    PROVE  AllSound'
<1> DEFINE r == [pc |-> "dumped", data |-> dashboard.copy, laid |-> laid]
<1>1. SaversOK /\ LaidOK(laid) /\ UNCHANGED <<dashboard, laid>> /\ dashboard.pc = "up"
  BY DEF AllSound, BoardOK, DashboardOK, DownOK, Dump
<1>2. SaverOK(r)
  BY <1>1 DEF SaverOK, AllSound, BoardOK, DashboardOK
<1>3. SaversOK' /\ saver'[v] = r /\ \A u \in Savers : u # v => saver'[u] = saver[u]
  BY <1>1, <1>2, SaverGoes DEF Dump
<1>4. BoardOK'
  BY <1>1, <1>3 DEF AllSound, BoardOK, DownOK
<1>5. Writing' = Writing
  BY <1>3 DEF Writing, Dump
<1>6. WritersOK'
  BY <1>5 DEF AllSound, WritersOK, Dump, text
<1>7. CountsOK'
  BY BoundsNatural DEF AllSound, CountsOK, Dump, text
<1>. QED
  BY <1>4, <1>6, <1>7 DEF AllSound, EditorsOK, Dump, text

\* The dashboard empties the file.
LEMMA SoundSaveTruncate ==
    ASSUME AllSound, NEW v \in Savers, DashboardTruncate(v)
    PROVE  AllSound'
<1> DEFINE r == [saver[v] EXCEPT !.pc = "writing"]
<1>1. /\ r.pc = "writing" /\ r.data = saver[v].data /\ r.laid = saver[v].laid
      /\ SaversOK /\ UNCHANGED <<dashboard, laid>> /\ dashboard.pc = "up"
      /\ saver' = [saver EXCEPT ![v] = r]
  BY DEF AllSound, BoardOK, DashboardOK, DownOK, DashboardTruncate
<1>2. SaverOK(r)
  BY <1>1 DEF SaversOK, SaverOK, DashboardTruncate
<1>. HIDE DEF r
<1>3. SaversOK' /\ saver'[v] = r /\ \A u \in Savers : u # v => saver'[u] = saver[u]
  BY <1>1, <1>2, SaverGoes
<1>4. BoardOK'
  BY <1>1, <1>3 DEF AllSound, BoardOK, DownOK
<1>5. WritersOK'
  BY <1>1, <1>3 DEF AllSound, WritersOK, Writing, DashboardTruncate, Emptied
<1>6. CountsOK'
  BY DEF AllSound, CountsOK, DashboardTruncate, Emptied, bounds
<1>. QED
  BY <1>4, <1>5, <1>6, EmptySound DEF AllSound, EditorsOK, DashboardTruncate, Emptied

\* The dashboard writes what it has made text of.
LEMMA SoundWrite ==
    ASSUME AllSound, NEW v \in Savers, DashboardWrite(v)
    PROVE  AllSound'
<1>1. /\ SaverOK(Idle) /\ SaversOK /\ UNCHANGED <<dashboard, laid>> /\ Idle.pc = "idle"
      /\ dashboard.pc = "up" /\ Sound(saver[v].data) /\ LaidOK(saver[v].laid)
  BY DEF AllSound, BoardOK, DashboardOK, DownOK, SaversOK, SaverOK, Idle, DashboardWrite
<1>2. SaversOK'
  BY <1>1, SaverGoes DEF DashboardWrite
<1>3. BoardOK'
  BY <1>1, <1>2 DEF AllSound, BoardOK, DownOK
<1>4. Sound(file') /\ wanted' \in Config
  BY <1>1, LaidIs DEF AllSound, DashboardWrite, Written
<1>5. WritersOK'
  BY DEF AllSound, WritersOK, DashboardWrite, Written
<1>6. CountsOK'
  BY DEF AllSound, CountsOK, DashboardWrite, Written, bounds
<1>. QED
  BY <1>3, <1>4, <1>5, <1>6 DEF AllSound, EditorsOK, DashboardWrite

\* The dashboard ends.
LEMMA SoundStops ==
    ASSUME AllSound, DashboardStops
    PROVE  AllSound'
<1>1. BoardOK'
  BY WritersAssumption DEF DashboardStops, BoardOK, DashboardOK, DownDashboard, LaidOK, NoFunction,
     SaversOK, SaverOK, DownOK, Idle
<1>2. WritersOK'
  BY DEF AllSound, WritersOK, Writing, DashboardStops
<1>3. CountsOK'
  BY BoundsNatural DEF AllSound, CountsOK, DashboardStops
<1>. QED
  BY <1>1, <1>2, <1>3 DEF AllSound, EditorsOK, DashboardStops

-----------------------------------------------------------------------------
(* Kept edits and the dashboard.                                           *)

\* What the lemmas about Kept assume.
LEMMA DomainKnown == AllSound => Domain /\ WriterNames
BY WritersAssumption DEF AllSound, EditorsOK, BoardOK, SaversOK, WritersOK, Domain, WriterNames

\* The dashboard reads the file.
LEMMA KeptStart ==
    ASSUME AllSound, Kept, DashboardStart
    PROVE  Kept'
<1>1. /\ \A v \in Savers : saver[v].pc = "idle"
      /\ laid = NoFunction /\ "dashboard" \notin fresh
      /\ UNCHANGED <<file, garbled, clear, editor, saver, laid, wanted, overlapped, torn>>
      /\ dashboard'.copy = file /\ fresh' = IF Quiet THEN fresh \union {"dashboard"} ELSE fresh
  BY DEF AllSound, BoardOK, DownOK, DashboardStart, text
<1>2. Writing' = Writing
  BY <1>1 DEF Writing
<1>3. Laid(wanted, laid) = wanted
  BY <1>1, LaidNothing DEF AllSound
<1>. QED
  BY <1>1, <1>2, <1>3, DomainKnown DEF Kept, EditorFresh, DashboardFresh, SaverFresh,
     EditorWrites, SaverWrites, Quiet, Writing, Domain, WriterNames

\* A key is set in the copy.
LEMMA KeptSets ==
    ASSUME AllSound, Kept, NEW v \in Savers, NEW c, NEW at,
           NEW key \in {"source", "prompts", "zones"}, NEW value,
           Sets(v, c, at, key, value), saver[v].pc \in {"idle", "setting"}
    PROVE  Kept'
<1>1. /\ dashboard'.copy = WithCamera(dashboard.copy, c, key, value)
      /\ laid' = More(laid, c, key, value)
      /\ saver'[v].pc = "setting" /\ \A u \in Savers : u # v => saver'[u] = saver[u]
      /\ UNCHANGED <<file, garbled, clear, editor, wanted, fresh, overlapped, torn>>
      /\ c \in DOMAIN dashboard.copy.cameras
  <2>1. dashboard.pc = "up" /\ DOMAIN saver = Savers
    BY DEF AllSound, BoardOK, SaversOK, Sets
  <2>. QED
    BY <2>1 DEF Sets, More, text, history
<1>2. Writing' = Writing
  BY <1>1 DEF Writing
<1>3. DashboardFresh => DashboardFresh'
  <2>1. LaidOK(laid) /\ wanted \in Config
    BY DEF AllSound, BoardOK
  <2>2. DashboardFresh => c \in DOMAIN wanted.cameras
    BY <1>1, <2>1, LaidIs DEF DashboardFresh
  <2>. QED
    BY <1>1, <2>1, <2>2, LaidMore DEF DashboardFresh
<1>. QED
  BY <1>1, <1>2, <1>3 DEF Kept, EditorFresh, SaverFresh, EditorWrites, SaverWrites, Quiet

\* A request is refused, or is over.
LEMMA KeptRefuse ==
    ASSUME AllSound, Kept, NEW v \in Savers, RefuseClassifier(v)
    PROVE  Kept'
<1>1. /\ saver'[v].pc = "idle" /\ \A u \in Savers : u # v => saver'[u] = saver[u]
      /\ UNCHANGED <<file, garbled, clear, editor, dashboard, laid, wanted, fresh, overlapped, torn>>
  BY DEF AllSound, BoardOK, SaversOK, RefuseClassifier, text, history, Idle
<1>2. Writing' = Writing
  BY <1>1 DEF Writing, RefuseClassifier
<1>. QED
  BY <1>1, <1>2 DEF Kept, EditorFresh, DashboardFresh, SaverFresh, EditorWrites, SaverWrites,
     Quiet

\* The copy becomes text.
LEMMA KeptDump ==
    ASSUME AllSound, Kept, NEW v \in Savers, Dump(v)
    PROVE  Kept'
<1>1. /\ saver'[v].pc = "dumped" /\ saver'[v].data = dashboard.copy /\ saver'[v].laid = laid
      /\ \A u \in Savers : u # v => saver'[u] = saver[u]
      /\ UNCHANGED <<file, garbled, clear, editor, dashboard, laid, wanted, overlapped, torn>>
      /\ fresh' = IF Quiet /\ "dashboard" \in fresh THEN fresh \union {v} ELSE fresh
  BY DEF AllSound, BoardOK, SaversOK, Dump, text
<1>2. Writing' = Writing
  BY <1>1 DEF Writing, Dump
<1>3. ~overlapped /\ ~torn => "dashboard" \notin Savers \union Editors /\ v \notin Editors
  BY DomainKnown DEF WriterNames
<1>4. ~overlapped /\ ~torn /\ Writing # {} => fresh' = fresh
  BY <1>1 DEF Quiet
<1>. QED
  BY <1>1, <1>2, <1>3, <1>4 DEF Kept, EditorFresh, DashboardFresh, SaverFresh, EditorWrites,
     SaverWrites, Quiet, Writing

\* A request that holds the last write and what was set is alone.
LEMMA KeptSaveTruncate ==
    ASSUME AllSound, Kept, NEW v \in Savers, DashboardTruncate(v)
    PROVE  Kept'
<1> SUFFICES ASSUME ~overlapped', ~torn' PROVE Kept'
  BY DEF Kept
<1>1. /\ ~overlapped /\ ~torn /\ v \in fresh
      /\ garbled' = FALSE /\ clear' = clear \union {v} /\ fresh' = fresh \intersect {"dashboard"}
      /\ UNCHANGED <<editor, dashboard, laid, wanted>>
  BY DEF DashboardTruncate, Emptied
<1>2. Quiet /\ SaverFresh(v) /\ DashboardFresh
  BY <1>1, FreshMeansQuiet, DomainKnown DEF Kept, SaverFresh
<1>3. /\ saver'[v].pc = "writing" /\ saver'[v].data = saver[v].data
      /\ saver'[v].laid = saver[v].laid
      /\ \A u \in Savers : u # v => saver'[u] = saver[u]
  BY DEF AllSound, BoardOK, SaversOK, DashboardTruncate
<1>4. Writing' = {v}
  BY <1>1, <1>2, <1>3 DEF Quiet, Writing
<1>5. fresh' = {"dashboard"}
  BY <1>1, <1>2 DEF SaverFresh
<1>6. SaverWrites(v)'
  BY <1>1, <1>2, <1>3, <1>4, <1>5 DEF SaverWrites, SaverFresh, DashboardTruncate
<1>7. /\ \A u \in Savers : u # v => saver'[u].pc # "writing"
      /\ \A e \in Editors : editor'[e].pc # "writing"
  BY <1>1, <1>2, <1>3 DEF Quiet, Writing
<1>. QED
  BY <1>1, <1>2, <1>4, <1>5, <1>6, <1>7, DomainKnown DEF Kept, Quiet, DashboardFresh, WriterNames

\* Its own write leaves the dashboard's copy up to date.
LEMMA KeptWrite ==
    ASSUME AllSound, Kept, NEW v \in Savers, DashboardWrite(v)
    PROVE  Kept'
<1> SUFFICES ASSUME ~overlapped', ~torn' PROVE Kept'
  BY DEF Kept
<1>1. ~overlapped /\ ~torn /\ SaverWrites(v) /\ UNCHANGED <<editor, dashboard, laid>>
  BY DEF DashboardWrite, Kept
<1>2. file' = wanted' /\ ~garbled' /\ fresh' = {"dashboard"}
  BY <1>1 DEF DashboardWrite, Written, SaverWrites
<1>3. Writing' = {}
  <2>1. saver'[v].pc = "idle" /\ \A u \in Savers : u # v => saver'[u] = saver[u]
    BY DEF AllSound, BoardOK, SaversOK, DashboardWrite, Idle
  <2>. QED
    BY <1>1, <2>1, DomainKnown DEF SaverWrites, Writing, WriterNames
<1>4. DashboardFresh'
  <2>1. LaidOK(saver[v].laid) /\ DOMAIN saver[v].laid \subseteq DOMAIN laid
    BY DEF AllSound, BoardOK, SaversOK, SaverOK, DashboardWrite
  <2>2. DashboardFresh
    BY <1>1 DEF Kept, SaverWrites
  <2>3. Laid(wanted', laid) = Laid(wanted, laid)
    BY <2>1, LaidTwice DEF AllSound, DashboardWrite
  <2>. QED
    BY <1>1, <2>2, <2>3 DEF DashboardFresh
<1>. QED
  BY <1>2, <1>3, <1>4, DomainKnown DEF Kept, Quiet, Writing, WriterNames

\* The dashboard ends, in the middle of a write or not.
LEMMA KeptStops ==
    ASSUME AllSound, Kept, DashboardStops
    PROVE  Kept'
<1> SUFFICES ASSUME ~overlapped', ~torn' PROVE Kept'
  BY DEF Kept
<1>1. /\ ~overlapped /\ ~torn /\ Writing \intersect Savers = {}
      /\ \A v \in Savers : saver'[v].pc = "idle"
      /\ UNCHANGED <<file, garbled, editor, wanted>>
      /\ clear' = clear \ Savers /\ fresh' = fresh \intersect Editors
  BY DEF DashboardStops, Idle
<1>2. Writing' = Writing
  BY <1>1 DEF Writing
<1>. QED
  BY <1>1, <1>2, DomainKnown DEF Kept, EditorFresh, EditorWrites, Quiet, Writing, WriterNames

-----------------------------------------------------------------------------
(* The edits the handlers begin.                                           *)

\* Whatever a PATCH checked is an edit, and legal flags if it is of the model
\* controls, merged into the file at hand.
LEMMA PatchBegins ==
    ASSUME AllSound, NEW e \in Editors, Patch(e)
    PROVE  \E edit \in Edits :
              /\ Begin(e, edit) /\ EditSound(edit)
              /\ edit.kind = "models" => Applied(edit, file) = Intended(edit, file)
<1>1. ASSUME NEW c \in Cameras, NEW value \in Values, PatchPrompts(e, c, value)
      PROVE  \E edit \in Edits : edit.kind # "models" /\ Begin(e, edit)
  <2> DEFINE edit == [kind |-> "prompts", camera |-> c, value |-> value]
  <2>1. edit \in Edits /\ edit.kind # "models"
    BY DEF Edits
  <2>. QED
    BY <1>1, <2>1 DEF PatchPrompts
<1>2. ASSUME NEW c \in Cameras, NEW source \in Optional(Values),
             NEW w \in Optional(Workstations \union {NoWorkstation}),
             PatchSettings(e, c, source, w)
      PROVE  \E edit \in Edits : edit.kind # "models" /\ Begin(e, edit)
  <2> DEFINE edit == [kind |-> "settings", camera |-> c, source |-> source, workstation |-> w]
  <2>1. edit \in Edits /\ edit.kind # "models"
    BY DEF Edits
  <2>. QED
    BY <1>2, <2>1 DEF PatchSettings
<1>3. ASSUME NEW c \in Cameras, NEW zones \in SUBSET Rois, NEW view \in Optional(SUBSET Rois),
             PatchRois(e, c, zones, view)
      PROVE  \E edit \in Edits : edit.kind # "models" /\ Begin(e, edit)
  <2> DEFINE edit == [kind |-> "rois", camera |-> c, zones |-> zones, view |-> view]
  <2>1. edit \in Edits /\ edit.kind # "models"
    BY DEF Edits
  <2>. QED
    BY <1>3, <2>1 DEF PatchRois
<1>4. ASSUME NEW payload \in Payloads, PatchModels(e, payload)
      PROVE  \E edit \in Edits :
                /\ Begin(e, edit) /\ EditSound(edit)
                /\ Applied(edit, file) = Intended(edit, file)
  <2> DEFINE flags == [s \in Stages |-> IF s \in DOMAIN payload THEN payload[s]
                                        ELSE file.flags[s]]
             edit == [kind |-> "models", flags |-> flags, payload |-> payload]
  <2>1. file.flags \in [Stages -> BOOLEAN]
    BY ConfigIs DEF AllSound, Sound
  <2>2. \A s \in DOMAIN payload : payload[s] \in BOOLEAN
    BY PayloadsAssumption
  <2>3. flags \in [Stages -> BOOLEAN]
    BY <2>1, <2>2
  <2>4. Legal(flags) /\ Begin(e, edit)
    BY <1>4 DEF PatchModels
  <2>5. edit.flags = flags /\ edit.payload = payload /\ edit.kind = "models"
    OBVIOUS
  <2>6. Applied(edit, file) = Intended(edit, file)
    BY <2>5, MergedAsIntended
  <2>7. edit \in Edits
    BY <2>3 DEF Edits
  <2>. HIDE DEF edit
  <2>. QED
    BY <2>4, <2>5, <2>6, <2>7 DEF EditSound
<1>5. \/ \E edit \in Edits : edit.kind # "models" /\ Begin(e, edit)
      \/ \E payload \in Payloads : PatchModels(e, payload)
  BY <1>1, <1>2, <1>3 DEF Patch
<1>. QED
  BY <1>4, <1>5 DEF EditSound

\* What a request may have reached.
Keys == {"source", "classifier", "last"}

\* A request sets something a key may hold.
SetsSome(v, c) ==
    /\ \E at \in Keys, key \in {"source", "prompts", "zones"} :
         \E value \in IF key = "zones" THEN SUBSET Rois ELSE Texts : Sets(v, c, at, key, value)
    /\ saver[v].pc \in {"idle", "setting"}

\* So does every POST.
LEMMA PostSets ==
    ASSUME AllSound, NEW v \in Savers, Post(v)
    PROVE  \E c \in Cameras : SetsSome(v, c)
<1>1. ASSUME NEW c, NEW earlier, Reaches(v, c, earlier)
      PROVE  saver[v].pc \in {"idle", "setting"}
  BY <1>1 DEF Reaches
<1>2. PICK c \in Cameras :
        \/ \E value \in Values : PostPrompts(v, c, value) \/ SetSource(v, c, value)
        \/ SetClassifier(v, c)
        \/ \E zone \in Rois : SetZone(v, c, zone)
  BY DEF Post
<1>3. ASSUME NEW at \in Keys, NEW key \in {"source", "prompts", "zones"},
             NEW value \in IF key = "zones" THEN SUBSET Rois ELSE Texts,
             NEW earlier, Reaches(v, c, earlier), Sets(v, c, at, key, value)
      PROVE  SetsSome(v, c)
  BY <1>1, <1>3 DEF SetsSome
<1>4. ASSUME NEW value \in Values, PostPrompts(v, c, value) \/ SetSource(v, c, value)
      PROVE  SetsSome(v, c)
  <2>1. "last" \in Keys /\ "source" \in Keys /\ value \in Texts
    BY DEF Keys, Texts
  <2>2. CASE PostPrompts(v, c, value)
    BY <1>3, <2>1, <2>2 DEF PostPrompts
  <2>3. CASE SetSource(v, c, value)
    BY <1>3, <2>1, <2>3 DEF SetSource
  <2>. QED
    BY <1>4, <2>2, <2>3
<1>5. CASE SetClassifier(v, c)
  <2>1. Reaches(v, c, {"source"}) /\ Sets(v, c, "classifier", "prompts", "default")
    BY <1>5 DEF SetClassifier
  <2>2. "classifier" \in Keys /\ "default" \in Texts
    BY DEF Keys, Texts
  <2>. QED
    BY <1>3, <2>1, <2>2
<1>6. ASSUME NEW zone \in Rois, SetZone(v, c, zone)
      PROVE  SetsSome(v, c)
  <2> DEFINE zones == dashboard.copy.cameras[c].zones \union {zone}
  <2>1. Reaches(v, c, {"source", "classifier"}) /\ Sets(v, c, "last", "zones", zones)
    BY <1>6 DEF SetZone
  <2>2. dashboard.copy \in Config /\ c \in DOMAIN dashboard.copy.cameras
    BY <2>1 DEF AllSound, BoardOK, DashboardOK, Sound, Sets
  <2>3. dashboard.copy.cameras[c] \in Camera
    BY <2>2, ConfigIs, CameraMapsAre
  <2>4. zones \in SUBSET Rois
    BY <2>3 DEF Camera
  <2>5. "last" \in Keys
    BY DEF Keys
  <2>. HIDE DEF zones
  <2>. QED
    BY <1>3, <2>1, <2>4, <2>5
<1>. QED
  BY <1>2, <1>4, <1>5, <1>6

-----------------------------------------------------------------------------
(* The theorems.                                                           *)

ConfigInv == AllSound /\ Kept

\* The delivered configuration is sound and nobody writes.
LEMMA Initially == Init => ConfigInv
<1> SUFFICES ASSUME Init PROVE ConfigInv
  OBVIOUS
<1>1. Sound(file) /\ wanted \in Config
  BY ConfigAssumption DEF Init, Sound
<1>2. EditorsOK /\ BoardOK
  BY DEF Init, EditorsOK, EditorOK, Idle, BoardOK, DashboardOK, DownDashboard, LaidOK,
     NoFunction, SaversOK, SaverOK, DownOK
<1>3. WritersOK /\ CountsOK
  <2>1. edits \in 0..MaxEdits /\ crashes \in 0..MaxCrashes /\ saves \in 0..MaxSaves
    BY BoundsNatural DEF Init
  <2>2. garbled \in BOOLEAN /\ overlapped \in BOOLEAN /\ torn \in BOOLEAN
    BY DEF Init
  <2>. QED
    BY <2>1, <2>2 DEF Init, WritersOK, CountsOK
<1>4. Kept
  BY DEF Init, Kept, Idle, DownDashboard
<1>. QED
  BY <1>1, <1>2, <1>3, <1>4 DEF ConfigInv, AllSound

\* Every step keeps the file sound and the edits.
LEMMA Steps == ConfigInv /\ [Next]_vars => ConfigInv'
<1> SUFFICES ASSUME AllSound, Kept, [Next]_vars PROVE AllSound' /\ Kept'
  BY DEF ConfigInv
<1>. Domain /\ WriterNames
  BY DomainKnown
<1>1. ASSUME NEW e \in Editors, Patch(e) PROVE AllSound' /\ Kept'
  <2>1. PICK edit \in Edits :
            /\ Begin(e, edit) /\ EditSound(edit)
            /\ edit.kind = "models" => Applied(edit, file) = Intended(edit, file)
    BY <1>1, PatchBegins
  <2>2. Quiet /\ ~overlapped /\ ~torn => file = wanted
    BY DEF Kept
  <2>3. Kept'
    BY <2>1, <2>2, KeptBegin
  <2>. QED
    BY <2>1, <2>3, SoundBegin
<1>2. ASSUME NEW e \in Editors, ReadRaw(e) PROVE AllSound' /\ Kept'
  BY <1>2, SoundReadRaw, KeptReadRaw
<1>3. ASSUME NEW e \in Editors, ReadFails(e) PROVE AllSound' /\ Kept'
  BY <1>3, SoundEnds, KeptReadFails
<1>4. ASSUME NEW e \in Editors, Truncate(e) PROVE AllSound' /\ Kept'
  BY <1>4, SoundTruncate, KeptTruncate
<1>5. ASSUME NEW e \in Editors, WriteText(e) PROVE AllSound' /\ Kept'
  BY <1>5, SoundWriteText, KeptWriteText
<1>6. ASSUME NEW e \in Editors, Audit(e) PROVE AllSound' /\ Kept'
  BY <1>6, SoundEnds, KeptAudit
<1>7. CASE Crash
  BY <1>7, SoundCrash, KeptCrash
<1>8. CASE DashboardStart
  BY <1>8, SoundStart, KeptStart
<1>9. ASSUME NEW v \in Savers, Post(v) PROVE AllSound' /\ Kept'
  <2>1. PICK c \in Cameras, at \in Keys, key \in {"source", "prompts", "zones"} :
            \E value \in IF key = "zones" THEN SUBSET Rois ELSE Texts :
               Sets(v, c, at, key, value) /\ saver[v].pc \in {"idle", "setting"}
    BY <1>9, PostSets DEF SetsSome
  <2>. QED
    BY <2>1, SoundSets, KeptSets
<1>10. ASSUME NEW v \in Savers,
              RefuseClassifier(v) \/ Dump(v) \/ DashboardTruncate(v) \/ DashboardWrite(v)
       PROVE  AllSound' /\ Kept'
  BY <1>10, SoundRefuse, KeptRefuse, SoundDump, KeptDump, SoundSaveTruncate, KeptSaveTruncate,
     SoundWrite, KeptWrite
<1>11. CASE DashboardStops
  BY <1>11, SoundStops, KeptStops
<1>12. CASE UNCHANGED vars
  <2>1. AllSound'
    BY <1>12 DEF AllSound, EditorsOK, BoardOK, SaversOK, SaverOK, DownOK, WritersOK, Writing,
       CountsOK, vars, text, board, history, bounds
  <2>2. Kept'
    BY <1>12 DEF Kept, EditorFresh, DashboardFresh, SaverFresh, EditorWrites, SaverWrites,
       Quiet, Writing, vars, text, board, history, bounds
  <2>. QED
    BY <2>1, <2>2
<1>. QED
  BY <1>1, <1>2, <1>3, <1>4, <1>5, <1>6, <1>7, <1>8, <1>9, <1>10, <1>11, <1>12 DEF Next

\* Both hold in every reachable state.
LEMMA Invariantly == Spec => []ConfigInv
BY Initially, Steps, PTL DEF Spec

\* The state keeps its shape.
THEOREM TypeInvariant == Spec => []TypeOK
<1>1. ConfigInv => TypeOK
  <2> SUFFICES ASSUME ConfigInv PROVE TypeOK
    OBVIOUS
  <2>1. /\ DOMAIN editor = Editors
        /\ \A e \in Editors :
            /\ editor[e].pc \in {"idle", "checked", "read", "writing", "written"}
            /\ editor[e].pc # "idle" => editor[e].edit \in Edits
            /\ editor[e].pc \in {"read", "writing"} => editor[e].data \in Config
    BY DEF ConfigInv, AllSound, EditorsOK, EditorOK, EditSound, Sound
  <2>2. /\ dashboard.pc \in {"down", "up"}
        /\ dashboard.pc = "up" => dashboard.copy \in Config
        /\ LaidOK(laid)
    BY DEF ConfigInv, AllSound, BoardOK, DashboardOK, Sound
  <2>3. /\ DOMAIN saver = Savers
        /\ \A v \in Savers :
            /\ saver[v].pc \in {"idle", "setting", "dumped", "writing"}
            /\ saver[v].pc = "setting" => saver[v].camera \in Cameras
            /\ saver[v].pc \in {"dumped", "writing"} =>
                  saver[v].data \in Config /\ LaidOK(saver[v].laid)
    BY DEF ConfigInv, AllSound, BoardOK, SaversOK, SaverOK, Sound
  <2>. QED
    BY <2>1, <2>2, <2>3 DEF ConfigInv, AllSound, WritersOK, CountsOK, Sound, TypeOK
<1>. QED
  BY Invariantly, <1>1, PTL

\* The flags in the file obey the rules of the PATCH, whoever writes when.
THEOREM FlagsInvariant == Spec => []FlagsLegal
<1>1. ConfigInv => FlagsLegal
  BY DEF ConfigInv, AllSound, Sound, FlagsLegal
<1>. QED
  BY Invariantly, <1>1, PTL

\* The route in the file maps allowed workstations to different cameras.
THEOREM RouteInvariant == Spec => []RouteUnambiguous
<1>1. ConfigInv => RouteUnambiguous
  BY DEF ConfigInv, AllSound, Sound, RouteUnambiguous
<1>. QED
  BY Invariantly, <1>1, PTL

\* Without a lost reading and a crash in the middle of a write, the file holds
\* every edit.
THEOREM EditsInvariant == Spec => []EditsKept
<1>1. ConfigInv => EditsKept
  BY DEF ConfigInv, Kept, EditsKept, Readable
<1>. QED
  BY Invariantly, <1>1, PTL

=============================================================================

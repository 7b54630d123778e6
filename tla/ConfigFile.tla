------------------------------ MODULE ConfigFile ------------------------------
(***************************************************************************)
(* config.yaml and the ones who rewrite it: the PATCH handlers of the      *)
(* administration API (app/api/admin.py), which run on the threads of a    *)
(* pool without a lock, and the dashboard process (app.py), whose POST     *)
(* handlers run on a pool of their own, change the one configuration that  *)
(* was read when the process started and write that.  Every writer         *)
(* replaces the whole file: Path.write_text opens it for writing, which empties it, and *)
(* then writes the text.  An empty file parses as {}; a text written over  *)
(* the longer text of another writer keeps the end of it and may be no     *)
(* YAML at all, so that every reader raises.                               *)
(*                                                                         *)
(* Of the file are kept the cameras (source, prompts, ROI zones and one    *)
(* model view), the route of POS workstations to cameras with the          *)
(* allow-list, and the enable flags of the six model stages.  The other    *)
(* keys travel with the rest of the text.                                  *)
(***************************************************************************)
EXTENDS Naturals, FiniteSets, Functions

CONSTANTS
    Editors,        \* threads of the API that may serve a PATCH
    Savers,         \* threads of the dashboard that may serve a POST
    Cameras, Workstations, Rois,
    Values,         \* what a text field (source, prompt) may be set to
    Payloads,       \* the flags a PATCH of the model controls may carry
    Initial,        \* the configuration the site was delivered with
    MaxEdits, MaxCrashes,   \* bounds of the model: PATCHes begun, processes that die,
    MaxSaves                \* and texts made of the dashboard's copy

Stages == {"falcon", "sam2", "ocr", "qwen3_vl", "gemma", "sam3"}

\* An independent source stays enabled; SAM 2 and OCR consume Falcon's boxes.
Legal(flags) ==
    /\ flags["falcon"] \/ flags["qwen3_vl"] \/ flags["gemma"] \/ flags["sam3"]
    /\ flags["sam2"] => flags["falcon"]
    /\ flags["ocr"] => flags["falcon"]

\* A stage the file does not mention.
DefaultFlags == [s \in Stages |-> s \notin {"ocr", "sam3"}]

\* "default" stands for the empty prompts: the defaults of the classifier.
Texts == Values \union {"delivered", "default"}

Camera == [source: Texts, prompts: Texts, zones: SUBSET Rois, view: SUBSET Rois]

Config == [cameras: UNION {[C -> Camera] : C \in SUBSET Cameras},
           route: UNION {[W -> Cameras] : W \in SUBSET Workstations},
           allowed: SUBSET Workstations,
           flags: [Stages -> BOOLEAN]]

\* The empty text, which clears the route of a camera.
NoWorkstation == "none"

NoFunction == [x \in {} |-> x]
Empty == [cameras |-> NoFunction, route |-> NoFunction, allowed |-> {},
          flags |-> DefaultFlags]

\* Each workstation of the route is allowed, and a camera has at most one.
RoutesSound(config) ==
    /\ DOMAIN config.route \subseteq config.allowed
    /\ IsInjective(config.route)

ASSUME ConfigAssumption ==
    /\ Initial \in Config
    /\ DOMAIN Initial.cameras = Cameras
    /\ Cameras # {}
    /\ Legal(Initial.flags)
    /\ RoutesSound(Initial)
ASSUME PayloadsAssumption ==
    Payloads \subseteq UNION {[S -> BOOLEAN] : S \in SUBSET Stages \ {{}}}
ASSUME WritersAssumption ==
    /\ Editors \intersect Savers = {} /\ "dashboard" \notin Editors \union Savers
    /\ NoWorkstation \notin Workstations
ASSUME ConfigBoundsAssumption == {MaxEdits, MaxCrashes, MaxSaves} \subseteq Nat

VARIABLES
    file,       \* the configuration the file's text stands for
    garbled,    \* the text is no YAML
    clear,      \* writers since whose truncation nothing was written
    editor,     \* each thread: idle, or how far it is with its edit
    dashboard,  \* the dashboard process and its copy of the configuration
    saver,      \* each of its threads: idle, or how far it is with its request
    laid,       \* history: the keys its requests have set since it started
    wanted,     \* history: the edits applied in the order they were written
    fresh,      \* history: writers, and the copy, that hold the last write
    overlapped, \* history: some write replaced a file its author had not read
    torn,       \* history: some writer ended after it had emptied the file
    edits, crashes, saves   \* counters for the bounds

history == <<wanted, fresh, overlapped, torn>>
bounds == <<edits, crashes, saves>>
text == <<file, garbled, clear>>
board == <<dashboard, saver, laid>>
vars == <<text, editor, board, history, bounds>>

Idle == [pc |-> "idle"]
DownDashboard == [pc |-> "down"]

-----------------------------------------------------------------------------
(* What an edit makes of a configuration.                                  *)

Without(f, S) == Restrict(f, DOMAIN f \ S)

WithCamera(config, c, key, value) ==
    [config EXCEPT !.cameras[c] = [@ EXCEPT ![key] = value]]

\* Defect: the empty workstation, which clears the route, is mapped too.
WithWorkstationUnchecked(config, c, w) ==
    LET kept == Without(config.route, {v \in DOMAIN config.route : config.route[v] = c})
    IN  [config EXCEPT !.route = [v \in DOMAIN kept \union {w} |-> IF v = w THEN c ELSE kept[v]],
                       !.allowed = @ \union {w}]

\* Defect: the workstation that pointed at the camera stays.
WithWorkstationAdded(config, c, w) ==
    IF w = NoWorkstation THEN config
    ELSE [config EXCEPT !.route = [v \in DOMAIN @ \union {w} |-> IF v = w THEN c ELSE @[v]],
                        !.allowed = @ \union {w}]

\* The workstation that pointed at the camera is dropped, the new one, if
\* any, is mapped and allowed; a workstation once allowed stays so.
WithWorkstation(config, c, w) ==
    LET kept == Without(config.route, {v \in DOMAIN config.route : config.route[v] = c})
        moved == IF w = NoWorkstation THEN kept
                 ELSE [v \in DOMAIN kept \union {w} |-> IF v = w THEN c ELSE kept[v]]
    IN  [config EXCEPT !.route = moved,
                       !.allowed = IF w = NoWorkstation THEN @ ELSE @ \union {w}]

\* Defect: only the flags of the payload are written.
WithFlagsNamed(config, edit) ==
    [config EXCEPT !.flags =
        [s \in Stages |-> IF s \in DOMAIN edit.payload THEN edit.payload[s] ELSE @[s]]]

\* All six flags are written, those the payload does not name as they were
\* when it was validated.
WithFlags(config, edit) == [config EXCEPT !.flags = edit.flags]

\* A field of an edit that may be left out is a set of at most one value.
Optional(S) == {{}} \union {{x} : x \in S}

WithSettings(config, edit) ==
    LET sourced == IF edit.source = {} THEN config
                   ELSE WithCamera(config, edit.camera, "source", CHOOSE x \in edit.source : TRUE)
    IN  IF edit.workstation = {} THEN sourced
        ELSE WithWorkstation(sourced, edit.camera, CHOOSE w \in edit.workstation : TRUE)

WithRois(config, edit) ==
    LET zoned == IF edit.zones = {} THEN config
                 ELSE WithCamera(config, edit.camera, "zones", edit.zones)
    IN  IF edit.view = {} THEN zoned
        ELSE WithCamera(zoned, edit.camera, "view", CHOOSE v \in edit.view : TRUE)

Applied(edit, config) ==
    CASE edit.kind = "prompts" -> WithCamera(config, edit.camera, "prompts", edit.value)
      [] edit.kind = "settings" -> WithSettings(config, edit)
      [] edit.kind = "rois" -> WithRois(config, edit)
      [] edit.kind = "models" -> WithFlags(config, edit)

\* The raw file must hold the camera; the model flags need none.
Found(edit, config) == IF edit.kind = "models" THEN TRUE ELSE edit.camera \in DOMAIN config.cameras

-----------------------------------------------------------------------------
(* A PATCH: validate, read, empty the file, write it, record the edit.     *)

Writing == {e \in Editors : editor[e].pc = "writing"}
           \union {v \in Savers : saver[v].pc = "writing"}

Quiet == Writing = {}

\* A text that is no YAML raises in whoever reads it.
Readable == ~garbled

Begin(e, edit) ==
    /\ editor[e].pc = "idle"
    /\ edits < MaxEdits
    /\ edits' = edits + 1
    /\ editor' = [editor EXCEPT ![e] = [pc |-> "checked", edit |-> edit]]
    /\ fresh' = IF Quiet THEN fresh \union {e} ELSE fresh
    /\ UNCHANGED <<text, board, wanted, overlapped, torn, crashes, saves>>

\* load_config finds the camera and the text holds no accusation.
PatchPrompts(e, c, value) ==
    /\ Readable
    /\ c \in DOMAIN file.cameras
    /\ Begin(e, [kind |-> "prompts", camera |-> c, value |-> value])

\* Source and workstation of a camera: nothing is read before the raw file.
PatchSettings(e, c, source, w) ==
    /\ source \union w # {}
    /\ Begin(e, [kind |-> "settings", camera |-> c, source |-> source, workstation |-> w])

\* New zones, a new view or both; the view names zones of the same payload, or
\* of the file at hand when the payload has none.
PatchRois(e, c, zones, view) ==
    /\ Readable
    /\ c \in DOMAIN file.cameras
    /\ zones \union view # {}
    /\ \A v \in view : v \subseteq IF zones = {} THEN file.cameras[c].zones ELSE zones
    /\ Begin(e, [kind |-> "rois", camera |-> c, zones |-> zones, view |-> view])

\* The payload is merged with the flags of the file at hand and validated.
PatchModels(e, payload) ==
    LET flags == [s \in Stages |-> IF s \in DOMAIN payload THEN payload[s] ELSE file.flags[s]]
    IN  /\ Readable
        /\ Legal(flags)
        /\ Begin(e, [kind |-> "models", flags |-> flags, payload |-> payload])

\* What the handler goes by besides the raw file: the flags of its check.
UsesCheck(edit) == edit.kind = "models"

ReadRaw(e) ==
    /\ editor[e].pc = "checked"
    /\ Readable
    /\ Found(editor[e].edit, file)
    /\ editor' = [editor EXCEPT ![e] = [pc |-> "read", edit |-> @.edit,
                                        data |-> Applied(@.edit, file)]]
    /\ fresh' = IF Quiet /\ ~UsesCheck(editor[e].edit) THEN fresh \union {e} ELSE fresh
    /\ UNCHANGED <<text, board, wanted, overlapped, torn, bounds>>

\* 404, the camera is not in config.yaml, or 500, the text is no YAML.
ReadFails(e) ==
    /\ editor[e].pc = "checked"
    /\ Readable => ~Found(editor[e].edit, file)
    /\ editor' = [editor EXCEPT ![e] = Idle]
    /\ UNCHANGED <<text, board, history, bounds>>

\* open(..., "w"); kept holds the copy the text is from, if there is one.
Emptied(writer, kept) ==
    /\ file' = Empty
    /\ garbled' = FALSE
    /\ clear' = clear \union {writer}
    /\ fresh' = fresh \intersect kept
    /\ overlapped' = (overlapped \/ writer \notin fresh)

\* The text goes to the start of the file.  If another writer has been there
\* since the file was emptied for this one, the longer text's end may remain.
Written(writer, config, kept) ==
    /\ file' = config
    /\ garbled' \in IF writer \in clear THEN {FALSE} ELSE BOOLEAN
    /\ clear' = {}
    /\ fresh' = fresh \intersect kept

Truncate(e) ==
    /\ editor[e].pc = "read"
    /\ editor' = [editor EXCEPT ![e].pc = "writing"]
    /\ Emptied(e, {})
    /\ UNCHANGED <<board, wanted, torn, bounds>>

\* What the edit is meant to do to a configuration.
Intended(edit, config) ==
    IF edit.kind = "models"
    THEN [config EXCEPT !.flags =
            [s \in Stages |-> IF s \in DOMAIN edit.payload THEN edit.payload[s] ELSE @[s]]]
    ELSE Applied(edit, config)

WriteText(e) ==
    /\ editor[e].pc = "writing"
    /\ editor' = [editor EXCEPT ![e] = [pc |-> "written", edit |-> @.edit]]
    /\ Written(e, editor[e].data, {})
    /\ wanted' = Intended(editor[e].edit, wanted)
    /\ UNCHANGED <<board, overlapped, torn, bounds>>

\* The audit row is committed after the file is written, or the database
\* refuses it; either way the handler is done.
Audit(e) ==
    /\ editor[e].pc = "written"
    /\ editor' = [editor EXCEPT ![e] = Idle]
    /\ UNCHANGED <<text, board, history, bounds>>

\* The API process dies with the edits it was serving.
Crash ==
    /\ crashes < MaxCrashes
    /\ crashes' = crashes + 1
    /\ editor' = [e \in Editors |-> Idle]
    /\ torn' = (torn \/ Writing \intersect Editors # {})
    /\ clear' = clear \ Editors
    /\ fresh' = fresh \ Editors
    /\ UNCHANGED <<file, garbled, board, wanted, overlapped, edits, saves>>

-----------------------------------------------------------------------------
(* The dashboard process.                                                  *)

\* An empty file, or one that is no YAML, makes the start fail.
DashboardStart ==
    /\ dashboard.pc = "down"
    /\ Readable
    /\ file # Empty
    /\ dashboard' = [pc |-> "up", copy |-> file]
    /\ fresh' = IF Quiet THEN fresh \union {"dashboard"} ELSE fresh
    /\ UNCHANGED <<text, editor, saver, laid, wanted, overlapped, torn, bounds>>

\* A request begins, or goes on to a later key of its camera, while there is a save
\* left that may write what it sets.
Reaches(v, c, earlier) ==
    /\ saves < MaxSaves
    /\ \/ saver[v].pc = "idle"
       \/ saver[v].pc = "setting" /\ saver[v].camera = c /\ saver[v].at \in earlier

\* Defect: the request is given a copy of its camera and sets the keys of that.
SetsApart(v, c, at, key, value) ==
    /\ dashboard.pc = "up"
    /\ c \in DOMAIN dashboard.copy.cameras
    /\ laid' = [x \in DOMAIN laid \union {<<c, key>>} |->
                   IF x = <<c, key>> THEN value ELSE laid[x]]
    /\ saver' = [saver EXCEPT ![v] = [pc |-> "setting", camera |-> c, at |-> at]]
    /\ UNCHANGED <<text, editor, dashboard, history, bounds>>

\* Every thread sets the keys of the one copy, key by key.
Sets(v, c, at, key, value) ==
    /\ dashboard.pc = "up"
    /\ c \in DOMAIN dashboard.copy.cameras
    /\ dashboard' = [dashboard EXCEPT !.copy = WithCamera(@, c, key, value)]
    /\ laid' = [x \in DOMAIN laid \union {<<c, key>>} |->
                   IF x = <<c, key>> THEN value ELSE laid[x]]
    /\ saver' = [saver EXCEPT ![v] = [pc |-> "setting", camera |-> c, at |-> at]]
    /\ UNCHANGED <<text, editor, history, bounds>>

\* POST /prompts.
PostPrompts(v, c, value) == Reaches(v, c, {}) /\ Sets(v, c, "last", "prompts", value)

\* POST /cameras/{camera_id}: the source is set before the classifier is checked,
SetSource(v, c, value) == Reaches(v, c, {}) /\ Sets(v, c, "source", "source", value)

\* a known classifier resets the prompts,
SetClassifier(v, c) ==
    Reaches(v, c, {"source"}) /\ Sets(v, c, "classifier", "prompts", "default")

\* an unknown one ends the request with 400: what it has set stays set,
RefuseClassifier(v) ==
    /\ saver[v].pc = "setting"
    /\ saver[v].at = "source"
    /\ saver' = [saver EXCEPT ![v] = Idle]
    /\ UNCHANGED <<text, editor, dashboard, laid, history, bounds>>

\* and the staff or the customer zone comes last.
SetZone(v, c, zone) ==
    /\ Reaches(v, c, {"source", "classifier"})
    /\ Sets(v, c, "last", "zones", dashboard.copy.cameras[c].zones \union {zone})

\* The whole copy becomes text: with what other requests have set so far.
Dump(v) ==
    /\ saver[v].pc = "setting"
    /\ saves < MaxSaves
    /\ saves' = saves + 1
    /\ saver' = [saver EXCEPT ![v] = [pc |-> "dumped", data |-> dashboard.copy, laid |-> laid]]
    /\ fresh' = IF Quiet /\ "dashboard" \in fresh THEN fresh \union {v} ELSE fresh
    /\ UNCHANGED <<text, editor, dashboard, laid, wanted, overlapped, torn, edits, crashes>>

\* The file, which is not read again, is emptied.
DashboardTruncate(v) ==
    /\ saver[v].pc = "dumped"
    /\ saver' = [saver EXCEPT ![v].pc = "writing"]
    /\ Emptied(v, {"dashboard"})
    /\ UNCHANGED <<editor, dashboard, laid, wanted, torn, bounds>>

\* A configuration with the keys the requests have set.
Laid(config, set) ==
    [config EXCEPT !.cameras = [c \in DOMAIN @ |-> [key \in DOMAIN @[c] |->
        IF <<c, key>> \in DOMAIN set THEN set[<<c, key>>] ELSE @[c][key]]]]

DashboardWrite(v) ==
    /\ saver[v].pc = "writing"
    /\ saver' = [saver EXCEPT ![v] = Idle]
    /\ Written(v, saver[v].data, {"dashboard"})
    /\ wanted' = Laid(wanted, saver[v].laid)
    /\ UNCHANGED <<editor, dashboard, laid, overlapped, torn, bounds>>

DashboardStops ==
    /\ dashboard.pc = "up"
    /\ crashes < MaxCrashes
    /\ crashes' = crashes + 1
    /\ dashboard' = DownDashboard
    /\ saver' = [v \in Savers |-> Idle]
    /\ laid' = NoFunction
    /\ fresh' = fresh \intersect Editors
    /\ torn' = (torn \/ Writing \intersect Savers # {})
    /\ clear' = clear \ Savers
    /\ UNCHANGED <<file, garbled, editor, wanted, overlapped, edits, saves>>

-----------------------------------------------------------------------------

Init ==
    /\ file = Initial
    /\ garbled = FALSE /\ clear = {}
    /\ editor = [e \in Editors |-> Idle]
    /\ dashboard = DownDashboard
    /\ saver = [v \in Savers |-> Idle]
    /\ laid = NoFunction
    /\ wanted = Initial
    /\ fresh = {}
    /\ overlapped = FALSE /\ torn = FALSE
    /\ edits = 0 /\ crashes = 0 /\ saves = 0

Patch(e) ==
    \/ \E c \in Cameras, value \in Values : PatchPrompts(e, c, value)
    \/ \E c \in Cameras, source \in Optional(Values), w \in Optional(Workstations \union {NoWorkstation}) :
        PatchSettings(e, c, source, w)
    \/ \E c \in Cameras, zones \in SUBSET Rois, view \in Optional(SUBSET Rois) :
        PatchRois(e, c, zones, view)
    \/ \E payload \in Payloads : PatchModels(e, payload)

Post(v) ==
    \E c \in Cameras :
        \/ \E value \in Values : PostPrompts(v, c, value) \/ SetSource(v, c, value)
        \/ SetClassifier(v, c)
        \/ \E zone \in Rois : SetZone(v, c, zone)

Next ==
    \/ \E e \in Editors :
        Patch(e) \/ ReadRaw(e) \/ ReadFails(e) \/ Truncate(e) \/ WriteText(e) \/ Audit(e)
    \/ Crash
    \/ \E v \in Savers :
        Post(v) \/ RefuseClassifier(v) \/ Dump(v) \/ DashboardTruncate(v) \/ DashboardWrite(v)
    \/ DashboardStart \/ DashboardStops

Spec == Init /\ [][Next]_vars

-----------------------------------------------------------------------------

\* The edits a PATCH may be at.
Edits ==
    [kind: {"prompts"}, camera: Cameras, value: Values]
    \union [kind: {"settings"}, camera: Cameras, source: Optional(Values),
            workstation: Optional(Workstations \union {NoWorkstation})]
    \union [kind: {"rois"}, camera: Cameras, zones: SUBSET Rois, view: Optional(SUBSET Rois)]
    \union [kind: {"models"}, flags: [Stages -> BOOLEAN], payload: Payloads]

\* What a record of the keys that were set may hold.
LaidOK(set) ==
    /\ DOMAIN set \subseteq Cameras \X {"source", "prompts", "zones"}
    /\ \A x \in DOMAIN set : set[x] \in IF x[2] = "zones" THEN SUBSET Rois ELSE Texts

\* The parts of the state have the shape the code gives them.
TypeOK ==
    /\ file \in Config
    /\ DOMAIN editor = Editors
    /\ \A e \in Editors :
        /\ editor[e].pc \in {"idle", "checked", "read", "writing", "written"}
        /\ editor[e].pc # "idle" => editor[e].edit \in Edits
        /\ editor[e].pc \in {"read", "writing"} => editor[e].data \in Config
    /\ dashboard.pc \in {"down", "up"}
    /\ dashboard.pc = "up" => dashboard.copy \in Config
    /\ DOMAIN saver = Savers
    /\ \A v \in Savers :
        /\ saver[v].pc \in {"idle", "setting", "dumped", "writing"}
        /\ saver[v].pc = "setting" => saver[v].camera \in Cameras
        /\ saver[v].pc \in {"dumped", "writing"} => saver[v].data \in Config /\ LaidOK(saver[v].laid)
    /\ LaidOK(laid)
    /\ wanted \in Config
    /\ fresh \subseteq Editors \union Savers \union {"dashboard"}
    /\ clear \subseteq Writing
    /\ {garbled, overlapped, torn} \subseteq BOOLEAN
    /\ edits \in 0..MaxEdits /\ crashes \in 0..MaxCrashes /\ saves \in 0..MaxSaves

\* The flags in the file always satisfy the rules the PATCH validates, however
\* the edits of several threads and of the dashboard overlap and whatever a
\* crash leaves behind (_validate_model_control_update checks one payload
\* against one reading; update_model_controls writes all six flags).
FlagsLegal == Legal(file.flags)

\* A camera answers for at most one workstation and every mapped workstation
\* is allowed, also when whole files are overwritten by stale ones
\* (update_camera_settings: "a camera maps to exactly one workstation id").
RouteUnambiguous == RoutesSound(file)

\* As long as no writer replaced a file it did not hold and none died in the middle
\* of its write, the file is YAML and holds every edit, applied in the order of the
\* writes: a PATCH changes only the keys its payload names, of the file as it is then,
\* and a save of the dashboard writes the keys its requests have set since it started,
\* those of a request that was refused included (update_camera), and no other.
EditsKept == Quiet /\ ~overlapped /\ ~torn => file = wanted /\ Readable

\* Not so: every allow-listed workstation is mapped to a camera of the file, which
\* validate_poll_config asks of a configuration with polling enabled and without
\* which a production start refuses; update_camera_settings unmaps and allows on.
AllowedAreMapped ==
    Quiet /\ ~overlapped /\ ~torn =>
        \A w \in file.allowed : w \in DOMAIN file.route /\ file.route[w] \in DOMAIN file.cameras

\* Not so: no edit deletes the cameras from the file ("the operator's PATCH should
\* never delete unrelated keys"); update_model_controls may read the file that
\* another write has just emptied.
CamerasStay == Quiet /\ ~torn => DOMAIN file.cameras = Cameras

=============================================================================

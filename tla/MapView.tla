------------------------------- MODULE MapView -------------------------------
(***************************************************************************)
(* How a page and a user share the map of src/components/ui/map.tsx: the   *)
(* controlled viewport, the buttons of MapControls, a draggable marker     *)
(* with its popup and tooltip, a MapPopup, and the theme that is detected  *)
(* when the page gives none.                                               *)
(*                                                                         *)
(* The page's state is `page`.  React renders it, all updates since the    *)
(* last render at once, and runs the effects of a render later: an event   *)
(* may come in between and finds the map as the render before left it.     *)
(* MapLibre moves the camera and the marker at once and tells the page.    *)
(***************************************************************************)
EXTENDS Integers

CONSTANTS
    View,               \* viewports
    zoomIn, zoomOut,    \* where a click of a zoom button takes each of them
    north,              \* each of them, turned north
    located,            \* the viewport around the user's location
    Place,              \* coordinates of a marker or popup
    Theme,
    geolocation,        \* the browser has it
    None,               \* no place, theme, movement
    Hand,               \* the movement of a user's hand
    MaxInputs           \* bound: what the user, the page and the browser do

ASSUME ViewAssumption ==
    /\ {zoomIn, zoomOut, north} \subseteq [View -> View] /\ located \in View
    /\ None \notin View \cup Place \cup Theme \cup {Hand} /\ Hand \notin View
    /\ geolocation \in BOOLEAN /\ MaxInputs \in Nat

VARIABLES
    inputs,         \* inputs so far
    page,           \* what the page asks for
    setViewport,    \* it set the viewport since the last render
    rendered,       \* what the last render saw
    syncDue,        \* that render has a new viewport, whose effect is to run
    applied,        \* what the last render saw whose effects ran
    map,            \* mapInstance: there is a map
    camera,         \* its viewport
    movement,       \* None, Hand, or the viewport an animation ends at
    compass,        \* the viewport whose bearing CompassButton shows
    waiting,        \* waitingForLocation
    asks,           \* geolocation requests of these controls, of earlier ones
    expanding,      \* cluster clicks whose expansion zoom is awaited
    marker,         \* where the marker is, None if not on the map
    dragging,       \* the user holds it
    markerPopup,    \* its popup is open
    tooltip,        \* where its tooltip is open
    popup,          \* where the MapPopup is open
    document, system, detectedTheme,
    wish,           \* history: the viewport last set, by the page or a movement
    unseen          \* history: updates that nothing reacted to

react   == <<page, setViewport, rendered, syncDue, applied>>
view    == <<map, camera, movement, compass, expanding>>
control == <<waiting, asks>>
widgets == <<marker, dragging, markerPopup, tooltip, popup>>
theme   == <<document, system, detectedTheme>>
history == <<wish, unseen>>
vars == <<inputs, react, view, control, widgets, theme, history>>

Page == [shown : BOOLEAN, theme : Theme \cup {None}, viewport : View,
         controls : BOOLEAN, marker : Place \cup {None}, popup : Place \cup {None}]

(* Children of Map are rendered once there is a map.                        *)
Live(r) == r.page.shown /\ r.map
HasMarker(r) == Live(r) /\ r.page.marker # None
HasPopup(r) == Live(r) /\ r.page.popup # None
HasControls(r) == Live(r) /\ r.page.controls

Detected(c, s) == IF c # None THEN c ELSE s

Init ==
    /\ inputs = 0
    /\ page \in [shown : {TRUE}, theme : {None}, viewport : View, controls : {TRUE},
                 marker : Place, popup : {None}]
    /\ setViewport = FALSE /\ syncDue = FALSE
    /\ rendered = [page |-> page, map |-> FALSE]      \* the first render
    /\ applied = [rendered EXCEPT !.page.shown = FALSE]
    /\ map = FALSE /\ camera = page.viewport /\ movement = None /\ compass = camera
    /\ waiting = FALSE /\ asks = [own |-> 0, old |-> 0]
    /\ expanding = 0
    /\ marker = None /\ dragging = FALSE /\ markerPopup = FALSE
    /\ tooltip = None /\ popup = None
    /\ document \in Theme \cup {None} /\ system \in Theme
    /\ detectedTheme = Detected(document, system)
    /\ wish = page.viewport /\ unseen = {}

Input == inputs < MaxInputs /\ inputs' = inputs + 1

-----------------------------------------------------------------------------
(* The page's own updates.                                                 *)

SetViewport(v) ==
    /\ Input
    /\ page' = [page EXCEPT !.viewport = v] /\ setViewport' = TRUE
    /\ wish' = v /\ unseen' = unseen \ {"viewport"}
    /\ UNCHANGED <<rendered, syncDue, applied, view, control, widgets, theme>>

(* A position that was rendered already is no change to React, wherever the *)
(* marker was dragged since.                                                *)
SetMarker(m) ==
    /\ Input /\ m # page.marker
    /\ page' = [page EXCEPT !.marker = m]
    /\ unseen' = IF HasMarker(applied) /\ m = applied.page.marker
                    /\ m = rendered.page.marker /\ m # marker
                 THEN unseen \cup {"marker"} ELSE unseen \ {"marker"}
    /\ UNCHANGED <<setViewport, rendered, syncDue, applied, view, control, widgets,
                   theme, wish>>

(* Nor is a popup that was closed and is wanted again before a render.      *)
SetPopup(p) ==
    /\ Input /\ p # page.popup
    /\ page' = [page EXCEPT !.popup = p]
    /\ unseen' = IF HasPopup(rendered) /\ HasPopup(applied) /\ popup = None
                 THEN unseen \cup {"popup"} ELSE unseen
    /\ UNCHANGED <<setViewport, rendered, syncDue, applied, view, control, widgets,
                   theme, wish>>

SetProps(p) ==
    /\ Input /\ p # page
    /\ page' = p
    /\ UNCHANGED <<setViewport, rendered, syncDue, applied, view, control, widgets,
                   theme, history>>

Show == SetProps([page EXCEPT !.shown = ~@])
ShowControls == SetProps([page EXCEPT !.controls = ~@])
SetTheme(t) == SetProps([page EXCEPT !.theme = t])

-----------------------------------------------------------------------------
(* React.                                                                  *)

RenderPending == setViewport \/ rendered # [page |-> page, map |-> map]
EffectsPending == syncDue \/ applied # rendered

(* Effects run before the next render.  useState detects the theme when Map *)
(* mounts; the state of controls that are gone is gone.                     *)
Render ==
    /\ RenderPending /\ ~EffectsPending
    /\ rendered' = [page |-> page, map |-> map]
    /\ setViewport' = FALSE /\ syncDue' = (setViewport \/ map # rendered.map)
    /\ IF page.shown /\ ~rendered.page.shown
       THEN /\ detectedTheme' = Detected(document, system)
            /\ unseen' = unseen \ {"theme"}
       ELSE UNCHANGED <<detectedTheme, unseen>>
    /\ IF page.shown /\ page.controls THEN UNCHANGED <<waiting, asks>>
       ELSE waiting' = FALSE /\ asks' = [own |-> 0, old |-> asks.own + asks.old]
    /\ UNCHANGED <<inputs, page, applied, view, widgets, document, system, wish>>

(* The init effect.  The map it makes reaches the children by a render.     *)
MountMap ==
    /\ EffectsPending /\ rendered.page.shown /\ ~applied.page.shown
    /\ applied' = rendered /\ syncDue' = FALSE
    /\ map' = TRUE /\ camera' = rendered.page.viewport
    /\ movement' = None /\ compass' = camera'
    /\ UNCHANGED <<inputs, page, setViewport, rendered, expanding, control, widgets,
                   theme, history>>

(* Its cleanup comes before those of the children: a MapPopup still hears   *)
(* that it is closed by the map and says so.  An answer to a removed map    *)
(* moves nothing.                                                           *)
RemoveMap ==
    /\ EffectsPending /\ ~rendered.page.shown /\ applied.page.shown
    /\ applied' = rendered /\ syncDue' = FALSE
    /\ page' = IF popup # None THEN [page EXCEPT !.popup = None] ELSE page
    /\ map' = FALSE /\ movement' = None /\ expanding' = 0
    /\ asks' = [own |-> 0, old |-> 0]
    /\ marker' = None /\ dragging' = FALSE /\ markerPopup' = FALSE
    /\ tooltip' = None /\ popup' = None
    /\ unseen' = unseen \cap {"theme"}
    /\ UNCHANGED <<inputs, setViewport, rendered, camera, compass, waiting, theme,
                   wish>>

(* The other effects.  Map's comes last and does not interrupt a movement;  *)
(* internalUpdateRef keeps what it moves from being reported to the page.   *)
Jumps == syncDue /\ Live(rendered) /\ movement = None

SyncViewportEchoed ==                   \* without internalUpdateRef
    /\ camera' = IF Jumps THEN rendered.page.viewport ELSE camera
    /\ page' = IF camera' # camera THEN [page EXCEPT !.viewport = camera'] ELSE page
    /\ setViewport' = (setViewport \/ camera' # camera)

SyncViewport ==
    /\ camera' = IF Jumps THEN rendered.page.viewport ELSE camera
    /\ UNCHANGED <<page, setViewport>>

CompassAfter ==
    IF HasControls(rendered) /\ (Jumps \/ ~HasControls(applied)) THEN camera' ELSE compass

(* A marker is added, moved when its coordinates changed, or removed.       *)
MarkerAfter ==
    IF ~HasMarker(rendered) THEN None
    ELSE IF ~HasMarker(applied) \/ rendered.page.marker # applied.page.marker
    THEN rendered.page.marker
    ELSE marker

TooltipKept == tooltip                  \* cleanup without tooltip.remove()
TooltipAfter == IF HasMarker(rendered) THEN tooltip ELSE None

(* A MapPopup opens when it is mounted and then only moves.                 *)
PopupAfter ==
    IF ~HasPopup(rendered) \/ (HasPopup(applied) /\ popup = None) THEN None
    ELSE rendered.page.popup

Unheeded ==
    {u \in unseen \cup {"viewport"} :
        CASE u = "viewport" -> IF syncDue /\ Live(rendered)
                               THEN ~Jumps /\ camera # rendered.page.viewport
                               ELSE u \in unseen
          [] u = "marker" -> MarkerAfter # rendered.page.marker
          [] u = "popup" -> HasPopup(rendered) /\ PopupAfter = None
          [] OTHER -> TRUE}

Update ==
    /\ EffectsPending /\ rendered.page.shown = applied.page.shown
    /\ applied' = rendered /\ syncDue' = FALSE
    /\ SyncViewport /\ compass' = CompassAfter
    /\ marker' = MarkerAfter
    /\ dragging' = (dragging /\ HasMarker(rendered))
    /\ markerPopup' = (markerPopup /\ HasMarker(rendered))
    /\ tooltip' = TooltipAfter
    /\ popup' = PopupAfter
    /\ unseen' = Unheeded
    /\ UNCHANGED <<inputs, rendered, map, movement, expanding, control, theme, wish>>

-----------------------------------------------------------------------------
(* The camera: handleMove reports every change that the page did not cause. *)

CameraMoves(v) ==
    /\ camera' = v
    /\ compass' = IF HasControls(applied) THEN v ELSE compass
    /\ page' = [page EXCEPT !.viewport = v] /\ setViewport' = TRUE
    /\ wish' = v /\ unseen' = unseen \ {"viewport"}

Grab ==
    /\ Input /\ map /\ movement' = Hand
    /\ UNCHANGED <<react, map, camera, compass, expanding, control, widgets, theme, history>>

PanTo(v) ==
    /\ movement = Hand /\ CameraMoves(v)
    /\ UNCHANGED <<inputs, rendered, syncDue, applied, map, movement, expanding, control,
                   widgets, theme>>

Release ==
    /\ movement = Hand /\ movement' = None
    /\ UNCHANGED <<inputs, react, map, camera, compass, expanding, control, widgets, theme,
                   history>>

(* A frame of an animation; the last one shows where it was to end.         *)
Frame(v) ==
    /\ movement \in View /\ CameraMoves(v)
    /\ movement' \in IF v = movement THEN {None} ELSE {movement}
    /\ UNCHANGED <<inputs, rendered, syncDue, applied, map, expanding, control, widgets,
                   theme>>

(* An animation takes over from whatever moved the camera.                  *)
Ease(v) == movement' = v /\ UNCHANGED <<react, map, camera, compass>>

-----------------------------------------------------------------------------
(* MapControls, and the cluster that is clicked.                           *)

handleZoomIn == Ease(zoomIn[camera])
handleZoomOut == Ease(zoomOut[camera])
handleResetBearing == Ease(north[camera])

ClickButton ==
    /\ Input /\ HasControls(rendered) /\ map
    /\ handleZoomIn \/ handleZoomOut \/ handleResetBearing
    /\ UNCHANGED <<expanding, control, widgets, theme, history>>

handleLocateAgain ==                    \* the button is not disabled
    /\ Input /\ HasControls(rendered)
    /\ waiting' = TRUE
    /\ asks' = IF geolocation THEN [asks EXCEPT !.own = @ + 1] ELSE asks
    /\ UNCHANGED <<react, view, widgets, theme, history>>

(* The button is disabled while it waits; without geolocation, for good.    *)
handleLocate ==
    /\ Input /\ HasControls(rendered) /\ ~waiting
    /\ waiting' = TRUE
    /\ asks' = IF geolocation THEN [asks EXCEPT !.own = @ + 1] ELSE asks
    /\ UNCHANGED <<react, view, widgets, theme, history>>

Answered ==
    \/ asks.own > 0 /\ asks' = [asks EXCEPT !.own = @ - 1] /\ waiting' = FALSE
    \/ asks.old > 0 /\ asks' = [asks EXCEPT !.old = @ - 1] /\ UNCHANGED waiting

Located ==
    /\ Answered /\ Ease(located)
    /\ UNCHANGED <<inputs, expanding, widgets, theme, history>>

LocateFails ==
    /\ Answered
    /\ UNCHANGED <<inputs, react, view, widgets, theme, history>>

handleClusterClick ==
    /\ Input /\ map
    /\ expanding' = expanding + 1
    /\ UNCHANGED <<react, map, camera, movement, compass, control, widgets, theme, history>>

(* getClusterExpansionZoom answers, whatever the camera did meanwhile.      *)
Expanded(v) ==
    /\ expanding > 0 /\ expanding' = expanding - 1
    /\ Ease(v)
    /\ UNCHANGED <<inputs, control, widgets, theme, history>>

-----------------------------------------------------------------------------
(* The marker, its popup and tooltip, and the MapPopup.                    *)

DragStart ==
    /\ Input /\ marker # None /\ ~dragging /\ dragging' = TRUE
    /\ UNCHANGED <<react, view, control, marker, markerPopup, tooltip, popup, theme, history>>

Tell(p) ==                              \* the page takes over the coordinates
    /\ page' = IF page.marker = None THEN page ELSE [page EXCEPT !.marker = p]
    /\ unseen' = unseen \ {"marker"}

(* A page may leave onDrag alone, but takes over where the marker was left. *)
Drag(p) ==
    /\ dragging /\ p # marker
    /\ marker' = p
    /\ Tell(p) \/ UNCHANGED <<page, unseen>>
    /\ UNCHANGED <<inputs, setViewport, rendered, syncDue, applied, view, control, dragging,
                   markerPopup, tooltip, popup, theme, wish>>

DragEnd ==
    /\ dragging /\ dragging' = FALSE
    /\ Tell(marker)
    /\ UNCHANGED <<inputs, setViewport, rendered, syncDue, applied, view, control, marker,
                   markerPopup, tooltip, popup, theme, wish>>

MouseEnter ==
    /\ Input /\ marker # None /\ tooltip' = marker
    /\ UNCHANGED <<react, view, control, marker, dragging, markerPopup, popup, theme, history>>

MouseLeave ==
    /\ tooltip # None /\ tooltip' = None
    /\ UNCHANGED <<inputs, react, view, control, marker, dragging, markerPopup, popup, theme,
                   history>>

(* The close event of a MapPopup: onClose, on which the page drops it.      *)
ClosePopup ==
    /\ popup' = None
    /\ page' = IF popup # None THEN [page EXCEPT !.popup = None] ELSE page

(* A click closes what is open, except that one on the marker toggles its   *)
(* own popup.                                                               *)
Click(onMarker) ==
    /\ Input /\ map /\ (onMarker => marker # None)
    /\ markerPopup' = (onMarker /\ ~markerPopup)
    /\ tooltip' = None
    /\ ClosePopup
    /\ UNCHANGED <<setViewport, rendered, syncDue, applied, view, control, marker, dragging,
                   theme, history>>

(* The close button of a popup that has one.                                *)
handleClose ==
    /\ Input /\ (popup # None \/ markerPopup)
    /\ \/ popup # None /\ ClosePopup /\ UNCHANGED markerPopup
       \/ markerPopup' = FALSE /\ UNCHANGED <<popup, page>>
    /\ UNCHANGED <<setViewport, rendered, syncDue, applied, view, control, marker, dragging,
                   tooltip, theme, history>>

-----------------------------------------------------------------------------
(* useResolvedTheme listens while the page gives no theme.                 *)

Observing == applied.page.shown /\ applied.page.theme = None

(* The class of the document changes; without one there is nothing to take. *)
SetClass(c) ==
    /\ Input /\ c # document /\ document' = c
    /\ detectedTheme' = IF Observing /\ c # None THEN c ELSE detectedTheme
    /\ unseen' = IF Observing /\ c # None THEN unseen \ {"theme"} ELSE unseen \cup {"theme"}
    /\ UNCHANGED <<system, wish, react, view, control, widgets>>

SystemOverrides(s) == IF Observing THEN s ELSE detectedTheme    \* class not checked
handleSystemChange(s) == IF Observing /\ document = None THEN s ELSE detectedTheme

SetSystem(s) ==
    /\ Input /\ s # system /\ system' = s
    /\ detectedTheme' = handleSystemChange(s)
    /\ unseen' = IF document # None THEN unseen
                 ELSE IF Observing THEN unseen \ {"theme"} ELSE unseen \cup {"theme"}
    /\ UNCHANGED <<document, wish, react, view, control, widgets>>

-----------------------------------------------------------------------------
Next ==
    \/ \E v \in View : SetViewport(v) \/ PanTo(v) \/ Frame(v) \/ Expanded(v)
    \/ \E c \in Place \cup {None} : SetMarker(c) \/ SetPopup(c)
    \/ Show \/ ShowControls
    \/ \E t \in Theme \cup {None} : SetTheme(t) \/ SetClass(t)
    \/ \E t \in Theme : SetSystem(t)
    \/ Render \/ MountMap \/ RemoveMap \/ Update
    \/ Grab \/ Release
    \/ ClickButton \/ handleLocate \/ Located \/ LocateFails \/ handleClusterClick
    \/ DragStart \/ \E c \in Place : Drag(c)
    \/ DragEnd \/ MouseEnter \/ MouseLeave
    \/ \E b \in BOOLEAN : Click(b)
    \/ handleClose

Spec == Init /\ [][Next]_vars

-----------------------------------------------------------------------------
(* What the map and its page are checked for.                              *)

(* The shape of the state; what belongs to a map is gone with it.           *)
TypeOK ==
    /\ inputs \in 0..MaxInputs
    /\ page \in Page /\ rendered \in [page : Page, map : BOOLEAN]
    /\ applied \in [page : Page, map : BOOLEAN]
    /\ setViewport \in BOOLEAN /\ syncDue \in BOOLEAN /\ map \in BOOLEAN
    /\ {camera, compass, wish} \subseteq View /\ movement \in View \cup {None, Hand}
    /\ waiting \in BOOLEAN
    /\ asks \in [own : {0, 1}, old : 0..MaxInputs] /\ expanding \in 0..MaxInputs
    /\ {marker, tooltip, popup} \subseteq Place \cup {None}
    /\ dragging \in BOOLEAN /\ markerPopup \in BOOLEAN
    /\ document \in Theme \cup {None} /\ {system, detectedTheme} \subseteq Theme
    /\ unseen \subseteq {"viewport", "marker", "popup", "theme"}
    /\ ~map => movement = None /\ expanding = 0 /\ asks.own = 0 /\ marker = None /\ popup = None

(* When nothing moves and React has nothing left to do, the page and the    *)
(* map agree: the camera shows the viewport that the page or a movement     *)
(* last set, marker and popup are where the page wants them, and the        *)
(* compass shows the camera.  The exceptions are the updates nothing        *)
(* reacted to: a viewport set while the map moves, and a marker put back or *)
(* a popup wanted again before React had rendered that it was gone.         *)
AtRest == ~RenderPending /\ ~EffectsPending /\ movement = None /\ ~dragging

CameraAgrees == "viewport" \notin unseen => camera = page.viewport /\ camera = wish
MarkerAgrees == "marker" \notin unseen => marker = page.marker
PopupAgrees == "popup" \notin unseen => popup = page.popup
CompassAgrees == HasControls(applied) => compass = camera

PageAndMapAgree ==
    AtRest /\ map => CameraAgrees /\ MarkerAgrees /\ PopupAgrees /\ CompassAgrees

(* Nothing stays open on the map, or waits, for something that is gone: a   *)
(* tooltip or a popup without its marker, a MapPopup that is not mounted, a *)
(* locate button without a request (given geolocation).                     *)
NothingOrphaned ==
    /\ tooltip # None \/ markerPopup \/ dragging => marker # None
    /\ popup # None => HasPopup(applied)
    /\ waiting /\ geolocation => asks.own > 0

(* The theme of a mounted map is the page's, or else the document's class,  *)
(* or else the system's, since the last change it could see.                *)
ThemeDetected ==
    rendered.page.shown /\ "theme" \notin unseen =>
        detectedTheme = Detected(document, system)
=============================================================================

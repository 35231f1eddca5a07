---------------------------- MODULE MapViewProofs ----------------------------
(* Proofs about MapView, for every set of viewports, places and themes and  *)
(* any number of inputs.                                                    *)
EXTENDS MapView, TLAPS

Seen == [page : Page, map : BOOLEAN]

TypeInv ==
    /\ inputs \in 0..MaxInputs
    /\ page \in Page /\ rendered \in Seen /\ applied \in Seen
    /\ setViewport \in BOOLEAN /\ syncDue \in BOOLEAN /\ map \in BOOLEAN
    /\ camera \in View /\ compass \in View /\ wish \in View
    /\ movement \in View \cup {None, Hand}
    /\ waiting \in BOOLEAN /\ asks \in [own : Nat, old : Nat] /\ expanding \in Nat
    /\ marker \in Place \cup {None} /\ tooltip \in Place \cup {None}
    /\ popup \in Place \cup {None}
    /\ dragging \in BOOLEAN /\ markerPopup \in BOOLEAN
    /\ document \in Theme \cup {None} /\ system \in Theme /\ detectedTheme \in Theme
    /\ unseen \subseteq {"viewport", "marker", "popup", "theme"}

(* There is a map while the page showed it to the effects that ran last; a  *)
(* render that precedes its making has no effects due.                      *)
MapInv ==
    /\ map = applied.page.shown
    /\ Live(rendered) => map
    /\ map /\ ~rendered.map => applied = rendered /\ ~syncDue
    /\ ~map => movement = None /\ expanding = 0 /\ asks = [own |-> 0, old |-> 0]

(* The button waits for the one request of its controls.                    *)
LocateInv ==
    /\ expanding <= inputs /\ asks.own + asks.old <= inputs
    /\ asks.own <= 1
    /\ waiting => rendered.page.shown /\ rendered.page.controls
    /\ waiting /\ geolocation => asks.own = 1
    /\ asks.own = 1 => waiting

(* The page knows the viewport last set; so does the camera, unless a       *)
(* render or its effect is still to come or nothing reacted.                *)
CameraInv ==
    /\ page.viewport = wish
    /\ setViewport \/ rendered.page.viewport = page.viewport
    /\ map /\ ~setViewport /\ ~syncDue /\ "viewport" \notin unseen => camera = page.viewport
    /\ HasControls(applied) => compass = camera

(* The marker is on the map while it is mounted.  Where the effects of the  *)
(* current render will put it is where the page wants it.                   *)
MarkerInv ==
    /\ marker # None <=> HasMarker(applied)
    /\ tooltip # None \/ markerPopup \/ dragging => marker # None
    /\ Live(rendered) /\ rendered.page.marker = page.marker /\ ~dragging /\ "marker" \notin unseen
           => MarkerAfter = page.marker

(* An open popup is where its effects put it; one that is mounted and       *)
(* closed is not wanted any more.                                           *)
PopupInv ==
    /\ popup # None => HasPopup(applied) /\ popup = applied.page.popup
    /\ HasPopup(rendered) /\ HasPopup(applied) /\ popup = None /\ page.popup # None
           => "popup" \in unseen

ViewInv ==
    TypeInv /\ MapInv /\ LocateInv /\ CameraInv /\ MarkerInv /\ PopupInv /\ ThemeDetected

-----------------------------------------------------------------------------
LEMMA ViewInvInit == Init => ViewInv
<1> SUFFICES ASSUME Init PROVE ViewInv
  OBVIOUS
<1> USE ViewAssumption
<1>1. /\ page \in Page /\ page.shown = TRUE /\ page.viewport \in View /\ page.popup = None
      /\ page.theme = None /\ page.marker \in Place
  BY DEF Init, Page
<1>2. /\ rendered \in Seen /\ rendered.page = page /\ rendered.map = FALSE
  BY <1>1 DEF Init, Seen
<1>3. applied \in Seen /\ applied.page.shown = FALSE
  BY <1>1, <1>2 DEF Init, Seen, Page
<1>4. TypeInv
  <2>1. detectedTheme \in Theme
    BY DEF Init, Detected
  <2>2. asks \in [own : Nat, old : Nat] /\ inputs \in 0..MaxInputs
    BY DEF Init
  <2>3. camera \in View /\ compass \in View /\ wish \in View
    BY <1>1 DEF Init
  <2> QED BY <1>1, <1>2, <1>3, <2>1, <2>2, <2>3 DEF Init, TypeInv
<1>5. MapInv /\ LocateInv
  <2>1. /\ asks = [own |-> 0, old |-> 0] /\ asks.own = 0 /\ asks.old = 0
        /\ map = FALSE /\ applied.page.shown = FALSE /\ rendered.map = FALSE /\ inputs = 0
        /\ expanding = 0 /\ movement = None /\ waiting = FALSE
    BY <1>2, <1>3 DEF Init
  <2>2. MapInv
    BY <2>1 DEF MapInv, Live
  <2>3. LocateInv
    BY <2>1 DEF LocateInv
  <2> QED BY <2>2, <2>3
<1>6. CameraInv
  BY <1>1, <1>2, <1>3 DEF Init, CameraInv, HasControls, Live
<1>7. MarkerInv /\ PopupInv
  BY <1>1, <1>2, <1>3 DEF Init, MarkerInv, PopupInv, HasMarker, HasPopup, Live
<1>8. ThemeDetected
  BY DEF Init, ThemeDetected
<1> QED BY <1>4, <1>5, <1>6, <1>7, <1>8 DEF ViewInv

-----------------------------------------------------------------------------
(* The steps by whose they are, and what each kind leaves alone.            *)

PageAct ==
    \/ \E v \in View : SetViewport(v)
    \/ \E c \in Place \cup {None} : SetMarker(c) \/ SetPopup(c)
    \/ \E t \in Theme \cup {None} : SetTheme(t)
    \/ Show \/ ShowControls

CameraAct ==
    \/ \E v \in View : PanTo(v) \/ Frame(v) \/ Expanded(v)
    \/ Grab \/ Release \/ ClickButton \/ handleClusterClick
    \/ handleLocate \/ Located \/ LocateFails

WidgetAct ==
    \/ \E c \in Place : Drag(c)
    \/ \E b \in BOOLEAN : Click(b)
    \/ DragStart \/ DragEnd \/ MouseEnter \/ MouseLeave \/ handleClose

ThemeAct ==
    \/ \E t \in Theme \cup {None} : SetClass(t)
    \/ \E t \in Theme : SetSystem(t)

LEMMA Kinds ==
    Next => PageAct \/ CameraAct \/ WidgetAct \/ ThemeAct \/ Render \/ MountMap \/ RemoveMap \/ Update
BY DEF Next, PageAct, CameraAct, WidgetAct, ThemeAct

LEMMA PageSteps ==
    ASSUME PageAct
    PROVE  /\ inputs < MaxInputs /\ inputs' = inputs + 1
           /\ UNCHANGED <<rendered, syncDue, applied, map, camera, movement, compass, expanding>>
           /\ UNCHANGED <<waiting, asks, marker, dragging, markerPopup, tooltip, popup>>
           /\ UNCHANGED <<document, system, detectedTheme>>
           /\ "theme" \in unseen => "theme" \in unseen'
BY DEF PageAct, SetViewport, SetMarker, SetPopup, Show, ShowControls, SetTheme, SetProps, Input,
       view, control, widgets, theme, history

LEMMA CameraSteps ==
    ASSUME CameraAct
    PROVE  /\ UNCHANGED <<rendered, syncDue, applied, map, marker, dragging, markerPopup>>
           /\ UNCHANGED <<tooltip, popup, document, system, detectedTheme>>
           /\ inputs' = inputs \/ (inputs < MaxInputs /\ inputs' = inputs + 1)
           /\ \A u \in {"marker", "popup", "theme"} : u \in unseen <=> u \in unseen'
BY DEF CameraAct, Grab, PanTo, Release, Frame, ClickButton, Expanded, handleClusterClick,
       handleLocate, Located, LocateFails, Answered, Ease, CameraMoves, handleZoomIn,
       handleZoomOut, handleResetBearing, Input, react, view, control, widgets, theme, history

LEMMA WidgetSteps ==
    ASSUME WidgetAct
    PROVE  /\ UNCHANGED <<setViewport, rendered, syncDue, applied, map, camera, movement>>
           /\ UNCHANGED <<compass, expanding, waiting, asks, document, system, detectedTheme, wish>>
           /\ inputs' = inputs \/ (inputs < MaxInputs /\ inputs' = inputs + 1)
           /\ \A u \in {"viewport", "popup", "theme"} : u \in unseen <=> u \in unseen'
BY DEF WidgetAct, DragStart, Drag, DragEnd, MouseEnter, MouseLeave, Click, handleClose,
       ClosePopup, Tell, Input, react, view, control, theme, history

LEMMA ThemeSteps ==
    ASSUME ThemeAct
    PROVE  /\ UNCHANGED <<page, setViewport, rendered, syncDue, applied, map, camera, movement>>
           /\ UNCHANGED <<compass, expanding, waiting, asks, wish>>
           /\ UNCHANGED <<marker, dragging, markerPopup, tooltip, popup>>
           /\ inputs < MaxInputs /\ inputs' = inputs + 1
           /\ \A u \in {"viewport", "marker", "popup"} : u \in unseen <=> u \in unseen'
BY DEF ThemeAct, SetClass, SetSystem, Input, react, view, control, widgets

(* Nobody but the page mounts and unmounts, or takes a theme.               *)
LEMMA PageFields ==
    ASSUME TypeInv, CameraAct \/ WidgetAct
    PROVE  /\ page' \in Page
           /\ page'.shown = page.shown /\ page'.controls = page.controls
           /\ WidgetAct => page'.viewport = page.viewport
           /\ CameraAct => page'.marker = page.marker /\ page'.popup = page.popup
<1> USE ViewAssumption DEF TypeInv, Page
<1>1. ASSUME CameraAct
      PROVE  page' = page \/ \E v \in View : page' = [page EXCEPT !.viewport = v]
  BY <1>1 DEF CameraAct, Grab, PanTo, Release, Frame, ClickButton, Expanded, handleClusterClick,
       handleLocate, Located, LocateFails, Ease, CameraMoves, handleZoomIn,
       handleZoomOut, handleResetBearing, react
<1>2. ASSUME WidgetAct
      PROVE  \/ page' = page \/ page' = [page EXCEPT !.popup = None]
             \/ \E p \in Place \cup {None} : page' = [page EXCEPT !.marker = p]
  BY <1>2 DEF WidgetAct, DragStart, Drag, DragEnd, MouseEnter, MouseLeave, Click, handleClose,
       ClosePopup, Tell, react
<1> QED BY <1>1, <1>2

-----------------------------------------------------------------------------
(* The theme.                                                               *)
LEMMA ThemeStep ==
    ASSUME TypeInv, ThemeDetected, Next PROVE ThemeDetected'
<1>1. CASE ThemeAct
  <2>1. ASSUME NEW t \in Theme \cup {None}, SetClass(t) PROVE ThemeDetected'
    BY <2>1 DEF SetClass, ThemeDetected, Detected, react, TypeInv, Observing
  <2>2. ASSUME NEW t \in Theme, SetSystem(t) PROVE ThemeDetected'
    BY <2>2 DEF SetSystem, handleSystemChange, ThemeDetected, Detected, react, TypeInv, Observing
  <2> QED BY <1>1, <2>1, <2>2 DEF ThemeAct
<1>2. CASE Render
  <2>1. rendered'.page.shown = page.shown
    BY <1>2 DEF Render
  <2> QED BY <1>2, <2>1 DEF Render, ThemeDetected
<1>3. ASSUME UNCHANGED <<document, system, detectedTheme, rendered>>,
             "theme" \in unseen => "theme" \in unseen'
      PROVE  ThemeDetected'
  BY <1>3 DEF ThemeDetected
<1>4. CASE MountMap \/ RemoveMap \/ Update
  BY <1>3, <1>4 DEF MountMap, RemoveMap, Update, Unheeded, theme, history
<1>5. CASE PageAct \/ CameraAct \/ WidgetAct
  BY <1>3, <1>5, PageSteps, CameraSteps, WidgetSteps
<1> QED BY <1>1, <1>2, <1>4, <1>5, Kinds

-----------------------------------------------------------------------------
(* There is a map while there should be.                                    *)
LEMMA MapStep ==
    ASSUME TypeInv, MapInv, Next PROVE MapInv'
<1> USE DEF MapInv
<1>1. CASE PageAct \/ WidgetAct \/ ThemeAct
  <2>1. UNCHANGED <<map, applied, rendered, syncDue, movement, expanding, asks>>
    BY <1>1, PageSteps, WidgetSteps, ThemeSteps
  <2> QED BY <2>1 DEF Live
<1>2. CASE CameraAct
  <2>1. UNCHANGED <<map, applied, rendered, syncDue>>
    BY <1>2, CameraSteps
  <2>2. ~map => movement = None /\ expanding = 0 /\ asks.own = 0 /\ asks.old = 0 /\ ~HasControls(rendered)
    BY DEF HasControls
  <2>3. map
    BY <1>2, <2>2, ViewAssumption
       DEF CameraAct, Grab, PanTo, Release, Frame, ClickButton, Expanded, handleClusterClick,
           handleLocate, Located, LocateFails, Answered
  <2> QED BY <2>1, <2>3 DEF Live
<1>3. CASE Render
  <2>1. /\ rendered' = [page |-> page, map |-> map] /\ applied = rendered /\ ~syncDue
        /\ UNCHANGED <<map, applied, movement, expanding>>
    BY <1>3 DEF Render, view, EffectsPending
  <2>2. rendered'.map = map /\ rendered'.page.shown = page.shown
    BY <2>1
  <2>3. asks' = asks \/ asks' = [own |-> 0, old |-> asks.own + asks.old]
    BY <1>3 DEF Render, control
  <2>4. ~map => asks' = [own |-> 0, old |-> 0]
    BY <2>3
  <2> QED BY <2>1, <2>2, <2>4 DEF Live, TypeInv
<1>4. CASE MountMap
  BY <1>4 DEF MountMap, Live
<1>5. CASE RemoveMap
  <2>1. rendered.page.shown = FALSE
    BY <1>5 DEF RemoveMap, TypeInv, Seen, Page
  <2> QED BY <1>5, <2>1 DEF RemoveMap, Live
<1>6. CASE Update
  <2>1. /\ applied' = rendered /\ rendered' = rendered /\ rendered.page.shown = applied.page.shown
        /\ syncDue' = FALSE /\ UNCHANGED <<map, movement, expanding, asks>>
    BY <1>6 DEF Update, control
  <2> QED BY <2>1 DEF Live
<1> QED BY <1>1, <1>2, <1>3, <1>4, <1>5, <1>6, Kinds

-----------------------------------------------------------------------------
(* Requests for the location.                                               *)
LEMMA LocateStep ==
    ASSUME TypeInv, MapInv, LocateInv, Next PROVE LocateInv'
<1> USE DEF LocateInv
<1>0. inputs \in Nat /\ expanding \in Nat /\ asks \in [own : Nat, old : Nat] /\ waiting \in BOOLEAN
  BY ViewAssumption DEF TypeInv
<1>1. CASE PageAct \/ WidgetAct \/ ThemeAct
  <2>1. UNCHANGED <<rendered, waiting, expanding, asks>> /\ inputs <= inputs' /\ inputs' \in Nat
    BY <1>0, <1>1, PageSteps, WidgetSteps, ThemeSteps
  <2> QED BY <1>0, <2>1
<1>2. CASE CameraAct
  <2>1. /\ rendered' = rendered /\ inputs' \in Nat /\ inputs <= inputs'
    BY <1>0, <1>2, CameraSteps
  <2>2. CASE handleLocate
    <3>1. /\ waiting' = TRUE /\ ~waiting /\ HasControls(rendered) /\ expanding' = expanding
          /\ asks' = IF geolocation THEN [asks EXCEPT !.own = @ + 1] ELSE asks
          /\ inputs' = inputs + 1
      BY <2>2 DEF handleLocate, Input, view
    <3>2. asks.own = 0
      BY <1>0, <3>1
    <3> QED BY <1>0, <2>1, <3>1, <3>2 DEF HasControls, Live
  <2>3. CASE Located \/ LocateFails
    <3>1. Answered /\ expanding' = expanding
      BY <2>3 DEF Located, LocateFails, view
    <3>2. CASE asks.own > 0 /\ asks' = [asks EXCEPT !.own = @ - 1] /\ waiting' = FALSE
      BY <1>0, <2>1, <3>1, <3>2
    <3>3. CASE asks.old > 0 /\ asks' = [asks EXCEPT !.old = @ - 1] /\ waiting' = waiting
      BY <1>0, <2>1, <3>1, <3>3
    <3> QED BY <3>1, <3>2, <3>3 DEF Answered
  <2>4. ASSUME UNCHANGED <<waiting, asks>>,
               expanding' \in {expanding, expanding - 1}
                   \/ (expanding' = expanding + 1 /\ inputs' = inputs + 1),
               expanding' \in Int
        PROVE  LocateInv'
    BY <1>0, <2>1, <2>4
  <2>5. CASE handleClusterClick
    BY <1>0, <2>4, <2>5 DEF handleClusterClick, Input, control
  <2>6. ASSUME NEW v \in View, PanTo(v) \/ Frame(v) \/ Expanded(v) PROVE LocateInv'
    BY <1>0, <2>4, <2>6 DEF PanTo, Frame, Expanded, control
  <2>7. CASE Grab \/ Release \/ ClickButton
    BY <1>0, <2>4, <2>7 DEF Grab, Release, ClickButton, control
  <2> QED BY <1>2, <2>2, <2>3, <2>5, <2>6, <2>7 DEF CameraAct
<1>3. CASE Render
  <2>1. rendered'.page = page /\ UNCHANGED <<inputs, expanding>>
    BY <1>3 DEF Render, view
  <2>2. CASE page.shown /\ page.controls
    BY <1>0, <1>3, <2>1, <2>2 DEF Render, control
  <2>3. CASE ~(page.shown /\ page.controls)
    BY <1>0, <1>3, <2>1, <2>3 DEF Render
  <2> QED BY <2>2, <2>3
<1>4. CASE MountMap
  BY <1>4 DEF MountMap, control
<1>5. CASE RemoveMap
  <2>1. /\ asks' = [own |-> 0, old |-> 0] /\ expanding' = 0 /\ UNCHANGED <<inputs, waiting, rendered>>
        /\ ~rendered.page.shown
    BY <1>5 DEF RemoveMap
  <2> QED BY <1>0, <2>1
<1>6. CASE Update
  BY <1>6 DEF Update, control
<1> QED BY <1>1, <1>2, <1>3, <1>4, <1>5, <1>6, Kinds

-----------------------------------------------------------------------------
(* The types.                                                               *)
LEMMA TypeStep ==
    ASSUME TypeInv, MapInv, LocateInv, Next PROVE TypeInv'
<1> USE ViewAssumption
<1>0. inputs \in Nat /\ expanding \in Nat /\ asks \in [own : Nat, old : Nat]
  BY DEF TypeInv
<1>1. CASE PageAct
  <2>1. inputs' \in 0..MaxInputs
    BY <1>0, <1>1, PageSteps
  <2>2. page' \in Page
    <3>0. page \in Page
      BY DEF TypeInv
    <3>1. \/ \E v \in View : page' = [page EXCEPT !.viewport = v]
          \/ \E c \in Place \cup {None} :
                 page' = [page EXCEPT !.marker = c] \/ page' = [page EXCEPT !.popup = c]
          \/ \E t \in Theme \cup {None} : page' = [page EXCEPT !.theme = t]
          \/ page' = [page EXCEPT !.shown = ~@] \/ page' = [page EXCEPT !.controls = ~@]
      BY <1>1 DEF PageAct, SetViewport, SetMarker, SetPopup, Show, ShowControls, SetTheme, SetProps
    <3>2. CASE page' = [page EXCEPT !.shown = ~@] \/ page' = [page EXCEPT !.controls = ~@]
      BY <3>0, <3>2 DEF Page
    <3> QED BY <3>0, <3>1, <3>2 DEF Page
  <2>3. setViewport' \in BOOLEAN /\ wish' \in View
    BY <1>1 DEF PageAct, SetViewport, SetMarker, SetPopup, Show, ShowControls, SetTheme,
                SetProps, TypeInv, history
  <2>4. unseen' \subseteq {"viewport", "marker", "popup", "theme"}
    BY <1>1 DEF PageAct, SetViewport, SetMarker, SetPopup, Show, ShowControls, SetTheme,
                SetProps, TypeInv, history
  <2> QED BY <1>1, <2>1, <2>2, <2>3, <2>4, PageSteps DEF TypeInv
<1>2. CASE CameraAct
  <2>1. inputs' \in 0..MaxInputs
    BY <1>0, <1>2, CameraSteps DEF TypeInv
  <2>2. page' \in Page
    BY <1>2, PageFields
  <2>3. waiting' \in BOOLEAN
    BY <1>2
       DEF CameraAct, Grab, PanTo, Release, Frame, ClickButton, Expanded, handleClusterClick,
           handleLocate, Located, LocateFails, Answered, control, TypeInv
  <2>7. asks' \in [own : Nat, old : Nat]
    <3>1. CASE Answered
      <4>1. ASSUME asks.own > 0, asks' = [asks EXCEPT !.own = @ - 1]
            PROVE  asks' \in [own : Nat, old : Nat]
        BY <1>0, <4>1
      <4>2. ASSUME asks.old > 0, asks' = [asks EXCEPT !.old = @ - 1]
            PROVE  asks' \in [own : Nat, old : Nat]
        BY <1>0, <4>2
      <4> QED BY <3>1, <4>1, <4>2 DEF Answered
    <3>2. CASE handleLocate
      BY <1>0, <3>2 DEF handleLocate
    <3>3. CASE asks' = asks
      BY <1>0, <3>3
    <3> QED BY <1>2, <3>1, <3>2, <3>3
       DEF CameraAct, Grab, PanTo, Release, Frame, ClickButton, Expanded, handleClusterClick,
           Located, LocateFails, control
  <2>4. expanding' \in Nat
    BY <1>0, <1>2
       DEF CameraAct, Grab, PanTo, Release, Frame, ClickButton, Expanded, handleClusterClick,
           handleLocate, Located, LocateFails, view
  <2>5. movement' \in View \cup {None, Hand}
    BY <1>2
       DEF CameraAct, Grab, PanTo, Release, Frame, ClickButton, Expanded, handleClusterClick,
           handleLocate, Located, LocateFails, view, Ease, handleZoomIn, handleZoomOut,
           handleResetBearing, TypeInv
  <2>6. /\ camera' \in View /\ compass' \in View /\ wish' \in View /\ setViewport' \in BOOLEAN
        /\ unseen' \subseteq {"viewport", "marker", "popup", "theme"}
    BY <1>2
       DEF CameraAct, Grab, PanTo, Release, Frame, ClickButton, Expanded, handleClusterClick,
           handleLocate, Located, LocateFails, view, react, Ease, handleZoomIn, handleZoomOut,
           handleResetBearing, CameraMoves, TypeInv, history
  <2> QED BY <1>2, <2>1, <2>2, <2>3, <2>4, <2>5, <2>6, <2>7, CameraSteps DEF TypeInv
<1>3. CASE WidgetAct
  <2>1. inputs' \in 0..MaxInputs
    BY <1>0, <1>3, WidgetSteps DEF TypeInv
  <2>2. page' \in Page
    BY <1>3, PageFields
  <2>3. /\ marker' \in Place \cup {None} /\ tooltip' \in Place \cup {None}
        /\ popup' \in Place \cup {None}
        /\ unseen' \subseteq {"viewport", "marker", "popup", "theme"}
    BY <1>3
       DEF WidgetAct, DragStart, Drag, DragEnd, MouseEnter, MouseLeave, Click, handleClose,
           ClosePopup, Tell, TypeInv, history
  <2>4. dragging' \in BOOLEAN /\ markerPopup' \in BOOLEAN
    BY <1>3
       DEF WidgetAct, DragStart, Drag, DragEnd, MouseEnter, MouseLeave, Click, handleClose,
           TypeInv
  <2> QED BY <1>3, <2>1, <2>2, <2>3, <2>4, WidgetSteps DEF TypeInv
<1>4. CASE ThemeAct
  <2>1. inputs' \in 0..MaxInputs
    BY <1>0, <1>4, ThemeSteps
  <2>2. /\ document' \in Theme \cup {None} /\ system' \in Theme /\ detectedTheme' \in Theme
        /\ unseen' \subseteq {"viewport", "marker", "popup", "theme"}
    BY <1>4 DEF ThemeAct, SetClass, SetSystem, handleSystemChange, TypeInv
  <2> QED BY <1>4, <2>1, <2>2, ThemeSteps DEF TypeInv
<1>5. CASE Render
  <2>1. rendered' \in Seen
    BY <1>5 DEF Render, TypeInv, Seen
  <2>2. /\ syncDue' \in BOOLEAN /\ detectedTheme' \in Theme
        /\ unseen' \subseteq {"viewport", "marker", "popup", "theme"}
    BY <1>5 DEF Render, TypeInv, Detected
  <2>3. waiting' \in BOOLEAN
    BY <1>5 DEF Render, TypeInv, control
  <2>4. asks' = asks \/ asks' = [own |-> 0, old |-> asks.own + asks.old]
    BY <1>5 DEF Render, control
  <2>5. asks' \in [own : Nat, old : Nat]
    BY <1>0, <2>4
  <2> QED BY <1>5, <2>1, <2>2, <2>3, <2>5 DEF Render, TypeInv, view, widgets
<1>6. CASE MountMap
  <2>1. camera' \in View /\ compass' \in View /\ applied' \in Seen
    BY <1>6 DEF MountMap, TypeInv, Seen, Page
  <2>2. movement' \in View \cup {None, Hand} /\ map' \in BOOLEAN /\ syncDue' \in BOOLEAN
    BY <1>6 DEF MountMap
  <2> QED BY <1>6, <2>1, <2>2 DEF MountMap, TypeInv, control, widgets, theme, history
<1>7. CASE RemoveMap
  <2>1. page' \in Page
    BY <1>7 DEF RemoveMap, TypeInv, Page
  <2> QED BY <1>7, <2>1 DEF RemoveMap, TypeInv, theme
<1>8. CASE Update
  <2>1. /\ camera' \in View /\ UNCHANGED <<page, setViewport>>
    BY <1>8 DEF Update, SyncViewport, TypeInv, Seen, Page
  <2>2. compass' \in View /\ marker' \in Place \cup {None} /\ popup' \in Place \cup {None}
    BY <1>8, <2>1 DEF Update, CompassAfter, MarkerAfter, PopupAfter, TypeInv, Seen, Page
  <2>3. tooltip' \in Place \cup {None} /\ unseen' \subseteq {"viewport", "marker", "popup", "theme"}
    BY <1>8 DEF Update, TooltipAfter, Unheeded, TypeInv
  <2>4. dragging' \in BOOLEAN /\ markerPopup' \in BOOLEAN
    BY <1>8 DEF Update
  <2> QED BY <1>8, <2>1, <2>2, <2>3, <2>4 DEF Update, TypeInv, control, theme
<1> QED BY <1>1, <1>2, <1>3, <1>4, <1>5, <1>6, <1>7, <1>8, Kinds

-----------------------------------------------------------------------------
(* The viewport.                                                            *)
LEMMA CameraStep ==
    ASSUME TypeInv, MapInv, CameraInv, Next PROVE CameraInv'
<1> USE DEF CameraInv
<1>0. page \in Page /\ setViewport \in BOOLEAN
  BY DEF TypeInv
<1>1. CASE PageAct
  <2>1. UNCHANGED <<rendered, syncDue, applied, map, camera, compass>>
    BY <1>1, PageSteps
  <2>2. \/ page'.viewport = wish' /\ setViewport' = TRUE
        \/ /\ page'.viewport = page.viewport /\ UNCHANGED <<setViewport, wish>>
           /\ ("viewport" \in unseen <=> "viewport" \in unseen')
    BY <1>0, <1>1 DEF PageAct, SetViewport, SetMarker, SetPopup, Show, ShowControls, SetTheme,
                SetProps, Page, history
  <2> QED BY <2>1, <2>2 DEF HasControls, Live
<1>2. CASE CameraAct
  <2>1. UNCHANGED <<rendered, syncDue, applied, map>>
    BY <1>2, CameraSteps
  <2>2. \/ UNCHANGED <<page, setViewport, wish, unseen, camera, compass>>
        \/ /\ page'.viewport = wish' /\ setViewport' = TRUE
           /\ HasControls(applied) => compass' = camera'
    BY <1>0, <1>2
       DEF CameraAct, Grab, PanTo, Release, Frame, ClickButton, Expanded, handleClusterClick,
           handleLocate, Located, LocateFails, view, react, Ease, handleZoomIn, handleZoomOut,
           handleResetBearing, CameraMoves, Page, history
  <2> QED BY <2>1, <2>2 DEF HasControls, Live
<1>3. CASE WidgetAct
  <2>1. /\ UNCHANGED <<rendered, syncDue, applied, map, camera, compass, setViewport, wish>>
        /\ page'.viewport = page.viewport /\ ("viewport" \in unseen <=> "viewport" \in unseen')
    BY <1>3, WidgetSteps, PageFields
  <2> QED BY <2>1 DEF HasControls, Live
<1>4. CASE ThemeAct
  <2>1. /\ UNCHANGED <<page, rendered, syncDue, applied, map, camera, compass, setViewport, wish>>
        /\ ("viewport" \in unseen <=> "viewport" \in unseen')
    BY <1>4, ThemeSteps
  <2> QED BY <2>1 DEF HasControls, Live
<1>5. CASE Render
  <2>1. /\ rendered'.page = page /\ setViewport' = FALSE /\ (setViewport => syncDue')
        /\ ~syncDue /\ UNCHANGED <<page, applied, map, camera, compass, wish>>
        /\ ("viewport" \in unseen <=> "viewport" \in unseen')
    BY <1>5 DEF Render, EffectsPending, view
  <2> QED BY <2>1 DEF HasControls, Live
<1>6. CASE MountMap
  <2>1. /\ camera' = rendered.page.viewport /\ compass' = camera'
        /\ UNCHANGED <<page, setViewport, rendered, wish, unseen>>
    BY <1>6 DEF MountMap, history
  <2> QED BY <2>1
<1>7. CASE RemoveMap
  <2>1. /\ map' = FALSE /\ applied' = rendered /\ ~rendered.page.shown
        /\ page'.viewport = page.viewport /\ UNCHANGED <<setViewport, rendered, wish>>
    BY <1>0, <1>7 DEF RemoveMap, Page
  <2> QED BY <2>1 DEF HasControls, Live
<1>8. CASE Update
  <2>1. /\ applied' = rendered /\ syncDue' = FALSE
        /\ UNCHANGED <<page, setViewport, rendered, map, wish>>
        /\ camera' = IF Jumps THEN rendered.page.viewport ELSE camera
        /\ compass' = IF HasControls(rendered) /\ (Jumps \/ ~HasControls(applied))
                      THEN camera' ELSE compass
        /\ unseen' = Unheeded
    BY <1>8 DEF Update, SyncViewport, CompassAfter
  <2>2. HasControls(applied)' => compass' = camera'
    BY <2>1 DEF HasControls, Live
  <2>3. ASSUME map, ~setViewport, "viewport" \notin unseen' PROVE camera' = page.viewport
    <3>1. rendered.page.viewport = page.viewport
      BY <2>3
    <3>2. IF syncDue /\ Live(rendered) THEN Jumps \/ camera = rendered.page.viewport
          ELSE "viewport" \notin unseen
      BY <2>1, <2>3 DEF Unheeded
    <3>3. CASE Live(rendered)
      BY <2>1, <2>3, <3>1, <3>2, <3>3 DEF Jumps
    <3>4. CASE ~Live(rendered)
      <4>1. ~syncDue
        BY <1>8, <2>3, <3>4 DEF MapInv, Live, Update
      <4> QED BY <2>1, <2>3, <3>2, <4>1 DEF Jumps
    <3> QED BY <3>3, <3>4
  <2> QED BY <2>1, <2>2, <2>3
<1> QED BY <1>1, <1>2, <1>3, <1>4, <1>5, <1>6, <1>7, <1>8, Kinds

-----------------------------------------------------------------------------
(* The marker.                                                              *)
LEMMA MarkerStep ==
    ASSUME TypeInv, MapInv, MarkerInv, Next PROVE MarkerInv'
<1> USE ViewAssumption
<1>0. page \in Page /\ dragging \in BOOLEAN /\ marker \in Place \cup {None}
  BY DEF TypeInv
<1>1. ASSUME UNCHANGED <<rendered, applied, marker, dragging>>,
             page'.marker = page.marker, "marker" \in unseen <=> "marker" \in unseen',
             tooltip' # None \/ markerPopup' => tooltip # None \/ markerPopup \/ marker # None
      PROVE  MarkerInv'
  BY <1>1 DEF MarkerInv, MarkerAfter, HasMarker, Live
<1>2. CASE PageAct
  <2>1. UNCHANGED <<rendered, applied, marker, dragging, tooltip, markerPopup>>
    BY <1>2, PageSteps
  <2>2. CASE \E m \in Place \cup {None} : SetMarker(m)
    <3>1. PICK m \in Place \cup {None} : SetMarker(m)
      BY <2>2
    <3>2. /\ page'.marker = m
          /\ "marker" \in unseen' <=>
                 \/ "marker" \in unseen /\ unseen' # unseen \ {"marker"}
                 \/ /\ HasMarker(applied) /\ m = applied.page.marker
                    /\ m = rendered.page.marker /\ m # marker
      BY <1>0, <3>1 DEF SetMarker, Page
    <3>3. ASSUME Live(rendered), rendered.page.marker = m, "marker" \notin unseen'
          PROVE  MarkerAfter = m
      BY <3>2, <3>3 DEF MarkerAfter, HasMarker
    <3> QED BY <2>1, <3>2, <3>3 DEF MarkerInv, MarkerAfter, HasMarker, Live
  <2>3. CASE ~ \E m \in Place \cup {None} : SetMarker(m)
    <3>1. page'.marker = page.marker /\ ("marker" \in unseen <=> "marker" \in unseen')
      BY <1>0, <1>2, <2>3 DEF PageAct, SetViewport, SetPopup, Show, ShowControls, SetTheme,
                SetProps, Page, history
    <3> QED BY <1>1, <2>1, <3>1
  <2> QED BY <2>2, <2>3
<1>3. CASE CameraAct
  BY <1>1, <1>3, CameraSteps, PageFields
<1>4. CASE ThemeAct
  BY <1>1, <1>4, ThemeSteps
<1>5. CASE WidgetAct
  <2>1. UNCHANGED <<rendered, applied>>
    BY <1>5, WidgetSteps
  <2>2. ASSUME NEW p \in Place, Drag(p) PROVE MarkerInv'
    <3>1. marker' = p /\ dragging' = TRUE /\ dragging /\ p # None
      BY <1>0, <2>2 DEF Drag
    <3> QED BY <2>1, <3>1 DEF MarkerInv, HasMarker, Live
  <2>3. CASE DragEnd
    <3>1. /\ marker' = marker /\ dragging /\ dragging' = FALSE
          /\ UNCHANGED <<tooltip, markerPopup>>
          /\ page'.marker = IF page.marker = None THEN None ELSE marker
      BY <1>0, <2>3 DEF DragEnd, Tell, Page
    <3>2. marker # None
      BY <3>1 DEF MarkerInv
    <3>3. ASSUME Live(rendered), rendered.page.marker = page'.marker
          PROVE  MarkerAfter = page'.marker
      BY <3>1, <3>2, <3>3 DEF MarkerAfter, HasMarker
    <3> QED BY <2>1, <3>1, <3>3 DEF MarkerInv, MarkerAfter, HasMarker, Live
  <2>4. CASE DragStart
    <3>1. marker # None /\ marker' = marker /\ dragging' = TRUE
      BY <2>4 DEF DragStart
    <3> QED BY <2>1, <3>1 DEF MarkerInv, HasMarker, Live
  <2>5. CASE MouseEnter \/ MouseLeave
    BY <1>1, <2>1, <2>5 DEF MouseEnter, MouseLeave, react, history
  <2>6. CASE handleClose \/ \E b \in BOOLEAN : Click(b)
    <3>1. /\ UNCHANGED <<marker, dragging, unseen>>
          /\ page'.marker = page.marker
      BY <1>0, <2>6 DEF handleClose, Click, ClosePopup, history, Page
    <3>2. tooltip' # None \/ markerPopup' => tooltip # None \/ markerPopup \/ marker # None
      BY <2>6 DEF handleClose, Click
    <3> QED BY <1>1, <2>1, <3>1, <3>2
  <2> QED BY <1>5, <2>2, <2>3, <2>4, <2>5, <2>6 DEF WidgetAct
<1>6. CASE Render
  <2>1. /\ rendered'.page = page /\ rendered'.map = map /\ applied = rendered
        /\ UNCHANGED <<page, applied, marker, dragging, tooltip, markerPopup>>
        /\ "marker" \in unseen <=> "marker" \in unseen'
    BY <1>6 DEF Render, EffectsPending, widgets
  <2>2. ASSUME Live(rendered)', ~dragging, "marker" \notin unseen
        PROVE  MarkerAfter' = page.marker
    <3>1. CASE HasMarker(applied) /\ page.marker = applied.page.marker
      <4>1. MarkerAfter = page.marker /\ MarkerAfter = marker
        BY <2>1, <2>2, <3>1 DEF MarkerInv, MarkerAfter, HasMarker
      <4> QED BY <2>1, <2>2, <3>1, <4>1 DEF MarkerAfter, HasMarker, Live
    <3>2. CASE ~(HasMarker(applied) /\ page.marker = applied.page.marker)
      BY <2>1, <2>2, <3>2 DEF MarkerAfter, HasMarker, Live
    <3> QED BY <3>1, <3>2
  <2> QED BY <2>1, <2>2 DEF MarkerInv, HasMarker, Live
<1>7. CASE MountMap
  <2>1. /\ ~applied.page.shown /\ applied' = rendered /\ rendered' = rendered
        /\ UNCHANGED <<marker, tooltip, markerPopup, dragging>>
    BY <1>7 DEF MountMap, widgets
  <2>2. ~Live(rendered)
    BY <2>1 DEF MapInv
  <2> QED BY <2>1, <2>2 DEF MarkerInv, HasMarker, Live
<1>8. CASE RemoveMap
  <2>1. /\ ~rendered.page.shown /\ applied' = rendered /\ rendered' = rendered
        /\ marker' = None /\ tooltip' = None /\ ~markerPopup' /\ ~dragging'
    BY <1>8 DEF RemoveMap
  <2> QED BY <2>1 DEF MarkerInv, HasMarker, Live
<1>9. CASE Update
  <2>1. /\ applied' = rendered /\ rendered' = rendered /\ page' = page /\ marker' = MarkerAfter
        /\ dragging' = (dragging /\ HasMarker(rendered)) /\ unseen' = Unheeded
        /\ markerPopup' = (markerPopup /\ HasMarker(rendered)) /\ tooltip' = TooltipAfter
    BY <1>9 DEF Update, SyncViewport
  <2>2. MarkerAfter # None <=> HasMarker(rendered)
    BY DEF MarkerInv, MarkerAfter, HasMarker
  <2>3. MarkerAfter' = MarkerAfter
    BY <2>1, <2>2 DEF MarkerAfter, HasMarker, Live
  <2>4. ASSUME Live(rendered), rendered.page.marker = page.marker, ~dragging',
               "marker" \notin unseen'
        PROVE  MarkerAfter = page.marker
    <3>1. "marker" \notin unseen \/ MarkerAfter = rendered.page.marker
      BY <2>1, <2>4 DEF Unheeded
    <3>2. CASE HasMarker(rendered)
      BY <2>1, <2>4, <3>1, <3>2 DEF MarkerInv
    <3>3. CASE ~HasMarker(rendered)
      BY <2>4, <3>3 DEF MarkerAfter, HasMarker
    <3> QED BY <3>2, <3>3
  <2>5. (marker # None <=> HasMarker(applied))'
    BY <2>1, <2>2 DEF HasMarker, Live
  <2>6. (tooltip # None \/ markerPopup \/ dragging => marker # None)'
    BY <2>1, <2>2 DEF TooltipAfter
  <2> QED BY <2>1, <2>3, <2>4, <2>5, <2>6 DEF MarkerInv, Live
<1> QED BY <1>2, <1>3, <1>4, <1>5, <1>6, <1>7, <1>8, <1>9, Kinds

-----------------------------------------------------------------------------
(* The popup.                                                               *)
LEMMA PopupStep ==
    ASSUME TypeInv, MapInv, PopupInv, Next PROVE PopupInv'
<1>0. page \in Page /\ popup \in Place \cup {None}
  BY DEF TypeInv
<1>1. ASSUME UNCHANGED <<rendered, applied, popup>>,
             page'.popup = page.popup, "popup" \in unseen => "popup" \in unseen'
      PROVE  PopupInv'
  BY <1>1 DEF PopupInv, HasPopup, Live
<1>2. CASE PageAct
  <2>1. UNCHANGED <<rendered, applied, popup>>
    BY <1>2, PageSteps
  <2>2. CASE \E p \in Place \cup {None} : SetPopup(p)
    <3>1. HasPopup(rendered) /\ HasPopup(applied) /\ popup = None => "popup" \in unseen'
      BY <2>2 DEF SetPopup
    <3> QED BY <2>1, <3>1 DEF PopupInv, HasPopup, Live
  <2>3. CASE ~ \E p \in Place \cup {None} : SetPopup(p)
    <3>1. page'.popup = page.popup /\ ("popup" \in unseen => "popup" \in unseen')
      BY <1>0, <1>2, <2>3 DEF PageAct, SetViewport, SetMarker, Show, ShowControls, SetTheme,
                SetProps, Page, history
    <3> QED BY <1>1, <2>1, <3>1
  <2> QED BY <2>2, <2>3
<1>3. CASE CameraAct
  BY <1>1, <1>3, CameraSteps, PageFields
<1>4. CASE ThemeAct
  BY <1>1, <1>4, ThemeSteps
<1>5. CASE WidgetAct
  <2>1. UNCHANGED <<rendered, applied>> /\ ("popup" \in unseen <=> "popup" \in unseen')
    BY <1>5, WidgetSteps
  <2>2. \/ popup' = popup /\ page'.popup = page.popup
        \/ popup' = None /\ (page'.popup = None \/ (popup = None /\ page' = page))
    BY <1>0, <1>5 DEF WidgetAct, DragStart, Drag, DragEnd, MouseEnter, MouseLeave, Click,
         handleClose, ClosePopup, Tell, react, Page
  <2> QED BY <2>1, <2>2 DEF PopupInv, HasPopup, Live
<1>6. CASE Render
  <2>1. /\ rendered'.page = page /\ applied = rendered
        /\ UNCHANGED <<page, applied, popup>> /\ ("popup" \in unseen => "popup" \in unseen')
    BY <1>6 DEF Render, EffectsPending, widgets
  <2> QED BY <2>1 DEF PopupInv, HasPopup, Live
<1>7. CASE MountMap
  <2>1. /\ ~applied.page.shown /\ applied' = rendered /\ rendered' = rendered
        /\ popup' = popup
    BY <1>7 DEF MountMap, widgets
  <2>2. ~Live(rendered)
    BY <2>1 DEF MapInv
  <2> QED BY <2>1, <2>2 DEF PopupInv, HasPopup, Live
<1>8. CASE RemoveMap
  <2>1. ~rendered.page.shown /\ rendered' = rendered /\ popup' = None
    BY <1>8 DEF RemoveMap
  <2> QED BY <2>1 DEF PopupInv, HasPopup, Live
<1>9. CASE Update
  <2>1. /\ applied' = rendered /\ rendered' = rendered /\ page' = page /\ popup' = PopupAfter
        /\ unseen' = Unheeded
    BY <1>9 DEF Update, SyncViewport
  <2>2. PopupAfter # None => HasPopup(rendered) /\ PopupAfter = rendered.page.popup
    BY DEF PopupAfter
  <2>3. ASSUME HasPopup(rendered), PopupAfter = None, page.popup # None
        PROVE  "popup" \in unseen'
    <3>1. HasPopup(applied) /\ popup = None
      BY <2>3 DEF PopupAfter, HasPopup
    <3> QED BY <2>1, <2>3, <3>1 DEF PopupInv, Unheeded
  <2> QED BY <2>1, <2>2, <2>3 DEF PopupInv, HasPopup, Live
<1> QED BY <1>2, <1>3, <1>4, <1>5, <1>6, <1>7, <1>8, <1>9, Kinds

-----------------------------------------------------------------------------
(* A step that changes nothing.                                             *)
LEMMA Stutter == ASSUME ViewInv, UNCHANGED vars PROVE ViewInv'
<1>1. /\ UNCHANGED <<inputs, page, setViewport, rendered, syncDue, applied, map, camera>>
      /\ UNCHANGED <<movement, compass, expanding, waiting, asks, marker, dragging>>
      /\ UNCHANGED <<markerPopup, tooltip, popup, document, system, detectedTheme>>
      /\ UNCHANGED <<wish, unseen>>
  BY DEF vars, react, view, control, widgets, theme, history
<1>2. TypeInv'
  BY <1>1 DEF ViewInv, TypeInv
<1>3. MapInv' /\ LocateInv'
  BY <1>1 DEF ViewInv, MapInv, LocateInv, Live
<1>4. CameraInv' /\ ThemeDetected'
  BY <1>1 DEF ViewInv, CameraInv, ThemeDetected, HasControls, Live
<1>5. MarkerInv' /\ PopupInv'
  BY <1>1 DEF ViewInv, MarkerInv, PopupInv, MarkerAfter, HasMarker, HasPopup, Live
<1> QED BY <1>2, <1>3, <1>4, <1>5 DEF ViewInv

(* The invariant is inductive, and holds.                                   *)
LEMMA ViewInvNext == ASSUME ViewInv, [Next]_vars PROVE ViewInv'
<1>1. CASE Next
  <2>1. TypeInv' /\ MapInv' /\ LocateInv'
    BY <1>1, TypeStep, MapStep, LocateStep DEF ViewInv
  <2>2. CameraInv' /\ MarkerInv' /\ PopupInv'
    BY <1>1, CameraStep, MarkerStep, PopupStep DEF ViewInv
  <2>3. ThemeDetected'
    BY <1>1, ThemeStep DEF ViewInv
  <2> QED BY <2>1, <2>2, <2>3 DEF ViewInv
<1> QED BY <1>1, Stutter

LEMMA ViewInvHolds == Spec => []ViewInv
BY ViewInvInit, ViewInvNext, PTL DEF Spec

-----------------------------------------------------------------------------
(* What belongs to a map is gone with it: its movement, requests, marker    *)
(* and popup; and the state has its shape (map.tsx).                        *)
THEOREM ViewTypeCorrect == Spec => []TypeOK
<1>1. ASSUME ViewInv PROVE TypeOK
  <2> USE <1>1 DEF ViewInv
  <2>1. inputs \in Nat /\ inputs <= MaxInputs /\ asks \in [own : Nat, old : Nat] /\ expanding \in Nat
    BY ViewAssumption DEF TypeInv
  <2>2. asks.own \in {0, 1} /\ asks.old \in 0..MaxInputs /\ expanding \in 0..MaxInputs
    BY <2>1, ViewAssumption DEF LocateInv
  <2>3. asks \in [own : {0, 1}, old : 0..MaxInputs]
    BY <2>1, <2>2
  <2>4. ~map => movement = None /\ expanding = 0 /\ asks.own = 0 /\ marker = None /\ popup = None
    BY DEF MapInv, MarkerInv, PopupInv, HasMarker, HasPopup, Live
  <2> QED BY <2>2, <2>3, <2>4 DEF TypeInv, TypeOK, Seen
<1> QED BY <1>1, ViewInvHolds, PTL

(* When nothing moves and React has nothing left to do, the camera, marker, *)
(* popup and compass are where the page wants them, except for the updates  *)
(* that nothing reacted to.                                                 *)
THEOREM PageAndMapAgreeAtRest == Spec => []PageAndMapAgree
<1>1. ASSUME ViewInv PROVE PageAndMapAgree
  <2> SUFFICES ASSUME AtRest, map
               PROVE  CameraAgrees /\ MarkerAgrees /\ PopupAgrees /\ CompassAgrees
    BY DEF PageAndMapAgree
  <2> USE <1>1 DEF ViewInv
  <2>1. /\ rendered = [page |-> page, map |-> map] /\ applied = rendered
        /\ ~setViewport /\ ~syncDue /\ ~dragging
    BY DEF AtRest, RenderPending, EffectsPending
  <2>2. Live(rendered) /\ rendered.page = page /\ Live(applied)
    <3>1. rendered.page = page /\ rendered.map = map
      BY <2>1
    <3>2. applied.page.shown
      BY DEF MapInv
    <3> QED BY <2>1, <3>1, <3>2 DEF Live
  <2>3. CameraAgrees /\ CompassAgrees
    BY <2>1 DEF CameraInv, CameraAgrees, CompassAgrees
  <2>4. MarkerAgrees
    BY <2>1, <2>2 DEF MarkerInv, MarkerAfter, MarkerAgrees, HasMarker
  <2>5. PopupAgrees
    BY <2>1, <2>2 DEF PopupInv, PopupAgrees, HasPopup
  <2> QED BY <2>3, <2>4, <2>5
<1> QED BY <1>1, ViewInvHolds, PTL

(* No tooltip, popup or drag outlives its marker, no MapPopup its mounting, *)
(* and no locate button waits without a request.                            *)
THEOREM NothingIsOrphaned == Spec => []NothingOrphaned
<1>1. ASSUME ViewInv PROVE NothingOrphaned
  BY <1>1 DEF ViewInv, TypeInv, MarkerInv, PopupInv, LocateInv, NothingOrphaned
<1> QED BY <1>1, ViewInvHolds, PTL

(* A mounted map has the theme of the document's class, or else of the      *)
(* system, since the last change it could see.                              *)
THEOREM ThemeIsDetected == Spec => []ThemeDetected
BY ViewInvHolds, PTL DEF ViewInv
=============================================================================

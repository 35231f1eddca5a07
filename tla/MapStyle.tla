------------------------------ MODULE MapStyle ------------------------------
(***************************************************************************)
(* The Map component of src/components/ui/map.tsx and the overlays drawn   *)
(* on it (MapRoute, MapGeoJSON, MapArc, MapClusterLayer): a theme change   *)
(* replaces the style, which every source and layer is part of, while      *)
(* React mounts, updates and unmounts the components that own them.        *)
(*                                                                         *)
(* setState only schedules a render; Commit is that render with the        *)
(* cleanups and effects it runs, cleanups first, an overlay's effects      *)
(* before those of Map.  MapLibre is modelled by what this file relies on: *)
(* a style is fetched, and replaces everything that is not part of it; any *)
(* change to the style is followed by a styledata event.                   *)
(***************************************************************************)
EXTENDS Integers, FiniteSets, FiniteSetsExt

CONSTANTS
    Theme,          \* resolved themes, and thereby styles
    Projection,     \* map projections; the prop is optional
    Default,        \* the projection of a style that names none
    Overlay,        \* overlay components
    Data,           \* values of their data
    Short,          \* coordinates of fewer than two points
    Url,            \* data that is a string, to fetch it from
    Feature,        \* features of an overlay that the pointer may be over
    None,           \* no projection prop, style, source or feature
    MaxChanges,     \* bound: changes by the page
    MaxFailures     \* bound: styles that fail to load

ASSUME MapAssumption ==
    /\ Default \in Projection /\ Short \in Data /\ Url \in Data /\ Short # Url
    /\ None \notin Theme \cup Projection \cup Data \cup Feature
    /\ MaxChanges \in Nat /\ MaxFailures \in Nat

Kind == {"route", "geojson", "arc", "cluster"}
Layer == {"fill", "line", "hit", "circle", "count", "point"}
Togglable == {"fill", "line"}           \* fillPaint and linePaint may be false

VARIABLES
    phase,              \* "up", or "removed" once the page unmounted Map
    changes, failures,
    props,              \* what the page asks for: theme, projection, overlays
    kind,               \* what component each overlay is
    initial,            \* the projection prop the init effect closed over
    isLoaded, isStyleLoaded,
    timer,              \* styleTimeoutRef: a timeout is pending
    currentStyle,       \* currentStyleRef
    rendered,           \* props and state of the last render with effects
    style,              \* the style the map has
    requests,           \* styles it is fetching, and after how many changes
    dirty,              \* the style changed since the last styledata event
    projection,         \* of the map
    source,             \* data of each overlay's source, None without one
    layers,             \* layers of each overlay
    pointer,            \* the feature of each overlay that is under the pointer
    hovered,            \* hoveredId of its mouse handlers
    lit,                \* features of its source with the state hover
    threw               \* history: an addSource threw

page == <<phase, changes, props>>
given == <<kind, initial>>              \* for good, when the page mounts Map
component == <<isLoaded, isStyleLoaded, timer, currentStyle>>
library == <<style, requests, dirty, projection, source, layers>>
mouse == <<pointer, hovered, lit>>
vars == <<page, failures, given, component, rendered, library, mouse, threw>>

Props == [theme : Theme, projection : Projection \cup {None}, mounted : SUBSET Overlay,
          data : [Overlay -> Data], shown : [Overlay -> SUBSET Togglable]]

(* What a render sees; the context's isLoaded is the conjunction.           *)
Now == [props |-> props, loaded |-> isLoaded, styled |-> isStyleLoaded]
CommitPending == rendered # Now
Live(o, r) == r.loaded /\ r.styled /\ o \in r.props.mounted

(* Only a route is short; only GeoJSON and clusters take a URL.             *)
DataOf(o) ==
    {d \in Data : /\ d = Short => kind[o] = "route"
                  /\ d = Url => kind[o] \in {"geojson", "cluster"}}

Init ==
    /\ phase = "up" /\ changes = 0 /\ failures = 0
    /\ kind \in [Overlay -> Kind]
    /\ props \in {p \in Props :
          p.mounted = Overlay /\ \A o \in Overlay :
              p.data[o] \in DataOf(o) \ {Short} /\ p.shown[o] = Togglable}
    /\ initial = props.projection
    /\ isLoaded = FALSE /\ isStyleLoaded = FALSE /\ timer = FALSE
    /\ currentStyle = props.theme
    /\ rendered = Now
    /\ style = None /\ requests = {[theme |-> props.theme, at |-> 0]}
    /\ dirty = FALSE /\ projection = Default
    /\ source = [o \in Overlay |-> None] /\ layers = [o \in Overlay |-> {}]
    /\ pointer = [o \in Overlay |-> None] /\ hovered = pointer
    /\ lit = [o \in Overlay |-> {}]
    /\ threw = FALSE

-----------------------------------------------------------------------------
(* The page.                                                               *)

Change(p) ==
    /\ phase = "up" /\ changes < MaxChanges
    /\ changes' = changes + 1
    /\ props' = p /\ p # props
    /\ UNCHANGED <<phase, failures, given, component, rendered, library, mouse, threw>>

useResolvedTheme == \E t \in Theme : Change([props EXCEPT !.theme = t])
SetProjection == \E p \in Projection \cup {None} : Change([props EXCEPT !.projection = p])
Mount == \E o \in Overlay : Change([props EXCEPT !.mounted = @ \cup {o}])
Dismount == \E o \in Overlay : Change([props EXCEPT !.mounted = @ \ {o}])
SetData == \E o \in Overlay : \E d \in DataOf(o) : Change([props EXCEPT !.data[o] = d])
Show == \E o \in Overlay, l \in Togglable :
            /\ kind[o] = "geojson"
            /\ Change([props EXCEPT !.shown[o] = SymDiff(@, {l})])

-----------------------------------------------------------------------------
(* The overlays' cleanups and effects, with o's source and layers as they   *)
(* are and the props p of the render.                                       *)

MapRoute(o, p) == [source |-> p.data[o], layers |-> {"line"}]
MapGeoJSON(o, p) == [source |-> p.data[o], layers |-> p.shown[o]]
MapArc(o, p) == [source |-> p.data[o], layers |-> {"hit", "line"}]
MapClusterLayer(o, p) == [source |-> p.data[o], layers |-> {"circle", "count", "point"}]

(* What o has on the map once its effects ran with the props p.             *)
Drawn(o, p) ==
    CASE kind[o] = "route"   -> MapRoute(o, p)
      [] kind[o] = "geojson" -> MapGeoJSON(o, p)
      [] kind[o] = "arc"     -> MapArc(o, p)
      [] kind[o] = "cluster" -> MapClusterLayer(o, p)

LayersOf(o, p) == Drawn(o, p).layers

(* The effect on a change of data lets the source be for a route of fewer   *)
(* than two points, and for a cluster's data that is a URL.                 *)
Synced(o, p) == <<kind[o], p.data[o]>> \notin {<<"route", Short>>, <<"cluster", Url>>}

CleanupShown(o) == LayersOf(o, props)   \* only the layers now asked for
CleanupLayers(o) ==
    CASE kind[o] = "geojson" -> Togglable
      [] OTHER -> LayersOf(o, props)

(* MapLibre refuses to remove a source that a layer uses.                   *)
Cleaned(o) ==
    LET left == layers[o] \ CleanupLayers(o) IN
    [source |-> IF left = {} THEN None ELSE source[o], layers |-> left]

UpdatedData(o, p, q) ==                 \* the layers' effect runs on mount only
    [source |-> IF source[o] # None /\ p.data[o] # q.data[o] /\ Synced(o, p)
                THEN p.data[o] ELSE source[o],
     layers |-> layers[o]]

(* Both effects look for the source first; q are the props rendered before. *)
Updated(o, p, q) ==
    IF source[o] = None THEN [source |-> None, layers |-> layers[o]]
    ELSE [source |-> IF p.data[o] # q.data[o] /\ Synced(o, p)
                     THEN p.data[o] ELSE source[o],
          layers |-> LayersOf(o, p)]

Setup(o) == ~Live(o, rendered) /\ Live(o, Now)
Cleanup(o) == Live(o, rendered) /\ ~Live(o, Now)

Overlaid(o) ==
    IF Cleanup(o) THEN Cleaned(o)
    ELSE IF Setup(o) THEN Drawn(o, props)
    ELSE IF Live(o, Now) THEN Updated(o, props, rendered.props)
    ELSE [source |-> source[o], layers |-> layers[o]]

(* The mouse handlers of an interactive overlay are bound to one layer.     *)
HitLayer(o) == IF kind[o] = "arc" THEN "hit" ELSE "fill"
Listening(o, r) ==
    Live(o, r) /\ kind[o] \in {"geojson", "arc"} /\ HitLayer(o) \in LayersOf(o, r.props)

setHover(o, next) ==
    /\ hovered' = [hovered EXCEPT ![o] = next]
    /\ lit' = [lit EXCEPT ![o] =
                  IF source[o] = None THEN @ ELSE (@ \ {hovered[o]}) \cup ({next} \ {None})]

HoverKept(o) == lit[o]                  \* setHover(null) left out

(* Their cleanup, which follows that of the source.                         *)
HoverCleanup(o) == lit[o] \ {hovered[o]}

HoverAfter(o) ==
    IF Overlaid(o).source = None THEN {}
    ELSE IF Listening(o, rendered) /\ ~Listening(o, Now) THEN HoverCleanup(o)
    ELSE lit[o]

(* What the render changes in the style; a new theme repaints GeoJSON.      *)
Restyled(o) ==
    \/ Overlaid(o).layers # layers[o] \/ (Overlaid(o).source = None) # (source[o] = None)
    \/ /\ kind[o] = "geojson" /\ Live(o, Now) /\ source[o] # None
       /\ props.theme # rendered.props.theme

(* Map's effects: a new style is requested, the projection is set.          *)
StyleChanges == currentStyle # props.theme

Commit ==
    /\ phase = "up" /\ CommitPending
    /\ rendered' = Now
    /\ source' = [o \in Overlay |-> Overlaid(o).source]
    /\ layers' = [o \in Overlay |-> Overlaid(o).layers]
    /\ threw' = (threw \/ \E o \in Overlay : Setup(o) /\ source[o] # None)
    /\ dirty' = (dirty \/ \E o \in Overlay : Restyled(o))
    /\ IF StyleChanges
       THEN /\ timer' = FALSE /\ isStyleLoaded' = FALSE
            /\ currentStyle' = props.theme
            /\ requests' = requests \cup {[theme |-> props.theme, at |-> changes]}
       ELSE UNCHANGED <<timer, isStyleLoaded, currentStyle, requests>>
    /\ projection' = IF isStyleLoaded /\ props.projection # None /\
                            (~rendered.styled \/
                             props.projection # rendered.props.projection)
                     THEN props.projection ELSE projection
    /\ lit' = [o \in Overlay |-> HoverAfter(o)]
    /\ hovered' = [o \in Overlay |->
                      IF Listening(o, rendered) /\ Listening(o, Now) THEN hovered[o] ELSE None]
    /\ UNCHANGED <<page, failures, given, isLoaded, style, pointer>>

-----------------------------------------------------------------------------
(* Callbacks of the Map component.                                         *)

StyleDataUntilLoad ==                   \* the listener goes with the load event
    /\ phase = "up" /\ dirty /\ ~isLoaded
    /\ dirty' = FALSE /\ timer' = TRUE
    /\ UNCHANGED <<page, failures, given, isLoaded, isStyleLoaded, currentStyle,
                   rendered, style, requests, projection, source, layers, mouse, threw>>

styleDataHandler ==
    /\ phase = "up" /\ dirty
    /\ dirty' = FALSE /\ timer' = TRUE
    /\ UNCHANGED <<page, failures, given, isLoaded, isStyleLoaded, currentStyle,
                   rendered, style, requests, projection, source, layers, mouse, threw>>

TimerKeepsProjection ==                 \* setProjection left out
    /\ timer /\ ~CommitPending
    /\ timer' = FALSE /\ isStyleLoaded' = TRUE
    /\ UNCHANGED <<page, failures, given, isLoaded, currentStyle, rendered,
                   library, mouse, threw>>

(* The 100 milliseconds are over; React has rendered in less.               *)
TimerFires ==
    /\ timer /\ ~CommitPending
    /\ timer' = FALSE /\ isStyleLoaded' = TRUE
    /\ projection' = IF initial = None THEN projection ELSE initial
    /\ UNCHANGED <<page, failures, given, isLoaded, currentStyle, rendered,
                   style, requests, dirty, source, layers, mouse, threw>>

loadHandler ==
    /\ phase = "up" /\ style # None /\ ~isLoaded
    /\ isLoaded' = TRUE
    /\ UNCHANGED <<page, failures, given, isStyleLoaded, timer, currentStyle,
                   rendered, library, mouse, threw>>

UnmountKeepsTimer ==                    \* clearStyleTimeout() forgotten
    /\ phase = "up" /\ phase' = "removed"
    /\ isLoaded' = FALSE /\ isStyleLoaded' = FALSE
    /\ style' = None /\ requests' = {} /\ dirty' = FALSE
    /\ source' = [o \in Overlay |-> None] /\ layers' = [o \in Overlay |-> {}]
    /\ hovered' = [o \in Overlay |-> None] /\ lit' = [o \in Overlay |-> {}]
    /\ UNCHANGED <<changes, props, failures, given, timer, currentStyle, rendered,
                   projection, pointer, threw>>

(* The cleanup of the init effect; those of the overlays come after it and  *)
(* find no style: that of a source ignores it, that of a hovered feature    *)
(* throws, with nothing left to clean.                                      *)
Unmount ==
    /\ phase = "up" /\ phase' = "removed"
    /\ isLoaded' = FALSE /\ isStyleLoaded' = FALSE /\ timer' = FALSE
    /\ style' = None /\ requests' = {} /\ dirty' = FALSE
    /\ source' = [o \in Overlay |-> None] /\ layers' = [o \in Overlay |-> {}]
    /\ hovered' = [o \in Overlay |-> None] /\ lit' = [o \in Overlay |-> {}]
    /\ UNCHANGED <<changes, props, failures, given, currentStyle, rendered,
                   projection, pointer, threw>>

-----------------------------------------------------------------------------
(* The mouse handlers of the overlays.                                     *)

handleMouseMove(o, f) == setHover(o, f)
handleMouseLeave(o) == setHover(o, None)

(* MapLibre calls them with what it finds on the layer.                     *)
PointerMoves(o, f) ==
    /\ phase = "up" /\ Listening(o, rendered)
    /\ pointer' = [pointer EXCEPT ![o] = f]
    /\ IF f # None /\ HitLayer(o) \in layers[o]
       THEN handleMouseMove(o, f) ELSE handleMouseLeave(o)
    /\ UNCHANGED <<page, failures, given, component, rendered, library, threw>>

PointerMovesUnheard(o, f) ==
    /\ phase = "up" /\ ~Listening(o, rendered) /\ kind[o] \in {"geojson", "arc"}
    /\ pointer' = [pointer EXCEPT ![o] = f]
    /\ UNCHANGED <<page, failures, given, component, rendered, library, hovered, lit,
                   threw>>

-----------------------------------------------------------------------------
(* MapLibre.                                                               *)

(* A fetched style takes effect, in whatever order they come.  Until there  *)
(* is a style it starts over, so that the map's first one is not used.      *)
StyleArrives(r) ==
    /\ style' = r.theme
    /\ requests' = {q \in requests \ {r} : style = None => q.at # 0}
    /\ dirty' = (dirty \/ style # r.theme \/ projection # Default
                        \/ \E o \in Overlay : source[o] # None)
    /\ projection' = Default
    /\ source' = [o \in Overlay |-> None] /\ layers' = [o \in Overlay |-> {}]
    /\ lit' = [o \in Overlay |-> {}]
    /\ UNCHANGED <<page, failures, given, component, rendered, pointer, hovered, threw>>

StyleFails(r) ==
    /\ failures < MaxFailures /\ r.at # 0
    /\ failures' = failures + 1
    /\ requests' = requests \ {r}
    /\ UNCHANGED <<page, given, component, rendered, style, dirty, projection,
                   source, layers, mouse, threw>>

Next ==
    \/ useResolvedTheme \/ SetProjection \/ Mount \/ Dismount \/ SetData \/ Show
    \/ \E o \in Overlay, f \in Feature \cup {None} :
            PointerMoves(o, f) \/ PointerMovesUnheard(o, f)
    \/ Commit \/ styleDataHandler \/ TimerFires \/ loadHandler \/ Unmount
    \/ \E r \in requests : StyleArrives(r) \/ StyleFails(r)

(* The browser renders, fires timers and events, and fetches come to an end.*)
Spec == Init /\ [][Next]_vars
FairSpec ==
    /\ Spec
    /\ WF_vars(Commit) /\ WF_vars(styleDataHandler) /\ WF_vars(TimerFires)
    /\ WF_vars(loadHandler)
    /\ WF_vars(\E r \in requests : StyleArrives(r) \/ StyleFails(r))

-----------------------------------------------------------------------------
(* What the map is checked for.                                            *)

(* The shape of the state; nothing is left to happen on a removed map.      *)
TypeOK ==
    /\ phase \in {"up", "removed"} /\ changes \in 0..MaxChanges
    /\ failures \in 0..MaxFailures /\ props \in Props /\ rendered.props \in Props
    /\ kind \in [Overlay -> Kind]
    /\ initial \in Projection \cup {None} /\ projection \in Projection
    /\ isLoaded \in BOOLEAN /\ isStyleLoaded \in BOOLEAN /\ timer \in BOOLEAN
    /\ currentStyle \in Theme /\ style \in Theme \cup {None} /\ dirty \in BOOLEAN
    /\ requests \subseteq [theme : Theme, at : 0..MaxChanges]
    /\ source \in [Overlay -> Data \cup {None}] /\ layers \in [Overlay -> SUBSET Layer]
    /\ pointer \in [Overlay -> Feature \cup {None}]
    /\ hovered \in [Overlay -> Feature \cup {None}] /\ lit \in [Overlay -> SUBSET Feature]
    /\ phase = "removed" => ~timer /\ ~dirty /\ requests = {}

(* No overlay ever adds a source that is there already, which throws out of *)
(* its effect: every setup is preceded by a complete cleanup or a new style.*)
NeverAddsTwice == ~threw

(* An overlay that is not live has left nothing on the map.                 *)
NothingLeftBehind ==
    phase = "up" => \A o \in Overlay : ~Live(o, rendered) =>
                        source[o] = None /\ layers[o] = {}

(* Whatever order props, styles and loads came in, a drawn overlay shows    *)
(* the layers and the data the page last asked for, if that is not a route  *)
(* of fewer than two points, nor a URL given to a cluster.                  *)
DrawnAsAsked ==
    phase = "up" /\ ~CommitPending => \A o \in Overlay :
        source[o] # None => /\ layers[o] = LayersOf(o, props)
                            /\ Synced(o, props) => source[o] = props.data[o]

(* A feature is highlighted only while the pointer is over it: none stays   *)
(* lit when its layer is hidden, its component goes or the style is changed *)
(* before the pointer leaves.                                               *)
HighlightFollowsPointer == phase = "up" => \A o \in Overlay : lit[o] \subseteq {pointer[o]}

(* The projection Map was mounted with, if any, survives every change of    *)
(* style, whatever else the page asked for in between.                      *)
AtRest == /\ phase = "up" /\ isStyleLoaded /\ ~CommitPending /\ ~timer /\ ~dirty
          /\ requests = {}
ProjectionKept ==
    AtRest /\ initial # None /\ props.projection = initial => projection = initial

(* As long as every style loads before the theme changes again, the map is  *)
(* ready for its overlays again after each change.  With two styles on the  *)
(* way the older may come last, and asking for it again then changes        *)
(* nothing, so that no styledata event follows.                             *)
ReadyAgain ==
    [](Cardinality(requests) <= 1 /\ failures = 0) =>
        (phase = "up" /\ ~(isLoaded /\ isStyleLoaded)
            ~> (isLoaded /\ isStyleLoaded) \/ phase = "removed")
=============================================================================

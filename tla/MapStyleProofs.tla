---------------------------- MODULE MapStyleProofs ----------------------------
(* Proofs about MapStyle, for any overlays of the four kinds, any styles,   *)
(* data and features, and any number of changes and failures.               *)
EXTENDS MapStyle, TLAPS

PropsInv == kind \in [Overlay -> Kind] /\ props \in Props /\ rendered.props \in Props

MouseType ==
    /\ pointer \in [Overlay -> Feature \cup {None}]
    /\ hovered \in [Overlay -> Feature \cup {None}]
    /\ lit \in [Overlay -> SUBSET Feature]

(* What an overlay has on the map is what its effects draw with the props   *)
(* they last ran with; without a source it has no layer.                    *)
DrawnInv ==
    phase = "up" => \A o \in Overlay :
        /\ source[o] = None => layers[o] = {}
        /\ source[o] # None => /\ Live(o, rendered)
                               /\ layers[o] = LayersOf(o, rendered.props)
                               /\ Synced(o, rendered.props)
                                      => source[o] = rendered.props.data[o]

(* The mouse handlers know what they lit; nobody else's feature is lit.     *)
HoverInv ==
    phase = "up" => \A o \in Overlay :
        /\ lit[o] \subseteq {hovered[o]} /\ lit[o] \subseteq {pointer[o]}
        /\ ~Listening(o, rendered) \/ source[o] = None => lit[o] = {}

StyleInv == PropsInv /\ MouseType /\ DrawnInv /\ HoverInv /\ NeverAddsTwice

-----------------------------------------------------------------------------
(* The overlays' operators.                                                 *)

(* The layers of an overlay, which its cleanup takes off whatever the page  *)
(* asks for by then.                                                        *)
LEMMA LayersFacts ==
    ASSUME kind \in [Overlay -> Kind], NEW o \in Overlay, NEW p \in Props
    PROVE  /\ Drawn(o, p).source = p.data[o] /\ p.data[o] # None
           /\ Drawn(o, p).layers = LayersOf(o, p)
           /\ props \in Props => LayersOf(o, p) \subseteq CleanupLayers(o)
<1>1. kind[o] \in {"route", "geojson", "arc", "cluster"}
  BY DEF Kind
<1>2. p.data[o] \in Data /\ p.shown[o] \subseteq Togglable
  BY DEF Props
<1>3. Drawn(o, p).source = p.data[o] /\ p.data[o] # None
  BY <1>1, <1>2, MapAssumption DEF Drawn, MapRoute, MapGeoJSON, MapArc, MapClusterLayer
<1>4. LayersOf(o, p) \subseteq CleanupLayers(o)
  BY <1>1, <1>2 DEF LayersOf, CleanupLayers, Drawn, MapRoute, MapGeoJSON, MapArc, MapClusterLayer
<1> QED BY <1>3, <1>4 DEF LayersOf

-----------------------------------------------------------------------------
LEMMA StyleInvInit == Init => StyleInv
<1> SUFFICES ASSUME Init PROVE StyleInv
  OBVIOUS
<1>1. kind \in [Overlay -> Kind] /\ props \in Props /\ rendered.props = props
  BY DEF Init, Now
<1>2. /\ source = [o \in Overlay |-> None] /\ layers = [o \in Overlay |-> {}]
      /\ pointer = [o \in Overlay |-> None] /\ hovered = pointer
      /\ lit = [o \in Overlay |-> {}] /\ threw = FALSE
  BY DEF Init
<1>3. PropsInv /\ MouseType
  BY <1>1, <1>2 DEF PropsInv, MouseType
<1>4. DrawnInv /\ HoverInv /\ NeverAddsTwice
  BY <1>2 DEF DrawnInv, HoverInv, NeverAddsTwice
<1> QED BY <1>3, <1>4 DEF StyleInv

-----------------------------------------------------------------------------
(* The steps, by what they leave alone.                                     *)

PageAct == useResolvedTheme \/ SetProjection \/ Mount \/ Dismount \/ SetData \/ Show
Arrives == \E r \in requests : StyleArrives(r)
Points == \E o \in Overlay, f \in Feature \cup {None} : PointerMoves(o, f)
PointsUnheard == \E o \in Overlay, f \in Feature \cup {None} : PointerMovesUnheard(o, f)
Quiet ==
    \/ styleDataHandler \/ TimerFires \/ loadHandler
    \/ \E r \in requests : StyleFails(r)

LEMMA Kinds ==
    Next => PageAct \/ Commit \/ Unmount \/ Arrives \/ Points \/ PointsUnheard \/ Quiet
BY DEF Next, PageAct, Arrives, Points, PointsUnheard, Quiet

LEMMA PageChanges ==
    ASSUME PropsInv, PageAct
    PROVE  /\ props' \in Props
           /\ UNCHANGED <<phase, kind, rendered, source, layers, pointer, hovered, lit, threw>>
<1>1. props \in Props
  BY DEF PropsInv
<1>2. ASSUME NEW p, Change(p), p \in Props
      PROVE  /\ props' \in Props
             /\ UNCHANGED <<phase, kind, rendered, source, layers, pointer, hovered, lit, threw>>
  BY <1>2 DEF Change, given, library, mouse
<1>3. ASSUME NEW t \in Theme PROVE [props EXCEPT !.theme = t] \in Props
  BY <1>1 DEF Props
<1>4. ASSUME NEW p \in Projection \cup {None} PROVE [props EXCEPT !.projection = p] \in Props
  BY <1>1 DEF Props
<1>5. ASSUME NEW o \in Overlay
      PROVE  /\ [props EXCEPT !.mounted = @ \cup {o}] \in Props
             /\ [props EXCEPT !.mounted = @ \ {o}] \in Props
  BY <1>1 DEF Props
<1>6. ASSUME NEW o \in Overlay, NEW d \in Data PROVE [props EXCEPT !.data[o] = d] \in Props
  BY <1>1 DEF Props
<1>7. ASSUME NEW o \in Overlay, NEW l \in Togglable
      PROVE  [props EXCEPT !.shown[o] = SymDiff(@, {l})] \in Props
  <2>1. SymDiff(props.shown[o], {l}) \in SUBSET Togglable
    BY <1>1 DEF Props, SymDiff
  <2> QED BY <1>1, <2>1 DEF Props
<1> QED BY <1>2, <1>3, <1>4, <1>5, <1>6, <1>7
        DEF PageAct, useResolvedTheme, SetProjection, Mount, Dismount, SetData, Show, DataOf

LEMMA QuietSteps ==
    ASSUME Quiet
    PROVE  UNCHANGED <<phase, props, kind, rendered, source, layers, pointer, hovered, lit, threw>>
BY DEF Quiet, styleDataHandler, TimerFires, loadHandler, StyleFails, page, given, library, mouse

(* A step that leaves all this alone keeps the invariant.                   *)
LEMMA Undisturbed ==
    ASSUME StyleInv, props' \in Props,
           UNCHANGED <<phase, kind, rendered, source, layers, pointer, hovered, lit, threw>>
    PROVE  StyleInv'
<1>1. PropsInv' /\ MouseType' /\ NeverAddsTwice'
  BY DEF StyleInv, PropsInv, MouseType, NeverAddsTwice
<1>2. DrawnInv'
  BY DEF StyleInv, DrawnInv, Live, LayersOf, Drawn, Synced, MapRoute, MapGeoJSON, MapArc,
         MapClusterLayer
<1>3. HoverInv'
  <2>1. ASSUME NEW o \in Overlay PROVE Listening(o, rendered)' <=> Listening(o, rendered)
    BY DEF Listening, Live, HitLayer, LayersOf, Drawn, MapRoute, MapGeoJSON, MapArc,
           MapClusterLayer
  <2> QED BY <2>1 DEF StyleInv, HoverInv
<1> QED BY <1>1, <1>2, <1>3 DEF StyleInv

-----------------------------------------------------------------------------
(* A render with its cleanups and effects.                                  *)
LEMMA CommitStep == ASSUME StyleInv, Commit PROVE StyleInv'
<1> USE DEF StyleInv
<1>1. /\ phase = "up" /\ phase' = "up" /\ props' = props /\ props \in Props
      /\ kind' = kind /\ kind \in [Overlay -> Kind]
      /\ rendered' = Now /\ rendered'.props = props /\ pointer' = pointer
      /\ source' = [o \in Overlay |-> Overlaid(o).source]
      /\ layers' = [o \in Overlay |-> Overlaid(o).layers]
      /\ lit' = [o \in Overlay |-> HoverAfter(o)]
      /\ hovered' = [o \in Overlay |->
                        IF Listening(o, rendered) /\ Listening(o, Now) THEN hovered[o] ELSE None]
  BY DEF Commit, page, given, Now, PropsInv
<1>2. ASSUME NEW o \in Overlay
      PROVE  /\ Overlaid(o).source = None => Overlaid(o).layers = {}
             /\ Overlaid(o).source # None
                    => /\ Live(o, Now) /\ Overlaid(o).layers = LayersOf(o, props)
                       /\ Synced(o, props) => Overlaid(o).source = props.data[o]
  <2>1. /\ source[o] = None => layers[o] = {}
        /\ source[o] # None => /\ Live(o, rendered)
                               /\ layers[o] = LayersOf(o, rendered.props)
                               /\ Synced(o, rendered.props)
                                      => source[o] = rendered.props.data[o]
    BY <1>1 DEF DrawnInv
  <2>2. CASE Cleanup(o)
    <3>1. layers[o] \subseteq CleanupLayers(o)
      BY <2>1, <1>1, LayersFacts DEF PropsInv
    <3>2. Overlaid(o) = [source |-> None, layers |-> {}]
      BY <2>2, <3>1 DEF Overlaid, Cleaned
    <3> QED BY <3>2
  <2>3. CASE Setup(o)
    <3>1. Overlaid(o) = Drawn(o, props) /\ Live(o, Now)
      BY <2>3 DEF Overlaid, Setup, Cleanup
    <3> QED BY <1>1, <3>1, LayersFacts
  <2>4. CASE Live(o, rendered) /\ Live(o, Now)
    <3>1. Overlaid(o) = Updated(o, props, rendered.props)
      BY <2>4 DEF Overlaid, Setup, Cleanup
    <3>2. CASE source[o] = None
      BY <2>1, <3>1, <3>2 DEF Updated
    <3>3. CASE source[o] # None
      <4>1. Overlaid(o) = [source |-> IF props.data[o] # rendered.props.data[o] /\ Synced(o, props)
                                      THEN props.data[o] ELSE source[o],
                           layers |-> LayersOf(o, props)]
        BY <3>1, <3>3 DEF Updated
      <4>2. Overlaid(o).source # None
        BY <1>1, <3>3, <4>1, LayersFacts
      <4>3. Synced(o, props) => Overlaid(o).source = props.data[o]
        BY <2>1, <3>3, <4>1 DEF Synced
      <4> QED BY <2>4, <4>1, <4>2, <4>3
    <3> QED BY <3>2, <3>3
  <2>5. CASE ~Live(o, rendered) /\ ~Live(o, Now)
    <3>1. Overlaid(o) = [source |-> source[o], layers |-> layers[o]]
      BY <2>5 DEF Overlaid, Setup, Cleanup
    <3> QED BY <2>1, <2>5, <3>1
  <2> QED BY <2>2, <2>3, <2>4, <2>5 DEF Setup, Cleanup
<1>3. DrawnInv'
  <2>1. ASSUME NEW o \in Overlay
        PROVE  /\ Live(o, rendered)' <=> Live(o, Now)
               /\ LayersOf(o, rendered.props)' = LayersOf(o, props)
               /\ Synced(o, rendered.props)' <=> Synced(o, props)
    BY <1>1 DEF Live, LayersOf, Drawn, Synced, MapRoute, MapGeoJSON, MapArc, MapClusterLayer
  <2> QED BY <1>1, <1>2, <2>1 DEF DrawnInv
<1>4. ASSUME NEW o \in Overlay
      PROVE  /\ HoverAfter(o) \subseteq lit[o]
             /\ Overlaid(o).source = None => HoverAfter(o) = {}
             /\ ~(Listening(o, rendered) /\ Listening(o, Now)) => HoverAfter(o) = {}
  <2>1. lit[o] \subseteq {hovered[o]} /\ (~Listening(o, rendered) => lit[o] = {})
    BY <1>1 DEF HoverInv
  <2> QED BY <2>1 DEF HoverAfter, HoverCleanup
<1>5. HoverInv'
  <2>1. ASSUME NEW o \in Overlay PROVE Listening(o, rendered)' <=> Listening(o, Now)
    BY <1>1 DEF Listening, Live, HitLayer, LayersOf, Drawn, MapRoute, MapGeoJSON, MapArc,
                MapClusterLayer
  <2>2. ASSUME NEW o \in Overlay
        PROVE  lit'[o] \subseteq {hovered'[o]} /\ lit'[o] \subseteq {pointer'[o]}
    <3>1. lit[o] \subseteq {hovered[o]} /\ lit[o] \subseteq {pointer[o]}
      BY <1>1 DEF HoverInv
    <3>2. lit'[o] = HoverAfter(o)
      BY <1>1
    <3>3. CASE Listening(o, rendered) /\ Listening(o, Now)
      <4>1. hovered'[o] = hovered[o]
        BY <1>1, <3>3
      <4> QED BY <1>1, <1>4, <3>1, <3>2, <4>1
    <3>4. CASE ~(Listening(o, rendered) /\ Listening(o, Now))
      BY <1>4, <3>2, <3>4
    <3> QED BY <3>3, <3>4
  <2> QED BY <1>1, <1>4, <2>1, <2>2 DEF HoverInv
<1>6. MouseType'
  BY <1>1, <1>4 DEF MouseType
<1>7. NeverAddsTwice'
  <2>1. ASSUME NEW o \in Overlay PROVE ~(Setup(o) /\ source[o] # None)
    BY <1>1 DEF DrawnInv, Setup
  <2> QED BY <2>1 DEF Commit, NeverAddsTwice
<1> QED BY <1>1, <1>3, <1>5, <1>6, <1>7 DEF PropsInv

(* A style takes everything that was drawn with it.                         *)
LEMMA ArrivesStep == ASSUME StyleInv, Arrives PROVE StyleInv'
<1>1. /\ UNCHANGED <<phase, props, kind, rendered, pointer, hovered, threw>>
      /\ source' = [o \in Overlay |-> None] /\ layers' = [o \in Overlay |-> {}]
      /\ lit' = [o \in Overlay |-> {}]
  BY DEF Arrives, StyleArrives, page, given
<1>2. PropsInv' /\ MouseType' /\ NeverAddsTwice'
  BY <1>1 DEF StyleInv, PropsInv, MouseType, NeverAddsTwice
<1>3. DrawnInv' /\ HoverInv'
  BY <1>1 DEF DrawnInv, HoverInv
<1> QED BY <1>2, <1>3 DEF StyleInv

LEMMA UnmountStep == ASSUME StyleInv, Unmount PROVE StyleInv'
<1>1. /\ phase' = "removed" /\ UNCHANGED <<props, kind, rendered, pointer, threw>>
      /\ hovered' = [o \in Overlay |-> None] /\ lit' = [o \in Overlay |-> {}]
  BY DEF Unmount, given
<1>2. PropsInv' /\ MouseType' /\ NeverAddsTwice'
  BY <1>1 DEF StyleInv, PropsInv, MouseType, NeverAddsTwice
<1>3. DrawnInv' /\ HoverInv'
  BY <1>1 DEF DrawnInv, HoverInv
<1> QED BY <1>2, <1>3 DEF StyleInv

-----------------------------------------------------------------------------
(* The pointer.                                                             *)
LEMMA PointerStep == ASSUME StyleInv, Points \/ PointsUnheard PROVE StyleInv'
<1> USE DEF StyleInv
<1>1. UNCHANGED <<phase, props, kind, rendered, source, layers, threw>>
  BY DEF Points, PointsUnheard, PointerMoves, PointerMovesUnheard, page, given, library
<1>2. PropsInv' /\ NeverAddsTwice'
  BY <1>1 DEF PropsInv, NeverAddsTwice
<1>3. DrawnInv'
  BY <1>1 DEF DrawnInv, Live, LayersOf, Drawn, Synced, MapRoute, MapGeoJSON, MapArc,
              MapClusterLayer
<1>4. ASSUME NEW o \in Overlay PROVE Listening(o, rendered)' <=> Listening(o, rendered)
  BY <1>1 DEF Listening, Live, HitLayer, LayersOf, Drawn, MapRoute, MapGeoJSON, MapArc,
              MapClusterLayer
<1>5. ASSUME NEW o \in Overlay, NEW f \in Feature \cup {None}, PointerMovesUnheard(o, f)
      PROVE  MouseType' /\ HoverInv'
  <2>1. /\ pointer' = [pointer EXCEPT ![o] = f] /\ UNCHANGED <<hovered, lit>>
        /\ phase = "up" /\ ~Listening(o, rendered)
    BY <1>5 DEF PointerMovesUnheard
  <2>2. lit[o] = {}
    BY <2>1 DEF HoverInv
  <2> QED BY <1>1, <1>4, <2>1, <2>2 DEF MouseType, HoverInv
<1>6. ASSUME NEW o \in Overlay, NEW f \in Feature \cup {None}, PointerMoves(o, f)
      PROVE  MouseType' /\ HoverInv'
  <2>1. /\ pointer' = [pointer EXCEPT ![o] = f] /\ phase = "up"
        /\ \E next \in {f, None} :
              /\ hovered' = [hovered EXCEPT ![o] = next]
              /\ lit' = [lit EXCEPT ![o] = IF source[o] = None THEN @
                              ELSE (@ \ {hovered[o]}) \cup ({next} \ {None})]
        /\ Listening(o, rendered)
    BY <1>6 DEF PointerMoves, handleMouseMove, handleMouseLeave, setHover
  <2>2. PICK next \in {f, None} :
           /\ hovered' = [hovered EXCEPT ![o] = next]
           /\ lit' = [lit EXCEPT ![o] = IF source[o] = None THEN @
                           ELSE (@ \ {hovered[o]}) \cup ({next} \ {None})]
    BY <2>1
  <2>3. lit[o] \subseteq {hovered[o]} /\ (source[o] = None => lit[o] = {})
    BY <2>1 DEF HoverInv
  <2>4. /\ hovered'[o] = next /\ pointer'[o] = f
        /\ lit'[o] = IF source[o] = None THEN {} ELSE {next} \ {None}
    BY <2>1, <2>2, <2>3 DEF MouseType
  <2>5. ASSUME NEW q \in Overlay, q # o
        PROVE  hovered'[q] = hovered[q] /\ pointer'[q] = pointer[q] /\ lit'[q] = lit[q]
    BY <2>1, <2>2, <2>5 DEF MouseType
  <2>6. HoverInv'
    BY <1>1, <1>4, <2>1, <2>4, <2>5 DEF HoverInv
  <2>7. lit' \in [Overlay -> SUBSET Feature]
    BY <2>2, <2>3, <2>4 DEF MouseType
  <2>8. MouseType'
    BY <2>1, <2>2, <2>7 DEF MouseType
  <2> QED BY <2>6, <2>8
<1> QED BY <1>2, <1>3, <1>5, <1>6 DEF Points, PointsUnheard

-----------------------------------------------------------------------------
LEMMA StyleInvNext == ASSUME StyleInv, [Next]_vars PROVE StyleInv'
<1>1. props \in Props
  BY DEF StyleInv, PropsInv
<1>2. CASE PageAct
  BY <1>2, PageChanges, Undisturbed DEF StyleInv
<1>3. CASE Quiet
  BY <1>1, <1>3, QuietSteps, Undisturbed
<1>4. CASE UNCHANGED vars
  BY <1>1, <1>4, Undisturbed DEF vars, page, given, library, mouse
<1> QED BY <1>2, <1>3, <1>4, CommitStep, ArrivesStep, UnmountStep, PointerStep, Kinds

LEMMA StyleInvHolds == Spec => []StyleInv
BY StyleInvInit, StyleInvNext, PTL DEF Spec

-----------------------------------------------------------------------------
(* The types.                                                               *)
LEMMA TypeInit == Init => TypeOK
<1> SUFFICES ASSUME Init PROVE TypeOK
  OBVIOUS
<1> USE MapAssumption
<1>1. /\ props \in Props /\ rendered.props = props /\ props.theme \in Theme
      /\ props.projection \in Projection \cup {None} /\ kind \in [Overlay -> Kind]
  BY DEF Init, Now, Props
<1>2. requests \subseteq [theme : Theme, at : 0..MaxChanges]
  <2>1. [theme |-> props.theme, at |-> 0] \in [theme : Theme, at : 0..MaxChanges]
    BY <1>1
  <2> QED BY <2>1 DEF Init
<1>3. /\ source \in [Overlay -> Data \cup {None}] /\ layers \in [Overlay -> SUBSET Layer]
      /\ lit \in [Overlay -> SUBSET Feature]
      /\ pointer \in [Overlay -> Feature \cup {None}] /\ hovered = pointer
  BY DEF Init
<1>4. changes \in 0..MaxChanges /\ failures \in 0..MaxFailures
  BY DEF Init
<1>5. /\ phase = "up" /\ phase # "removed" /\ initial \in Projection \cup {None} /\ projection \in Projection
      /\ isLoaded \in BOOLEAN /\ isStyleLoaded \in BOOLEAN /\ timer \in BOOLEAN
      /\ currentStyle \in Theme /\ style = None /\ dirty \in BOOLEAN
  BY <1>1 DEF Init
<1> QED BY <1>1, <1>2, <1>3, <1>4, <1>5 DEF TypeOK

(* What a render and its effects make of the source and layers of o.        *)
LEMMA OverlaidType ==
    ASSUME TypeOK, NEW o \in Overlay
    PROVE  Overlaid(o).source \in Data \cup {None} /\ Overlaid(o).layers \subseteq Layer
<1>1. /\ props \in Props /\ source[o] \in Data \cup {None} /\ layers[o] \subseteq Layer
      /\ props.data[o] \in Data /\ props.shown[o] \subseteq Togglable
  BY DEF TypeOK, Props
<1>2. Drawn(o, props).source \in Data /\ LayersOf(o, props) \subseteq Layer
  <2>1. kind[o] \in {"route", "geojson", "arc", "cluster"}
    BY DEF TypeOK, Kind
  <2> QED BY <1>1, <2>1
          DEF LayersOf, Drawn, MapRoute, MapGeoJSON, MapArc, MapClusterLayer, Layer, Togglable
<1>3. Drawn(o, props).layers = LayersOf(o, props)
  BY DEF LayersOf
<1>4. Cleaned(o).source \in Data \cup {None} /\ Cleaned(o).layers \subseteq Layer
  BY <1>1 DEF Cleaned
<1>5. /\ Updated(o, props, rendered.props).source \in Data \cup {None}
      /\ Updated(o, props, rendered.props).layers \subseteq Layer
  BY <1>1, <1>2 DEF Updated
<1> QED BY <1>1, <1>2, <1>3, <1>4, <1>5 DEF Overlaid

LEMMA CommitType == ASSUME TypeOK, Commit PROVE TypeOK'
<1> USE DEF TypeOK
<1>1. /\ UNCHANGED <<phase, changes, props, failures, kind, initial, isLoaded, style, pointer>>
      /\ rendered'.props = props /\ phase = "up" /\ phase # "removed"
  BY DEF Commit, page, given, Now
<1>2. source' \in [Overlay -> Data \cup {None}] /\ layers' \in [Overlay -> SUBSET Layer]
  BY OverlaidType DEF Commit
<1>3. projection' \in Projection /\ dirty' \in BOOLEAN
  BY DEF Commit, Props
<1>4. timer' \in BOOLEAN /\ isStyleLoaded' \in BOOLEAN /\ currentStyle' \in Theme
  BY DEF Commit, Props
<1>7. requests' \subseteq [theme : Theme, at : 0..MaxChanges]
  <2>1. [theme |-> props.theme, at |-> changes] \in [theme : Theme, at : 0..MaxChanges]
    BY DEF Props
  <2> QED BY <2>1 DEF Commit
<1>5. ASSUME NEW o \in Overlay PROVE HoverAfter(o) \subseteq Feature
  BY DEF HoverAfter, HoverCleanup
<1>6. lit' \in [Overlay -> SUBSET Feature] /\ hovered' \in [Overlay -> Feature \cup {None}]
  BY <1>5 DEF Commit
<1> QED BY <1>1, <1>2, <1>3, <1>4, <1>6, <1>7

LEMMA PointerType ==
    ASSUME TypeOK, Points \/ PointsUnheard PROVE TypeOK'
<1> USE DEF TypeOK
<1>1. UNCHANGED <<page, component, failures, given, rendered, library>>
  BY DEF Points, PointsUnheard, PointerMoves, PointerMovesUnheard
<1>2. ASSUME NEW o \in Overlay, NEW f \in Feature \cup {None}, PointerMovesUnheard(o, f)
      PROVE  /\ pointer' \in [Overlay -> Feature \cup {None}]
             /\ hovered' \in [Overlay -> Feature \cup {None}] /\ lit' \in [Overlay -> SUBSET Feature]
  BY <1>2 DEF PointerMovesUnheard
<1>3. ASSUME NEW o \in Overlay, NEW f \in Feature \cup {None}, PointerMoves(o, f)
      PROVE  /\ pointer' \in [Overlay -> Feature \cup {None}]
             /\ hovered' \in [Overlay -> Feature \cup {None}] /\ lit' \in [Overlay -> SUBSET Feature]
  <2>1. pointer' \in [Overlay -> Feature \cup {None}]
    BY <1>3 DEF PointerMoves
  <2>2. ASSUME NEW next \in Feature \cup {None}, setHover(o, next)
        PROVE  hovered' \in [Overlay -> Feature \cup {None}] /\ lit' \in [Overlay -> SUBSET Feature]
    BY <2>2 DEF setHover
  <2> QED BY <1>3, <2>1, <2>2 DEF PointerMoves, handleMouseMove, handleMouseLeave
<1> QED BY <1>1, <1>2, <1>3 DEF Points, PointsUnheard, page, given, component, library

LEMMA TypeNext == ASSUME TypeOK, [Next]_vars PROVE TypeOK'
<1> USE MapAssumption DEF TypeOK
<1>1. CASE PageAct
  <2>1. PropsInv
    BY DEF PropsInv
  <2>2. props' \in Props
    BY <1>1, <2>1, PageChanges
  <2>3. /\ changes < MaxChanges /\ changes' = changes + 1
        /\ UNCHANGED <<phase, failures, given, component, rendered, library, mouse>>
    BY <1>1 DEF PageAct, useResolvedTheme, SetProjection, Mount, Dismount, SetData, Show, Change
  <2>4. changes' \in 0..MaxChanges
    BY <2>3
  <2> QED BY <2>2, <2>3, <2>4 DEF given, component, library, mouse
<1>2. CASE styleDataHandler \/ loadHandler
  BY <1>2 DEF styleDataHandler, loadHandler, page, given, component, library, mouse
<1>3. CASE TimerFires
  BY <1>3 DEF TimerFires, page, given, library, mouse
<1>4. CASE \E r \in requests : StyleFails(r)
  <2>1. failures' \in 0..MaxFailures /\ requests' \subseteq requests
    BY <1>4 DEF StyleFails
  <2> QED BY <1>4, <2>1 DEF StyleFails, page, given, component, mouse
<1>5. CASE Arrives
  <2>1. PICK r \in requests : StyleArrives(r)
    BY <1>5 DEF Arrives
  <2>2. /\ style' \in Theme \cup {None} /\ requests' \subseteq requests
        /\ dirty' \in BOOLEAN /\ projection' \in Projection
        /\ source' \in [Overlay -> Data \cup {None}] /\ layers' \in [Overlay -> SUBSET Layer]
        /\ lit' \in [Overlay -> SUBSET Feature] /\ phase # "removed"
    BY <2>1 DEF StyleArrives
  <2> QED BY <2>1, <2>2 DEF StyleArrives, page, given, component
<1>6. CASE Unmount
  BY <1>6 DEF Unmount, given
<1>7. CASE UNCHANGED vars
  BY <1>7 DEF vars, page, given, component, library, mouse
<1> QED BY <1>1, <1>2, <1>3, <1>4, <1>5, <1>6, <1>7, CommitType, PointerType, Kinds DEF Quiet

(* Nothing is left to happen on a removed map.                              *)
THEOREM StyleTypeCorrect == Spec => []TypeOK
BY TypeInit, TypeNext, PTL DEF Spec

-----------------------------------------------------------------------------
(* The projection, while no timeout or styledata event is due that sets it. *)
ProjectionInv ==
    phase = "up" /\ isStyleLoaded /\ ~timer /\ ~dirty =>
        \/ initial = None \/ projection = initial
        \/ (rendered.styled /\ rendered.props.projection # initial)

LEMMA ProjectionNext == ASSUME ProjectionInv, [Next]_vars PROVE ProjectionInv'
<1> USE DEF ProjectionInv
<1>1. CASE PageAct
  BY <1>1 DEF PageAct, useResolvedTheme, SetProjection, Mount, Dismount, SetData, Show, Change,
              given, component, library
<1>2. CASE styleDataHandler \/ loadHandler \/ TimerFires
  BY <1>2 DEF styleDataHandler, loadHandler, TimerFires, page, given, library
<1>3. CASE \E r \in requests : StyleFails(r)
  BY <1>3 DEF StyleFails, page, given, component
<1>4. CASE Arrives
  <2>1. PICK r \in requests : StyleArrives(r)
    BY <1>4 DEF Arrives
  <2>2. /\ UNCHANGED <<phase, isStyleLoaded, timer, rendered, initial>> /\ projection' = Default
        /\ dirty' \/ (~dirty /\ projection = Default)
    BY <2>1 DEF StyleArrives, page, given, component
  <2> QED BY <2>2
<1>5. CASE Unmount
  BY <1>5 DEF Unmount, given
<1>6. CASE Points \/ PointsUnheard
  <2>1. UNCHANGED <<phase, initial, isStyleLoaded, timer, rendered, dirty, projection>>
    BY <1>6 DEF Points, PointsUnheard, PointerMoves, PointerMovesUnheard, page, given,
                component, library
  <2> QED BY <2>1
<1>7. CASE Commit
  <2>1. /\ initial' = initial /\ rendered'.props = props /\ rendered'.styled = isStyleLoaded
        /\ (dirty => dirty') /\ phase = "up"
        /\ isStyleLoaded' => isStyleLoaded /\ timer' = timer
        /\ projection' = IF isStyleLoaded /\ props.projection # None /\
                                (~rendered.styled \/
                                 props.projection # rendered.props.projection)
                         THEN props.projection ELSE projection
    BY <1>7 DEF Commit, given, Now
  <2> QED BY <2>1
<1>8. CASE UNCHANGED vars
  BY <1>8 DEF vars, page, given, component, library
<1> QED BY <1>1, <1>2, <1>3, <1>4, <1>5, <1>6, <1>7, <1>8, Kinds DEF Quiet

(* The projection Map was mounted with survives every change of style.      *)
THEOREM MountedProjectionIsKept == Spec => []ProjectionKept
<1>1. Init => ProjectionInv
  BY DEF Init, ProjectionInv
<1>2. ProjectionInv => ProjectionKept
  BY DEF ProjectionInv, ProjectionKept, AtRest, CommitPending, Now
<1> QED BY <1>1, <1>2, ProjectionNext, PTL DEF Spec

-----------------------------------------------------------------------------
(* No effect of map.tsx adds a source that is there already.                *)
THEOREM SourcesAreAddedOnce == Spec => []NeverAddsTwice
BY StyleInvHolds, PTL DEF StyleInv

(* The cleanups of an overlay take off all that its effects drew, whatever  *)
(* the page changed meanwhile.                                              *)
THEOREM CleanupsAreComplete == Spec => []NothingLeftBehind
<1>1. StyleInv => NothingLeftBehind
  BY DEF StyleInv, DrawnInv, NothingLeftBehind
<1> QED BY <1>1, StyleInvHolds, PTL

(* A drawn overlay shows the layers and the data last asked for.            *)
THEOREM OverlaysAreDrawnAsAsked == Spec => []DrawnAsAsked
<1>1. ASSUME StyleInv PROVE DrawnAsAsked
  <2> SUFFICES ASSUME phase = "up", ~CommitPending, NEW o \in Overlay, source[o] # None
               PROVE  /\ layers[o] = LayersOf(o, props)
                      /\ Synced(o, props) => source[o] = props.data[o]
    BY DEF DrawnAsAsked
  <2>1. rendered.props = props
    BY DEF CommitPending, Now
  <2> QED BY <1>1, <2>1 DEF StyleInv, DrawnInv
<1> QED BY <1>1, StyleInvHolds, PTL

(* Only the feature under the pointer is highlighted.                       *)
THEOREM HighlightIsUnderPointer == Spec => []HighlightFollowsPointer
<1>1. StyleInv => HighlightFollowsPointer
  BY DEF StyleInv, HoverInv, HighlightFollowsPointer
<1> QED BY <1>1, StyleInvHolds, PTL
=============================================================================

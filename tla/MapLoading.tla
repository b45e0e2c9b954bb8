----------------------------- MODULE MapLoading -----------------------------
(***************************************************************************)
(* readfile.js and the drawing it causes: a map is loaded by chains of     *)
(* promises, one for its buildings and one for its roads, that read the    *)
(* shape files piece by piece into global arrays.  The last links of a     *)
(* chain, which set the bounding box, draw and send, run without a break;  *)
(* before that, the user and the other chains may do anything.             *)
(*                                                                         *)
(* Features and roads are represented by the load they were read by.  Of   *)
(* what is drawn only the bounding box it was drawn in is kept.            *)
(***************************************************************************)
EXTENDS Page

CONSTANT
    MapSize    \* how many features a map has

ASSUME MapLoadingAssumption == MapSize \in Nat \ {0}

VARIABLES
    started,      \* how many loads have been started
    buildings,    \* the chain of each load that reads its buildings
    roadChain,    \* the chain of each load that reads its roads
    features,     \* the global array features: load and position
    roads,        \* the global array roads: loads, with one road each
    senario,      \* the bounding box of senario, whose features are the array; or None
    filesRead,    \* which of shpBuffer and dbfBuffer hold a file that the user has chosen
    drawnBuildings, drawnRoads,
                  \* what builidings and roadLines hold and the scene shows, or None
    strays,       \* the scene shows something that no array holds (any more)
    rays,         \* what the scene shows of pathLines
    gui,          \* the gui has more than the control for the plane
    overlapped,   \* history: something was begun or drawn during a load
    uncleared,    \* history: something that no later load clears away: files added to what
                  \* was there, what a failed load has read, lines of a dynamic answer
    roadsFirst    \* history: the roads shown were drawn before the buildings of their load

loadVars == <<started, buildings, roadChain>>
arrayVars == <<features, roads, senario, filesRead>>
sceneVars == <<drawnBuildings, drawnRoads, strays, rays, gui>>
mapHistory == <<overlapped, uncleared, roadsFirst>>
mapVars == <<loadVars, arrayVars, sceneVars, mapHistory>>

Features == Loads \X (1..MapSize)
FileParts == {"shp", "dbf"}
Phases == {"none", "reading", "read", "done", "failed"}
Scenes == [type : {"senario"}, bbox : Frames, features : SUBSET Features]

MapTypeOK ==
    /\ started \in 0..MaxLoads
    /\ buildings \in [Loads -> [phase : Phases, read : 0..MapSize]]
    /\ roadChain \in [Loads -> Phases]
    /\ features \subseteq Features
    /\ roads \subseteq Loads
    /\ senario \in Frames \union {None}
    /\ filesRead \subseteq FileParts
    /\ {drawnBuildings, drawnRoads} \subseteq Frames \union {None}
    /\ strays \in BOOLEAN
    /\ rays \subseteq Frames \union {None}
    /\ gui \in BOOLEAN
    /\ overlapped \in BOOLEAN /\ uncleared \in BOOLEAN /\ roadsFirst \in BOOLEAN

MapInit ==
    /\ started = 0
    /\ buildings = [l \in Loads |-> [phase |-> "none", read |-> 0]]
    /\ roadChain = [l \in Loads |-> "none"]
    /\ features = {}
    /\ roads = {}
    /\ senario = None
    /\ filesRead = {}
    /\ drawnBuildings = None
    /\ drawnRoads = None
    /\ strays = FALSE
    /\ rays = {}
    /\ gui = FALSE
    /\ overlapped = FALSE
    /\ uncleared = FALSE
    /\ roadsFirst = FALSE

Loading ==
    \E l \in Loads : buildings[l].phase = "reading" \/ roadChain[l] \in {"reading", "read"}

Reading == [phase |-> "reading", read |-> 0]

FrameOf(l, what) == [load |-> l, of |-> what]

-----------------------------------------------------------------------------
\* The onload handlers of the four file inputs, of which two and two share a buffer.
ChooseFile(part) ==
    /\ filesRead' = filesRead \union {part}
    /\ sent' = None
    /\ UNCHANGED <<socket, server, unsent, frame, loadVars, features, roads, senario,
                   sceneVars, mapHistory>>

\* Faulty variant: the meshes of the map before are not removed.
ClearSceneKeepsMeshes ==
    IF gui
    THEN /\ gui' = FALSE
         /\ senario' = None
         /\ features' = {}
         /\ roads' = {}
         /\ rays' = {}
         /\ UNCHANGED <<drawnBuildings, drawnRoads>>
    ELSE UNCHANGED <<gui, senario, features, roads, drawnBuildings, drawnRoads, rays>>

\* Faulty variant: the array of features is not emptied.
ClearSceneKeepsFeatures ==
    IF gui
    THEN /\ gui' = FALSE
         /\ senario' = None
         /\ roads' = {}
         /\ drawnBuildings' = None
         /\ drawnRoads' = None
         /\ rays' = {}
         /\ UNCHANGED features
    ELSE UNCHANGED <<gui, senario, features, roads, drawnBuildings, drawnRoads, rays>>

\* The first half of parseDefaultfile(): what is there is cleared, if anything
\* has been drawn.
ClearScene ==
    IF gui
    THEN /\ gui' = FALSE
         /\ senario' = None
         /\ features' = {}
         /\ roads' = {}
         /\ drawnBuildings' = None
         /\ drawnRoads' = None
         /\ rays' = {}
    ELSE UNCHANGED <<gui, senario, features, roads, drawnBuildings, drawnRoads, rays>>

ParseDefaultfile ==
    /\ started < MaxLoads
    /\ started' = started + 1
    /\ ClearScene
    /\ buildings' = [buildings EXCEPT ![started'] = Reading]
    /\ roadChain' = [roadChain EXCEPT ![started'] = "reading"]
    /\ overlapped' = (overlapped \/ Loading)
    /\ sent' = None
    /\ roadsFirst' = (roadsFirst /\ ~gui)
    /\ UNCHANGED <<socket, server, unsent, frame, filesRead, strays, uncleared>>

\* parseFile() without both files reads the map of the server.
ParseFile ==
    /\ started < MaxLoads
    /\ filesRead # FileParts
    /\ started' = started + 1
    /\ drawnBuildings' = None
    /\ buildings' = [buildings EXCEPT ![started'] = Reading]
    /\ overlapped' = (overlapped \/ Loading)
    /\ uncleared' = (uncleared \/ started > 0)
    /\ sent' = None
    /\ UNCHANGED <<socket, server, unsent, frame, roadChain, arrayVars, drawnRoads,
                   strays, rays, gui, roadsFirst>>

ReadFeature(l) ==
    /\ buildings[l].phase = "reading"
    /\ buildings[l].read < MapSize
    /\ buildings' = [buildings EXCEPT ![l].read = @ + 1]
    /\ features' = features \union {<<l, buildings[l].read + 1>>}
    /\ sent' = None
    /\ UNCHANGED <<socket, server, unsent, frame, started, roadChain, roads, senario,
                   filesRead, sceneVars, mapHistory>>

ReadRoad(l) ==
    /\ roadChain[l] = "reading"
    /\ roadChain' = [roadChain EXCEPT ![l] = "read"]
    /\ roads' = roads \union {l}
    /\ sent' = None
    /\ UNCHANGED <<socket, server, unsent, frame, started, buildings, features, senario,
                   filesRead, sceneVars, mapHistory>>

\* drawSenario(): the array is emptied and filled with the meshes of all features
\* that are there now.
DrawSenario(shown) ==
    /\ strays' = (strays \/ shown # None)
    /\ drawnBuildings' = IF features' = {} THEN None ELSE frame'

\* The last links of a chain that has read buildings: the scenario and its
\* bounding box are set, it is drawn (over what is shown) and sent.
Show(l, shown) ==
    /\ senario' = FrameOf(l, "buildings")
    /\ frame' = FrameOf(l, "buildings")
    /\ DrawSenario(shown)
    /\ gui' = TRUE
    /\ SendMessage([type |-> "senario", bbox |-> senario', features |-> features'])
    /\ server' = IF socket = "open" THEN senario' ELSE server
    /\ unsent' = (socket # "open")

FinishBuildings(l) ==
    /\ buildings[l] = [phase |-> "reading", read |-> MapSize]
    /\ buildings' = [buildings EXCEPT ![l].phase = "done"]
    /\ UNCHANGED features
    /\ Show(l, drawnBuildings)
    /\ UNCHANGED <<socket, started, roadChain, roads, filesRead, drawnRoads, rays,
                   mapHistory>>

\* parseFile() with the chosen files: nothing has to be waited for, so that the
\* whole chain runs at once.
ParseChosenFile ==
    /\ started < MaxLoads
    /\ filesRead = FileParts
    /\ started' = started + 1
    /\ buildings' = [buildings EXCEPT ![started'] = [phase |-> "done", read |-> MapSize]]
    /\ features' = features \union ({started'} \X (1..MapSize))
    /\ Show(started', None)
    /\ overlapped' = (overlapped \/ Loading)
    /\ uncleared' = (uncleared \/ started > 0)
    /\ UNCHANGED <<socket, roadChain, roads, filesRead, drawnRoads, rays, roadsFirst>>

\* Faulty variant: the bounding box of the roads is used even if there is one.
DrawRoadsInTheirFrame(l) ==
    /\ frame' = FrameOf(l, "roads")
    /\ strays' = (strays \/ drawnRoads # None)
    /\ drawnRoads' = IF roads' = {} THEN None ELSE frame'
    /\ gui' = TRUE
    /\ sent' = None

\* The last links of a chain that has read roads; drawRoad() draws all roads.
DrawRoads(l) ==
    /\ frame' = IF frame = None THEN FrameOf(l, "roads") ELSE frame
    /\ strays' = (strays \/ drawnRoads # None)
    /\ drawnRoads' = IF roads' = {} THEN None ELSE frame'
    /\ gui' = TRUE
    /\ sent' = None

FinishRoads(l) ==
    /\ roadChain[l] = "read"
    /\ roadChain' = [roadChain EXCEPT ![l] = "done"]
    /\ UNCHANGED roads
    /\ DrawRoads(l)
    /\ roadsFirst' = (roadsFirst \/ buildings[l].phase # "done")
    /\ UNCHANGED <<socket, server, unsent, started, buildings, features, senario, filesRead,
                   drawnBuildings, rays, overlapped, uncleared>>

\* parseRoadFile(), which has nothing to read before a shape file is chosen.
ParseRoadFile ==
    /\ started < MaxLoads
    /\ "shp" \in filesRead
    /\ started' = started + 1
    /\ roadChain' = [roadChain EXCEPT ![started'] = "done"]
    /\ roads' = roads \union {started'}
    /\ DrawRoads(started')
    /\ overlapped' = (overlapped \/ Loading)
    /\ uncleared' = (uncleared \/ started > 0)
    /\ UNCHANGED <<socket, server, unsent, buildings, features, senario, filesRead,
                   drawnBuildings, rays, roadsFirst>>

\* A file cannot be read to its end: the error is caught and logged, and what has
\* been read remains.
BuildingsFail(l) ==
    /\ buildings[l].phase = "reading"
    /\ buildings' = [buildings EXCEPT ![l].phase = "failed"]
    /\ uncleared' = TRUE
    /\ sent' = None
    /\ UNCHANGED <<socket, server, unsent, frame, started, roadChain, arrayVars, sceneVars,
                   overlapped, roadsFirst>>

RoadsFail(l) ==
    /\ roadChain[l] \in {"reading", "read"}
    /\ roadChain' = [roadChain EXCEPT ![l] = "failed"]
    /\ sent' = None
    /\ UNCHANGED <<socket, server, unsent, frame, started, buildings, arrayVars, sceneVars,
                   mapHistory>>

-----------------------------------------------------------------------------
\* switchMod(): the buildings are drawn anew, flat or with their heights; if there
\* is no scenario, drawSenario() throws when they have been removed.
SwitchMod ==
    /\ sent' = None
    /\ drawnBuildings' = IF senario = None \/ features = {} THEN None ELSE frame
    /\ overlapped' = (overlapped \/ Loading)
    /\ UNCHANGED <<socket, server, unsent, frame, loadVars, arrayVars, drawnRoads, strays,
                   rays, gui, uncleared, roadsFirst>>

\* An answer of the service arrives: drawPath().
Output ==
    /\ socket = "open"
    /\ rays' = rays \union {frame}
    /\ gui' = TRUE
    /\ overlapped' = (overlapped \/ Loading)
    /\ sent' = None
    /\ UNCHANGED <<socket, server, unsent, frame, loadVars, arrayVars, drawnBuildings,
                   drawnRoads, strays, uncleared, roadsFirst>>

\* A dynamic answer arrives: processDynamic() draws a line that no array holds.
ProcessDynamic ==
    /\ socket = "open"
    /\ strays' = TRUE
    /\ uncleared' = TRUE
    /\ sent' = None
    /\ UNCHANGED <<socket, server, unsent, frame, loadVars, arrayVars, drawnBuildings,
                   drawnRoads, rays, gui, overlapped, roadsFirst>>

\* reset(): of the map, only the rays go.
Reset ==
    /\ rays' = {}
    /\ sent' = None
    /\ UNCHANGED <<socket, server, unsent, frame, loadVars, arrayVars, drawnBuildings,
                   drawnRoads, strays, gui, mapHistory>>

MapNext ==
    \/ \E part \in FileParts : ChooseFile(part)
    \/ ParseDefaultfile \/ ParseFile \/ ParseChosenFile \/ ParseRoadFile
    \/ \E l \in Loads :
          \/ ReadFeature(l) \/ FinishBuildings(l) \/ BuildingsFail(l)
          \/ ReadRoad(l) \/ FinishRoads(l) \/ RoadsFail(l)
    \/ SwitchMod \/ Output \/ ProcessDynamic \/ Reset

=============================================================================

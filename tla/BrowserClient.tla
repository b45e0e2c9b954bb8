--------------------------- MODULE BrowserClient ---------------------------
(***************************************************************************)
(* The browser client: a page that loads maps and places vehicles on them, *)
(* and tells the service about both.  All of it runs in one thread, in     *)
(* event handlers and promises that share global variables; above all the  *)
(* bounding box, which a load of a map may change between the two clicks   *)
(* that place a vehicle.                                                   *)
(***************************************************************************)
EXTENDS MapLoading, VehiclePlacing

CONSTANT
    MaxLoadsPlacing    \* bound of the model: how many maps are loaded before or while a
                       \* vehicle is placed

vars == <<pageVars, mapVars, placingVars>>

Messages == Scenes \union Vehicles

ASSUME BrowserClientAssumption == None \notin Messages

Init == PageInit /\ MapInit /\ PlacingInit

MapStep ==
    /\ MapNext
    /\ reframed' = (reframed \/ (vehicleDTO # NoPlaces /\ frame' # frame))
    /\ listening => started' <= MaxLoadsPlacing
    /\ UNCHANGED <<listening, vehicleType, count, vehicleDTO, cursor, lostCursors, switched>>

PlacingStep ==
    /\ PlacingNext
    /\ started <= MaxLoadsPlacing
    /\ UNCHANGED mapVars

SocketStep == (SocketOpens \/ SocketCloses) /\ UNCHANGED <<mapVars, placingVars>>

Next == MapStep \/ PlacingStep \/ SocketStep

Spec == Init /\ [][Next]_vars

-----------------------------------------------------------------------------
TypeOK ==
    /\ socket \in {"connecting", "open", "closed"}
    /\ sent \in Messages \union {None}
    /\ server \in Frames \union {None}
    /\ unsent \in BOOLEAN
    /\ frame \in Frames \union {None}
    /\ MapTypeOK
    /\ PlacingTypeOK

\* The page computes coordinates with the bounding box of the scenario that the
\* service has, although the chains that read roads set it as well.
FrameOfServer == server # None /\ ~unsent => frame = server

\* The coordinates collected for a vehicle are of the bounding box in use, unless
\* that has changed since; nothing is left of the vehicle before.  The mesh that
\* follows the mouse is shown only while a click can remove it, and no longer than
\* to the first one.
PlacesOfClicks ==
    /\ ~listening => count = 0 /\ vehicleType = "none" /\ vehicleDTO = NoPlaces
    /\ listening => vehicleType \in VehicleTypes
    /\ ~switched /\ count = 0 => vehicleDTO = NoPlaces
    /\ count > 0 => "location1" \in DOMAIN vehicleDTO
    /\ ~switched /\ count > 0 => ("bbox" \in DOMAIN vehicleDTO <=> vehicleType = "other")
    /\ ~reframed => \A p \in DOMAIN vehicleDTO : vehicleDTO[p] = frame
    /\ cursor => listening /\ (count = 0 \/ switched)

LastLoading == started > 0 /\ buildings[started].phase = "reading"

\* What a load finds and leaves, as long as nothing is begun or drawn during it and
\* nothing was left that a load does not clear away.
LoadInv ==
    /\ ~strays
    /\ \A l \in Loads : l < started =>
          buildings[l].phase # "reading" /\ roadChain[l] \notin {"reading", "read"}
    /\ started > 0 => features = {started} \X (1..buildings[started].read)
    /\ ~gui => /\ drawnBuildings = None /\ drawnRoads = None /\ rays = {}
               /\ LastLoading \/ features = {}
    /\ senario # None => gui
    /\ LastLoading => drawnBuildings = None /\ rays \subseteq {None}
    /\ LastLoading /\ ~roadsFirst => drawnRoads = None
    /\ started > 0 /\ roadChain[started] \in {"reading", "read"} => drawnRoads = None
    /\ {drawnBuildings} \union rays \subseteq {frame, None}
    /\ ~roadsFirst => drawnRoads \in {frame, None}

\* Nothing is there of a load that has not been started.
Unloaded ==
    /\ \A l \in Loads : l > started =>
          buildings[l] = [phase |-> "none", read |-> 0] /\ roadChain[l] = "none"
    /\ started = 0 => /\ features = {} /\ drawnBuildings = None /\ drawnRoads = None
                      /\ rays \subseteq {None} /\ frame = None

\* The invariant the proofs rest on.
IndInv ==
    /\ TypeOK
    /\ FrameOfServer
    /\ senario # None => frame = senario
    /\ PlacesOfClicks
    /\ Unloaded
    /\ ~overlapped /\ ~uncleared => LoadInv

\* As long as nothing is begun during a load, and nothing was done that the page
\* cannot clear away, the scene shows no building, road or ray that no array holds,
\* so that the next load removes them all, and the buildings and rays it shows were
\* drawn in one bounding box; so were the roads, unless they were read before the
\* buildings of their map.  (What the placing of vehicles adds is not meant: of two
\* that are chosen without a click the mesh of the first one stays in the scene.)
SceneTracked ==
    ~overlapped /\ ~uncleared =>
        /\ ~strays
        /\ {drawnBuildings} \union rays \subseteq {frame, None}
        /\ ~roadsFirst => drawnRoads \in {frame, None}

\* Then a scenario that is sent has the features of the map it names, all of them
\* and no others, though features of all loads go through the same array.
OwnFeatures ==
    [][sent' \in Scenes /\ ~overlapped' /\ ~uncleared' =>
          sent'.features = {sent'.bbox.load} \X (1..MapSize)]_vars

\* A vehicle that is sent has both places, and its ground if it is an obstacle, in
\* the bounding box of the scenario that the service has; unless another one was
\* chosen, or a map was loaded, between the clicks, or the scenario was not sent.
VehicleOnServersMap ==
    [][sent' \in Vehicles =>
          LET places == sent'.places IN
          /\ ~switched =>
                DOMAIN places = {"location1", "location2"}
                                    \union (IF sent'.vehicleType = "other" THEN {"bbox"} ELSE {})
          /\ ~reframed /\ server # None /\ ~unsent =>
                \A p \in DOMAIN places : places[p] = server]_vars

=============================================================================

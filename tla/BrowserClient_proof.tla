------------------------- MODULE BrowserClient_proof -------------------------
(***************************************************************************)
(* For any number of maps, of features and of loads at a time: what the    *)
(* page shows and sends is what it has read, in one bounding box, under    *)
(* the conditions the properties of BrowserClient name.                    *)
(***************************************************************************)
EXTENDS BrowserClient, TLAPS

Shape == TypeOK /\ FrameOfServer /\ (senario # None => frame = senario) /\ Unloaded

LEMMA FrameOfType ==
    ASSUME NEW l \in Loads
    PROVE  /\ FrameOf(l, "buildings") \in Frames /\ FrameOf(l, "roads") \in Frames
           /\ FrameOf(l, "buildings").load = l
           /\ FrameOf(l, "buildings") # None /\ FrameOf(l, "roads") # None
BY PageAssumption DEF FrameOf, Frames

LEMMA StartedType ==
    ASSUME started \in 0..MaxLoads, started < MaxLoads
    PROVE  /\ started + 1 \in Loads /\ started + 1 \in 0..MaxLoads /\ started \in Nat
           /\ \A l \in Loads : l > started + 1 => l > started
           /\ started + 1 # 0
BY PageAssumption DEF Loads

LEMMA PlacingInitType == PlacingInit => PlacingTypeOK
<1> SUFFICES ASSUME PlacingInit PROVE PlacingTypeOK
  OBVIOUS
<1>1. NoPlaces \in PlacesOf({})
  BY DEF PlacesOf, NoPlaces
<1>2. \E fields \in SUBSET Places : vehicleDTO \in PlacesOf(fields)
  BY <1>1 DEF PlacingInit
<1>3. /\ listening \in BOOLEAN /\ switched \in BOOLEAN /\ reframed \in BOOLEAN
      /\ cursor \in BOOLEAN /\ lostCursors \in BOOLEAN
  BY DEF PlacingInit
<1>4. count \in 0..2 /\ vehicleType \in VehicleTypes \union {"none"}
  BY DEF PlacingInit
<1> QED BY <1>2, <1>3, <1>4 DEF PlacingTypeOK

LEMMA InitInv == Init => IndInv
<1> SUFFICES ASSUME Init PROVE IndInv
  OBVIOUS
<1> USE DEF Init, PageInit, MapInit, PlacingInit
<1>1. MapTypeOK
  <2>1. /\ 0 \in 0..MapSize /\ 0 \in 0..MaxLoads /\ "none" \in Phases
        /\ {None, None} \subseteq Frames \union {None}
    BY PageAssumption, MapLoadingAssumption DEF Phases
  <2>2. buildings \in [Loads -> [phase : Phases, read : 0..MapSize]]
    BY <2>1
  <2>3. roadChain \in [Loads -> Phases]
    BY <2>1
  <2> QED BY <2>1, <2>2, <2>3 DEF MapTypeOK
<1>2. PlacingTypeOK
  BY PlacingInitType
<1>3. TypeOK
  BY <1>1, <1>2 DEF TypeOK
<1>4. Unloaded
  BY DEF Unloaded
<1>5. LoadInv
  BY PageAssumption DEF LoadInv, Loads, LastLoading
<1> QED BY <1>3, <1>4, <1>5 DEF IndInv, FrameOfServer, PlacesOfClicks, NoPlaces

-----------------------------------------------------------------------------
LEMMA PlacingTypeStays ==
    ASSUME TypeOK, reframed' \in BOOLEAN,
           UNCHANGED <<listening, vehicleType, count, vehicleDTO, cursor, lostCursors, switched>>
    PROVE  PlacingTypeOK'
BY DEF TypeOK, PlacingTypeOK

\* The steps of the map keep types, the agreement about the bounding box, and that
\* nothing is there before it is loaded.

LEMMA ParseDefaultfileShape ==
    ASSUME Shape, ParseDefaultfile, PlacingTypeOK'
    PROVE  Shape'
<1> USE DEF Shape
<1>1. /\ started' = started + 1 /\ started' \in Loads /\ started' \in 0..MaxLoads
      /\ started \in Nat
      /\ \A l \in Loads : l > started' => l > started
      /\ started' # 0
  BY StartedType DEF ParseDefaultfile, TypeOK, MapTypeOK
<1>2. MapTypeOK'
  <2> USE DEF ParseDefaultfile, TypeOK, MapTypeOK
  <2>1. buildings' \in [Loads -> [phase : Phases, read : 0..MapSize]]
    BY <1>1, MapLoadingAssumption DEF Reading, Phases
  <2>2. roadChain' \in [Loads -> Phases]
    BY <1>1 DEF Phases
  <2>3. /\ features' \subseteq Features /\ roads' \subseteq Loads
        /\ senario' \in Frames \union {None}
        /\ {drawnBuildings', drawnRoads'} \subseteq Frames \union {None}
        /\ rays' \subseteq Frames \union {None} /\ gui' \in BOOLEAN
    BY DEF ClearScene
  <2>4. roadsFirst' \in BOOLEAN /\ overlapped' \in BOOLEAN
    OBVIOUS
  <2> QED BY <1>1, <2>1, <2>2, <2>3, <2>4
<1>5. TypeOK'
  BY <1>2 DEF ParseDefaultfile, TypeOK
<1>3. (senario # None => frame = senario)' /\ FrameOfServer'
  BY DEF ParseDefaultfile, ClearScene, FrameOfServer
<1>4. Unloaded'
  BY <1>1 DEF ParseDefaultfile, Unloaded, TypeOK, MapTypeOK, Loads
<1> QED BY <1>3, <1>4, <1>5

LEMMA ParseFileShape ==
    ASSUME Shape, ParseFile, PlacingTypeOK'
    PROVE  Shape'
<1> USE DEF Shape
<1>1. /\ started' = started + 1 /\ started' \in Loads /\ started' \in 0..MaxLoads
      /\ started \in Nat
      /\ \A l \in Loads : l > started' => l > started
      /\ started' # 0
  BY StartedType DEF ParseFile, TypeOK, MapTypeOK
<1>2. MapTypeOK'
  <2> USE DEF ParseFile, TypeOK, MapTypeOK
  <2>1. buildings' \in [Loads -> [phase : Phases, read : 0..MapSize]]
    BY <1>1, MapLoadingAssumption DEF Reading, Phases
  <2>2. UNCHANGED <<roadChain, features, roads, senario, filesRead, drawnRoads, strays, rays, gui>>
    BY DEF arrayVars
  <2> QED BY <1>1, <2>1, <2>2
<1>3. TypeOK'
  BY <1>2 DEF ParseFile, TypeOK
<1>4. (senario # None => frame = senario)' /\ FrameOfServer'
  BY DEF ParseFile, FrameOfServer, arrayVars
<1>5. Unloaded'
  BY <1>1 DEF ParseFile, Unloaded, TypeOK, MapTypeOK, Loads, arrayVars
<1> QED BY <1>3, <1>4, <1>5

\* Showing the buildings of a load, whose features are in the array.
LEMMA ShowShape ==
    ASSUME TypeOK, NEW l \in Loads, NEW shown, Show(l, shown), features' \subseteq Features,
           UNCHANGED socket
    PROVE  /\ sent' \in Messages \union {None}
           /\ server' \in Frames \union {None} /\ unsent' \in BOOLEAN
           /\ frame' \in Frames /\ frame' = senario' /\ FrameOfServer'
           /\ drawnBuildings' \in Frames \union {None}
           /\ strays' \in BOOLEAN /\ gui' = TRUE
<1>1. senario' = FrameOf(l, "buildings") /\ senario' \in Frames /\ frame' = senario'
  BY FrameOfType DEF Show
<1>2. [type |-> "senario", bbox |-> senario', features |-> features'] \in Messages
  BY <1>1 DEF Messages, Scenes
<1>3. sent' \in Messages \union {None}
  BY <1>2 DEF Show, SendMessage
<1>4. FrameOfServer' /\ server' \in Frames \union {None} /\ unsent' \in BOOLEAN
  BY <1>1 DEF Show, FrameOfServer, TypeOK
<1>5. drawnBuildings' \in Frames \union {None} /\ strays' \in BOOLEAN /\ gui' = TRUE
  BY <1>1 DEF Show, DrawSenario
<1> QED BY <1>1, <1>3, <1>4, <1>5

LEMMA FinishBuildingsShape ==
    ASSUME Shape, NEW l \in Loads, FinishBuildings(l), PlacingTypeOK'
    PROVE  Shape'
<1> USE DEF Shape
<1>1. /\ sent' \in Messages \union {None}
      /\ server' \in Frames \union {None} /\ unsent' \in BOOLEAN
      /\ frame' \in Frames /\ frame' = senario' /\ FrameOfServer'
      /\ drawnBuildings' \in Frames \union {None}
      /\ strays' \in BOOLEAN /\ gui' = TRUE
  BY ShowShape DEF FinishBuildings, TypeOK, MapTypeOK
<1>2. buildings' \in [Loads -> [phase : Phases, read : 0..MapSize]]
  BY DEF FinishBuildings, TypeOK, MapTypeOK, Phases
<1>3. TypeOK'
  BY <1>1, <1>2 DEF FinishBuildings, TypeOK, MapTypeOK, mapHistory
<1>4. started # 0 /\ ~(l > started)
  <2>1. ~(l > started)
    BY DEF FinishBuildings, Unloaded
  <2> QED BY <2>1 DEF Loads, TypeOK, MapTypeOK
<1>5. Unloaded'
  BY <1>4 DEF FinishBuildings, Unloaded, TypeOK, MapTypeOK
<1> QED BY <1>1, <1>3, <1>5

LEMMA ParseChosenFileShape ==
    ASSUME Shape, ParseChosenFile, PlacingTypeOK'
    PROVE  Shape'
<1> USE DEF Shape
<1>0. /\ started' = started + 1 /\ started' \in Loads /\ started' \in 0..MaxLoads
      /\ started \in Nat
      /\ \A l \in Loads : l > started' => l > started
      /\ started' # 0
  BY StartedType DEF ParseChosenFile, TypeOK, MapTypeOK
<1>f. features' \subseteq Features
  BY <1>0 DEF ParseChosenFile, TypeOK, MapTypeOK, Features
<1>1. /\ sent' \in Messages \union {None}
      /\ server' \in Frames \union {None} /\ unsent' \in BOOLEAN
      /\ frame' \in Frames /\ frame' = senario' /\ FrameOfServer'
      /\ drawnBuildings' \in Frames \union {None}
      /\ strays' \in BOOLEAN /\ gui' = TRUE
  BY <1>0, <1>f, ShowShape DEF ParseChosenFile
<1>2. buildings' \in [Loads -> [phase : Phases, read : 0..MapSize]]
  BY <1>0, MapLoadingAssumption DEF ParseChosenFile, TypeOK, MapTypeOK, Phases
<1>3. TypeOK'
  BY <1>0, <1>1, <1>2, <1>f DEF ParseChosenFile, TypeOK, MapTypeOK
<1>5. Unloaded'
  BY <1>0 DEF ParseChosenFile, Unloaded, TypeOK, MapTypeOK, Loads
<1> QED BY <1>1, <1>3, <1>5

LEMMA DrawRoadsShape ==
    ASSUME Shape, NEW l \in Loads, DrawRoads(l), UNCHANGED <<server, unsent, senario>>
    PROVE  /\ frame' \in Frames /\ FrameOfServer' /\ (senario # None => frame = senario)'
           /\ drawnRoads' \in Frames \union {None} /\ strays' \in BOOLEAN /\ gui' = TRUE
           /\ sent' = None
<1>1. frame' \in Frames /\ (frame # None => frame' = frame)
  BY FrameOfType DEF DrawRoads, Shape, TypeOK
<1>2. server \in Frames \union {None}
  BY DEF Shape, TypeOK
<1>3. FrameOfServer' /\ (senario # None => frame = senario)'
  BY <1>1 DEF Shape, FrameOfServer
<1> QED BY <1>1, <1>3 DEF DrawRoads, Shape, TypeOK, MapTypeOK

LEMMA FinishRoadsShape ==
    ASSUME Shape, NEW l \in Loads, FinishRoads(l), PlacingTypeOK'
    PROVE  Shape'
<1> USE DEF Shape
<1>1. /\ frame' \in Frames /\ FrameOfServer' /\ (senario # None => frame = senario)'
      /\ drawnRoads' \in Frames \union {None} /\ strays' \in BOOLEAN /\ gui' = TRUE
      /\ sent' = None
  BY DrawRoadsShape DEF FinishRoads
<1>2. roadChain' \in [Loads -> Phases]
  BY DEF FinishRoads, TypeOK, MapTypeOK, Phases
<1>3. TypeOK'
  BY <1>1, <1>2 DEF FinishRoads, TypeOK, MapTypeOK
<1>4. started # 0 /\ ~(l > started)
  <2>1. ~(l > started)
    BY DEF FinishRoads, Unloaded
  <2> QED BY <2>1 DEF Loads, TypeOK, MapTypeOK
<1>5. Unloaded'
  BY <1>4 DEF FinishRoads, Unloaded, TypeOK, MapTypeOK
<1> QED BY <1>1, <1>3, <1>5

LEMMA ParseRoadFileShape ==
    ASSUME Shape, ParseRoadFile, PlacingTypeOK'
    PROVE  Shape'
<1> USE DEF Shape
<1>0. /\ started' = started + 1 /\ started' \in Loads /\ started' \in 0..MaxLoads
      /\ started \in Nat
      /\ \A l \in Loads : l > started' => l > started
      /\ started' # 0
  BY StartedType DEF ParseRoadFile, TypeOK, MapTypeOK
<1>1. /\ frame' \in Frames /\ FrameOfServer' /\ (senario # None => frame = senario)'
      /\ drawnRoads' \in Frames \union {None} /\ strays' \in BOOLEAN /\ gui' = TRUE
      /\ sent' = None
  BY <1>0, DrawRoadsShape DEF ParseRoadFile
<1>2. roadChain' \in [Loads -> Phases] /\ roads' \subseteq Loads
  BY <1>0 DEF ParseRoadFile, TypeOK, MapTypeOK, Phases
<1>3. TypeOK'
  BY <1>0, <1>1, <1>2 DEF ParseRoadFile, TypeOK, MapTypeOK
<1>5. Unloaded'
  BY <1>0 DEF ParseRoadFile, Unloaded, TypeOK, MapTypeOK, Loads
<1> QED BY <1>1, <1>3, <1>5

LEMMA ReadFeatureShape ==
    ASSUME Shape, NEW l \in Loads, ReadFeature(l), PlacingTypeOK'
    PROVE  Shape'
<1> USE DEF Shape, ReadFeature
<1>1. buildings[l] \in [phase : Phases, read : 0..MapSize] /\ buildings[l].read + 1 \in 1..MapSize
  BY MapLoadingAssumption DEF TypeOK, MapTypeOK
<1>2. buildings' \in [Loads -> [phase : Phases, read : 0..MapSize]]
  BY <1>1 DEF TypeOK, MapTypeOK
<1>3. features' \subseteq Features
  BY <1>1 DEF TypeOK, MapTypeOK, Features
<1>4. TypeOK'
  BY <1>2, <1>3 DEF TypeOK, MapTypeOK, sceneVars, mapHistory
<1>5. started # 0 /\ ~(l > started)
  <2>1. ~(l > started)
    BY DEF Unloaded
  <2> QED BY <2>1 DEF Loads, TypeOK, MapTypeOK
<1>6. Unloaded'
  BY <1>5 DEF Unloaded, TypeOK, MapTypeOK
<1>7. FrameOfServer' /\ (senario # None => frame = senario)'
  BY DEF FrameOfServer
<1> QED BY <1>4, <1>6, <1>7

LEMMA ChainShape ==
    ASSUME Shape, NEW l \in Loads, BuildingsFail(l) \/ ReadRoad(l) \/ RoadsFail(l),
           PlacingTypeOK'
    PROVE  Shape'
<1> USE DEF Shape, BuildingsFail, ReadRoad, RoadsFail, arrayVars, sceneVars, mapHistory
<1>1. buildings' \in [Loads -> [phase : Phases, read : 0..MapSize]]
  BY DEF TypeOK, MapTypeOK, Phases
<1>2. roadChain' \in [Loads -> Phases] /\ roads' \subseteq Loads
  BY DEF TypeOK, MapTypeOK, Phases
<1>3. TypeOK'
  BY <1>1, <1>2 DEF TypeOK, MapTypeOK
<1>4. started # 0 /\ ~(l > started)
  <2>1. ~(l > started)
    BY DEF Unloaded
  <2> QED BY <2>1 DEF Loads, TypeOK, MapTypeOK
<1>5. Unloaded'
  BY <1>4 DEF Unloaded, TypeOK, MapTypeOK
<1>6. FrameOfServer' /\ (senario # None => frame = senario)'
  BY DEF FrameOfServer
<1> QED BY <1>3, <1>5, <1>6

SceneStep ==
    \/ \E part \in FileParts : ChooseFile(part)
    \/ SwitchMod \/ Output \/ ProcessDynamic \/ Reset

LEMMA SceneShape ==
    ASSUME Shape, SceneStep, PlacingTypeOK'
    PROVE  Shape'
<1> USE DEF Shape, SceneStep, ChooseFile, SwitchMod, Output, ProcessDynamic, Reset, loadVars,
            arrayVars, sceneVars, mapHistory
<1>1. /\ {drawnBuildings', drawnRoads'} \subseteq Frames \union {None}
      /\ rays' \subseteq Frames \union {None}
      /\ sent' = None
      /\ UNCHANGED <<socket, server, unsent, frame, started, buildings, roadChain, features,
                     roads, senario>>
  BY DEF TypeOK, MapTypeOK
<1>2. /\ strays' \in BOOLEAN /\ gui' \in BOOLEAN /\ filesRead' \subseteq FileParts
      /\ overlapped' \in BOOLEAN /\ uncleared' \in BOOLEAN /\ roadsFirst' \in BOOLEAN
  BY DEF TypeOK, MapTypeOK
<1>3. TypeOK'
  BY <1>1, <1>2 DEF TypeOK, MapTypeOK
<1>4. Unloaded'
  BY <1>1 DEF Unloaded
<1>5. FrameOfServer' /\ (senario # None => frame = senario)'
  BY <1>1 DEF FrameOfServer
<1> QED BY <1>3, <1>4, <1>5

-----------------------------------------------------------------------------
\* The steps of the map keep LoadInv, as long as nothing happens that spoils it.

Alone == ~overlapped /\ ~uncleared

LEMMA LoadsTyped ==
    ASSUME Shape
    PROVE  /\ started \in Nat
           /\ started > 0 => started \in Loads
           /\ \A l \in Loads : l \in Nat /\ l > 0
           /\ \A l \in Loads : buildings[l].read \in 0..MapSize
           /\ buildings \in [Loads -> [phase : Phases, read : 0..MapSize]]
           /\ roadChain \in [Loads -> Phases]
BY PageAssumption DEF Shape, TypeOK, MapTypeOK, Loads

\* Only the last load can be under way.
LEMMA OnlyLast ==
    ASSUME Shape, LoadInv, NEW l \in Loads,
           buildings[l].phase = "reading" \/ roadChain[l] \in {"reading", "read"}
    PROVE  l = started /\ started > 0
<1>1. ~(l < started)
  BY DEF LoadInv
<1>2. ~(l > started)
  <2>1. l > started => buildings[l].phase = "none" /\ roadChain[l] = "none"
    BY DEF Shape, Unloaded
  <2> QED BY <2>1
<1> QED BY <1>1, <1>2, LoadsTyped

LEMMA NoFeatures ==
    ASSUME NEW l PROVE {l} \X (1..0) = {}
OBVIOUS

LEMMA ParseDefaultfileLoads ==
    ASSUME Shape, Alone => LoadInv, ParseDefaultfile, Alone'
    PROVE  LoadInv'
<1>1. Alone /\ LoadInv /\ ~Loading
  BY DEF Alone, ParseDefaultfile
<1>2. /\ started' = started + 1 /\ started' \in Loads /\ started \in Nat
      /\ started > 0 => started \in Loads
      /\ \A l \in Loads : l \in Nat
  BY StartedType, LoadsTyped DEF ParseDefaultfile, Shape, TypeOK, MapTypeOK
<1>3. /\ buildings'[started'] = [phase |-> "reading", read |-> 0]
      /\ roadChain'[started'] = "reading"
      /\ \A l \in Loads : l # started' =>
            buildings'[l] = buildings[l] /\ roadChain'[l] = roadChain[l]
  BY <1>2, LoadsTyped DEF ParseDefaultfile, Reading
<1>4. ~LastLoading
  BY <1>1, <1>2 DEF Loading, LastLoading
<1>5. /\ features' = {} /\ drawnBuildings' = None /\ drawnRoads' = None /\ rays' = {}
      /\ senario' = None /\ gui' = FALSE
  BY <1>1, <1>4 DEF ParseDefaultfile, ClearScene, LoadInv, Shape, TypeOK, MapTypeOK
<1>6. \A l \in Loads : l < started' =>
         buildings'[l].phase # "reading" /\ roadChain'[l] \notin {"reading", "read"}
  BY <1>1, <1>2, <1>3 DEF Loading
<1>7. LastLoading' /\ started' > 0
  BY <1>2, <1>3 DEF LastLoading
<1>8. features' = {started'} \X (1..buildings'[started'].read)
  BY <1>3, <1>5, NoFeatures
<1> QED BY <1>1, <1>5, <1>6, <1>7, <1>8 DEF ParseDefaultfile, LoadInv

\* Without the clearing only the first load is spoilt by nothing.
LEMMA ParseFileLoads ==
    ASSUME Shape, Alone => LoadInv, ParseFile, Alone'
    PROVE  LoadInv'
<1>1. Alone /\ LoadInv /\ started = 0
  <2>1. ~overlapped /\ ~uncleared /\ ~(started > 0)
    BY DEF Alone, ParseFile
  <2> QED BY <2>1, LoadsTyped DEF Alone
<1>2. /\ started' = 1 /\ 1 \in Loads /\ \A l \in Loads : l \in Nat /\ ~(l < 1)
  BY <1>1, StartedType, LoadsTyped DEF ParseFile, Shape, TypeOK, MapTypeOK
<1>3. buildings'[1] = [phase |-> "reading", read |-> 0] /\ roadChain'[1] = "none"
  BY <1>1, <1>2, LoadsTyped DEF ParseFile, Reading, Shape, Unloaded
<1>4. /\ features' = {} /\ drawnBuildings' = None /\ drawnRoads' = None
      /\ rays' \subseteq {None} /\ UNCHANGED <<rays, gui, strays, senario>>
  BY <1>1 DEF ParseFile, Shape, Unloaded, arrayVars
<1>5. features' = {started'} \X (1..buildings'[started'].read)
  BY <1>2, <1>3, <1>4, NoFeatures
<1> QED BY <1>1, <1>2, <1>3, <1>4, <1>5 DEF LoadInv, LastLoading

LEMMA ParseRoadFileLoads ==
    ASSUME Shape, Alone => LoadInv, ParseRoadFile, Alone'
    PROVE  LoadInv'
<1>1. Alone /\ LoadInv /\ started = 0
  <2>1. ~overlapped /\ ~uncleared /\ ~(started > 0)
    BY DEF Alone, ParseRoadFile
  <2> QED BY <2>1, LoadsTyped DEF Alone
<1>2. /\ started' = 1 /\ 1 \in Loads /\ \A l \in Loads : l \in Nat /\ ~(l < 1)
  BY <1>1, StartedType, LoadsTyped DEF ParseRoadFile, Shape, TypeOK, MapTypeOK
<1>3. buildings'[1] = [phase |-> "none", read |-> 0] /\ roadChain'[1] = "done"
  BY <1>1, <1>2, LoadsTyped DEF ParseRoadFile, Shape, Unloaded
<1>4. /\ features' = {} /\ drawnBuildings' = None /\ drawnRoads' \in {frame', None}
      /\ rays' \subseteq {None} /\ gui' = TRUE /\ strays' = strays
  BY <1>1, LoadsTyped DEF ParseRoadFile, DrawRoads, Shape, Unloaded, TypeOK, MapTypeOK
<1>5. features' = {started'} \X (1..buildings'[started'].read)
  BY <1>2, <1>3, <1>4, NoFeatures
<1> QED BY <1>1, <1>2, <1>3, <1>4, <1>5 DEF LoadInv, LastLoading

LEMMA ParseChosenFileLoads ==
    ASSUME Shape, Alone => LoadInv, ParseChosenFile, Alone'
    PROVE  LoadInv' /\ features' = {started'} \X (1..MapSize)
<1>1. Alone /\ LoadInv /\ started = 0
  <2>1. ~overlapped /\ ~uncleared /\ ~(started > 0)
    BY DEF Alone, ParseChosenFile
  <2> QED BY <2>1, LoadsTyped DEF Alone
<1>2. /\ started' = 1 /\ 1 \in Loads /\ \A l \in Loads : l \in Nat /\ ~(l < 1)
  BY <1>1, StartedType, LoadsTyped DEF ParseChosenFile, Shape, TypeOK, MapTypeOK
<1>3. buildings'[1] = [phase |-> "done", read |-> MapSize] /\ roadChain'[1] = "none"
  BY <1>1, <1>2, LoadsTyped DEF ParseChosenFile, Shape, Unloaded
<1>4. /\ drawnBuildings' \in {frame', None} /\ drawnRoads' = None
      /\ rays' \subseteq {None} /\ gui' = TRUE /\ strays' = strays
  BY <1>1 DEF ParseChosenFile, Show, DrawSenario, Shape, Unloaded, TypeOK, MapTypeOK
<1>5. features' = {started'} \X (1..MapSize)
  BY <1>1, <1>2 DEF ParseChosenFile, Shape, Unloaded
<1> QED BY <1>1, <1>2, <1>3, <1>4, <1>5 DEF LoadInv, LastLoading

LEMMA ReadFeatureLoads ==
    ASSUME Shape, Alone => LoadInv, NEW l \in Loads, ReadFeature(l), Alone'
    PROVE  LoadInv'
<1>1. Alone /\ LoadInv
  BY DEF Alone, ReadFeature, mapHistory
<1>2. l = started /\ started > 0
  BY <1>1, OnlyLast DEF ReadFeature
<1> DEFINE n == buildings[l].read
<1>3. /\ n \in Nat
      /\ buildings'[l].read = n + 1 /\ buildings'[l].phase = "reading"
      /\ \A k \in Loads : k # l => buildings'[k] = buildings[k]
  BY LoadsTyped, MapLoadingAssumption DEF ReadFeature
<1>4. features' = {l} \X (1..(n + 1))
  <2>1. features = {l} \X (1..n) /\ features' = features \union {<<l, n + 1>>}
    BY <1>1, <1>2 DEF LoadInv, ReadFeature
  <2>2. 1..(n + 1) = (1..n) \union {n + 1}
    BY <1>3
  <2> QED BY <2>1, <2>2
<1> HIDE DEF n
<1>5. LastLoading /\ LastLoading'
  BY <1>2, <1>3 DEF LastLoading, ReadFeature
<1>6. \A k \in Loads : k < started' =>
         buildings'[k].phase # "reading" /\ roadChain'[k] \notin {"reading", "read"}
  BY <1>1, <1>2, <1>3, LoadsTyped DEF LoadInv, ReadFeature
<1> QED BY <1>1, <1>2, <1>3, <1>4, <1>5, <1>6 DEF LoadInv, ReadFeature, sceneVars, mapHistory

LEMMA FinishBuildingsLoads ==
    ASSUME Shape, Alone => LoadInv, NEW l \in Loads, FinishBuildings(l), Alone'
    PROVE  LoadInv' /\ l = started /\ features = {l} \X (1..MapSize)
<1>1. Alone /\ LoadInv
  BY DEF Alone, FinishBuildings, mapHistory
<1>2. l = started /\ started > 0 /\ buildings[l] = [phase |-> "reading", read |-> MapSize]
  BY <1>1, OnlyLast DEF FinishBuildings
<1>3. /\ buildings'[l].read = MapSize /\ buildings'[l].phase = "done"
      /\ \A k \in Loads : k # l => buildings'[k] = buildings[k]
  BY <1>2, LoadsTyped DEF FinishBuildings
<1>4. features = {l} \X (1..MapSize)
  BY <1>1, <1>2 DEF LoadInv
<1>5. LastLoading /\ ~LastLoading'
  BY <1>2, <1>3 DEF LastLoading, FinishBuildings
<1>6. \A k \in Loads : k < started' =>
         buildings'[k].phase # "reading" /\ roadChain'[k] \notin {"reading", "read"}
  BY <1>1, <1>2, <1>3, LoadsTyped DEF LoadInv, FinishBuildings
<1>7. /\ drawnBuildings = None /\ rays \subseteq {None} /\ ~strays
      /\ ~roadsFirst => drawnRoads = None
      /\ roadChain[started] \in {"reading", "read"} => drawnRoads = None
  BY <1>1, <1>2, <1>5 DEF LoadInv
<1>8. /\ strays' = strays /\ drawnBuildings' \in {frame', None} /\ gui' = TRUE
      /\ UNCHANGED <<started, roadChain, features, drawnRoads, rays, roadsFirst>>
  BY <1>7 DEF FinishBuildings, Show, DrawSenario, mapHistory, Shape, TypeOK, MapTypeOK
<1> QED BY <1>2, <1>3, <1>4, <1>5, <1>6, <1>7, <1>8 DEF LoadInv

LEMMA FinishRoadsLoads ==
    ASSUME Shape, Alone => LoadInv, NEW l \in Loads, FinishRoads(l), Alone'
    PROVE  LoadInv'
<1>1. Alone /\ LoadInv
  BY DEF Alone, FinishRoads
<1>2. l = started /\ started > 0
  BY <1>1, OnlyLast DEF FinishRoads
<1>3. /\ roadChain'[l] = "done"
      /\ \A k \in Loads : k # l => roadChain'[k] = roadChain[k]
  BY LoadsTyped DEF FinishRoads
<1>4. /\ ~strays' /\ drawnRoads' \in {frame', None} /\ gui' = TRUE
      /\ frame # None => frame' = frame
      /\ UNCHANGED <<started, buildings, features, drawnBuildings, rays>>
      /\ ~roadsFirst' => ~roadsFirst /\ buildings[l].phase = "done"
  BY <1>1, <1>2 DEF FinishRoads, DrawRoads, LoadInv, Shape, TypeOK, MapTypeOK
<1>5. \A k \in Loads : k < started' =>
         buildings'[k].phase # "reading" /\ roadChain'[k] \notin {"reading", "read"}
  BY <1>1, <1>2, <1>3, <1>4, LoadsTyped DEF LoadInv
<1>6. LastLoading' => LastLoading /\ roadsFirst'
  BY <1>2, <1>4 DEF LastLoading
<1>7. {drawnBuildings'} \union rays' \subseteq {frame', None}
  BY <1>1, <1>4 DEF LoadInv
<1> QED BY <1>1, <1>2, <1>3, <1>4, <1>5, <1>6, <1>7 DEF LoadInv

LEMMA ChainLoads ==
    ASSUME Shape, Alone => LoadInv, NEW l \in Loads,
           BuildingsFail(l) \/ ReadRoad(l) \/ RoadsFail(l), Alone'
    PROVE  LoadInv'
<1>1. CASE BuildingsFail(l)
  BY <1>1 DEF Alone, BuildingsFail
<1>2. CASE ReadRoad(l) \/ RoadsFail(l)
  <2>1. Alone /\ LoadInv
    BY <1>2 DEF Alone, ReadRoad, RoadsFail, mapHistory
  <2>2. l = started /\ started > 0 /\ roadChain[l] \in {"reading", "read"}
    <3>1. roadChain[l] \in {"reading", "read"}
      BY <1>2 DEF ReadRoad, RoadsFail
    <3> QED BY <2>1, <3>1, OnlyLast
  <2>3. \A k \in Loads : k # l => roadChain'[k] = roadChain[k]
    BY <1>2, LoadsTyped DEF ReadRoad, RoadsFail
  <2>4. UNCHANGED <<frame, started, buildings, features, senario, sceneVars, mapHistory>>
    BY <1>2 DEF ReadRoad, RoadsFail, arrayVars
  <2>5. \A k \in Loads : k < started' =>
           buildings'[k].phase # "reading" /\ roadChain'[k] \notin {"reading", "read"}
    BY <2>1, <2>2, <2>3, <2>4, LoadsTyped DEF LoadInv
  <2> QED BY <2>1, <2>2, <2>4, <2>5 DEF LoadInv, LastLoading, sceneVars, mapHistory
<1> QED BY <1>1, <1>2

LEMMA SceneLoads ==
    ASSUME Shape, Alone => LoadInv, SceneStep, Alone'
    PROVE  LoadInv'
<1>0. \/ Reset \/ SwitchMod \/ Output \/ ProcessDynamic
      \/ \E part \in FileParts : ChooseFile(part)
  BY DEF SceneStep
<1> DEFINE Kept ==
        UNCHANGED <<frame, started, buildings, roadChain, features, senario, strays, gui,
                    drawnBuildings, drawnRoads, overlapped, uncleared, roadsFirst>>
<1>k. Reset \/ (\E part \in FileParts : ChooseFile(part)) =>
          Kept /\ (rays' = rays \/ rays' = {})
  BY DEF ChooseFile, Reset, loadVars, sceneVars, mapHistory, arrayVars
<1>1. Alone /\ LoadInv
  <2>1. (overlapped => overlapped') /\ (uncleared => uncleared')
    <3>1. CASE Reset \/ \E part \in FileParts : ChooseFile(part)
      BY <1>k, <3>1
    <3>2. CASE SwitchMod \/ Output
      <4>1. overlapped' = (overlapped \/ Loading) /\ uncleared' = uncleared
        BY <3>2 DEF SwitchMod, Output
      <4> QED BY <4>1
    <3>3. CASE ProcessDynamic
      BY <3>3 DEF ProcessDynamic
    <3> QED BY <1>0, <3>1, <3>2, <3>3
  <2> QED BY <2>1 DEF Alone
<1>2. CASE Reset \/ \E part \in FileParts : ChooseFile(part)
  BY <1>1, <1>2, <1>k DEF LoadInv, LastLoading
<1>3. CASE SwitchMod \/ Output
  <2>0. ~Loading
    BY <1>3 DEF Alone, SwitchMod, Output
  <2>1. ~Loading /\ UNCHANGED <<frame, started, buildings, roadChain, features, senario, strays,
                               roadsFirst, drawnRoads>>
    BY <1>3, <2>0 DEF SwitchMod, Output, loadVars, arrayVars, mapHistory
  <2>2. ~LastLoading /\ ~LastLoading'
    BY <2>1, LoadsTyped DEF LastLoading, Loading
  <2>3. CASE SwitchMod
    <3>1. /\ UNCHANGED <<rays, gui>> /\ drawnBuildings' \in {frame, None}
          /\ ~gui => drawnBuildings' = None
      BY <1>1, <2>3 DEF SwitchMod, LoadInv
    <3> QED BY <1>1, <2>1, <2>2, <3>1 DEF LoadInv
  <2>4. CASE Output
    <3>1. rays' = rays \union {frame} /\ gui' = TRUE /\ UNCHANGED drawnBuildings
      BY <2>4 DEF Output
    <3> QED BY <1>1, <2>1, <2>2, <3>1 DEF LoadInv
  <2> QED BY <1>3, <2>3, <2>4
<1>4. CASE ProcessDynamic
  BY <1>4 DEF Alone, ProcessDynamic
<1> QED BY <1>0, <1>2, <1>3, <1>4

-----------------------------------------------------------------------------
LEMMA MapStepShape ==
    ASSUME Shape, MapStep
    PROVE  Shape'
<1>1. PlacingTypeOK'
  <2>1. reframed' \in BOOLEAN
    BY DEF MapStep
  <2> QED BY <2>1, PlacingTypeStays DEF MapStep, Shape
<1> QED BY <1>1, ParseDefaultfileShape, ParseFileShape, ParseChosenFileShape,
        ParseRoadFileShape, ReadFeatureShape, FinishBuildingsShape, FinishRoadsShape,
        ChainShape, SceneShape DEF MapStep, MapNext, SceneStep

LEMMA MapStepLoads ==
    ASSUME Shape, Alone => LoadInv, MapStep, Alone'
    PROVE  LoadInv'
BY ParseDefaultfileLoads, ParseFileLoads, ParseChosenFileLoads, ParseRoadFileLoads,
   ReadFeatureLoads, FinishBuildingsLoads, FinishRoadsLoads, ChainLoads, SceneLoads
   DEF MapStep, MapNext, SceneStep

\* A step of the map leaves the places alone, and tells if their bounding box goes.
LEMMA MapStepPlaces ==
    ASSUME Shape, PlacesOfClicks, MapStep
    PROVE  PlacesOfClicks'
<1>1. UNCHANGED <<listening, vehicleType, count, vehicleDTO, cursor, switched>>
  BY DEF MapStep
<1>2. ~reframed' => \A p \in DOMAIN vehicleDTO : vehicleDTO[p] = frame'
  <2>1. reframed' <=> reframed \/ (vehicleDTO # NoPlaces /\ frame' # frame)
    BY DEF MapStep
  <2>2. CASE frame' = frame
    BY <2>1, <2>2 DEF PlacesOfClicks
  <2>3. CASE vehicleDTO = NoPlaces
    BY <2>3 DEF NoPlaces
  <2> QED BY <2>1, <2>2, <2>3
<1> QED BY <1>1, <1>2 DEF PlacesOfClicks

\* Placing vehicles and the socket leave the map and its bounding box alone.
LEMMA MapUntouched ==
    ASSUME Shape, Alone => LoadInv,
           UNCHANGED <<mapVars, server, unsent, frame>>
    PROVE  /\ FrameOfServer' /\ (senario # None => frame = senario)' /\ Unloaded'
           /\ MapTypeOK'
           /\ Alone' => LoadInv'
<1> USE DEF mapVars, loadVars, arrayVars, sceneVars, mapHistory
<1>1. MapTypeOK'
  BY DEF Shape, TypeOK, MapTypeOK
<1>2. FrameOfServer' /\ (senario # None => frame = senario)' /\ Unloaded'
  BY DEF Shape, FrameOfServer, Unloaded
<1>3. Alone' => LoadInv'
  BY DEF Alone, LoadInv, LastLoading
<1> QED BY <1>1, <1>2, <1>3

\* What With() adds to the places.
LEMMA WithPlaces ==
    ASSUME TypeOK, NEW places \in SUBSET Places
    PROVE  /\ DOMAIN vehicleDTO \subseteq Places
           /\ DOMAIN With(places) = DOMAIN vehicleDTO \union places
           /\ With(places) \in PlacesOf(DOMAIN With(places))
           /\ DOMAIN With(places) \in SUBSET Places
           /\ \A p \in DOMAIN With(places) :
                 With(places)[p] = IF p \in places THEN frame ELSE vehicleDTO[p]
<1>1. PICK fields \in SUBSET Places : vehicleDTO \in [fields -> Frames \union {None}]
  BY DEF TypeOK, PlacingTypeOK, PlacesOf
<1>2. frame \in Frames \union {None}
  BY DEF TypeOK
<1>3. DOMAIN vehicleDTO = fields /\ DOMAIN With(places) = fields \union places
  BY <1>1 DEF With
<1> QED BY <1>1, <1>2, <1>3 DEF With, PlacesOf

LEMMA ChooseVehicle ==
    ASSUME TypeOK, PlacesOfClicks, NEW type \in VehicleTypes, SetVehicle(type) \/ SetTx(type)
    PROVE  PlacingTypeOK' /\ sent' = None /\ PlacesOfClicks'
<1>1. /\ vehicleType' = type /\ listening' = TRUE /\ sent' = None
      /\ switched' = (vehicleDTO # NoPlaces)
      /\ UNCHANGED <<frame, vehicleDTO, reframed>>
      /\ count' \in 0..2 /\ (count' = 0 \/ count' = count)
      /\ cursor' = TRUE /\ lostCursors' \in BOOLEAN
  BY DEF SetVehicle, SetTx, NewCursor, TypeOK, PlacingTypeOK
<1>2. PlacingTypeOK'
  BY <1>1 DEF TypeOK, PlacingTypeOK
<1>3. "location1" \notin DOMAIN NoPlaces
  BY DEF NoPlaces
<1>4. ~switched' => count' = 0 /\ vehicleDTO = NoPlaces
  <2>1. count \in 0..2
    BY DEF TypeOK, PlacingTypeOK
  <2>2. vehicleDTO = NoPlaces => ~(count > 0)
    BY <1>3 DEF PlacesOfClicks
  <2>3. ~switched' => vehicleDTO = NoPlaces
    BY <1>1
  <2> QED BY <1>1, <2>1, <2>2, <2>3
<1>5. count' > 0 => "location1" \in DOMAIN vehicleDTO'
  BY <1>1 DEF PlacesOfClicks
<1> QED BY <1>1, <1>2, <1>4, <1>5 DEF PlacesOfClicks

LEMMA Stopped ==
    ASSUME TypeOK, StopListen, RemoveCursor
    PROVE  PlacingTypeOK' /\ PlacesOfClicks'
<1>1. NoPlaces \in PlacesOf({}) /\ DOMAIN NoPlaces = {}
  BY DEF PlacesOf, NoPlaces
<1>2. (\E fields \in SUBSET Places : vehicleDTO \in PlacesOf(fields))'
  BY <1>1 DEF StopListen
<1>3. /\ listening' = FALSE /\ vehicleType' = "none" /\ count' = 0 /\ vehicleDTO' = NoPlaces
      /\ switched' = FALSE /\ reframed' = FALSE
      /\ cursor' = FALSE /\ lostCursors' \in BOOLEAN
  BY DEF StopListen, RemoveCursor, TypeOK, PlacingTypeOK
<1>4. PlacingTypeOK'
  <2>1. /\ listening' \in BOOLEAN /\ switched' \in BOOLEAN /\ reframed' \in BOOLEAN
        /\ cursor' \in BOOLEAN /\ lostCursors' \in BOOLEAN
    BY <1>3
  <2>2. count' \in 0..2 /\ vehicleType' \in VehicleTypes \union {"none"}
    BY <1>3
  <2> QED BY <1>2, <2>1, <2>2 DEF PlacingTypeOK
<1> QED BY <1>1, <1>3, <1>4 DEF PlacesOfClicks

LEMMA FirstClickPlaces ==
    ASSUME TypeOK, PlacesOfClicks, FirstClick
    PROVE  PlacingTypeOK' /\ sent' = None /\ PlacesOfClicks'
<1> DEFINE new == {"location1"} \union (IF vehicleType = "other" THEN {"bbox"} ELSE {})
<1>1. /\ count = 0 /\ count' = 1 /\ vehicleDTO' = With(new) /\ sent' = None
      /\ listening /\ UNCHANGED <<frame, listening, vehicleType, switched, reframed>>
      /\ cursor' = FALSE /\ UNCHANGED lostCursors
  BY DEF FirstClick, RemoveCursor
<1>2. new \in SUBSET Places
  BY DEF Places
<1>3. "location1" \in new /\ ("bbox" \in new <=> vehicleType = "other")
  OBVIOUS
<1> HIDE DEF new
<1>4. /\ DOMAIN vehicleDTO' = DOMAIN vehicleDTO \union new
      /\ vehicleDTO' \in PlacesOf(DOMAIN vehicleDTO') /\ DOMAIN vehicleDTO' \in SUBSET Places
      /\ \A p \in DOMAIN vehicleDTO' :
            vehicleDTO'[p] = IF p \in new THEN frame ELSE vehicleDTO[p]
  BY <1>1, <1>2, WithPlaces
<1>5. PlacingTypeOK'
  <2>1. (\E fields \in SUBSET Places : vehicleDTO \in PlacesOf(fields))'
    BY <1>4
  <2>2. UNCHANGED <<listening, lostCursors, switched, reframed>> /\ cursor' \in BOOLEAN
    BY <1>1
  <2>3. /\ listening' \in BOOLEAN /\ switched' \in BOOLEAN /\ reframed' \in BOOLEAN
        /\ lostCursors' \in BOOLEAN
    BY <2>2 DEF TypeOK, PlacingTypeOK
  <2>4. vehicleType' \in VehicleTypes \union {"none"} /\ count' \in 0..2
    BY <1>1 DEF TypeOK, PlacingTypeOK
  <2> QED BY <2>1, <2>2, <2>3, <2>4 DEF PlacingTypeOK
<1>6. ~switched => DOMAIN vehicleDTO = {}
  BY <1>1 DEF PlacesOfClicks, NoPlaces
<1>7. ~reframed => \A p \in DOMAIN vehicleDTO' : vehicleDTO'[p] = frame
  BY <1>4 DEF PlacesOfClicks
<1> QED BY <1>1, <1>3, <1>4, <1>5, <1>6, <1>7 DEF PlacesOfClicks

\* The vehicle that is sent, if the socket is open.
LEMMA VehicleComplete ==
    ASSUME TypeOK, PlacesOfClicks, FrameOfServer, SecondClick
    PROVE  LET places == With({"location2"}) IN
           /\ [type |-> "vehicle", vehicleType |-> vehicleType, places |-> places] \in Vehicles
           /\ ~switched =>
                 DOMAIN places = {"location1", "location2"}
                                     \union (IF vehicleType = "other" THEN {"bbox"} ELSE {})
           /\ ~reframed => \A p \in DOMAIN places : places[p] = frame
<1> DEFINE places == With({"location2"})
<1>1. /\ DOMAIN vehicleDTO \subseteq Places
      /\ DOMAIN places = DOMAIN vehicleDTO \union {"location2"}
      /\ places \in PlacesOf(DOMAIN places) /\ DOMAIN places \in SUBSET Places
      /\ \A p \in DOMAIN places : places[p] = IF p \in {"location2"} THEN frame ELSE vehicleDTO[p]
  BY WithPlaces DEF Places
<1>2. listening /\ count > 0 /\ vehicleType \in VehicleTypes
  BY DEF SecondClick, PlacesOfClicks
<1> HIDE DEF places
<1>3. [type |-> "vehicle", vehicleType |-> vehicleType, places |-> places] \in Vehicles
  BY <1>1, <1>2 DEF Vehicles
<1>4. ~switched =>
          DOMAIN places = {"location1", "location2"}
                              \union (IF vehicleType = "other" THEN {"bbox"} ELSE {})
  <2>1. "location1" \in DOMAIN vehicleDTO
    BY <1>2 DEF PlacesOfClicks
  <2>2. ~switched => ("bbox" \in DOMAIN vehicleDTO <=> vehicleType = "other")
    BY <1>2 DEF PlacesOfClicks
  <2> QED BY <1>1, <2>1, <2>2 DEF Places
<1>5. ~reframed => \A p \in DOMAIN places : places[p] = frame
  BY <1>1 DEF PlacesOfClicks
<1> QED BY <1>3, <1>4, <1>5 DEF places

LEMMA SecondClickPlaces ==
    ASSUME TypeOK, PlacesOfClicks, FrameOfServer, SecondClick
    PROVE  PlacingTypeOK' /\ sent' \in Messages \union {None} /\ PlacesOfClicks'
<1>1. sent' \in Messages \union {None}
  BY VehicleComplete DEF SecondClick, SendMessage, Messages
<1>2. CASE ~Throws
  BY <1>1, <1>2, Stopped DEF SecondClick
<1>3. CASE Throws
  <2>1. /\ count > 0 /\ count' = 2 /\ vehicleDTO' = With({"location2"}) /\ listening
        /\ UNCHANGED <<frame, listening, vehicleType, switched, reframed>>
        /\ cursor' = FALSE /\ UNCHANGED lostCursors
    BY <1>3 DEF SecondClick, RemoveCursor
  <2>2. /\ DOMAIN vehicleDTO' = DOMAIN vehicleDTO \union {"location2"}
        /\ vehicleDTO' \in PlacesOf(DOMAIN vehicleDTO') /\ DOMAIN vehicleDTO' \in SUBSET Places
    BY <2>1, WithPlaces DEF Places
  <2>3. PlacingTypeOK'
    <3>1. (\E fields \in SUBSET Places : vehicleDTO \in PlacesOf(fields))'
      BY <2>2
    <3>2. UNCHANGED <<listening, lostCursors, switched, reframed>> /\ cursor' \in BOOLEAN
      BY <2>1
    <3>3. /\ listening' \in BOOLEAN /\ switched' \in BOOLEAN /\ reframed' \in BOOLEAN
          /\ lostCursors' \in BOOLEAN
      BY <3>2 DEF TypeOK, PlacingTypeOK
    <3>4. vehicleType' \in VehicleTypes \union {"none"} /\ count' \in 0..2
      BY <2>1 DEF TypeOK, PlacingTypeOK
    <3> QED BY <3>1, <3>2, <3>3, <3>4 DEF PlacingTypeOK
  <2>4. ~reframed => \A p \in DOMAIN vehicleDTO' : vehicleDTO'[p] = frame
    BY <2>1, VehicleComplete
  <2> QED BY <1>1, <2>1, <2>2, <2>3, <2>4 DEF PlacesOfClicks
<1> QED BY <1>2, <1>3

LEMMA PlacingStepInv ==
    ASSUME IndInv, PlacingStep
    PROVE  IndInv'
<1>1. /\ Shape /\ TypeOK /\ PlacesOfClicks /\ FrameOfServer
      /\ Alone => LoadInv
  BY DEF IndInv, Shape, Alone
<1>2. PlacingTypeOK' /\ sent' \in Messages \union {None} /\ PlacesOfClicks'
  BY <1>1, ChooseVehicle, Stopped, FirstClickPlaces, SecondClickPlaces
     DEF PlacingStep, PlacingNext, GiveUp
<1>3. UNCHANGED <<mapVars, socket, server, unsent, frame>>
  BY DEF PlacingStep, PlacingNext, SetVehicle, SetTx, GiveUp, FirstClick, SecondClick
<1>4. /\ FrameOfServer' /\ (senario # None => frame = senario)' /\ Unloaded'
      /\ MapTypeOK'
      /\ Alone' => LoadInv'
  BY <1>1, <1>3, MapUntouched
<1>5. TypeOK'
  BY <1>1, <1>2, <1>3, <1>4 DEF TypeOK
<1> QED BY <1>2, <1>4, <1>5 DEF IndInv, Alone

LEMMA SocketStepInv ==
    ASSUME IndInv, SocketStep \/ UNCHANGED vars
    PROVE  IndInv'
<1>1. /\ Shape /\ TypeOK /\ PlacesOfClicks /\ FrameOfServer
      /\ Alone => LoadInv
  BY DEF IndInv, Shape, Alone
<1>2. /\ UNCHANGED <<mapVars, placingVars, server, unsent, frame>>
      /\ socket' \in {"connecting", "open", "closed"}
      /\ sent' \in Messages \union {None}
  BY <1>1 DEF SocketStep, SocketOpens, SocketCloses, vars, pageVars, TypeOK
<1>3. /\ FrameOfServer' /\ (senario # None => frame = senario)' /\ Unloaded'
      /\ MapTypeOK'
      /\ Alone' => LoadInv'
  BY <1>1, <1>2, MapUntouched
<1>4. PlacingTypeOK' /\ PlacesOfClicks'
  BY <1>1, <1>2 DEF placingVars, TypeOK, PlacingTypeOK, PlacesOfClicks
<1>5. TypeOK'
  BY <1>1, <1>2, <1>3, <1>4 DEF TypeOK
<1> QED BY <1>3, <1>4, <1>5 DEF IndInv, Alone

LEMMA MapStepInv ==
    ASSUME IndInv, MapStep
    PROVE  IndInv'
<1>1. /\ Shape /\ PlacesOfClicks
      /\ Alone => LoadInv
  BY DEF IndInv, Shape, Alone
<1> QED BY <1>1, MapStepShape, MapStepLoads, MapStepPlaces DEF IndInv, Shape, Alone

-----------------------------------------------------------------------------
\* The state of the page hangs together: one bounding box for the scenario, the server
\* and the coordinates of the vehicle, and one load at a time in the arrays and the scene.
THEOREM PageInvariance == Spec => []IndInv
<1>1. IndInv /\ [Next]_vars => IndInv'
  BY PlacingStepInv, SocketStepInv, MapStepInv DEF Next
<1> QED BY <1>1, InitInv, PTL DEF Spec

\* The scene shows no building, road or ray that no array holds, and shows them in one
\* bounding box, for any number of loads one after the other (ParseDefaultfile and the
\* chains behind it), whatever is drawn, answered or placed between them.
THEOREM SceneIsTracked == Spec => []SceneTracked
<1>1. IndInv => SceneTracked
  BY DEF IndInv, SceneTracked, LoadInv
<1> QED BY <1>1, PageInvariance, PTL

\* A scenario is sent with all the features of its map and no others.
THEOREM FeaturesAreOwn == Spec => OwnFeatures
<1>1. IndInv /\ [Next]_vars =>
        [sent' \in Scenes /\ ~overlapped' /\ ~uncleared' =>
            sent'.features = {sent'.bbox.load} \X (1..MapSize)]_vars
  <2> SUFFICES ASSUME IndInv, Next, sent' \in Scenes, Alone'
               PROVE  sent'.features = {sent'.bbox.load} \X (1..MapSize)
    BY DEF Alone
  <2>1. /\ Shape /\ TypeOK /\ PlacesOfClicks /\ FrameOfServer
        /\ Alone => LoadInv
    BY DEF IndInv, Shape, Alone
  <2>2. sent' # None /\ sent'.type = "senario"
    BY BrowserClientAssumption DEF Messages, Scenes
  <2>3. CASE SocketStep
    BY <2>2, <2>3 DEF SocketStep, SocketOpens, SocketCloses
  <2>4. CASE PlacingStep
    BY <2>2, <2>4 DEF PlacingStep, PlacingNext, SetVehicle, SetTx, GiveUp, FirstClick,
       SecondClick, SendMessage
  <2>5. CASE MapStep
    <3>1. \/ ParseChosenFile \/ \E l \in Loads : FinishBuildings(l)
      BY <2>2, <2>5 DEF MapStep, MapNext, ChooseFile, ParseDefaultfile, ParseFile, ParseRoadFile,
         ReadFeature, BuildingsFail, ReadRoad, FinishRoads, DrawRoads, RoadsFail, SwitchMod,
         Output, ProcessDynamic, Reset
    <3>2. ASSUME NEW l \in Loads, Show(l, drawnBuildings) \/ Show(l, None),
                 features' = {l} \X (1..MapSize)
          PROVE  sent'.features = {sent'.bbox.load} \X (1..MapSize)
      <4>1. sent' = [type |-> "senario", bbox |-> FrameOf(l, "buildings"), features |-> features']
        BY <2>2, <3>2 DEF Show, SendMessage
      <4> QED BY <3>2, <4>1, FrameOfType
    <3>3. CASE ParseChosenFile
      <4>1. started' \in Loads /\ Show(started', None)
        BY <2>1, <3>3, StartedType DEF ParseChosenFile, TypeOK, MapTypeOK
      <4> QED BY <2>1, <3>2, <3>3, <4>1, ParseChosenFileLoads
    <3>4. ASSUME NEW l \in Loads, FinishBuildings(l)
          PROVE  sent'.features = {sent'.bbox.load} \X (1..MapSize)
      <4>1. features' = {l} \X (1..MapSize) /\ Show(l, drawnBuildings)
        BY <2>1, <3>4, FinishBuildingsLoads DEF FinishBuildings
      <4> QED BY <3>2, <4>1
    <3> QED BY <3>1, <3>3, <3>4
  <2> QED BY <2>3, <2>4, <2>5 DEF Next
<1> QED BY <1>1, PageInvariance, PTL DEF Spec, OwnFeatures

\* A vehicle is sent with its places in the bounding box of the server's scenario.
THEOREM VehicleIsOnServersMap == Spec => VehicleOnServersMap
<1> DEFINE Placed ==
        sent' \in Vehicles =>
          LET places == sent'.places IN
          /\ ~switched =>
                DOMAIN places = {"location1", "location2"}
                                    \union (IF sent'.vehicleType = "other" THEN {"bbox"} ELSE {})
          /\ ~reframed /\ server # None /\ ~unsent =>
                \A p \in DOMAIN places : places[p] = server
<1>1. IndInv /\ [Next]_vars => [Placed]_vars
  <2> SUFFICES ASSUME IndInv, Next, sent' \in Vehicles
               PROVE  Placed
    OBVIOUS
  <2>1. TypeOK /\ PlacesOfClicks /\ FrameOfServer
    BY DEF IndInv
  <2>2. sent' # None /\ sent'.type = "vehicle"
    BY BrowserClientAssumption DEF Messages, Vehicles
  <2>3. CASE SocketStep
    BY <2>2, <2>3 DEF SocketStep, SocketOpens, SocketCloses
  <2>4. CASE MapStep
    BY <2>2, <2>4 DEF MapStep, MapNext, ChooseFile, ParseDefaultfile, ParseFile, ParseRoadFile,
       ReadFeature, BuildingsFail, ReadRoad, FinishRoads, DrawRoads, RoadsFail, SwitchMod,
       Output, ProcessDynamic, Reset, FinishBuildings, ParseChosenFile, Show, SendMessage
  <2>5. CASE PlacingStep
    <3>1. SecondClick
      BY <2>2, <2>5 DEF PlacingStep, PlacingNext, SetVehicle, SetTx, GiveUp, FirstClick
    <3>2. sent' = [type |-> "vehicle", vehicleType |-> vehicleType,
                   places |-> With({"location2"})]
      BY <2>2, <3>1 DEF SecondClick, SendMessage
    <3>3. sent'.places = With({"location2"}) /\ sent'.vehicleType = vehicleType
      BY <3>2
    <3>4. server # None /\ ~unsent => frame = server
      BY <2>1 DEF FrameOfServer
    <3> QED BY <2>1, <3>1, <3>3, <3>4, VehicleComplete
  <2> QED BY <2>3, <2>4, <2>5 DEF Next
<1> QED BY <1>1, PageInvariance, PTL DEF Spec, VehicleOnServersMap

=============================================================================

--------------------------- MODULE VehiclePlacing ---------------------------
(***************************************************************************)
(* The part of webgl.js with which the user places a vehicle: it is chosen *)
(* in the menu or in the form, a first click on the plane says where it    *)
(* starts and a second one where it goes, and then it is sent.  A click on *)
(* the right button gives it up.                                           *)
(*                                                                         *)
(* A place is represented by the bounding box that turned the point which  *)
(* was clicked into coordinates; None, if there was no map yet (the        *)
(* coordinates are then NaN).                                              *)
(***************************************************************************)
EXTENDS Page

CONSTANT
    VehicleTypes    \* what can be placed: transmitters, receivers and obstacles

ASSUME VehiclePlacingAssumption == VehicleTypes \subseteq {"tx", "rx", "other"}

VARIABLES
    listening,    \* onDocumentMouseDown is registered
    vehicleType,  \* vehicleType, and vehicleDTO.vehicleType
    count,        \* clicks since the vehicle was chosen; 2 stands for more, too
    vehicleDTO,   \* the places in vehicleDTO
    cursor,       \* the scene shows rollOverMesh
    lostCursors,  \* the scene shows a mesh that rollOverMesh named before
    switched,     \* history: another one was chosen after the first click
    reframed      \* history: the bounding box has changed since places were collected

placingVars == <<listening, vehicleType, count, vehicleDTO, cursor, lostCursors,
                 switched, reframed>>

Places == {"bbox", "location1", "location2"}
PlacesOf(fields) == [fields -> Frames \union {None}]
NoPlaces == [p \in {} |-> None]
Vehicles ==
    UNION {[type : {"vehicle"}, vehicleType : VehicleTypes, places : PlacesOf(fields)] :
               fields \in SUBSET Places}

PlacingTypeOK ==
    /\ listening \in BOOLEAN
    /\ vehicleType \in VehicleTypes \union {"none"}
    /\ count \in 0..2
    /\ \E fields \in SUBSET Places : vehicleDTO \in PlacesOf(fields)
    /\ cursor \in BOOLEAN /\ lostCursors \in BOOLEAN
    /\ switched \in BOOLEAN
    /\ reframed \in BOOLEAN

PlacingInit ==
    /\ listening = FALSE
    /\ vehicleType = "none"
    /\ count = 0
    /\ vehicleDTO = NoPlaces
    /\ cursor = FALSE
    /\ lostCursors = FALSE
    /\ switched = FALSE
    /\ reframed = FALSE

\* A new rollOverMesh is added to the scene; the one before it, if it is still
\* there, stays.
NewCursor ==
    /\ cursor' = TRUE
    /\ lostCursors' = (lostCursors \/ cursor)

RemoveCursor == cursor' = FALSE /\ UNCHANGED lostCursors

\* setVehicle(): the clicks are counted anew, but what is in vehicleDTO stays.
SetVehicle(type) ==
    /\ vehicleType' = type
    /\ count' = 0
    /\ listening' = TRUE
    /\ NewCursor
    /\ switched' = (vehicleDTO # NoPlaces)
    /\ sent' = None
    /\ UNCHANGED <<socket, server, unsent, frame, vehicleDTO, reframed>>

\* setTx(), in the menu: the clicks are not counted anew.
SetTx(type) ==
    /\ vehicleType' = type
    /\ listening' = TRUE
    /\ NewCursor
    /\ switched' = (vehicleDTO # NoPlaces)
    /\ sent' = None
    /\ UNCHANGED <<socket, server, unsent, frame, count, vehicleDTO, reframed>>

\* Faulty variant: the clicks are not counted anew.
StopListenKeepsCount ==
    /\ listening' = FALSE
    /\ vehicleType' = "none"
    /\ vehicleDTO' = NoPlaces
    /\ switched' = FALSE
    /\ reframed' = FALSE
    /\ UNCHANGED count

\* stopListen(): the vehicle is sent or given up.
StopListen ==
    /\ listening' = FALSE
    /\ vehicleType' = "none"
    /\ count' = 0
    /\ vehicleDTO' = NoPlaces
    /\ switched' = FALSE
    /\ reframed' = FALSE

\* The right button.
GiveUp ==
    /\ listening
    /\ RemoveCursor
    /\ StopListen
    /\ sent' = None
    /\ UNCHANGED <<socket, server, unsent, frame>>

With(places) ==
    [p \in DOMAIN vehicleDTO \union places |-> IF p \in places THEN frame ELSE vehicleDTO[p]]

\* The first click on the plane: loadFbx(), for an obstacle, adds the ground it covers.
FirstClick ==
    /\ listening
    /\ count = 0
    /\ count' = 1
    /\ RemoveCursor
    /\ vehicleDTO' = With({"location1"} \union (IF vehicleType = "other" THEN {"bbox"} ELSE {}))
    /\ sent' = None
    /\ UNCHANGED <<socket, server, unsent, frame, listening, vehicleType, switched, reframed>>

\* The second click: the vehicle is sent.  If the socket is not open yet the handler
\* ends there, and the next click tries again.
SecondClick ==
    /\ listening
    /\ count > 0
    /\ RemoveCursor
    /\ IF Throws
       THEN /\ count' = 2
            /\ vehicleDTO' = With({"location2"})
            /\ UNCHANGED <<listening, vehicleType, switched, reframed>>
       ELSE StopListen
    /\ SendMessage([type |-> "vehicle", vehicleType |-> vehicleType,
                    places |-> With({"location2"})])
    /\ UNCHANGED <<socket, server, unsent, frame>>

PlacingNext ==
    \/ \E type \in VehicleTypes : SetVehicle(type) \/ SetTx(type)
    \/ GiveUp
    \/ FirstClick
    \/ SecondClick

=============================================================================

----------------------------- MODULE RayService -----------------------------
(***************************************************************************)
(* EchoServer: the WebSocket service behind the map pages.  A page sends   *)
(* its scenario, its vehicles and "2", which asks for the paths between    *)
(* transmitter and receiver.  All pages share one scenario, one            *)
(* transmitter, one receiver and one obstacle car.  Every message is       *)
(* handled to its end by the event loop of the main thread, while the      *)
(* pages go on sending.                                                    *)
(*                                                                         *)
(* A place is represented by whether it is on the map, and by the scenario *)
(* whose bounding box turned it into mesh coordinates.  The tracer is the  *)
(* module Tracer; here an answer is the list of its moments, and a moment  *)
(* the obstacle car that its mesh contains.                                *)
(***************************************************************************)
EXTENDS Integers, Sequences, FiniteSets, SequencesExt

CONSTANTS
    Pages,       \* the pages with a WebSocket connection
    Scenarios,   \* the scenarios they can send
    MaxMoments,  \* bound of the model for the moments of a dynamic answer (31 in the code)
    MaxMessages, \* bound of the model: how many messages the pages send
    MaxInbox     \* bound of the model: how many messages of a page may be waiting

ASSUME RayServiceAssumption ==
    /\ MaxMoments \in Nat
    /\ MaxMessages \in Nat
    /\ MaxInbox \in Nat

VARIABLES
    inbox,         \* what each page has sent and the service has not handled
    sent,          \* how many messages have been sent
    connected,     \* m_clients
    sceneDate,     \* the last scenario, or NoScene
    frame,         \* the scenario that xmin, ymin and factor come from, or Unset
    txData, rxData,\* the vehicles, or NoVehicle
    carList,       \* the obstacle cars: identity, place, how often scaled by a mesh
    vehicleAdded,  \* vehicleAdded
    placed,        \* how many obstacle cars have been placed
    tracing,       \* how many moments of an answer are still to be computed, or Idle
    uses,          \* history: the moments of answers that an obstacle car is part of
    answered,      \* how many answers have been sent
    up             \* FALSE once the process has crashed

pageVars == <<inbox, sent, connected>>
sceneVars == <<sceneDate, frame>>
carVars == <<carList, vehicleAdded, placed>>
answerVars == <<uses, answered, up>>
vars == <<pageVars, sceneVars, txData, rxData, carVars, tracing, answerVars>>

NoScene == "no scene"
Unset == "unset"
Frames == Scenarios \union {NoScene, Unset}

\* The plane on which the user clicks is larger than the map.
Places == {"on the map", "beside the map"}

\* What the pages send; whether a transmitter or an obstacle moves, and
\* whether a transmitter is on the map, makes no difference here.
Message ==
    [type : {"senario"}, scene : Scenarios]
        \union [type : {"vehicle"}, vehicleType : {"tx"}, dynamic : {FALSE}, place : {"on the map"}]
        \union [type : {"vehicle"}, vehicleType : {"rx"}, dynamic : BOOLEAN, place : Places]
        \union [type : {"vehicle"}, vehicleType : {"other"}, dynamic : {FALSE}, place : Places]
        \union [type : {"2"}]

Vehicle == [place : Places, frame : Frames, dynamic : BOOLEAN]
NoVehicle == [place |-> "nowhere", frame |-> Unset, dynamic |-> FALSE]
Idle == -1
Car == [id : Nat, place : Places, frame : Frames, scaled : Nat]

Init ==
    /\ inbox = [p \in Pages |-> <<>>]
    /\ sent = 0
    /\ connected = Pages
    /\ sceneDate = NoScene
    /\ frame = Unset
    /\ txData = NoVehicle
    /\ rxData = NoVehicle
    /\ carList = <<>>
    /\ vehicleAdded = FALSE
    /\ placed = 0
    /\ tracing = Idle
    /\ uses = {}
    /\ answered = 0
    /\ up = TRUE

-----------------------------------------------------------------------------
(***************************************************************************)
(* The pages                                                               *)
(***************************************************************************)
Send(p, message) ==
    /\ up
    /\ p \in connected
    /\ sent < MaxMessages
    /\ Len(inbox[p]) < MaxInbox
    /\ inbox' = [inbox EXCEPT ![p] = Append(@, message)]
    /\ sent' = sent + 1
    /\ UNCHANGED <<connected, sceneVars, txData, rxData, carVars, tracing, answerVars>>

\* onNewConnection(): the page has been loaded again.
Connect(p) ==
    /\ up
    /\ tracing = Idle
    /\ p \notin connected
    /\ connected' = connected \union {p}
    /\ UNCHANGED <<inbox, sent, sceneVars, txData, rxData, carVars, tracing, answerVars>>

\* socketDisconnected(): what had been sent but not delivered is lost.
Disconnect(p) ==
    /\ up
    /\ tracing = Idle
    /\ p \in connected
    /\ connected' = connected \ {p}
    /\ inbox' = [inbox EXCEPT ![p] = <<>>]
    /\ UNCHANGED <<sent, sceneVars, txData, rxData, carVars, tracing, answerVars>>

-----------------------------------------------------------------------------
(***************************************************************************)
(* processTextMessage()                                                    *)
(***************************************************************************)
Receives(p, type) ==
    /\ up
    /\ tracing = Idle
    /\ inbox[p] # <<>>
    /\ Head(inbox[p]).type = type
    /\ inbox' = [inbox EXCEPT ![p] = Tail(@)]
    /\ UNCHANGED <<sent, connected>>

\* "senario", updateScene(): a car that waits for the next question is put
\* into the new scene, which is thrown away, since VPL() builds its own.
UpdateScene(p) ==
    /\ Receives(p, "senario")
    /\ sceneDate' = Head(inbox[p]).scene
    /\ frame' = Head(inbox[p]).scene
    /\ UNCHANGED <<txData, rxData, carVars, tracing, answerVars>>

\* "vehicle", updateVehicle(), transmitter or receiver.
Placed(message) == [place |-> message.place, frame |-> frame, dynamic |-> message.dynamic]

\* Mutant of UpdateTx: a vehicle waits until there is a scenario.
UpdateTxAfterScene(p) ==
    /\ Receives(p, "vehicle")
    /\ Head(inbox[p]).vehicleType = "tx"
    /\ frame # Unset
    /\ txData' = Placed(Head(inbox[p]))
    /\ UNCHANGED <<sceneVars, rxData, carVars, tracing, answerVars>>

UpdateTx(p) ==
    /\ Receives(p, "vehicle")
    /\ Head(inbox[p]).vehicleType = "tx"
    /\ txData' = Placed(Head(inbox[p]))
    /\ UNCHANGED <<sceneVars, rxData, carVars, tracing, answerVars>>

UpdateRx(p) ==
    /\ Receives(p, "vehicle")
    /\ Head(inbox[p]).vehicleType = "rx"
    /\ rxData' = Placed(Head(inbox[p]))
    /\ UNCHANGED <<sceneVars, txData, carVars, tracing, answerVars>>

\* Mutant of UpdateCar: the car that is waiting is not cleared away.
UpdateCarKeepsOld(p) ==
    /\ Receives(p, "vehicle")
    /\ Head(inbox[p]).vehicleType = "other"
    /\ placed' = placed + 1
    /\ LET car == [id |-> placed + 1, place |-> Head(inbox[p]).place, frame |-> frame, scaled |-> 0]
       IN  carList' = Append(carList, car)
    /\ vehicleAdded' = TRUE
    /\ UNCHANGED <<sceneVars, txData, rxData, tracing, answerVars>>

\* Mutant of UpdateCar: a car that is placed while one waits is ignored.
UpdateCarOnce(p) ==
    /\ Receives(p, "vehicle")
    /\ Head(inbox[p]).vehicleType = "other"
    /\ placed' = placed + 1
    /\ LET car == [id |-> placed + 1, place |-> Head(inbox[p]).place, frame |-> frame, scaled |-> 0]
       IN  carList' = IF vehicleAdded THEN carList ELSE <<car>>
    /\ vehicleAdded' = TRUE
    /\ UNCHANGED <<sceneVars, txData, rxData, tracing, answerVars>>

\* "vehicle", updateVehicle(), obstacle car: it takes the place of one that
\* no question has used yet.
UpdateCar(p) ==
    /\ Receives(p, "vehicle")
    /\ Head(inbox[p]).vehicleType = "other"
    /\ placed' = placed + 1
    /\ LET car == [id |-> placed + 1, place |-> Head(inbox[p]).place, frame |-> frame, scaled |-> 0]
       IN  carList' = Append(IF vehicleAdded THEN <<>> ELSE carList, car)
    /\ vehicleAdded' = TRUE
    /\ UNCHANGED <<sceneVars, txData, rxData, tracing, answerVars>>

-----------------------------------------------------------------------------
(***************************************************************************)
(* "2": VPL() and DynamicVPL()                                             *)
(***************************************************************************)
Crash ==
    /\ up' = FALSE
    /\ UNCHANGED <<sceneVars, txData, rxData, carVars, tracing, uses, answered>>

\* A static receiver gets one moment.  The number of moments of a moving one
\* comes from Txt2 and Rxt2, which are read before they are set: any number.
Ask(p) ==
    /\ Receives(p, "2")
    /\ rxData # NoVehicle
    /\ rxData.dynamic => txData # NoVehicle
    /\ tracing' \in IF rxData.dynamic THEN 0 .. MaxMoments ELSE {1}
    /\ UNCHANGED <<sceneVars, txData, rxData, carVars, answerVars>>

\* rxData, or txData in DynamicVPL(), is a null pointer.
AskWithoutVehicle(p) ==
    /\ Receives(p, "2")
    /\ rxData = NoVehicle \/ (rxData.dynamic /\ txData = NoVehicle)
    /\ Crash

\* Whether mesh coordinates lie inside the mesh of the current scenario.
InMesh(v) == v.place = "on the map" /\ v.frame = sceneDate /\ sceneDate # NoScene

\* Mutant of CarsLeft: the car stays for the next question.
CarsKept(cars) == cars

\* The car has had its moment.
CarsLeft(cars) == IF vehicleAdded THEN Front(cars) ELSE cars

\* updateScene() puts carList[0] into the scene once for each car of the
\* list, and the mesh scales in place every object of the scene.
Scaled == IF carList = <<>> THEN <<>> ELSE [carList EXCEPT ![1].scaled = @ + Len(carList)]

\* VPL(): one moment.  Undefined behaviour may go unnoticed or end the process:
\* a receiver or a car outside the mesh is written outside its array, and of a
\* car beside the line of sight channelGain() reads nodes that are not there.
VPL ==
    /\ up
    /\ tracing > 0
    /\ txData # NoVehicle
    /\ frame' = sceneDate
    /\ uses' = uses \union IF carList = <<>> THEN {} ELSE
           {[car |-> Scaled[1].id, scaled |-> Scaled[1].scaled,
             answer |-> answered + 1, left |-> tracing]}
    /\ carList' = CarsLeft(Scaled)
    /\ vehicleAdded' = FALSE
    /\ tracing' = tracing - 1
    /\ UNCHANGED <<pageVars, sceneDate, txData, rxData, placed, answered, up>>

VPLCrashes ==
    /\ up
    /\ tracing > 0
    /\ \/ txData = NoVehicle
       \/ ~ InMesh(rxData)
       \/ carList # <<>>
    /\ Crash
    /\ UNCHANGED pageVars

\* sendTextMessage(): the answer goes to the page that has asked.
Answer ==
    /\ up
    /\ tracing = 0
    /\ answered' = answered + 1
    /\ tracing' = Idle
    /\ UNCHANGED <<pageVars, sceneVars, txData, rxData, carVars, uses, up>>

-----------------------------------------------------------------------------
Handle(p) ==
    \/ UpdateScene(p) \/ UpdateTx(p) \/ UpdateRx(p) \/ UpdateCar(p)
    \/ Ask(p) \/ AskWithoutVehicle(p)

Trace == VPL \/ VPLCrashes \/ Answer

Next ==
    \/ \E p \in Pages : \/ \E message \in Message : Send(p, message)
                        \/ Connect(p) \/ Disconnect(p) \/ Handle(p)
    \/ Trace

\* The event loop delivers the messages of every socket in turn, also when
\* a page keeps it busy with questions, and a handler runs to its end.
Spec ==
    /\ Init /\ [][Next]_vars
    /\ \A p \in Pages : SF_vars(Handle(p))
    /\ WF_vars(Trace)

-----------------------------------------------------------------------------
(***************************************************************************)
(* Properties                                                              *)
(***************************************************************************)
TypeOK ==
    /\ inbox \in [Pages -> Seq(Message)]
    /\ sent \in 0 .. MaxMessages
    /\ connected \subseteq Pages
    /\ sceneDate \in Scenarios \union {NoScene}
    /\ frame \in Frames
    /\ txData \in Vehicle \union {NoVehicle}
    /\ rxData \in Vehicle \union {NoVehicle}
    /\ carList \in Seq(Car)
    /\ vehicleAdded \in BOOLEAN
    /\ placed \in Nat
    /\ tracing \in (0 .. MaxMoments + 1) \union {Idle}
    /\ uses \subseteq [car : Nat, scaled : Nat, answer : Nat, left : Nat]
    /\ answered \in Nat
    /\ up \in BOOLEAN

\* carList holds a car exactly when vehicleAdded says so, one at most, and
\* never one that a mesh has scaled: updateScene() and updateVehicle() read
\* carList[0], VPL() calls pop_back(), and the car that stays is the last
\* one placed.
OneCar ==
    /\ Len(carList) = IF vehicleAdded THEN 1 ELSE 0
    /\ vehicleAdded => carList[1].id = placed /\ carList[1].scaled = 0

\* Every moment that contains a car has it at the size of the mesh.
ScaledOnce == \A u \in uses : u.scaled = 1

\* A car is part of one moment of one answer at most, whoever asks, and it
\* is not used while it is still waiting.
UsedOnce ==
    /\ \A u, v \in uses : u.car = v.car => u = v
    /\ \A u \in uses : u.car <= placed /\ (vehicleAdded => u.car < placed)

\* The last car placed is not lost: it is waiting or has been used.
CarNotLost == placed > 0 => vehicleAdded \/ \E u \in uses : u.car = placed

\* The inductive invariant.
IndInv == TypeOK /\ OneCar /\ ScaledOnce /\ UsedOnce /\ CarNotLost

\* What a page sends is handled, unless the page goes away or the process
\* crashes.
Handled ==
    \A p \in Pages : inbox[p] # <<>> ~> inbox[p] = <<>> \/ ~ up

=============================================================================

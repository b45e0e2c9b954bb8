-------------------------- MODULE RayService_proof --------------------------
(***************************************************************************)
(* The obstacle car of RayService, for any number of pages, scenarios and  *)
(* moments: one car waits at most, it is used once, at its proper size,    *)
(* and it is not lost.                                                     *)
(***************************************************************************)
EXTENDS RayService, SequenceTheorems, TLAPS

Use == [car : Nat, scaled : Nat, answer : Nat, left : Nat]

LEMMA InitInv == Init => IndInv
<1> SUFFICES ASSUME Init PROVE IndInv
  OBVIOUS
<1> USE RayServiceAssumption
<1>1. TypeOK
  <2>1. inbox \in [Pages -> Seq(Message)] /\ carList \in Seq(Car)
    BY EmptySeq DEF Init
  <2>2. sent \in 0 .. MaxMessages /\ connected \subseteq Pages
    BY DEF Init
  <2>3. /\ sceneDate \in Scenarios \union {NoScene} /\ frame \in Frames
        /\ txData \in Vehicle \union {NoVehicle} /\ rxData \in Vehicle \union {NoVehicle}
    BY DEF Init, Frames
  <2>4. /\ vehicleAdded \in BOOLEAN /\ placed \in Nat /\ answered \in Nat /\ up \in BOOLEAN
        /\ tracing \in (0 .. MaxMoments + 1) \union {Idle}
        /\ uses \subseteq Use
    BY DEF Init
  <2>5. QED
    BY <2>1, <2>2, <2>3, <2>4 DEF TypeOK, Use
<1>2. OneCar /\ ScaledOnce /\ UsedOnce /\ CarNotLost
  BY DEF Init, OneCar, ScaledOnce, UsedOnce, CarNotLost
<1>3. QED
  BY <1>1, <1>2 DEF IndInv

\* What OneCar, ScaledOnce, UsedOnce and CarNotLost speak of.
cars == <<carList, vehicleAdded, placed, uses>>

LEMMA CarsUnchanged ==
    ASSUME IndInv, TypeOK', UNCHANGED cars
    PROVE  IndInv'
BY DEF IndInv, cars, OneCar, ScaledOnce, UsedOnce, CarNotLost

\* A message is taken from the inbox of a page.
LEMMA ReceivesType ==
    ASSUME TypeOK, NEW p \in Pages, NEW type, Receives(p, type)
    PROVE  /\ inbox' \in [Pages -> Seq(Message)]
           /\ sent' \in 0 .. MaxMessages /\ connected' \subseteq Pages
           /\ Head(inbox[p]) \in Message
           /\ Head(inbox[p]).type = type
<1>1. inbox[p] \in Seq(Message) /\ inbox[p] # <<>>
  BY DEF TypeOK, Receives
<1>2. Head(inbox[p]) \in Message /\ Tail(inbox[p]) \in Seq(Message)
  BY <1>1, HeadTailProperties
<1>3. QED
  BY <1>2 DEF TypeOK, Receives

LEMMA VehicleMessage ==
    ASSUME NEW m \in Message, m.type = "vehicle"
    PROVE  m.place \in Places /\ m.dynamic \in BOOLEAN
BY DEF Message, Places

-----------------------------------------------------------------------------
LEMMA SendInv ==
    ASSUME IndInv, NEW p \in Pages, NEW m \in Message, Send(p, m)
    PROVE  IndInv'
<1> USE RayServiceAssumption
<1>1. inbox[p] \in Seq(Message)
  BY DEF IndInv, TypeOK
<1>2. Append(inbox[p], m) \in Seq(Message)
  BY <1>1, AppendProperties
<1>3. TypeOK'
  BY <1>2 DEF IndInv, TypeOK, Send, sceneVars, carVars, answerVars
<1>4. QED
  BY <1>3, CarsUnchanged DEF Send, cars, carVars, answerVars

LEMMA ConnectInv ==
    ASSUME IndInv, NEW p \in Pages, Connect(p) \/ Disconnect(p)
    PROVE  IndInv'
<1>1. <<>> \in Seq(Message)
  OBVIOUS
<1>2. TypeOK'
  BY <1>1 DEF IndInv, TypeOK, Connect, Disconnect, sceneVars, carVars, answerVars
<1>3. QED
  BY <1>2, CarsUnchanged DEF Connect, Disconnect, cars, carVars, answerVars

LEMMA UpdateSceneInv ==
    ASSUME IndInv, NEW p \in Pages, UpdateScene(p)
    PROVE  IndInv'
<1>1. TypeOK /\ Receives(p, "senario")
  BY DEF IndInv, UpdateScene
<1>2. Head(inbox[p]).scene \in Scenarios
  <2>1. Head(inbox[p]) \in Message /\ Head(inbox[p]).type = "senario"
    BY <1>1, ReceivesType
  <2>2. QED
    BY <2>1 DEF Message
<1>3. TypeOK'
  BY <1>1, <1>2, ReceivesType DEF TypeOK, UpdateScene, Frames, carVars, answerVars
<1>4. QED
  BY <1>3, CarsUnchanged DEF UpdateScene, cars, carVars, answerVars

LEMMA UpdateTxRxInv ==
    ASSUME IndInv, NEW p \in Pages, UpdateTx(p) \/ UpdateRx(p)
    PROVE  IndInv'
<1>1. TypeOK /\ Receives(p, "vehicle")
  BY DEF IndInv, UpdateTx, UpdateRx
<1>2. Placed(Head(inbox[p])) \in Vehicle
  <2>1. Head(inbox[p]).place \in Places /\ Head(inbox[p]).dynamic \in BOOLEAN
    BY <1>1, ReceivesType, VehicleMessage
  <2>2. frame \in Frames
    BY <1>1 DEF TypeOK
  <2>3. QED
    BY <2>1, <2>2 DEF Placed, Vehicle
<1>3. TypeOK'
  BY <1>1, <1>2, ReceivesType DEF TypeOK, UpdateTx, UpdateRx, sceneVars, carVars, answerVars
<1>4. QED
  BY <1>3, CarsUnchanged DEF UpdateTx, UpdateRx, cars, carVars, answerVars

\* The car that is placed is the only one in the list, and new.
LEMMA UpdateCarInv ==
    ASSUME IndInv, NEW p \in Pages, UpdateCar(p)
    PROVE  IndInv'
<1> DEFINE car == [id |-> placed + 1, place |-> Head(inbox[p]).place, frame |-> frame, scaled |-> 0]
<1>1. TypeOK /\ OneCar /\ ScaledOnce /\ UsedOnce /\ CarNotLost /\ Receives(p, "vehicle")
  BY DEF IndInv, UpdateCar
<1>2. car \in Car /\ car.id = placed + 1 /\ car.scaled = 0
  <2>1. Head(inbox[p]).place \in Places
    BY <1>1, ReceivesType, VehicleMessage
  <2>2. frame \in Frames /\ placed \in Nat
    BY <1>1 DEF TypeOK
  <2>3. QED
    BY <2>1, <2>2 DEF Car
<1>3. /\ carList' = Append(IF vehicleAdded THEN <<>> ELSE carList, car)
      /\ vehicleAdded' = TRUE /\ placed' = placed + 1
      /\ UNCHANGED <<sceneVars, txData, rxData, tracing, answerVars>>
  BY DEF UpdateCar
<1> HIDE DEF car
<1>4. (IF vehicleAdded THEN <<>> ELSE carList) = <<>>
  <2>1. ~ vehicleAdded => Len(carList) = 0
    BY <1>1 DEF OneCar
  <2>2. carList \in Seq(Car)
    BY <1>1 DEF TypeOK
  <2>3. QED
    BY <2>1, <2>2, EmptySeq
<1>5. carList' = Append(<<>>, car)
  BY <1>3, <1>4
<1>6. carList' \in Seq(Car) /\ Len(carList') = 1 /\ carList'[1] = car
  <2>1. <<>> \in Seq(Car) /\ Len(<<>>) = 0
    BY EmptySeq
  <2>2. QED
    BY <1>2, <1>5, <2>1, AppendProperties
<1>7. TypeOK'
  BY <1>1, <1>3, <1>6, ReceivesType DEF TypeOK, sceneVars, answerVars
<1>8. OneCar'
  BY <1>2, <1>3, <1>6 DEF OneCar
<1>9. uses' = uses
  BY <1>3 DEF answerVars
<1>10. ScaledOnce'
  BY <1>1, <1>9 DEF ScaledOnce
<1>11. UsedOnce'
  <2>1. \A u \in uses : u.car \in Nat /\ placed \in Nat
    BY <1>1 DEF TypeOK
  <2>2. QED
    BY <1>1, <1>3, <1>9, <2>1 DEF UsedOnce
<1>12. CarNotLost'
  BY <1>3 DEF CarNotLost
<1>13. QED
  BY <1>7, <1>8, <1>10, <1>11, <1>12 DEF IndInv

LEMMA AskInv ==
    ASSUME IndInv, NEW p \in Pages, Ask(p) \/ AskWithoutVehicle(p)
    PROVE  IndInv'
<1> USE RayServiceAssumption
<1>1. TypeOK /\ Receives(p, "2")
  BY DEF IndInv, Ask, AskWithoutVehicle
<1>2. CASE Ask(p)
  <2>1. tracing' \in 0 .. MaxMoments + 1
    BY <1>2 DEF Ask
  <2>2. TypeOK'
    BY <1>1, <1>2, <2>1, ReceivesType DEF TypeOK, Ask, sceneVars, carVars, answerVars
  <2>3. QED
    BY <1>2, <2>2, CarsUnchanged DEF Ask, cars, carVars, answerVars
<1>3. CASE AskWithoutVehicle(p)
  <2>1. TypeOK'
    BY <1>1, <1>3, ReceivesType DEF TypeOK, AskWithoutVehicle, Crash, sceneVars, carVars
  <2>2. QED
    BY <1>3, <2>1, CarsUnchanged DEF AskWithoutVehicle, Crash, cars, carVars
<1>4. QED
  BY <1>2, <1>3

\* A moment uses the car that waits, and takes it out of the list.
LEMMA VPLInv ==
    ASSUME IndInv, VPL
    PROVE  IndInv'
<1> USE RayServiceAssumption
<1>1. TypeOK /\ OneCar /\ ScaledOnce /\ UsedOnce /\ CarNotLost
  BY DEF IndInv
<1>2. /\ carList \in Seq(Car) /\ placed \in Nat /\ answered \in Nat /\ tracing \in Nat
      /\ tracing - 1 \in 0 .. MaxMoments + 1
      /\ vehicleAdded \in BOOLEAN
      /\ \A u \in uses : u.car \in Nat
  BY <1>1 DEF TypeOK, VPL, Idle
<1>3. CASE vehicleAdded
  <2> DEFINE use == [car |-> Scaled[1].id, scaled |-> Scaled[1].scaled,
                     answer |-> answered + 1, left |-> tracing]
  <2>1. /\ Len(carList) = 1 /\ carList # <<>>
        /\ carList[1] \in Car /\ carList[1].id = placed /\ carList[1].scaled = 0
    <3>1. /\ Len(carList) = 1
          /\ carList[1].id = placed /\ carList[1].scaled = 0
      BY <1>1, <1>3 DEF OneCar
    <3>2. carList # <<>>
      BY <3>1, EmptySeq
    <3>3. carList[1] \in Car
      <4>1. 1 \in 1 .. Len(carList)
        BY <3>1
      <4>2. QED
        BY <1>2, <4>1, ElementOfSeq
    <3>4. QED
      BY <3>1, <3>2, <3>3
  <2>2. /\ Len(Scaled) = 1
        /\ Scaled[1].id = placed /\ Scaled[1].scaled = 1
    BY <1>2, <2>1 DEF Scaled, Car
  <2>3. /\ use \in Use /\ use.car = placed /\ use.scaled = 1
    BY <1>2, <2>2 DEF Use
  <2>4. /\ uses' = uses \union {use}
        /\ carList' = Front(Scaled) /\ vehicleAdded' = FALSE
        /\ frame' = sceneDate /\ tracing' = tracing - 1
        /\ UNCHANGED <<pageVars, sceneDate, txData, rxData, placed, answered, up>>
    BY <1>3, <2>1 DEF VPL, CarsLeft
  <2> HIDE DEF use
  <2>5. carList' = <<>>
    <3>1. Front(Scaled) = SubSeq(Scaled, 1, 0)
      BY <2>2 DEF Front
    <3>2. QED
      BY <2>4, <3>1, SubSeqEmpty
  <2>6. TypeOK'
    <3>1. uses' \subseteq Use
      BY <1>1, <2>3, <2>4 DEF TypeOK, Use
    <3>2. carList' \in Seq(Car) /\ vehicleAdded' \in BOOLEAN
      BY <2>4, <2>5, EmptySeq
    <3>3. frame' \in Frames /\ tracing' \in (0 .. MaxMoments + 1) \union {Idle}
      BY <1>1, <1>2, <2>4 DEF TypeOK, Frames
    <3>4. QED
      BY <1>1, <2>4, <3>1, <3>2, <3>3 DEF TypeOK, pageVars, Use
  <2>7. OneCar' /\ ScaledOnce'
    BY <1>1, <2>3, <2>4, <2>5 DEF OneCar, ScaledOnce
  <2>8. UsedOnce'
    <3>1. \A u \in uses : u.car < placed
      BY <1>1, <1>3 DEF UsedOnce
    <3>2. QED
      BY <1>1, <1>2, <2>3, <2>4, <3>1 DEF UsedOnce
  <2>9. CarNotLost'
    BY <2>3, <2>4 DEF CarNotLost
  <2>10. QED
    BY <2>6, <2>7, <2>8, <2>9 DEF IndInv
<1>4. CASE ~ vehicleAdded
  <2>1. carList = <<>>
    BY <1>1, <1>2, <1>4, EmptySeq DEF OneCar
  <2>2. /\ uses' = uses /\ carList' = <<>> /\ vehicleAdded' = FALSE
        /\ frame' = sceneDate /\ tracing' = tracing - 1
        /\ UNCHANGED <<pageVars, sceneDate, txData, rxData, placed, answered, up>>
    BY <1>4, <2>1 DEF VPL, CarsLeft, Scaled
  <2>3. TypeOK'
    BY <1>1, <1>2, <2>1, <2>2 DEF TypeOK, pageVars, Frames
  <2>4. UNCHANGED cars
    BY <1>2, <1>4, <2>1, <2>2 DEF cars
  <2>5. QED
    BY <2>3, <2>4, CarsUnchanged
<1>5. QED
  BY <1>3, <1>4

LEMMA AnswerInv ==
    ASSUME IndInv, Answer \/ VPLCrashes
    PROVE  IndInv'
<1>1. TypeOK'
  <2>1. CASE Answer
    BY <2>1 DEF IndInv, TypeOK, Answer, pageVars, sceneVars, carVars
  <2>2. CASE VPLCrashes
    BY <2>2 DEF IndInv, TypeOK, VPLCrashes, Crash, pageVars, sceneVars, carVars
  <2>3. QED
    BY <2>1, <2>2
<1>2. QED
  BY <1>1, CarsUnchanged DEF Answer, VPLCrashes, Crash, cars, carVars

LEMMA StepInv == IndInv /\ [Next]_vars => IndInv'
<1> SUFFICES ASSUME IndInv, [Next]_vars PROVE IndInv'
  OBVIOUS
<1>1. ASSUME NEW p \in Pages, NEW m \in Message, Send(p, m) PROVE IndInv'
  BY <1>1, SendInv
<1>2. ASSUME NEW p \in Pages, Connect(p) \/ Disconnect(p) PROVE IndInv'
  BY <1>2, ConnectInv
<1>3. ASSUME NEW p \in Pages, Handle(p) PROVE IndInv'
  BY <1>3, UpdateSceneInv, UpdateTxRxInv, UpdateCarInv, AskInv DEF Handle
<1>4. ASSUME Trace PROVE IndInv'
  BY <1>4, VPLInv, AnswerInv DEF Trace
<1>5. ASSUME UNCHANGED vars PROVE IndInv'
  <2>1. TypeOK'
    BY <1>5 DEF IndInv, TypeOK, vars, pageVars, sceneVars, carVars, answerVars
  <2>2. QED
    BY <1>5, <2>1, CarsUnchanged DEF vars, cars, carVars, answerVars
<1>6. QED
  BY <1>1, <1>2, <1>3, <1>4, <1>5 DEF Next

\* IndInv is an invariant.
THEOREM Invariance == Spec => []IndInv
<1>1. Init => IndInv
  BY InitInv
<1>2. IndInv /\ [Next]_vars => IndInv'
  BY StepInv
<1>3. QED
  BY <1>1, <1>2, PTL DEF Spec

\* An obstacle car is part of one moment of one answer at most, at its
\* proper size: what updateVehicle() clears, VPL() pops and Mesh::setMesh()
\* scales in place fits together, whatever the pages send in which order.
THEOREM CarUsedOnce == Spec => [](UsedOnce /\ ScaledOnce)
<1>1. IndInv => UsedOnce /\ ScaledOnce
  BY DEF IndInv
<1>2. QED
  BY <1>1, Invariance, PTL

\* The last car placed waits for a question or has been part of an answer.
THEOREM LastCarNotLost == Spec => []CarNotLost
<1>1. IndInv => CarNotLost
  BY DEF IndInv
<1>2. QED
  BY <1>1, Invariance, PTL

=============================================================================

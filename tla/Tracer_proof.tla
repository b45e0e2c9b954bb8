---------------------------- MODULE Tracer_proof ----------------------------
(***************************************************************************)
(* IndInv is an invariant of Tracer for every reflection limit, every      *)
(* number of rays and every obstacle; PathShape is one of its conjuncts.   *)
(***************************************************************************)
EXTENDS Tracer, SequenceTheorems, TLAPS

Frame == [type : {"Tx", "reflect", "diff"}, traced : 0 .. Rays]

\* The node at depth k is of the given type.
At(list, k, type) == k \in 1 .. Len(list) /\ list[k].type = type

\* A node that has sent one ray more is the same node: the stack keeps its
\* length and the types of its nodes.
LEMMA SentKeepsTypes ==
    ASSUME TypeOK, Sending
    PROVE  /\ Sent \in Seq(Frame)
           /\ Len(Sent) = Len(nodeList)
           /\ Len(nodeList) \in Nat \ {0}
           /\ \A k \in 1 .. Len(nodeList) : Sent[k].type = nodeList[k].type
<1> USE TracerAssumption
<1> DEFINE n == Len(nodeList)
<1>1. /\ nodeList \in Seq(Frame)
      /\ n \in Nat \ {0}
  BY EmptySeq DEF TypeOK, Sending, Frame
<1>2. nodeList[n] \in Frame
  BY <1>1, ElementOfSeq
<1>3. /\ nodeList[n].type \in {"Tx", "reflect", "diff"}
      /\ nodeList[n].traced \in Nat
      /\ nodeList[n].traced < RaysOf(nodeList[n], n)
  BY <1>1, <1>2 DEF Sending, Top, Last, Frame
<1>4. RaysOf(nodeList[n], n) <= Rays
  BY <1>1, <1>3 DEF RaysOf
<1>5. RaysOf(nodeList[n], n) \in Nat
  BY <1>1, <1>3 DEF RaysOf
<1>6. nodeList[n].traced + 1 \in 0 .. Rays
  BY <1>3, <1>4, <1>5
<1>7. [nodeList[n] EXCEPT !.traced = @ + 1] \in Frame
  BY <1>2, <1>6 DEF Frame
<1>8. [nodeList[n] EXCEPT !.traced = @ + 1].type = nodeList[n].type
  BY <1>2 DEF Frame
<1>9. Sent = [nodeList EXCEPT ![n] = [nodeList[n] EXCEPT !.traced = @ + 1]]
  BY DEF Sent
<1>10. QED
  BY <1>1, <1>7, <1>8, <1>9, ExceptSeq

\* A stack with the same types at the same depths satisfies the same
\* conditions on types.
LEMMA SameTypes ==
    ASSUME TypeOK, TxFirst, DiffractCounted, DepthBounded,
           nodeList' \in Seq(Frame),
           Len(nodeList') = Len(nodeList),
           \A k \in 1 .. Len(nodeList) : nodeList'[k].type = nodeList[k].type,
           diffractNum' = diffractNum
    PROVE  TxFirst' /\ DiffractCounted' /\ DepthBounded'
<1>1. Len(nodeList) \in Nat
  BY DEF TypeOK
<1>2. TxFirst'
  BY <1>1 DEF TxFirst
<1>3. DiffractCounted'
  BY <1>1 DEF DiffractCounted
<1>4. DepthBounded'
  BY <1>1 DEF DepthBounded
<1>5. QED
  BY <1>2, <1>3, <1>4

\* Putting a reflection or a corner on top of a node that sends keeps the
\* conditions on types: the node below is no deeper than the limit.
LEMMA Push ==
    ASSUME TypeOK, TxFirst, DiffractCounted, DepthBounded, Sending,
           NEW type \in {"reflect", "diff"},
           nodeList' = Append(Sent, NewNode(type)),
           type = "reflect" => diffractNum' = diffractNum,
           type = "diff" => diffractNum = 0 /\ diffractNum' = 1
    PROVE  /\ nodeList' \in Seq(Frame)
           /\ TxFirst' /\ DiffractCounted' /\ DepthBounded'
<1> USE TracerAssumption
<1> DEFINE n == Len(nodeList)
<1>1. /\ Sent \in Seq(Frame)
      /\ Len(Sent) = n
      /\ n \in Nat \ {0}
      /\ \A k \in 1 .. n : Sent[k].type = nodeList[k].type
  BY SentKeepsTypes
<1>2. /\ NewNode(type) \in Frame
      /\ NewNode(type).type = type
  BY DEF NewNode, Frame
<1>3. /\ nodeList' \in Seq(Frame)
      /\ Len(nodeList') = n + 1
      /\ \A k \in 1 .. n : nodeList'[k] = Sent[k]
      /\ nodeList'[n + 1] = NewNode(type)
  <2> HIDE DEF n
  <2> QED
    BY <1>1, <1>2, AppendProperties
<1>4. /\ \A k \in 1 .. n : nodeList'[k].type = nodeList[k].type
      /\ nodeList'[n + 1].type = type
  BY <1>1, <1>2, <1>3
<1>5. 1 .. Len(nodeList') = (1 .. n) \union {n + 1}
  BY <1>1, <1>3
<1>6. TxFirst'
  BY <1>1, <1>3, <1>4 DEF TxFirst
<1>7. DiffractCounted'
  <2>1. CASE type = "reflect"
    BY <2>1, <1>1, <1>3, <1>4 DEF DiffractCounted
  <2>2. CASE type = "diff"
    <3>1. \A k \in 1 .. n : nodeList[k].type # "diff"
      BY <2>2 DEF DiffractCounted
    <3>2. \A k \in 1 .. Len(nodeList') : nodeList'[k].type = "diff" => k = n + 1
      BY <3>1, <1>4, <1>5
    <3>3. QED
      BY <2>2, <3>2, <1>1, <1>3, <1>4 DEF DiffractCounted
  <2>3. QED
    BY <2>1, <2>2
<1>8. \* The node that sends: the transmitter at depth 1, a corner, or a
      \* reflection within the limit.
      /\ nodeList[n].type = "reflect" => n <= MaxReflectNum
      /\ nodeList[n].type # "diff" => n <= MaxReflectNum
  <2>1. nodeList[n] \in Frame
    <3>1. nodeList \in Seq(Frame)
      BY DEF TypeOK, Frame
    <3>2. QED
      BY <1>1, <3>1, ElementOfSeq
  <2>2. nodeList[n].type \in {"Tx", "reflect", "diff"} /\ nodeList[n].traced \in Nat
    BY <2>1 DEF Frame
  <2>3. nodeList[n].traced < RaysOf(nodeList[n], n)
    BY <1>1 DEF Sending, Top, Last
  <2>4. nodeList[n].type = "reflect" => n <= MaxReflectNum
    BY <2>2, <2>3, <1>1 DEF RaysOf
  <2>5. nodeList[n].type = "Tx" => n <= MaxReflectNum
    BY <1>1 DEF TxFirst
  <2>6. QED
    BY <2>2, <2>4, <2>5
<1>9. type = "diff" => n + 1 <= MaxReflectNum + 1
  <2>1. type = "diff" => nodeList[n].type # "diff"
    BY <1>1 DEF DiffractCounted
  <2>2. QED
    BY <2>1, <1>1, <1>8
<1>10. DepthBounded'
  <2>1. ASSUME NEW k \in 1 .. Len(nodeList')
        PROVE  /\ nodeList'[k].type = "diff" => k <= MaxReflectNum + 1
               /\ k < Len(nodeList') /\ nodeList'[k].type = "reflect" => k <= MaxReflectNum
    <3>1. CASE k = n + 1
      BY <3>1, <1>1, <1>3, <1>4, <1>9
    <3>2. CASE k = n
      BY <3>2, <1>1, <1>3, <1>4, <1>8 DEF DepthBounded
    <3>3. CASE k \in 1 .. n - 1
      BY <3>3, <1>1, <1>3, <1>4 DEF DepthBounded
    <3>4. QED
      BY <2>1, <3>1, <3>2, <3>3, <1>1, <1>3
  <2>2. QED
    BY <2>1 DEF DepthBounded
<1>11. QED
  BY <1>3, <1>6, <1>7, <1>10

\* Taking the top off the stack keeps the conditions on types, and
\* diffractNum still tells whether there is a corner.
LEMMA Pop ==
    ASSUME TypeOK, TxFirst, DiffractCounted, DepthBounded,
           nodeList # <<>>,
           nodeList' = Front(nodeList),
           diffractNum' = IF Top.type = "diff" THEN diffractNum - 1 ELSE diffractNum
    PROVE  /\ nodeList' \in Seq(Frame)
           /\ diffractNum' \in 0 .. 1
           /\ TxFirst' /\ DiffractCounted' /\ DepthBounded'
<1> DEFINE n == Len(nodeList)
<1>1. /\ nodeList \in Seq(Frame)
      /\ n \in Nat \ {0}
  BY EmptySeq DEF TypeOK, Frame
<1>2. /\ nodeList' \in Seq(Frame)
      /\ Len(nodeList') = n - 1
      /\ \A k \in 1 .. n - 1 : nodeList'[k] = nodeList[k]
  <2>1. nodeList' = SubSeq(nodeList, 1, n - 1)
    BY DEF Front
  <2>2. n - 1 \in Int /\ \A k \in 1 .. n - 1 : nodeList[k] \in Frame
    BY <1>1, ElementOfSeq
  <2> HIDE DEF n
  <2>3. /\ SubSeq(nodeList, 1, n - 1) \in Seq(Frame)
        /\ Len(SubSeq(nodeList, 1, n - 1)) = IF 1 <= n - 1 THEN n - 1 - 1 + 1 ELSE 0
        /\ \A k \in 1 .. n - 1 - 1 + 1 : SubSeq(nodeList, 1, n - 1)[k] = nodeList[1 + k - 1]
    BY <2>2, SubSeqProperties
  <2>4. QED
    BY <1>1, <2>1, <2>3
<1>3. diffractNum' = IF nodeList[n].type = "diff" THEN diffractNum - 1 ELSE diffractNum
  BY DEF Top, Last
<1>4. diffractNum \in 0 .. 1
  BY DEF TypeOK
<1>5. TxFirst'
  BY <1>1, <1>2 DEF TxFirst
<1>6. DepthBounded'
  BY <1>1, <1>2 DEF DepthBounded
<1>7. diffractNum' \in 0 .. 1 /\ DiffractCounted'
  <2>1. CASE nodeList[n].type = "diff"
    <3>1. diffractNum = 1 /\ diffractNum' = 0
      BY <2>1, <1>1, <1>3 DEF DiffractCounted
    <3>2. \A k \in 1 .. n - 1 : nodeList[k].type # "diff"
      BY <2>1, <1>1 DEF DiffractCounted
    <3>3. QED
      BY <3>1, <3>2, <1>1, <1>2 DEF DiffractCounted
  <2>2. CASE nodeList[n].type # "diff"
    <3>1. diffractNum' = diffractNum
      BY <2>2, <1>3
    <3>2. (\E k \in 1 .. n - 1 : nodeList[k].type = "diff")
             <=> \E k \in 1 .. n : nodeList[k].type = "diff"
      BY <2>2, <1>1
    <3>3. QED
      BY <3>1, <3>2, <1>1, <1>2, <1>4 DEF DiffractCounted
  <2>3. QED
    BY <2>1, <2>2
<1>8. QED
  BY <1>2, <1>5, <1>6, <1>7

\* What a ray that passes the receiver records: a path of one of the three
\* kinds, well typed, and well shaped when it is bent.
LEMMA Record ==
    ASSUME IndInv, Sending,
           NEW p \in IF Len(nodeList) + 1 > 2 THEN {BentPath} ELSE DirectPaths
    PROVE  /\ p \in [type : PathType, nodes : Seq(NodeType)]
           /\ p.type = "NLOSb" => IsBent(p.nodes)
           /\ p.type # "NLOSv"
<1> USE TracerAssumption
<1> DEFINE n == Len(nodeList)
<1>1. /\ nodeList \in Seq(Frame)
      /\ n \in Nat \ {0}
      /\ \A k \in 1 .. n : nodeList[k].type \in {"Tx", "reflect", "diff"}
  <2>1. nodeList \in Seq(Frame) /\ n \in Nat \ {0}
    BY EmptySeq DEF IndInv, TypeOK, Sending, Frame
  <2>2. \A k \in 1 .. n : nodeList[k] \in Frame
    BY <2>1, ElementOfSeq
  <2>3. QED
    BY <2>1, <2>2 DEF Frame
<1>2. CASE n + 1 > 2
  <2> DEFINE s == [k \in 1 .. n |-> nodeList[k].type]
  <2>1. /\ s \in Seq(NodeType)
        /\ Len(s) = n
    BY <1>1 DEF NodeType
  <2>2. "Rx" \in NodeType
    BY DEF NodeType
  <2>3. p.type = "NLOSb" /\ p.nodes = Append(s, "Rx") /\ p = [type |-> "NLOSb", nodes |-> p.nodes]
    <3>1. p = BentPath
      BY <1>2
    <3>2. BentPath = [type |-> "NLOSb", nodes |-> Append(s, "Rx")]
      BY DEF BentPath
    <3> HIDE DEF s
    <3>3. QED
      BY <3>1, <3>2
  <2>4. /\ p.nodes \in Seq(NodeType)
        /\ Len(p.nodes) = n + 1
        /\ \A k \in 1 .. n : p.nodes[k] = s[k]
        /\ p.nodes[n + 1] = "Rx"
    <3> HIDE DEF s, n
    <3> QED
      BY <2>1, <2>2, <2>3, <1>1, AppendProperties
  <2>5. \A k \in 1 .. n : p.nodes[k] = nodeList[k].type
    BY <2>4
  <2>6. \A k \in 1 .. n : p.nodes[k] = "Tx" <=> k = 1
    BY <2>5 DEF IndInv, TxFirst
  <2>7. \A k \in 2 .. n : p.nodes[k] \in {"reflect", "diff"}
    BY <1>1, <2>5, <2>6
  <2>8. \A j, k \in 1 .. n + 1 : p.nodes[j] = "diff" /\ p.nodes[k] = "diff" => j = k
    BY <1>1, <2>4, <2>5 DEF IndInv, DiffractCounted
  <2>9. /\ n <= MaxReflectNum + 1
        /\ n = MaxReflectNum + 1 => nodeList[n].type = "diff"
    <3>1. nodeList[n].traced < RaysOf(nodeList[n], n)
      BY <1>1 DEF Sending, Top, Last
    <3>2. nodeList[n].traced \in Nat
      <4>1. nodeList[n] \in Frame
        BY <1>1, ElementOfSeq
      <4>2. QED
        BY <4>1 DEF Frame
    <3>3. nodeList[n].type \in {"reflect", "diff"}
      BY <1>1, <1>2, <2>5, <2>7
    <3>4. nodeList[n].type = "reflect" => n <= MaxReflectNum
      BY <3>1, <3>2, <1>1 DEF RaysOf
    <3>5. nodeList[n].type = "diff" => n <= MaxReflectNum + 1
      BY <1>1 DEF IndInv, DepthBounded
    <3>6. QED
      BY <3>3, <3>4, <3>5, <1>1
  <2>10. IsBent(p.nodes)
    BY <1>1, <1>2, <2>4, <2>5, <2>6, <2>7, <2>8, <2>9 DEF IsBent
  <2>11. QED
    BY <2>3, <2>4, <2>10 DEF PathType
<1>3. CASE ~ n + 1 > 2
  <2>1. p \in DirectPaths
    BY <1>3
  <2>2. <<"Tx", "none">> \in Seq(NodeType) /\ <<"Tx", "reflect2", "none">> \in Seq(NodeType)
    BY DEF NodeType
  <2> DEFINE direct == <<"Tx", "none">>
             ground == <<"Tx", "reflect2", "none">>
  <2>3. p \in {[type |-> "LOS", nodes |-> direct], [type |-> "LOSg", nodes |-> ground]}
    BY <2>1 DEF DirectPaths
  <2>4. direct \in Seq(NodeType) /\ ground \in Seq(NodeType)
    BY <2>2
  <2> HIDE DEF direct, ground
  <2>5. QED
    BY <2>3, <2>4 DEF PathType
<1>4. QED
  BY <1>2, <1>3

\* The paths around a car are well typed, and as long as AroundShape says.
LEMMA Around ==
    ASSUME obstacle \in Nat, NEW over \in NodeType
    PROVE  /\ AroundVehicle(over) \in [type : PathType, nodes : Seq(NodeType)]
           /\ AroundVehicle(over).type = "NLOSv"
           /\ Len(AroundVehicle(over).nodes) = obstacle + 2
<1> DEFINE first == <<"Tx">>
           middle == [k \in 1 .. obstacle |-> over]
           last == <<"none">>
<1>1. middle \in Seq(NodeType) /\ Len(middle) = obstacle
  OBVIOUS
<1>2. /\ first \in Seq(NodeType) /\ last \in Seq(NodeType)
      /\ Len(first) = 1 /\ Len(last) = 1
  BY DEF NodeType
<1>3. AroundVehicle(over) = [type |-> "NLOSv", nodes |-> first \o middle \o last]
  BY DEF AroundVehicle
<1> HIDE DEF first, middle, last
<1>4. /\ first \o middle \in Seq(NodeType)
      /\ Len(first \o middle) = 1 + obstacle
  <2>1. /\ first \o middle \in Seq(NodeType)
        /\ Len(first \o middle) = Len(first) + Len(middle)
    <3>1. first \in Seq(NodeType) /\ middle \in Seq(NodeType)
      BY <1>1, <1>2
    <3>2. QED
      BY <3>1, ConcatProperties
  <2>2. QED
    BY <1>1, <1>2, <2>1
<1>5. /\ first \o middle \o last \in Seq(NodeType)
      /\ Len(first \o middle \o last) = 1 + obstacle + 1
  BY <1>2, <1>4, ConcatProperties
<1>6. QED
  BY <1>3, <1>5 DEF PathType

-----------------------------------------------------------------------------
LEMMA InitInv == Init => IndInv
<1> SUFFICES ASSUME Init PROVE IndInv
  OBVIOUS
<1> USE TracerAssumption
<1>1. /\ nodeList \in Seq(Frame)
      /\ Len(nodeList) = 1
      /\ nodeList[1].type = "Tx"
  <2>1. NewNode("Tx") \in Frame /\ NewNode("Tx").type = "Tx"
    BY DEF NewNode, Frame
  <2>2. QED
    BY <2>1 DEF Init
<1>2. TypeOK
  BY <1>1 DEF Init, TypeOK, Frame
<1>3. TxFirst /\ DiffractCounted /\ DepthBounded /\ PathShape /\ AroundShape
  BY <1>1 DEF Init, TxFirst, DiffractCounted, DepthBounded, PathShape, AroundShape
<1>4. QED
  BY <1>2, <1>3 DEF IndInv

\* One step of the tracer, by action; the actions that put a node on the
\* stack or take one off are instances of Push and Pop.
LEMMA StepInv == IndInv /\ [Next]_vars => IndInv'
<1> SUFFICES ASSUME IndInv, [Next]_vars PROVE IndInv'
  OBVIOUS
<1> USE TracerAssumption
<1>1. TypeOK /\ TxFirst /\ DiffractCounted /\ DepthBounded /\ PathShape /\ AroundShape
  BY DEF IndInv
<1>2. ASSUME Miss PROVE IndInv'
  <2>1. nodeList' = Sent /\ Sending /\ UNCHANGED <<obstacle, diffractNum, allPath, phase>>
    BY <1>2 DEF Miss
  <2>2. /\ nodeList' \in Seq(Frame)
        /\ Len(nodeList') = Len(nodeList)
        /\ \A k \in 1 .. Len(nodeList) : nodeList'[k].type = nodeList[k].type
    BY <1>1, <2>1, SentKeepsTypes
  <2>3. TxFirst' /\ DiffractCounted' /\ DepthBounded'
    BY <1>1, <2>1, <2>2, SameTypes
  <2>4. TypeOK' /\ PathShape' /\ AroundShape'
    BY <1>1, <2>1, <2>2 DEF TypeOK, Frame, PathShape, AroundShape
  <2>5. QED
    BY <2>3, <2>4 DEF IndInv
<1>3. ASSUME Receive PROVE IndInv'
  <2> DEFINE new == IF Len(nodeList) + 1 > 2 THEN {BentPath} ELSE DirectPaths
  <2>1. /\ nodeList' = Sent /\ Sending
        /\ allPath' = allPath \union new
        /\ UNCHANGED <<obstacle, diffractNum, phase>>
    BY <1>3 DEF Receive
  <2>2. /\ nodeList' \in Seq(Frame)
        /\ Len(nodeList') = Len(nodeList)
        /\ \A k \in 1 .. Len(nodeList) : nodeList'[k].type = nodeList[k].type
    BY <1>1, <2>1, SentKeepsTypes
  <2>3. TxFirst' /\ DiffractCounted' /\ DepthBounded'
    BY <1>1, <2>1, <2>2, SameTypes
  <2>4. \A p \in new : /\ p \in [type : PathType, nodes : Seq(NodeType)]
                       /\ p.type = "NLOSb" => IsBent(p.nodes)
                       /\ p.type # "NLOSv"
    BY <2>1, Record
  <2> HIDE DEF new
  <2>5. TypeOK' /\ PathShape' /\ AroundShape'
    BY <1>1, <2>1, <2>2, <2>4 DEF TypeOK, Frame, PathShape, AroundShape
  <2>6. QED
    BY <2>3, <2>5 DEF IndInv
<1>4. ASSUME Reflect PROVE IndInv'
  <2>1. /\ nodeList' = Append(Sent, NewNode("reflect")) /\ Sending
        /\ UNCHANGED <<obstacle, diffractNum, allPath, phase>>
    BY <1>4 DEF Reflect
  <2>2. nodeList' \in Seq(Frame) /\ TxFirst' /\ DiffractCounted' /\ DepthBounded'
    BY <1>1, <2>1, Push
  <2>3. TypeOK' /\ PathShape' /\ AroundShape'
    BY <1>1, <2>1, <2>2 DEF TypeOK, Frame, PathShape, AroundShape
  <2>4. QED
    BY <2>2, <2>3 DEF IndInv
<1>5. ASSUME Diffract PROVE IndInv'
  <2>1. /\ nodeList' = Append(Sent, NewNode("diff")) /\ Sending
        /\ diffractNum = 0 /\ diffractNum' = 1
        /\ UNCHANGED <<obstacle, allPath, phase>>
    BY <1>5 DEF Diffract
  <2>2. nodeList' \in Seq(Frame) /\ TxFirst' /\ DiffractCounted' /\ DepthBounded'
    BY <1>1, <2>1, Push
  <2>3. TypeOK' /\ PathShape' /\ AroundShape'
    BY <1>1, <2>1, <2>2 DEF TypeOK, Frame, PathShape, AroundShape
  <2>4. QED
    BY <2>2, <2>3 DEF IndInv
<1>6. ASSUME Return PROVE IndInv'
  <2>1. /\ nodeList # <<>> /\ nodeList' = Front(nodeList)
        /\ diffractNum' = IF Top.type = "diff" THEN diffractNum - 1 ELSE diffractNum
        /\ UNCHANGED <<obstacle, allPath, phase>>
    BY <1>6 DEF Return
  <2>2. /\ nodeList' \in Seq(Frame) /\ diffractNum' \in 0 .. 1
        /\ TxFirst' /\ DiffractCounted' /\ DepthBounded'
    BY <1>1, <2>1, Pop
  <2>3. TypeOK' /\ PathShape' /\ AroundShape'
    BY <1>1, <2>1, <2>2 DEF TypeOK, Frame, PathShape, AroundShape
  <2>4. QED
    BY <2>2, <2>3 DEF IndInv
<1>7. ASSUME ProcessNLOSv PROVE IndInv'
  <2> DEFINE new == IF obstacle = NoVehicle THEN {} ELSE {AroundVehicle("diff2"), AroundVehicle("diff")}
  <2>1. /\ allPath' = allPath \union new
        /\ phase' = "evaluate"
        /\ UNCHANGED <<obstacle, nodeList, diffractNum>>
    BY <1>7 DEF ProcessNLOSv
  <2>2. obstacle # NoVehicle => obstacle \in Crossings /\ obstacle \in Nat
    BY <1>1 DEF TypeOK
  <2>3. \A p \in new : p \in [type : PathType, nodes : Seq(NodeType)]
                       /\ p.type = "NLOSv" /\ Len(p.nodes) = obstacle + 2
                       /\ obstacle \in Crossings
    BY <2>2, Around DEF NodeType
  <2> HIDE DEF new
  <2>4. TypeOK' /\ PathShape' /\ AroundShape'
    BY <1>1, <2>1, <2>3 DEF TypeOK, PathShape, AroundShape
  <2>5. TxFirst' /\ DiffractCounted' /\ DepthBounded'
    BY <1>1, <2>1 DEF TxFirst, DiffractCounted, DepthBounded
  <2>6. QED
    BY <2>4, <2>5 DEF IndInv
<1>8. ASSUME UNCHANGED vars PROVE IndInv'
  BY <1>1, <1>8 DEF vars, IndInv, TypeOK, TxFirst, DiffractCounted, DepthBounded, PathShape, AroundShape
<1>9. QED
  BY <1>2, <1>3, <1>4, <1>5, <1>6, <1>7, <1>8 DEF Next, Trace

\* IndInv is an invariant: verticalPlane() and traceOneRay() keep
\* diffractNum equal to the number of corners on the stack, and the stack
\* never deeper than the limit and one corner allow.
THEOREM Invariance == Spec => []IndInv
<1>1. Init => IndInv
  BY InitInv
<1>2. IndInv /\ [Next]_vars => IndInv'
  BY StepInv
<1>3. QED
  BY <1>1, <1>2, PTL DEF Spec

\* Every bent path recorded by verticalPlane() goes from the transmitter to
\* the receiver over at most MaxReflectNum nodes, one diffraction among them
\* at most.
THEOREM PathsWellShaped == Spec => []PathShape
<1>1. IndInv => PathShape
  BY DEF IndInv
<1>2. QED
  BY <1>1, Invariance, PTL

=============================================================================

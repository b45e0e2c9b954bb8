------------------------------- MODULE Tracer -------------------------------
(***************************************************************************)
(* Tracer: the paths between a transmitter and a receiver among buildings. *)
(* verticalPlane() and traceOneRay() call each other: a node that sends    *)
(* rays has each of them traced to the first thing it meets, and what is   *)
(* met becomes the next node.  nodeList is the chain of nodes from the     *)
(* transmitter to the ray being traced, and the stack of the recursion.    *)
(*                                                                         *)
(* The geometry is left out: a ray may meet any thing that the code        *)
(* distinguishes.  A path is represented by the types of its nodes, and    *)
(* allPath by a set, since no property depends on how often it is found.   *)
(***************************************************************************)
EXTENDS Integers, Sequences, SequencesExt

CONSTANTS
    MaxReflectNum,  \* maxReflectNum
    Rays,           \* the rays of a transmitter or diffracting corner, 360/raySpacing
    Crossings       \* how many edges of an obstacle car the line of sight may cross

ASSUME TracerAssumption ==
    /\ MaxReflectNum \in Nat \ {0}
    /\ Rays \in Nat \ {0}
    /\ Crossings \subseteq Nat

VARIABLES
    obstacle,     \* NoVehicle, or the edges of vehicles[0] that cross the line of sight
    nodeList,     \* the nodes whose verticalPlane() has not returned: type, rays traced
    diffractNum,  \* diffractNum
    allPath,      \* allPath: type and nodes of each path
    phase         \* what VPL() has the tracer do

vars == <<obstacle, nodeList, diffractNum, allPath, phase>>

NoVehicle == -1

NodeType == {"Tx", "Rx", "reflect", "diff", "reflect2", "diff2", "none"}
PathType == {"LOS", "LOSg", "NLOSb", "NLOSv"}

NewNode(type) == [type |-> type, traced |-> 0]

Init ==
    /\ obstacle \in Crossings \union {NoVehicle}
    /\ nodeList = <<NewNode("Tx")>>
    /\ diffractNum = 0
    /\ allPath = {}
    /\ phase = "verticalPlane"

-----------------------------------------------------------------------------
(***************************************************************************)
(* verticalPlane() and traceOneRay()                                       *)
(***************************************************************************)
\* Mutant of RaysOf: the reflection limit is compared with <= .
RaysOneDeeper(node, depth) ==
    CASE node.type \in {"Tx", "diff"} -> Rays
      [] node.type = "reflect" -> IF depth <= MaxReflectNum + 1 THEN 1 ELSE 0

\* How many rays the node at a depth of nodeList sends.
RaysOf(node, depth) ==
    CASE node.type \in {"Tx", "diff"} -> Rays
      [] node.type = "reflect" -> IF depth < MaxReflectNum + 1 THEN 1 ELSE 0

Top == Last(nodeList)
Sending == nodeList # <<>> /\ Top.traced < RaysOf(Top, Len(nodeList))

\* Mutant of Sent: the loop over the rays of a corner does not advance.
SentAnew == IF Top.type = "diff" THEN nodeList ELSE [nodeList EXCEPT ![Len(nodeList)].traced = @ + 1]

Sent == [nodeList EXCEPT ![Len(nodeList)].traced = @ + 1]

\* The ray leaves the mesh.
Miss ==
    /\ Sending
    /\ nodeList' = Sent
    /\ UNCHANGED <<obstacle, diffractNum, allPath, phase>>

\* processLOS(): the direct path and the one reflected by the ground.  The
\* type of mesh->Rx has never been set.
DirectPaths ==
    {[type |-> "LOS", nodes |-> <<"Tx", "none">>],
     [type |-> "LOSg", nodes |-> <<"Tx", "reflect2", "none">>]}

BentPath ==
    [type |-> "NLOSb", nodes |-> Append([k \in 1 .. Len(nodeList) |-> nodeList[k].type], "Rx")]

\* The ray passes the receiver.
Receive ==
    /\ Sending
    /\ nodeList' = Sent
    /\ allPath' = allPath \union IF Len(nodeList) + 1 > 2 THEN {BentPath} ELSE DirectPaths
    /\ UNCHANGED <<obstacle, diffractNum, phase>>

\* The ray meets a wall.
Reflect ==
    /\ Sending
    /\ nodeList' = Append(Sent, NewNode("reflect"))
    /\ UNCHANGED <<obstacle, diffractNum, allPath, phase>>

\* Mutant of Diffract: diffractNum is not consulted.
DiffractAgain ==
    /\ Sending
    /\ nodeList' = Append(Sent, NewNode("diff"))
    /\ diffractNum' = diffractNum + 1
    /\ UNCHANGED <<obstacle, allPath, phase>>

\* The ray meets a wall close to the corner where the wall starts.
Diffract ==
    /\ Sending
    /\ diffractNum = 0
    /\ nodeList' = Append(Sent, NewNode("diff"))
    /\ diffractNum' = diffractNum + 1
    /\ UNCHANGED <<obstacle, allPath, phase>>

\* All rays of the node have been traced.
Return ==
    /\ nodeList # <<>>
    /\ ~ Sending
    /\ nodeList' = Front(nodeList)
    /\ diffractNum' = IF Top.type = "diff" THEN diffractNum - 1 ELSE diffractNum
    /\ UNCHANGED <<obstacle, allPath, phase>>

-----------------------------------------------------------------------------
(***************************************************************************)
(* processNLOSv(): three paths over and around an obstacle car, with one   *)
(* node for each of its edges that crosses the line of sight.              *)
(***************************************************************************)
AroundVehicle(over) ==
    [type |-> "NLOSv", nodes |-> <<"Tx">> \o [k \in 1 .. obstacle |-> over] \o <<"none">>]

ProcessNLOSv ==
    /\ phase = "verticalPlane"
    /\ nodeList = <<>>
    /\ allPath' = allPath \union
           IF obstacle = NoVehicle THEN {} ELSE {AroundVehicle("diff2"), AroundVehicle("diff")}
    /\ phase' = "evaluate"
    /\ UNCHANGED <<obstacle, nodeList, diffractNum>>

Trace == Miss \/ Receive \/ Reflect \/ Diffract \/ Return

Next == Trace \/ ProcessNLOSv

\* The tracer runs in one call: it does not stop while it can go on.
Spec == Init /\ [][Next]_vars /\ WF_vars(Next)

-----------------------------------------------------------------------------
(***************************************************************************)
(* Properties                                                              *)
(***************************************************************************)
TypeOK ==
    /\ obstacle \in Crossings \union {NoVehicle}
    /\ nodeList \in Seq([type : {"Tx", "reflect", "diff"}, traced : 0 .. Rays])
    /\ diffractNum \in 0 .. 1
    /\ allPath \subseteq [type : PathType, nodes : Seq(NodeType)]
    /\ phase \in {"verticalPlane", "evaluate"}

\* The transmitter is at the bottom of the stack and only there.
TxFirst == \A k \in 1 .. Len(nodeList) : nodeList[k].type = "Tx" <=> k = 1

\* diffractNum tells whether a corner is on the stack, and there is one at most.
DiffractCounted ==
    /\ \A j, k \in 1 .. Len(nodeList) :
           nodeList[j].type = "diff" /\ nodeList[k].type = "diff" => j = k
    /\ diffractNum = 1 <=> \E k \in 1 .. Len(nodeList) : nodeList[k].type = "diff"

\* Only nodes at a depth of at most MaxReflectNum, and a corner one deeper,
\* have anything above them.
DepthBounded ==
    \A k \in 1 .. Len(nodeList) :
        /\ nodeList[k].type = "diff" => k <= MaxReflectNum + 1
        /\ k < Len(nodeList) /\ nodeList[k].type = "reflect" => k <= MaxReflectNum

\* What each kind of path looks like.  A bent path goes from the transmitter
\* to the receiver over reflections and at most one diffraction,
\* MaxReflectNum of them at most; when there are as many as that the last
\* one is the diffraction.
IsBent(nodes) ==
    /\ Len(nodes) \in 3 .. MaxReflectNum + 2
    /\ nodes[1] = "Tx" /\ nodes[Len(nodes)] = "Rx"
    /\ \A k \in 2 .. Len(nodes) - 1 : nodes[k] \in {"reflect", "diff"}
    /\ \A j, k \in 1 .. Len(nodes) : nodes[j] = "diff" /\ nodes[k] = "diff" => j = k
    /\ Len(nodes) = MaxReflectNum + 2 => nodes[Len(nodes) - 1] = "diff"

\* Every bent path that the recursion finds has the shape the channel model
\* is made for: channelGain() calls itself at a diffraction, and getAOA()
\* reads the node before the last one.
PathShape == \A p \in allPath : p.type = "NLOSb" => IsBent(p.nodes)

\* A path around the car has a node for each edge that it crosses, besides
\* the transmitter and the receiver.
AroundShape ==
    \A p \in allPath : p.type = "NLOSv" => obstacle \in Crossings /\ Len(p.nodes) = obstacle + 2

\* The inductive invariant.
IndInv == TypeOK /\ TxFirst /\ DiffractCounted /\ DepthBounded /\ PathShape /\ AroundShape

\* The mutual recursion ends, whatever the rays meet.
Terminates == <>(phase = "evaluate")

=============================================================================

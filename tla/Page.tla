-------------------------------- MODULE Page --------------------------------
(***************************************************************************)
(* What the parts of the browser client share: the WebSocket to the        *)
(* service, and the bounding box (xmin, ymin, xmax, ymax, dividend) that   *)
(* turns places of the scene into coordinates and back.                    *)
(*                                                                         *)
(* A bounding box is represented by where it was read: the buildings or    *)
(* the roads of one load of a map.                                         *)
(***************************************************************************)
EXTENDS Naturals

CONSTANTS
    MaxLoads,   \* bound of the model: how many maps are loaded
    None        \* undefined, or nothing

VARIABLES
    socket,   \* websocket.readyState
    sent,     \* the message that the last step has put on the socket, or None
    server,   \* history: the bounding box the service has been sent last, or None
    unsent,   \* history: the last scenario drawn could not be sent
    frame     \* the bounding box in use

pageVars == <<socket, sent, server, unsent, frame>>

Loads == 1..MaxLoads
Frames == [load : Loads, of : {"buildings", "roads"}]

ASSUME PageAssumption ==
    /\ MaxLoads \in Nat
    /\ None \notin Frames

PageInit ==
    /\ socket = "connecting"
    /\ sent = None
    /\ server = None
    /\ unsent = FALSE
    /\ frame = None

\* sendMessage() throws while the socket is connecting; once it is closed the
\* browser drops the message.
SendMessage(message) == sent' = IF socket = "open" THEN message ELSE None

Throws == socket = "connecting"

\* onopen and onclose: nothing but a line in the log, and no new connection.
SocketOpens ==
    /\ socket = "connecting"
    /\ socket' = "open"
    /\ sent' = None
    /\ UNCHANGED <<server, unsent, frame>>

SocketCloses ==
    /\ socket # "closed"
    /\ socket' = "closed"
    /\ sent' = None
    /\ UNCHANGED <<server, unsent, frame>>

=============================================================================

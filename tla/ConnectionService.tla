-------------------------- MODULE ConnectionService --------------------------
(***************************************************************************)
(* What HttpListener promises to its clients, without threads, event       *)
(* queues or the search through the pool: at most MaxThreads connections   *)
(* are held at a time, a connection is turned away only when it arrived    *)
(* while all of those places were taken, it is never served twice, and its *)
(* place becomes free when it ends.  A place whose descriptor could not be *)
(* adopted stays taken until the listener is closed, as in the code.       *)
(***************************************************************************)
EXTENDS Naturals, FiniteSets

CONSTANTS Conns, NoConn, MaxThreads

VARIABLES
    outcome,   \* what became of each connection
    holding,   \* connections that hold one of the MaxThreads places
    arriving,  \* the connection being admitted, or NoConn
    crowded    \* no place was left when it arrived

vars == <<outcome, holding, arriving, crowded>>

Init ==
    /\ outcome = [c \in Conns |-> "new"]
    /\ holding = {}
    /\ arriving = NoConn
    /\ crowded = FALSE

Arrive(c) ==
    /\ arriving = NoConn
    /\ outcome[c] = "new"
    /\ arriving' = c
    /\ crowded' = (Cardinality(holding) >= MaxThreads)
    /\ UNCHANGED <<outcome, holding>>

Admit(c) ==
    /\ arriving = c
    /\ Cardinality(holding) < MaxThreads
    /\ holding' = holding \union {c}
    /\ outcome' = [outcome EXCEPT ![c] = "accepted"]
    /\ arriving' = NoConn
    /\ UNCHANGED crowded

TurnAway(c) ==
    /\ arriving = c
    /\ crowded
    /\ outcome' = [outcome EXCEPT ![c] = "rejected"]
    /\ arriving' = NoConn
    /\ UNCHANGED <<holding, crowded>>

\* The connection ends; "leaked" if nobody closed its descriptor.
End(c) ==
    /\ c \in holding
    /\ outcome[c] = "accepted"
    /\ outcome' \in {[outcome EXCEPT ![c] = o] : o \in {"closed", "leaked"}}
    /\ holding' = holding \ {c}
    /\ UNCHANGED <<arriving, crowded>>

FailToAdopt(c) ==
    /\ c \in holding
    /\ outcome[c] = "accepted"
    /\ outcome' = [outcome EXCEPT ![c] = "failed"]
    /\ UNCHANGED <<holding, arriving, crowded>>

\* Closing the listener frees the place of a connection that was not adopted.
Forget(c) ==
    /\ c \in holding
    /\ outcome[c] = "failed"
    /\ holding' = holding \ {c}
    /\ UNCHANGED <<outcome, arriving, crowded>>

Next ==
    \E c \in Conns :
        \/ Arrive(c) \/ Admit(c) \/ TurnAway(c)
        \/ End(c) \/ FailToAdopt(c) \/ Forget(c)

Spec == Init /\ [][Next]_vars

=============================================================================

------------------------------ MODULE LabelMap ------------------------------
(***************************************************************************)
(* What the label dictionary promises its one client, the assembler: a map *)
(* from labels to addresses that is good for Limit calls of set.  Asked    *)
(* for a label it does not hold while Limit labels fill it, it never       *)
(* answers; what it does after one call more is not promised at all.       *)
(***************************************************************************)
EXTENDS Integers, FiniteSets

CONSTANTS Labels, Addresses, Limit, NULL

VARIABLES map, sets, answer, state

vars == <<map, sets, answer, state>>

Nothing == [label \in Labels |-> NULL]

Init == /\ map = Nothing
        /\ sets = 0
        /\ answer = NULL
        /\ state = "ready"

Held == {label \in Labels : map[label] # NULL}

Set == /\ state = "ready" /\ sets < Limit
       /\ \E label \in Labels, address \in Addresses :
            map' = [map EXCEPT ![label] = address]
       /\ sets' = sets + 1
       /\ UNCHANGED <<answer, state>>

Get == /\ state = "ready"
       /\ \E label \in Labels :
            /\ label \in Held \/ Cardinality(Held) < Limit
            /\ answer' = [key |-> label, value |-> map[label]]
       /\ UNCHANGED <<map, sets, state>>

\* The search for a label that is not there goes round a full table.
Spin == /\ state = "ready"
        /\ Held # Labels /\ Cardinality(Held) = Limit
        /\ state' = "spinning"
        /\ UNCHANGED <<map, sets, answer>>

Outgrow == /\ state = "ready" /\ sets = Limit
           /\ state' = "undefined"
           /\ map' = Nothing /\ answer' = NULL
           /\ UNCHANGED sets

Next == Set \/ Get \/ Spin \/ Outgrow

Spec == Init /\ [][Next]_vars
=============================================================================

----------------------------- MODULE PushCalls -----------------------------
(***************************************************************************)
(* The producers of a multi-producer queue and the pushes they make.       *)
(***************************************************************************)
EXTENDS Integers, FiniteSets

CONSTANTS
    Producers,      \* the producer threads
    MaxPushes       \* bound: pushes of a producer

ASSUME PushAssumption == IsFiniteSet(Producers) /\ MaxPushes \in Nat

VARIABLE pushes     \* pushes[p]: pushes p has begun

PushesInit == pushes = [p \in Producers |-> 0]

BeginPush(p) ==
    /\ pushes[p] < MaxPushes
    /\ pushes' = [pushes EXCEPT ![p] = @ + 1]
=============================================================================

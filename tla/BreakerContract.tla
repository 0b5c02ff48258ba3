-------------------------- MODULE BreakerContract --------------------------
(***************************************************************************)
(* What a circuit breaker promises to the code around it, without counting *)
(* anything: a gate that lets calls pass, blocks them, or lets them try.   *)
(* Once it blocks, no call enters for a full cool-down; it never goes from *)
(* blocking to passing by itself, only by way of trying; and what happens  *)
(* to the gate when calls leave is otherwise its own business.             *)
(***************************************************************************)
EXTENDS Integers

CONSTANTS
    Calls,
    Cooldown,                   \* how long a blocking gate admits no call
    Passing, Blocking, Trying   \* the positions of the gate

VARIABLES
    gate,
    cooldown,  \* what is left of Cooldown
    inside     \* the calls that have entered and not left

contractVars == <<gate, cooldown, inside>>

ContractInit == gate = Passing /\ cooldown = 0 /\ inside = {}

(* The gate blocks from now on, for a full cool-down. *)
Block == gate' = Blocking /\ cooldown' = Cooldown

Enter(c) ==
    /\ inside' = inside \cup {c}
    /\ \/ gate # Blocking /\ UNCHANGED gate
       \/ gate = Blocking /\ cooldown = 0 /\ gate' = Trying
    /\ UNCHANGED cooldown

Leave(c) ==
    /\ c \in inside
    /\ inside' = inside \ {c}
    /\ \/ Block
       \/ UNCHANGED <<gate, cooldown>>
       \/ gate = Trying /\ gate' = Passing /\ UNCHANGED cooldown

(* An operator overrides the gate. *)
Override == gate' = Passing /\ cooldown' = 0 /\ UNCHANGED inside

Elapse ==
    /\ cooldown > 0
    /\ cooldown' = cooldown - 1
    /\ UNCHANGED <<gate, inside>>

ContractNext ==
    \/ \E c \in Calls : Enter(c) \/ Leave(c)
    \/ Override
    \/ Elapse

ContractSpec == ContractInit /\ [][ContractNext]_contractVars
=============================================================================

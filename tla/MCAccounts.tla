----------------------------- MODULE MCAccounts -----------------------------
(* Values for the model-checked instance of onboarding and the outbox: one *)
(* account and the users invited to it.                                    *)
EXTENDS Onboarding

CONSTANTS a1

MCAccountOf == [u \in User |-> a1]
=============================================================================

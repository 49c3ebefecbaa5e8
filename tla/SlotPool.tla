------------------------------- MODULE SlotPool -------------------------------
(***************************************************************************)
(* What the remote phase promises of its service slots (spec 4.5 and 5):  *)
(* a job acquires one free slot, holds it while it runs, and only the     *)
(* holder gives it back.  A new process starts with every slot free.      *)
(* Nothing forces a release, so a slot a failed job never gives back is   *)
(* allowed here; RemoteFailureIsolated in Orchestrator is about that.     *)
(***************************************************************************)
CONSTANTS
    Jobs,   \* the module jobs of a run
    Slots   \* config.services

VARIABLE holders   \* holders[s]: the jobs holding slot s

PoolTypeOK == holders \in [Slots -> SUBSET Jobs]

PoolInit == holders = [s \in Slots |-> {}]

\* Job j takes slot s: s is free and j holds no other slot.
Acquire(j, s) ==
    /\ holders[s] = {}
    /\ \A t \in Slots : j \notin holders[t]
    /\ holders' = [holders EXCEPT ![s] = {j}]

\* Job j gives back the slot it holds.
Release(j, s) ==
    /\ j \in holders[s]
    /\ holders' = [holders EXCEPT ![s] = {}]

\* The process ends and a new one starts from the configuration.
Restart == holders' = [s \in Slots |-> {}]

PoolNext == \E j \in Jobs, s \in Slots : Acquire(j, s) \/ Release(j, s)
            \/ Restart

PoolSpec == PoolInit /\ [][PoolNext]_holders

=============================================================================

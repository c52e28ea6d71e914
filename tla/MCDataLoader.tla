---------------------------- MODULE MCDataLoader ----------------------------
(* Small instances of DataLoader: the steps of Manage, which may otherwise  *)
(* go on for ever between two steps of a call, are bounded by MaxManage.    *)
EXTENDS DataLoader, TLC

CONSTANT MaxManage

VARIABLE managed
mcVars == <<vars, managed>>

MCInit == Init /\ managed = 0

MCNext ==
    \/ Serve /\ UNCHANGED managed
    \/ (\E k \in Key : Write(k)) /\ UNCHANGED managed
    \/ Manage /\ managed < MaxManage /\ managed' = managed + 1

MCSpec     == MCInit /\ [][MCNext]_mcVars
MCFairSpec == MCSpec /\ Fairness

Symmetry == Permutations(Key) \cup Permutations(Client)
=============================================================================

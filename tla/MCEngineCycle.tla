---------------------------- MODULE MCEngineCycle ----------------------------
(* Instances of EngineCycle for TLC: the two environments of docs/PDD.md 9.1. *)
EXTENDS EngineCycle

MCSources == <<"kalshi_markets", "kalshi_resolution">>
AllSources == <<"kalshi_markets", "open_meteo", "kalshi_resolution">>
NoneFails  == [e \in Envs |-> 0]
OneFails   == [e \in Envs |-> 1]
TwoFaults  == [e \in Envs |-> 2]
=============================================================================

------------------------------- MODULE MC_Net -------------------------------
(* Instantiation of Net for TLC.  Three on-link hosts (the gateway among   *)
(* them) and two ARP slots, so that arp_store evicts slot 0; two pending   *)
(* slots and three payloads, so that the queue fills and drops.            *)
EXTENDS Net, TLC

CONSTANTS g, h1, h2, r1, p1, p2, p3

MC_OnLink == {g, h1, h2}
MC_Remote == {r1}
MC_NoRemote == {}
MC_Payloads == {p1, p2, p3}

Symmetry == Permutations(MC_Payloads)
=============================================================================

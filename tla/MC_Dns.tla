------------------------------- MODULE MC_Dns -------------------------------
(* Instantiation of Dns for TLC: three names for a cache and a table of two *)
(* slots each, so that both tables fill and evict slot 0.                   *)
EXTENDS Dns, TLC

CONSTANTS n1, n2, n3, a1, a2, a3

MC_Names == {n1, n2, n3}
MC_Addresses == {a1, a2, a3}
MC_Addr == (n1 :> a1) @@ (n2 :> a2) @@ (n3 :> a3)
\* The server answers 0.0.0.0 for n1, as a DNS blocklist does.
MC_AddrZero == (n1 :> Zero) @@ (n2 :> a2) @@ (n3 :> a3)
=============================================================================

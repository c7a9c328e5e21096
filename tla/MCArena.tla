------------------------------- MODULE MCArena -------------------------------
(* Regions that double. *)
EXTENDS Arena

MCAddresses == {4 * i : i \in 0 .. 15}
MCGrowth(n) == 2 * n
=============================================================================

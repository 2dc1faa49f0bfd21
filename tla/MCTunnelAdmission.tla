------------------------- MODULE MCTunnelAdmission -------------------------
(* Small instances of TunnelAdmission for TLC. *)
EXTENDS TunnelAdmission, TLC

CONSTANTS t1, t2, t3, t4

\* Tunnels of default priority, and one of priority 1.
Priorities == [t \in Tunnels |-> IF t = t3 THEN 1 ELSE 0]
============================================================================

--------------------------- MODULE MCProxySession ---------------------------
(* Model checking of ProxySession: a tunnel with traffic beside others     *)
(* that only compete with it for the places of the session.                *)
EXTENDS ProxySession, TLC

CONSTANTS Busy, Bytes

BusyBytes == [t \in Tunnels |-> IF t = Busy THEN Bytes ELSE 0]
=============================================================================

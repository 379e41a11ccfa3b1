---------------------------- MODULE MCTunnelPool ----------------------------
(***************************************************************************)
(* TunnelPool with a pool of one, a caller racing two refills, and a peer  *)
(* that goes down once.                                                    *)
(***************************************************************************)
EXTENDS TunnelPool

CONSTANT c

==============================================================================

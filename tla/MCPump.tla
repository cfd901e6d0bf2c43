------------------------------- MODULE MCPump -------------------------------
(* One pump for TLC.  A behaviour exercises one part of it: prompts and      *)
(* forks; prompts, controls and a permission request with a client attached; *)
(* a log that outgrows its window under a tab that reconnects.               *)
EXTENDS Pump

Quota(p, c, q, o, u, f) ==
  [prompts |-> p, controls |-> c, perms |-> q, opens |-> o, updates |-> u, forks |-> f]

MCBudgets ==
  { Quota(4, 0, {}, 0, 0, 2),
    Quota(2, 1, Perms, 0, 0, 1),
    Quota(1, 1, Perms, 1, 0, 0),
    Quota(0, 0, {}, 2, 3, 0) }

=============================================================================

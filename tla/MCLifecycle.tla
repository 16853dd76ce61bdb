---------------------------- MODULE MCLifecycle ----------------------------
(* Lifecycle on the instance of lifecycle.cfg, whose constants are model values.  *)
(* Liveness is checked, so nothing is taken for symmetric.                        *)
EXTENDS Lifecycle
=============================================================================

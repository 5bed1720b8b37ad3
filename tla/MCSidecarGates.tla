--------------------------- MODULE MCSidecarGates ---------------------------
(* The closeout and sidecar chains on two workers. *)
EXTENDS SidecarGates
=============================================================================

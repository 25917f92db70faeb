--------------------------- MODULE MCDxeEventLive ---------------------------
(* The instances of MCDxeEvent for the liveness properties of DxeEventLive. *)
EXTENDS MCDxeEvent, DxeEventLive
=============================================================================

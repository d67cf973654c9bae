----------------------------- MODULE MCSingletons -----------------------------
(* Three threads; memory for as many factories as they could create. *)
EXTENDS SingletonsProps
=============================================================================

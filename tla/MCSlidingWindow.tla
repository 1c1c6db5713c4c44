-------------------------- MODULE MCSlidingWindow --------------------------
(* Instances of SlidingWindow for TLC: small sets of names, data, depths. *)
EXTENDS SlidingWindow
=============================================================================

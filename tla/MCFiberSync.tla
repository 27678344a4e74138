---------------------------- MODULE MCFiberSync ----------------------------
(* Three fibers and an interrupt on each of the objects *)
EXTENDS FiberSync
=============================================================================

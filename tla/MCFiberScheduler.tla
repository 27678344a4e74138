-------------------------- MODULE MCFiberScheduler --------------------------
(* A few fibers that start, join, yield and return in every order *)
EXTENDS FiberScheduler
=============================================================================

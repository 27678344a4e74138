------------------------------ MODULE MCSpiDma ------------------------------
(* The transfers of controller::update, with the seven bytes of the code *)
EXTENDS SpiDma
=============================================================================

------------------------------- MODULE MCLog -------------------------------
(* The log streams over either device: the ITM with its ring of one byte, *)
(* the UART with a ring of two *)
EXTENDS LogDevice
=============================================================================

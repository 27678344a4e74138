------------------------------ MODULE MCMotor ------------------------------
(* The driver fiber on a clock of 9 values that ticks every 4 units, which are *)
(* 6 counts: 1.5 counts per unit, of which the conversion may lose a third    *)
EXTENDS Motor
=============================================================================

---------------------------- MODULE MCAdcSampler ----------------------------
(* The sampler with the parameters of board.hpp or at the limit of its counter *)
EXTENDS AdcSampler
=============================================================================

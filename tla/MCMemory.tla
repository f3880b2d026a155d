------------------------------ MODULE MCMemory ------------------------------
(* The memory on six arrivals of two kinds, four of them the warm-up's. *)
EXTENDS Memory

MCKinds == {"embb", "urllc"}
MCStream == <<"embb", "embb", "urllc", "embb", "urllc", "urllc">>
=============================================================================

------------------------------ MODULE MCMemNet ------------------------------
(* Two threads, one of them kswapd0, on two CPUs, one of which is not wanted. *)
EXTENDS MemNet

MCCalls == {"write", "fcntl", "other", "open", "close"}
=============================================================================

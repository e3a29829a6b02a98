-------------------------- MODULE MCWaitForRunning --------------------------
(* WaitForRunning for TLC: the configurations give the times.              *)
EXTENDS WaitForRunning
=============================================================================

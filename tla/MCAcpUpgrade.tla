---------------------------- MODULE MCAcpUpgrade ----------------------------
(* An instance of AcpUpgrade for TLC. A step of the clock is 6 s.          *)
EXTENDS AcpUpgrade, TLC

Interchangeable == Permutations(Clients)
=============================================================================

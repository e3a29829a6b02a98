------------------------------ MODULE MCRunTee ------------------------------
(* Instances of RunTee for TLC.                                            *)
EXTENDS RunTee, TLC

\* The endless stream; a played-out transcript.
Endless == <<>>
Played  == <<"calls", "says", "calls", "end">>

Interchangeable == Permutations(Viewers)
=============================================================================

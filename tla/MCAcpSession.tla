---------------------------- MODULE MCAcpSession ----------------------------
(* Instances of AcpSession for TLC.                                        *)
EXTENDS AcpSession, TLC

\* Calls, watchers and, at the start, sessions are interchangeable.
Interchangeable ==
    Permutations(Calls) \cup Permutations(Watchers) \cup Permutations(Sessions)
=============================================================================

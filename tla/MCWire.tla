------------------------------- MODULE MCWire -------------------------------
(***************************************************************************)
(* Instances of the modules about what goes over the wire between a client *)
(* and a hub. They share no state: a behaviour is one of one of them, and  *)
(* the others stand still at a state of their Init.                        *)
(***************************************************************************)
EXTENDS PrivateSession, TLC

CONSTANTS Secrets, Ids, Digits, UINT64_MAX

ASSUME HelpersAssumption ==
    /\ \A data \in Secrets : IsFiniteSet(DOMAIN data)
    /\ Ids \subseteq Seq(Nat)
    /\ Digits \in Nat \ {0} /\ UINT64_MAX \in Nat /\ Digits <= UINT64_MAX

VARIABLES part, op, step, effects, reply, outcome, input

Call    == INSTANCE ShimClient
Helpers == INSTANCE ContractHelpers

callVars == <<op, step, effects, reply, outcome>>

vars == <<part, sessionVars, callVars, input>>

AnOperation == CHOOSE o \in Call!Operations : TRUE

WireInit ==
    /\ Init /\ Call!Init /\ Helpers!Init
    /\ \/ part = "session" /\ op = AnOperation /\ input = [of |-> "id", value |-> <<>>]
       \/ part = "call" /\ ~flaky /\ input = [of |-> "id", value |-> <<>>]
       \/ part = "helper" /\ ~flaky /\ op = AnOperation

WireNext ==
    \/ part = "session" /\ Next /\ UNCHANGED <<part, callVars, input>>
    \/ part = "call" /\ Call!Next /\ UNCHANGED <<part, sessionVars, input>>

WireSpec == WireInit /\ [][WireNext]_vars /\ Fairness

(* See ShimClient.                                                         *)
CallsTruthful == Call!CallsTruthful

(* See ContractHelpers.                                                    *)
HelpersAgree == Helpers!HelpersAgree

-----------------------------------------------------------------------------
(* The session. Bytes of payloads and masks are bits.                      *)

Xor2(a, b) == (a + b) % 2
Mask4 == <<1, 0, 1, 1>>

Pay(n) == [i \in 1..n |-> i % 2]

\* Lengths of every form: 0 and 1 short, 2 and 3 of two bytes, 4 of the longest.
Methods ==
    <<1>> :> "session/new" @@ Pay(2) :> "session/prompt" @@ Pay(4) :> "session/load"

Frames == {[op |-> TEXT, payload |-> p] : p \in DOMAIN Methods}
          \cup {[op |-> PING, payload |-> <<1, 1>>], [op |-> CLOSE, payload |-> <<>>]}

Answers == "chunk" :> Pay(2) @@ "reply" :> Pay(1) @@ "result" :> Pay(3)
           @@ "error" :> <<0>> @@ "close" :> <<0, 1>>

-----------------------------------------------------------------------------
(* The helpers: every set of keys, every id of up to four digits.          *)

SecretData ==
    UNION {[s -> {"a key", "another key", "not base64"}] :
              s \in SUBSET {"secret-key", "ACP_SECRET_KEY", "token", "ca.crt"}}

\* Three digits, and 3 for a letter.
ShortIds == UNION {[1..n -> 0..3] : n \in 0..4}
=============================================================================

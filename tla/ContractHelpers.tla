-------------------------- MODULE ContractHelpers --------------------------
(***************************************************************************)
(* Two helpers of packages/agentic-client/src/contract/index.ts that       *)
(* decide whether a run can be reached and whether it can start, and what  *)
(* the code on the other side makes of the same input.                     *)
(***************************************************************************)
EXTENDS Naturals, Sequences, FiniteSets

CONSTANTS
    Secrets,      \* what a Secret may hold: functions from keys to texts
    Ids,         \* what may be given for an application id: sequences of
                 \* digits and of other letters
    Digits,      \* the digits are 0..Digits - 1: ten
    UINT64_MAX   \* the largest id

VARIABLE input   \* of one of the helpers

Init == input \in [of : {"key"}, value : Secrets] \cup [of : {"id"}, value : Ids]

Failed == [ok |-> FALSE]
Got(x) == [ok |-> TRUE, value |-> x]

-----------------------------------------------------------------------------
(* The ACP key in the data of a Secret. A datum is the text it decodes to, *)
(* or "not base64".                                                        *)

SECRET_DATA_KEYS == <<"secret-key", "ACP_SECRET_KEY">>

decodeBase64Utf8(datum) == IF datum = "not base64" THEN Failed ELSE Got(datum)

\* The places of the well-known keys that are there.
Present(data) == {i \in DOMAIN SECRET_DATA_KEYS : SECRET_DATA_KEYS[i] \in DOMAIN data}

First(places) == CHOOSE i \in places : \A j \in places : i <= j

resolveSecretKeyFromData(data) ==
    IF Present(data) # {}
    THEN decodeBase64Utf8(data[SECRET_DATA_KEYS[First(Present(data))]])
    ELSE IF Cardinality(DOMAIN data) = 1
    THEN decodeBase64Utf8(data[CHOOSE k \in DOMAIN data : TRUE])
    ELSE Failed

-----------------------------------------------------------------------------
(* The application id.                                                     *)

IsDigit(c) == c \in 0..(Digits - 1)
Numeric(id) == id # <<>> /\ \A i \in DOMAIN id : IsDigit(id[i])

\* Without a width, as in the code.
BigInt(id) ==
    LET n[i \in 0..Len(id)] == IF i = 0 THEN 0 ELSE n[i - 1] * Digits + id[i]
    IN  n[Len(id)]

\* Mutant: the largest id is refused as well.
AtLimit(id) == BigInt(id) >= UINT64_MAX

Overflows(id) == BigInt(id) > UINT64_MAX

invalidApplicationId(id) == ~Numeric(id) \/ Overflows(id)

(* What reads it in the harness: Go's strconv.ParseUint, digit by digit in *)
(* numbers that wrap around; n is what the digits before d came to.        *)
W == UINT64_MAX + 1
Cutoff == UINT64_MAX \div Digits + 1

Read(n, d) ==
    IF /\ n.ok /\ IsDigit(d)
       /\ n.value < Cutoff
       /\ (n.value * Digits + d) % W >= (n.value * Digits) % W
    THEN Got((n.value * Digits + d) % W)
    ELSE Failed

ParseUint(id) ==
    LET r[i \in 0..Len(id)] == IF i = 0 THEN Got(0) ELSE Read(r[i - 1], id[i])
    IN  IF id = <<>> THEN Failed ELSE r[Len(id)]

-----------------------------------------------------------------------------
(* Properties.                                                             *)

\* The only key that may be meant, if any: the controller's, else the
\* simulator's, else the sole one (the comment on SECRET_DATA_KEYS).
Meant(data) ==
    {k \in DOMAIN data :
        \/ k = "secret-key"
        \/ k = "ACP_SECRET_KEY" /\ "secret-key" \notin DOMAIN data
        \/ DOMAIN data = {k}}

(* The key found is the one meant, and there is none if it does not        *)
(* decode. An id passes the check exactly if the harness can read it ("a   *)
(* non-numeric id is a run that dies at startup").                         *)
HelpersAgree ==
    /\ input.of = "key" =>
          resolveSecretKeyFromData(input.value) =
             (IF \E k \in Meant(input.value) : input.value[k] # "not base64"
              THEN Got(input.value[CHOOSE k \in Meant(input.value) : TRUE])
              ELSE Failed)
    /\ input.of = "id" => (invalidApplicationId(input.value) <=> ~ParseUint(input.value).ok)
=============================================================================

------------------------------ MODULE WsFrames ------------------------------
(***************************************************************************)
(* The WebSocket frames of the mock hub, hack/mock-inventory-stack.mjs:    *)
(* how it writes one and how it finds those of its client in the bytes it  *)
(* has. A byte is a number. The numbers that only length and mask go       *)
(* through are constants, so that a small instance has frames of each      *)
(* form; in the code Base is 256, Half 128 and Wide 8.                     *)
(***************************************************************************)
EXTENDS Naturals, Sequences

CONSTANTS
    Base,       \* the number of values of a byte of a length
    Half,       \* the bit of the second byte that says "masked"
    Wide,       \* the number of bytes of the longest form of a length
    Xor(_, _)   \* of two bytes

ASSUME FramesAssumption ==
    Base \in Nat \ {0, 1} /\ Half \in Nat \ {0, 1, 2} /\ Wide \in Nat \ {0, 1, 2}

FIN == 128      \* the bit of the first byte that says "last of a message"

TEXT == 1
CLOSE == 8
PING == 9
PONG == 10

-----------------------------------------------------------------------------
(* Writing. The markers Half - 2 and Half - 1 (126, 127) announce a length *)
(* of two or of Wide bytes.                                                *)

LengthOfTwo(n) == <<(n \div Base) % Base, n % Base>>

\* Mutant: 126 counts as a short length.
FrameOneLate(op, payload) ==
    <<FIN + op>>
    \o (IF Len(payload) <= Half - 2 THEN <<Len(payload)>>
        ELSE <<Half - 2>> \o LengthOfTwo(Len(payload)))
    \o payload

(* The server's frames: unmasked, and never of the longest form.           *)
wsFrame(op, payload) ==
    <<FIN + op>>
    \o (IF Len(payload) < Half - 2 THEN <<Len(payload)>>
        ELSE <<Half - 2>> \o LengthOfTwo(Len(payload)))
    \o payload

\* Upper(k)[j] is k without its last j bytes.
Upper(k) ==
    LET u[j \in 0..Wide] == IF j = 0 THEN k ELSE u[j - 1] \div Base IN u

\* The Wide bytes of a length.
LengthOf(k) == [i \in 1..Wide |-> Upper(k)[Wide - i] % Base]

(* A browser's frame (RFC 6455, 5.2): masked, the shortest form there is.  *)
Masked(op, payload, mask) ==
    LET n == Len(payload)
        length == IF n < Half - 2 THEN <<Half + n>>
                  ELSE IF n < Base * Base THEN <<Half + Half - 2>> \o LengthOfTwo(n)
                  ELSE <<Half + Half - 1>> \o LengthOf(n)
    IN  <<FIN + op>> \o length \o mask
        \o [i \in 1..n |-> Xor(payload[i], mask[1 + ((i - 1) % 4)])]

-----------------------------------------------------------------------------
(* Reading: what the first bytes of b say of the first frame.              *)

Marker(b)   == b[2] % Half
IsMasked(b) == b[2] >= Half

LengthBytes(b) ==
    IF Marker(b) = Half - 2 THEN 2 ELSE IF Marker(b) = Half - 1 THEN Wide ELSE 0

\* Big-endian: the number that the first i bytes from b[3] on are.
Number(b) ==
    LET f[i \in 0..Wide] == IF i = 0 THEN 0 ELSE f[i - 1] * Base + b[2 + i] IN f

PayloadLength(b) ==
    IF LengthBytes(b) = 0 THEN Marker(b)
    ELSE IF LengthBytes(b) = 2 THEN b[3] * Base + b[4]
    ELSE Number(b)[Wide]

Start(b) == 2 + LengthBytes(b) + (IF IsMasked(b) THEN 4 ELSE 0)

Complete(b) ==
    /\ Len(b) >= 2
    /\ Len(b) >= 2 + LengthBytes(b)
    /\ Len(b) >= Start(b) + PayloadLength(b)

\* FIN is not looked at: a part of a message is taken for one.
First(b) ==
    LET start == Start(b)
        byte(i) == IF IsMasked(b) THEN Xor(b[start + i], b[start - 3 + ((i - 1) % 4)])
                   ELSE b[start + i]
    IN  [op |-> b[1] % 16, payload |-> [i \in 1..PayloadLength(b) |-> byte(i)]]

Rest(b) == SubSeq(b, Start(b) + PayloadLength(b) + 1, Len(b))

(* All complete frames, in order, and the bytes left. A frame has at least *)
(* two bytes.                                                              *)
wsParse(b) ==
    LET f[n \in 0..Len(b) \div 2] ==
            IF n = 0 THEN [frames |-> <<>>, rest |-> b]
            ELSE LET p == f[n - 1]
                 IN  IF Complete(p.rest)
                     THEN [frames |-> Append(p.frames, First(p.rest)), rest |-> Rest(p.rest)]
                     ELSE p
    IN  f[Len(b) \div 2]
=============================================================================

-------------------------- MODULE AcpUpgradeProofs --------------------------
(***************************************************************************)
(* What AcpUpgrade guarantees for every delay, and any number of clients,  *)
(* runs and nonces. A nonce in the map has opened nothing (Unspent), which *)
(* makes one socket of it at most. A script's clock never goes back        *)
(* (Scripts began in the past, and begin once), so that what a client saw  *)
(* ready is still listening (StaysReady).                                  *)
(***************************************************************************)
EXTENDS AcpUpgrade, TLAPS

Unspent == \A n \in Nonces : n \in nonces \/ n > minted => opened[n] = 0

StaysReady ==
    \A c \in Clients, r \in Runs : r \in ready[c] => ReadyAt(r, scriptClock(r))

IInv == TypeOK /\ Unspent /\ StaysReady

USE UpgradeAssumption

-----------------------------------------------------------------------------
(* Who is ready listens, and goes on to be ready.                          *)
LEMMA ReadyListens ==
    ASSUME NEW r \in Runs, NEW ms \in Nat, ReadyAt(r, ms)
    PROVE  acpAt(r, ms) # "refused"
  BY DEF ReadyAt, Listening, acpAt, Scripts

LEMMA ReadyLater ==
    ASSUME NEW r \in Runs, NEW m \in Nat, NEW n \in Nat, m <= n, ReadyAt(r, m)
    PROVE  ReadyAt(r, n)
  BY DEF ReadyAt, Listening

LEMMA ClockNat == ASSUME TypeOK, NEW r \in Runs PROVE scriptClock(r) \in Nat
  BY DEF TypeOK, scriptClock

LEMMA Initially == ASSUME Init PROVE IInv
  BY DEF Init, IInv, TypeOK, Unspent, StaysReady, NoSocket, Sockets, Nonces

LEMMA TypePreserved == ASSUME TypeOK, Next PROVE TypeOK'
<1> USE DEF TypeOK, scriptVars, nonceVars, Nonces
<1>1. ASSUME NEW c \in Clients, NEW r \in Runs, GetRun(c, r) PROVE TypeOK'
  BY <1>1 DEF GetRun, StartScript
<1>2. ASSUME NEW c \in Clients, NEW r \in Runs, NEW n \in {0} \cup Nonces,
             Dial(c, r, n) PROVE TypeOK'
  <2>1. socket' \in [Clients -> Sockets]
    BY <1>2 DEF Dial, Answer, Sockets
  <2>2. opened' \in [Nonces -> Nat]
    BY <1>2 DEF Dial, Valid
  <2>3. QED  BY <1>2, <2>1, <2>2 DEF Dial, Redeemed
<1>3. ASSUME NEW c \in Clients, ListRuns(c) PROVE TypeOK'
  BY <1>3 DEF ListRuns
<1>4. ASSUME NEW c \in Clients, HangUp(c) PROVE TypeOK'
  BY <1>4 DEF HangUp, Sockets, NoSocket
<1>5. ASSUME issueNonce PROVE TypeOK'
  BY <1>5 DEF issueNonce
<1>6. ASSUME Tick PROVE TypeOK'
  BY <1>6 DEF Tick
<1>7. QED  BY <1>1, <1>2, <1>3, <1>4, <1>5, <1>6 DEF Next

LEMMA UnspentPreserved == ASSUME TypeOK, Unspent, Next PROVE Unspent'
<1> USE DEF TypeOK, Unspent, Nonces, nonceVars
<1>1. ASSUME NEW c \in Clients, NEW r \in Runs, NEW n \in {0} \cup Nonces,
             Dial(c, r, n) PROVE Unspent'
  BY <1>1 DEF Dial, Redeemed, Valid
<1>2. ASSUME issueNonce PROVE Unspent'
  BY <1>2 DEF issueNonce
<1>3. CASE UNCHANGED <<nonces, minted, opened>>
  BY <1>3
<1>4. QED
  BY <1>1, <1>2, <1>3 DEF Next, GetRun, ListRuns, HangUp, Tick

(* The clock of a script only goes forward.                                *)
LEMMA ClockForward ==
    ASSUME TypeOK, Next, NEW r \in Runs
    PROVE  scriptClock(r) <= scriptClock(r)'
<1> USE DEF TypeOK, scriptClock, scriptVars
<1>1. ASSUME NEW c \in Clients, NEW s \in Runs, GetRun(c, s)
      PROVE  scriptClock(r) <= scriptClock(r)'
  BY <1>1 DEF GetRun, StartScript
<1>2. CASE UNCHANGED <<now, scriptVars>>
  BY <1>2
<1>3. CASE Tick
  BY <1>3 DEF Tick
<1>4. QED
  BY <1>1, <1>2, <1>3 DEF Next, ListRuns, HangUp, Dial, issueNonce

LEMMA ReadyPreserved == ASSUME IInv, Next PROVE StaysReady'
<1> SUFFICES ASSUME NEW c \in Clients, NEW r \in Runs, r \in ready'[c]
             PROVE  ReadyAt(r, scriptClock(r)')
  BY DEF StaysReady
<1> USE DEF IInv
<1>1. scriptClock(r) \in Nat /\ scriptClock(r)' \in Nat
  BY ClockNat, TypePreserved, ClockNat DEF scriptClock, TypeOK
<1>2. CASE r \in ready[c]
  BY <1>1, <1>2, ClockForward, ReadyLater DEF StaysReady
<1>3. ASSUME NEW d \in Clients, NEW s \in Runs, GetRun(d, s), r \notin ready[c]
      PROVE  ReadyAt(r, scriptClock(r)')
  BY <1>3 DEF GetRun, StartScript, scriptClock, TypeOK
<1>4. ASSUME NEW d \in Clients, ListRuns(d), r \notin ready[c]
      PROVE  ReadyAt(r, scriptClock(r)')
  BY <1>4 DEF ListRuns, scriptClock, scriptVars, TypeOK
<1>5. QED
  BY <1>2, <1>3, <1>4 DEF Next, HangUp, Tick, Dial, issueNonce

(* The strengthened invariant holds in every state.                        *)
THEOREM InductiveInvariant == Spec => []IInv
<1>1. IInv /\ [Next]_vars => IInv'
  <2>1. ASSUME IInv, Next PROVE IInv'
    BY <2>1, TypePreserved, UnspentPreserved, ReadyPreserved DEF IInv
  <2>2. ASSUME IInv, UNCHANGED vars PROVE IInv'
    BY <2>2 DEF IInv, vars, scriptVars, nonceVars, TypeOK, Unspent, StaysReady,
       scriptClock
  <2>3. QED  BY <2>1, <2>2
<1>2. QED  BY Initially, <1>1, PTL DEF Spec

(* Every variable keeps to its type.                                       *)
THEOREM TypeCorrect == Spec => []TypeOK
  BY InductiveInvariant, PTL DEF IInv

(* A nonce opens one socket, in its time.                                  *)
THEOREM NonceSingleUse == Spec => NonceOnce
<1> DEFINE Once == \A n \in Nonces : opened'[n] # opened[n] =>
                      opened[n] = 0 /\ opened'[n] = 1 /\ now <= expiry[n]
<1>1. ASSUME IInv, Next PROVE Once
  <2>1. ASSUME NEW c \in Clients, NEW r \in Runs, NEW n \in {0} \cup Nonces,
               Dial(c, r, n) PROVE Once
    <3>1. Valid(n) => n \in Nonces /\ opened[n] = 0 /\ now <= expiry[n]
      BY <1>1 DEF IInv, TypeOK, Unspent, Valid, Nonces
    <3>2. opened' = IF Valid(n) THEN [opened EXCEPT ![n] = @ + 1] ELSE opened
      BY <2>1 DEF Dial
    <3>3. QED  BY <1>1, <3>1, <3>2 DEF IInv, TypeOK
  <2>2. CASE UNCHANGED opened
    BY <2>2
  <2>3. QED
    BY <1>1, <2>1, <2>2 DEF Next, GetRun, ListRuns, HangUp, Tick, issueNonce
<1>2. QED  BY <1>1, InductiveInvariant, PTL DEF Spec, NonceOnce

(* Who has seen a run ready is not dropped when it dials it.               *)
THEOREM ReadyMeansDialable == Spec => ReadyIsDialable
<1> DEFINE Dialable == \A c \in Clients, r \in Runs :
                          /\ socket[c] = NoSocket
                          /\ socket'[c] = [run |-> r, state |-> "dropped"]
                          => r \notin ready[c]
<1>1. ASSUME IInv, Next PROVE Dialable
  <2> SUFFICES ASSUME NEW c \in Clients, NEW r \in Runs, socket[c] = NoSocket,
                      socket'[c] = [run |-> r, state |-> "dropped"]
               PROVE  r \notin ready[c]
    OBVIOUS
  <2>1. socket'[c] # socket[c]
    BY DEF NoSocket
  <2>2. PICK n \in {0} \cup Nonces : Dial(c, r, n)
    BY <1>1, <2>1 DEF Next, GetRun, ListRuns, HangUp, Tick, issueNonce, Dial,
       IInv, TypeOK, Sockets, NoSocket
  <2>3. acpBehavior(r) = "refused"
    <3>1. socket'[c].state = Answer(r, n)
      BY <1>1, <2>2 DEF Dial, IInv, TypeOK
    <3>2. Answer(r, n) = "dropped"
      BY <3>1
    <3>3. QED  BY <3>2 DEF Answer
  <2>4. QED
    BY <1>1, <2>3, ReadyListens, ClockNat DEF IInv, StaysReady, acpBehavior
<1>2. QED  BY <1>1, InductiveInvariant, PTL DEF Spec, ReadyIsDialable
=============================================================================

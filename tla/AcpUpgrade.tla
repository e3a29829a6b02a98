----------------------------- MODULE AcpUpgrade -----------------------------
(***************************************************************************)
(* How a viewer gets to a run's ACP endpoint, in the mock hub              *)
(* (hack/mock-inventory-stack.mjs): the run's status as the hub serves it, *)
(* the nonce that a dial needs, and the upgrade, which may reach a pod     *)
(* that does not listen yet.                                               *)
(*                                                                         *)
(* The scripted runs replay a boot: status and endpoint are functions of   *)
(* the time since the first GET of the run. The server handles a request   *)
(* or an upgrade in one go; time passes in between, in steps. The clients  *)
(* are any: they look, mint and dial in any order.                         *)
(*                                                                         *)
(* Left out: the runs whose session is teed (RunTee), what is spoken on an *)
(* open socket, and of the status all but its ACPReady condition.          *)
(***************************************************************************)
EXTENDS Naturals

CONSTANTS
    Clients,
    Runs,          \* names: a subset of Scripts
    NONCE_TTL,     \* 30 s
    RACE_RUNNING_MS, RACE_LISTENING_MS,   \* 6 s and 18 s
    MaxNonces,     \* bound: nonces minted
    MaxTime        \* bound: the clock stops here

\* The fixtures' scripts; "single-run-coolstore" stands for a run without one.
Scripts == {"boot-race-run", "boot-race-finishes", "legacy-boot-race-run",
            "flaky-run", "single-run-coolstore"}

ASSUME UpgradeAssumption ==
    /\ Runs \subseteq Scripts
    /\ NONCE_TTL \in Nat /\ RACE_RUNNING_MS \in Nat /\ RACE_LISTENING_MS \in Nat
    /\ MaxNonces \in Nat /\ MaxTime \in Nat

Nonces == 1..MaxNonces

VARIABLES
    now,           \* the clock
    started,       \* runs in scriptStart
    scriptStart,   \* when their scripts began
    nonces,        \* nonces in the map
    expiry,        \* expiry[n], once n is minted
    minted,        \* nonces 1..minted have been minted
    ready,         \* ready[c]: runs that c has seen with ACPReady = True
    socket,        \* socket[c]: what became of c's last dial
    opened         \* opened[n]: how many sockets nonce n has opened

scriptVars == <<started, scriptStart>>
nonceVars  == <<nonces, expiry, minted>>
vars == <<now, scriptVars, nonceVars, ready, socket, opened>>

NoSocket == [run |-> "none", state |-> "none"]

Init ==
    /\ now = 0
    /\ started = {} /\ scriptStart = [r \in Runs |-> 0]
    /\ nonces = {} /\ expiry = [n \in Nonces |-> 0] /\ minted = 0
    /\ ready = [c \in Clients |-> {}]
    /\ socket = [c \in Clients |-> NoSocket]
    /\ opened = [n \in Nonces |-> 0]

-----------------------------------------------------------------------------
(* The scripted timelines.                                                 *)

\* Mutant: the pod is said to listen as soon as it runs.
ListensWhenRunning(ms) == ms >= RACE_RUNNING_MS

Listening(ms) == ms >= RACE_LISTENING_MS

\* The status says ACPReady = True; "legacy-boot-race-run" never has the
\* condition, "boot-race-finishes" ends before it listens.
ReadyAt(r, ms) ==
    \/ r = "boot-race-run" /\ ms >= RACE_RUNNING_MS /\ Listening(ms)
    \/ r \in {"flaky-run", "single-run-coolstore"}

acpAt(r, ms) ==
    CASE r \in {"boot-race-run", "legacy-boot-race-run"} ->
            IF ms < RACE_LISTENING_MS THEN "refused" ELSE "listening"
      [] r = "boot-race-finishes" -> "refused"
      [] r = "flaky-run" -> "flaky"
      [] r = "single-run-coolstore" -> "listening"

scriptClock(r) == IF r \in started THEN now - scriptStart[r] ELSE 0

acpBehavior(r) == acpAt(r, scriptClock(r))

-----------------------------------------------------------------------------
(* Requests.                                                               *)

StartScript(r) ==
    /\ started' = started \cup {r}
    /\ scriptStart' = IF r \in started THEN scriptStart
                      ELSE [scriptStart EXCEPT ![r] = now]

(* GET of one run: its script starts if it has not yet.                    *)
GetRun(c, r) ==
    /\ StartScript(r)
    /\ ready' = IF ReadyAt(r, now - scriptStart'[r])
                THEN [ready EXCEPT ![c] = @ \cup {r}] ELSE ready
    /\ UNCHANGED <<now, nonceVars, socket, opened>>

(* GET of all runs: no script starts.                                      *)
ListRuns(c) ==
    /\ ready' = [ready EXCEPT ![c] =
                   @ \cup {r \in Runs : ReadyAt(r, scriptClock(r))}]
    /\ UNCHANGED <<now, scriptVars, nonceVars, socket, opened>>

(* POST .../acp/nonce.                                                     *)
issueNonce ==
    /\ minted < MaxNonces
    /\ minted' = minted + 1
    /\ nonces' = nonces \cup {minted'}
    /\ expiry' = [expiry EXCEPT ![minted'] = now + NONCE_TTL]
    /\ UNCHANGED <<now, scriptVars, ready, socket, opened>>

\* Mutant: a nonce that was redeemed stays.
KeepNonce(n) == nonces

Valid(n) == n \in nonces /\ now <= expiry[n]

Redeemed(n) == nonces \ {n}

(* A pod that does not listen shows as a socket that opens and goes away.  *)
Answer(r, n) ==
    IF ~Valid(n) THEN "unauthorized"
    ELSE IF acpBehavior(r) = "refused" THEN "dropped" ELSE "open"

(* The upgrade of c's dial of run r with nonce n (0: none, or not one of   *)
(* the hub's): the nonce is redeemed first, whether it is valid or not.    *)
Dial(c, r, n) ==
    /\ socket[c] = NoSocket
    /\ nonces' = Redeemed(n)
    /\ socket' = [socket EXCEPT ![c] = [run |-> r, state |-> Answer(r, n)]]
    /\ opened' = IF Valid(n) THEN [opened EXCEPT ![n] = @ + 1] ELSE opened
    /\ UNCHANGED <<now, scriptVars, expiry, minted, ready>>

(* The client has done with the dial: it saw it fail, or the socket closed *)
(* (a flaky run drops it).                                                 *)
HangUp(c) ==
    /\ socket[c] # NoSocket
    /\ socket' = [socket EXCEPT ![c] = NoSocket]
    /\ UNCHANGED <<now, scriptVars, nonceVars, ready, opened>>

Tick ==
    /\ now < MaxTime
    /\ now' = now + 1
    /\ UNCHANGED <<scriptVars, nonceVars, ready, socket, opened>>

Next ==
    \/ \E c \in Clients, r \in Runs :
          GetRun(c, r) \/ \E n \in {0} \cup Nonces : Dial(c, r, n)
    \/ \E c \in Clients : ListRuns(c) \/ HangUp(c)
    \/ issueNonce
    \/ Tick

Spec == Init /\ [][Next]_vars

-----------------------------------------------------------------------------
(* Properties.                                                             *)

Sockets == [run : Runs \cup {"none"},
            state : {"none", "unauthorized", "dropped", "open"}]

(* Every variable keeps to its type.                                       *)
TypeOK ==
    /\ now \in Nat
    /\ started \subseteq Runs /\ scriptStart \in [Runs -> 0..now]
    /\ minted \in 0..MaxNonces /\ nonces \subseteq 1..minted
    /\ expiry \in [Nonces -> Nat]
    /\ ready \in [Clients -> SUBSET Runs]
    /\ socket \in [Clients -> Sockets]
    /\ opened \in [Nonces -> Nat]

(* A nonce opens one socket at most, however many dials carry it, and none *)
(* once it has expired (the header of the mock: single-use, 30 s).         *)
NonceOnce ==
    [][\A n \in Nonces : opened'[n] # opened[n] =>
          opened[n] = 0 /\ opened'[n] = 1 /\ now <= expiry[n]]_vars

(* The panel dials once, on ACPReady (the comment on acpCond): whoever has *)
(* seen it True, however long ago, is not dropped when it dials that run.  *)
ReadyIsDialable ==
    [][\A c \in Clients, r \in Runs :
          /\ socket[c] = NoSocket
          /\ socket'[c] = [run |-> r, state |-> "dropped"]
          => r \notin ready[c]]_vars
=============================================================================

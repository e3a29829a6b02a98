SPECIFICATION Spec
CONSTANTS
    Clients = {c1, c2}
    Runs = {"boot-race-run", "boot-race-finishes"}
    NONCE_TTL = 1
    RACE_RUNNING_MS = 1
    RACE_LISTENING_MS = 3
    MaxNonces = 2
    MaxTime = 5
SYMMETRY Interchangeable
PROPERTIES NonceOnce ReadyIsDialable

\* An observer is busy elsewhere while its subject fails and claims again.
SPECIFICATION LeaseSpec
CONSTANTS
    Workers = {w1, w2, w3}
    NoWorker = NoWorker
    LeaseLength = 3
    RenewTicks = 1
    MaxAttempts = 2
    MaxGeneration = 3
PROPERTY LeaseIsHonoured
CHECK_DEADLOCK FALSE

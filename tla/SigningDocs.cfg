\* What comments say of signatures, payloads and the commitment.
SPECIFICATION Spec
CONSTANTS
    Dicts <- AllDicts
    Balances = {0, 1, 2}
    MaxAttempts = 2
    Absent = Absent
INVARIANTS
    CommitmentBindsBalance
    FallibleSignedInIntent
    SignaturesRecomputable
    IntentPrefixed
CHECK_DEADLOCK FALSE

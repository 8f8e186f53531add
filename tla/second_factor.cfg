SPECIFICATION SecondFactorSpec
CONSTANTS
    Reqs = {r1, r2}
    Slots = {c1, c2}
    MaxBatches = 2
    Handles = {h1}
    MaxAttempts = 2
    MaxGuesses = 4
SYMMETRY Symmetry
INVARIANTS TypesOK
    OneRecord BackupCodeIsUsedOnce ShownCodesWork VerifiedSecretIsProven FlagFollowsRecord
    GuessesAreFew ChallengeLogsInOnce LockoutIsFinal DeviceHasOneRow TrustEndsWithFactor
CHECK_DEADLOCK FALSE

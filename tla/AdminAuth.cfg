CONSTANTS
    Claimers = {c1, c2, c3}
    Username <- MCUsername
    Logins = {l1}
    Resetters = {r1, r2}
    Keys = {k1}
    MaxRestarts = 1
SPECIFICATION Spec
CHECK_DEADLOCK FALSE
SYMMETRY Symmetry
INVARIANTS SerialClaimsOneAdmin SessionsHaveAccounts StrandedOnlyByRefusal

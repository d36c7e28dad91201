CONSTANTS
    alice = alice  old = old  new = new  h1 = h1  h2 = h2
    Emails = {alice}
    Passwords = {old, new}
    LegacyEmails = {}
    LegacyPassword = old
    Tasks = {h1, h2}
    MaxFails = 2
    Window = 1
    SessionTtl = 2
    ResetTtl = 1
    PersistOutcomes = {TRUE}
    MaxTime = 1
    MaxMint = 4
SYMMETRY TaskSymmetry
SPECIFICATION Spec
INVARIANTS ResetForcesFreshLogin

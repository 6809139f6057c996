CONSTANTS
    Clients = {alice, bob}
    Patient = alice
    Wrap = 8
    NonceTtl = 3
    Cooldown = 3
    alice = alice
    bob = bob
SPECIFICATION FairSpec
INVARIANTS
    TypeOK
    OncePerNonce
    GuessesSpaced
PROPERTIES
    PatientServed

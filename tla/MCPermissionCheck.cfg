SPECIFICATION FairCheckSpec
CONSTANTS
    alice = alice
    bob = bob
    aliceEntity = aliceEntity
    bobEntity = bobEntity
    r1 = r1
    r2 = r2
    UserId = {alice, bob}
    Entity = {aliceEntity, bobEntity}
    EntityOf <- MCEntityOf
    Nobody = Nobody
    Request = {r1, r2}
    Call <- MCCall
    MAX_USER_IDS_PER_REQUEST = 2
    Ttl = 1
    FaultKinds = {"provider", "rejected", "unexpected", "entity", "event", "target"}
    MaxEdits = 1
    MaxFaults = 1
INVARIANTS
    CheckTypeOK
    IndexCovers
    NotFoundIsTrue
PROPERTIES
    StalenessEnds
    ChecksEnd

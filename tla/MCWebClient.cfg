CONSTANTS
    alice = alice
    bob = bob
    h1 = h1
    h2 = h2
    NoUser = NoUser
    NoHousehold = NoHousehold
    Users = {alice, bob}
    Households = {h1, h2}
    InitialMembers <- TwoFamilies
    MaxLogouts = 1
    MaxJobs = 2
SPECIFICATION Spec
INVARIANTS
    ClientTypeOK
    StorageIsOwn
    ShownHouseholdIsOwn
PROPERTIES
    WaitsEnd

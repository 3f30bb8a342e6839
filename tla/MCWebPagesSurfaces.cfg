CONSTANTS
    h1 = h1
    h2 = h2
    NoHousehold = NoHousehold
    Households = {h1, h2}
    MaxJobs = 1
SPECIFICATION Spec
INVARIANT
    SurfacesFollowSwitch

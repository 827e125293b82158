SPECIFICATION Spec
CONSTANTS
    Runs = {r1, r2, r3}
    Clients = {c1, c2}
    Keys = {k1, k2}
    Projects = {p1, p2}
    sCpu = sCpu
    sGpu = sGpu
    Specs = {sCpu}
    ClassOf <- MCClassOf
    Needs <- MCNeeds
    Policies <- MCPoliciesTwo
    NoRun = NoRun
SYMMETRY MCSymmetry
INVARIANTS UsageCountsReservations ReservationIffLive AnswersAgree DeletedProjectsQuiet
PROPERTY RecordsStand

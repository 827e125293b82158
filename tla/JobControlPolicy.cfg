SPECIFICATION Spec
CONSTANTS
    Runs = {r1, r2}
    Clients = {c1, c2}
    Keys = {k1, k2}
    Projects = {p1}
    sCpu = sCpu
    sGpu = sGpu
    Specs = {sCpu, sGpu}
    ClassOf <- MCClassOf
    Needs <- MCNeeds
    Policies <- MCPoliciesStrict
    NoRun = NoRun
INVARIANTS ActiveRunsFitPolicy

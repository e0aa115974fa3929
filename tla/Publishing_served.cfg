SPECIFICATION PubSpec
CONSTANTS
    a1 = a1
    a2 = a2
    d1 = d1
    d2 = d2
    x1 = x1
    s1 = s1
    Tasks = {k1, k2}
    Apps = {a1, a2}
    Deployments = {d1, d2}
    Domains = {x1}
    Machines = {d1}
    Sources = {s1}
    Local = d2
    None = None
    Old = Old
    Words = {"publish", "unpublish", "start", "setup", "set_deployment", "deployment_remove"}
    Faults = {"crash", "redis", "refuse", "deny", "exit"}
    StartApps <- MCStartApps
    StartDeps <- MCStartDeps
    StartDefaults <- MCStartDefaults
    StartProxies <- MCStartProxies
SYMMETRY Symmetry
INVARIANTS
    PubTypeOK
    DoneMeansServed
    ProxyStaysUp
CHECK_DEADLOCK FALSE
CONSTRAINT
    OneSkips

SPECIFICATION Spec
CONSTANTS
    a1 = a1
    a2 = a2
    d1 = d1
    d2 = d2
    x1 = x1
    s1 = s1
    s2 = s2
    Tasks = {k1, k2}
    Apps = {a1, a2}
    Deployments = {d1, d2}
    Domains = {x1}
    Sources = {s1, s2}
    Local = d2
    Machines = {d1, d2}
    None = None
    Words = {"init", "update", "remove", "set_deployment", "publish", "unpublish", "deployment_create", "deployment_update", "deployment_remove", "machine", "deployment_set_default", "start", "setup"}
    Faults = {"crash", "redis", "refuse"}
    StartApps <- MCStartApps
    StartDeps <- MCStartDeps
    StartDefaults <- MCStartDefaults
SYMMETRY Symmetry
INVARIANTS
    TypeOK
    NothingInvented
    CopyIsFresh
    LostOnlyToRivals
CHECK_DEADLOCK FALSE

SPECIFICATION KyvernoSpec
CONSTANTS
    n1 = n1  p1 = p1  q1 = q1  cp = cp  nr = nr
    Objects = {n1, p1, q1}
    Resources = {cp, nr}
    Populations <- MCPopulations
    Kind <- MCKind
    NsOf <- MCNsOf
    Target <- MCTarget
    Family <- MCFamily
    ScopeOf <- MCScopeOf
    ViaReplicaSet = {}
    Versions = {va}
    NoVersion = NoVersion
    ClusterScope = ClusterScope
    None = None
    Reconcile = TRUE
    AdminDeletes = TRUE
    MaxChanges = 2
    MaxFaults = 1
INVARIANTS PoliciesMirrored
PROPERTIES ListedPoliciesKept PoliciesSurviveErrors

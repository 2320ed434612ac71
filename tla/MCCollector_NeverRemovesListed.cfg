SPECIFICATION Spec
CONSTANTS
    n1 = n1  n2 = n2  w1 = w1  p1 = p1  m1 = m1  v1 = v1
    s1 = s1  i1 = i1  c1 = c1  q1 = q1
    Objects <- PolicyObjects
    Populations <- PolicyOnly
    Kind <- MCKind
    NsOf <- MCNsOf
    Target <- MCTarget
    ViaReplicaSet = {p1}
    Versions = {va}
    NoVersion = NoVersion
    ClusterScope = ClusterScope
    None = None
    Reconcile = TRUE
    AdminDeletes = FALSE
    MaxChanges = 0
    MaxFaults = 1
PROPERTY NeverRemovesListed

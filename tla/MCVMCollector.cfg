SPECIFICATION FairSpec
CONSTANTS
    v1 = v1  v2 = v2  g1 = g1  g2 = g2
    VMs <- const_VMs
    Groups <- const_Groups
    Attached <- const_Attached
    Populations <- const_Populations
    Cluster <- const_Cluster
    Reconcile = TRUE
    MaxChanges = 2
    MaxFaults = 1
INVARIANTS MirrorAfterCleanTick
PROPERTIES ListedVMsSurvive PerimeterSurvives EventuallyMirrors

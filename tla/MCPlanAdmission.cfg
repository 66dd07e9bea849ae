SPECIFICATION AdmissionSpec
CONSTANTS
    l1 = l1
    l2 = l2
    l3 = l3
    Leases <- MCLeases
    Files = {f1, f2}
    Deployments <- SafeDeployments
    MaxAttempts = 2
INVARIANTS
    AdmissionTypeOK
    SerialisedContracts
    AdmissionInv
PROPERTIES
    ContractsStand
    EveryPlanAnswered
    LocalWaitsOnProgress

SPECIFICATION Spec
CONSTANTS
    a = a  b = b  c = c  s1 = s1  s2 = s2  fw = fw
    Zones <- MCZones
    SpecDomains <- MCDomains
    SpecHosts <- MCHosts
    Firewalls <- MCFirewalls
    SubnetSpecs <- MCSubnets
    LBSubnets <- MCLBSubnets
    Configs <- OwnVPC
    MaxFaults = 1
    MaxEdits = 1
SYMMETRY ZoneSymmetry
INVARIANTS
    TypeOK
    FinalizerGuards
    ReadyMeansProvisioned
    EndpointBacked
    DeleteOrderSafe
    RecordedResourcesDeleted
    BackendsSized
    NothingForgotten
PROPERTIES
    EndpointStable
    ImplementsLifecycle
    ImplementsInfrastructure
CHECK_DEADLOCK FALSE

SPECIFICATION FairSpec
CONSTANTS
    a = a  b = b  c = c  s1 = s1  s2 = s2  fw = fw
    Zones <- MCZones
    SpecDomains <- MCOneDomain
    SpecHosts <- MCNoHost
    Firewalls <- MCFirewalls
    SubnetSpecs <- MCSubnets
    LBSubnets <- MCLBSubnets
    Configs <- EveryVPC
    MaxFaults = 1
    MaxEdits = 1
INVARIANTS
    FinalizerGuards
    ForeignUntouched
    ReadyMeansProvisioned
PROPERTIES
    DeletionCompletes
    BecomesReady
CHECK_DEADLOCK FALSE

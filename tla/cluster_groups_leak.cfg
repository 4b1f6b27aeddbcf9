SPECIFICATION Spec
CONSTANTS
    a = a  b = b  c = c  s1 = s1  s2 = s2  fw = fw
    Zones <- MCZones
    SpecDomains <- MCOneDomain
    SpecHosts <- MCNoHost
    Firewalls <- MCFirewalls
    SubnetSpecs <- MCSubnets
    LBSubnets <- MCLBSubnets
    Configs <- ExternalOnly
    MaxFaults = 1
    MaxEdits = 0
SYMMETRY ZoneSymmetry
INVARIANTS
    NoInstanceGroupLeft
CHECK_DEADLOCK FALSE

SPECIFICATION Spec
CONSTANTS
    Configs <- MCConfigs
    Lines <- AllLines
    OnLinks <- SomeRA
    SpareBits = 16
INVARIANTS
    
    SeparateSubnets
    WanSubnetRouted

SPECIFICATION Spec
CONSTANTS
    Hosts <- MCHosts
    Size = 192
    Lengths = {0, 1, 3, 4, 7, 8, 15, 16, 31, 47, 63, 95, 127, 129, 160, 191}
    Coefficients = {0, 1, 2, 142, 255}
    Contents <- MCContents
    MaxCalls = 1
CHECK_DEADLOCK FALSE
INVARIANTS
    TypeOK
    PrefixDone
    SelfTestPasses
PROPERTIES
    TablesAreAField
    CauchyRecovers
    ImplementsAbstractBulk

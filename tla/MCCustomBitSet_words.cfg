SPECIFICATION Spec
CONSTANTS
    kWordBits = 4
    kValidBits = 10
    RegionSizes = {2, 3, 5}
INVARIANTS
    RangesAgree
    PopcountAgrees
    SearchesAgree
    ScanFindsFirst

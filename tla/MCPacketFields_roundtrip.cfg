SPECIFICATION Spec
CHECK_DEADLOCK FALSE
CONSTANTS
    Headers <- AllHeaders
    Footers <- AllFooters
    Payloads <- TwoPayloads
    MaxFields = 2
INVARIANTS
    FieldsReadBack
    PayloadIsLeft
    CutFieldIsRefused

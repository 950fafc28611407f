CONSTANTS
    NONE = NONE
    Token <- MCToken
    Messages <- MCMessages
    ByteValues = {0, 1, 2, 8, 101, 255}
    FieldValues = {0, 1, 2, 3, 4, 5, 6, 7, 8, 14, 15, 255}
    MaxChanges = 1
SPECIFICATION Spec
INVARIANTS
    DecodesWhatWasEncoded
    OneMeaning
    AcceptsOnlyEncodings
    RegistryDescribesFrames
    EmergencyGoesFirst
CHECK_DEADLOCK FALSE

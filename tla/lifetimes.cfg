CONSTANTS
    Nobody = Nobody
    MessageSizes = {0, 3, 8}
    ControlSize = 8
    Alignment = 4
SPECIFICATION ScopeSpec
INVARIANTS
    ScopeTypeOK
    OpenIsOwned
    NothingClosedInUse
    ReaderWhileDescribed
    BuffersUsable
\* The program ends.
CHECK_DEADLOCK FALSE

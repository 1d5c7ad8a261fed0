SPECIFICATION Spec
CONSTANTS
    NoOwner = NoOwner
    NoData = NoData
    Junk = Junk
    Owners = {area, planning, waypos}
    Positions = {a, b}
    SLOT_COUNT = 2
    Sizes = {1, 2}
    Indices = {1, 2, 3}
SYMMETRY Symmetry
INVARIANTS
    TypeOK
    RingIsCounted
    OneStoreEach
PROPERTIES
    ImplementsDeques

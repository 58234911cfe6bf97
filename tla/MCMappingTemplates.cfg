SPECIFICATION Spec
CONSTANTS
    live = live
    closed = closed
    a = a
    b = b
    Editors = {e1, e2, e3}
    Templates = {live, closed, fresh}
    Names = {a, b}
    Bodies <- MCBodies
    Documents <- MCDocuments
    Zones <- MCZones
    MaxRows = 6
    Seed <- MCSeed
    None = None
    Tenants = {owner, other}
    Owner = owner
    NoTenant = NoTenant
SYMMETRY MCSymmetry
INVARIANTS
    OneDraft
    NamesAreCoherent
    ChainIsSound
    PatchesAreSerial
    StoredRulesLoad
PROPERTIES
    LiveVersionsAreFrozen
CHECK_DEADLOCK FALSE

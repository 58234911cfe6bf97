SPECIFICATION FairSpec
CONSTANTS
    catalogue = catalogue
    sale = sale
    catTemplate = catTemplate
    saleTemplate = saleTemplate
    Messages = {catalogue, sale}
    Workers = {w1}
    Templates = {catTemplate, saleTemplate}
    Versions = {1, 2, 3, 4, 5, 6}
    BadConfig <- MCBadConfig
    Zones <- MCZones
    KindsOf <- MCKindsOf
    TemplateOf <- MCTemplateOf
    LineageOf <- MCLineageOf
    FirstActive <- MCFirstActive
    Successors <- MCSuccessors
    TargetOf <- MCTargetOf
    Verdict <- MCVerdict
    Refusal <- MCRefusal
    Batches = 2
    Tenants = {owner, other}
    Owner = owner
    NoTenant = NoTenant
    ReceivedAt <- MCReceivedAt
    IdOf <- MCIdOf
    None = None
    MaxMessages = 1
    MaxDeliveryAttempts = 2
INVARIANTS
    NothingAckedAndLost
    HoldsAreDeterministic
    RefusedIsNotWritten
    AuditTrailIsTrue
PROPERTIES
    ChunkSettles
CHECK_DEADLOCK FALSE

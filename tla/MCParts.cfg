SPECIFICATION MCSpec
CONSTANTS
    m1 = m1  m2 = m2
    Services <- MCServiceSet
    Meta <- MCMeta
    SpecsOf <- MCSpecsOf
    Projects = {p, q}
    EnvProject = NoValue
    NoValue = NoValue
    MaxRules = 4
    MaxCloudFaults = 1
    MaxUserEdits = 5
    Items = {i1, i2, i3, i4, i5}
    PageSize = 2
    MaxItems = 4
    MaxChanges = 3
    Machines <- MCMachines
    vmName <- MCvmName
    vmProject <- MCvmProject
    vmNICs <- MCvmNICs
    DefaultProject = q
    Indexes <- MCIndexes
    Foreign = Foreign
    Nothing = Nothing
    PortSpecs <- MCPortSpecs
    Named = Named
    Targets = {40, 41}
    NoMessage = NoMessage
    Absent = Absent
    MaxPoolEvents = 3
CHECK_DEADLOCK FALSE
INVARIANTS
    ServicesTypeOK
    OneProject
    ListedOnce
    MissesAtMostRemoved
    AddressesSound
    PoolsSettled
    EnsuredRoutes
PROPERTIES
    OnlyOwnRules
    DeletedLeavesNothing
    DeletedIsGone
    ReplacedOnlyIfChanged
    ListingAdvances

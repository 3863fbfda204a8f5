SPECIFICATION ServicesSpec
CONSTANTS
    Services <- MCServiceSet
    Meta <- MCMeta
    SpecsOf <- MCSpecsOf
    Projects = {p, q}
    EnvProject = p
    NoValue = NoValue
    MaxRules = 4
    MaxCloudFaults = 1
    MaxUserEdits = 3
CHECK_DEADLOCK FALSE
PROPERTIES
    OnlyOwnRules

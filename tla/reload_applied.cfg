\* One edit.
CONSTANTS
    None = None
    Upper <- MCUpper
    RuleConfigs <- MCRuleConfigs
    Requests <- MCRequests
    Names <- MCNames
    Credentials <- MCCredentials
    MaxRules = 1
SPECIFICATION Spec
CHECK_DEADLOCK FALSE
PROPERTIES ReloadTakesEffect

\* Requests that differ in their port.
CONSTANTS
    None = None
    Upper <- MCUpper
    RuleConfigs <- MCRuleConfigs
    Requests <- PortRequests
    Names <- MCNames
    Credentials <- MCCredentials
    MaxRules = 2
SPECIFICATION Spec
CHECK_DEADLOCK FALSE
INVARIANTS PortsCount

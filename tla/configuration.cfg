\* Files of up to two rules, each of any of the kinds in MCRuleConfigs, read at any moment.
\* The operator may stop writing for good: no deadlock check.
CONSTANTS
    None = None
    Upper <- MCUpper
    RuleConfigs <- MCRuleConfigs
    Requests <- MCRequests
    Names <- MCNames
    Credentials <- MCCredentials
    MaxRules = 2
SPECIFICATION Spec
CHECK_DEADLOCK FALSE
INVARIANTS TypeOK FilterMeansItsPatterns UsersOfTheDecidingRule OwnHeadersUnderstood
PROPERTIES LastSignalCounts AddedRulesComeLast

\* Up to three pipelined requests.  The connection ends for good: no deadlock check.
CONSTANTS
    t1 = t1
    t2 = t2
    Targets = {t1, t2}
    None = None
    MaxRequests = 3
    Scripts <- MCScripts
SPECIFICATION Spec
CHECK_DEADLOCK FALSE
INVARIANTS TypeOK RepliesTruthful OneAtATime
PROPERTIES UpstreamsReleased RequestsSettled TaskSpec

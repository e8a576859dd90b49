SPECIFICATION Spec
CONSTANTS
    Proxies = {1, 2}
    Workers = {1}
    NSeg = 1
PROPERTY OrderlyStopAllowsStart
CHECK_DEADLOCK FALSE

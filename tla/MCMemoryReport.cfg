SPECIFICATION ReportSpec
CONSTANTS
    Served = {a, b}
    Ports = {p1, p2}
    Launchable = {short, long}
    Nothing = Nothing
    MaxLoads = 2
    MaxTurns = 2
    LogCap = 2
INVARIANTS ReportIsOfTheLoad CardReadingIsOfTheLoad
SYMMETRY Symmetry
CHECK_DEADLOCK FALSE

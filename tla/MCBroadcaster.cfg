CONSTANTS
    Subscribers = {s1, s2}
    HistSize = 2
    ChanCap = 2
    MaxValues = 6
SPECIFICATION Spec
SYMMETRY SubscriberSymmetry
INVARIANTS CompleteUnlessOverrun
PROPERTIES ReplayHasLatest KeepsItsPromise
CHECK_DEADLOCK FALSE

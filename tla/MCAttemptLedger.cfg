\* Two workers on one work key: two generations in each of two attempts.
SPECIFICATION Spec
CONSTANTS
    Workers = {w1, w2}
    Sigs = {s1, s2}
    NoSig = NoSig
    NoCopy = NoCopy
    NoEvent = NoEvent
    MaxGeneration = 1
    MaxAttempts = 2
SYMMETRY Symmetry
INVARIANTS IInv LedgerChecks RecordedBeforeSent ExecutedLanded OneLiveGeneration
PROPERTIES OutcomeStays

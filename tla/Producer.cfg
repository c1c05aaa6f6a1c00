SPECIFICATION ProducerSpec
CONSTANTS
    s1 = s1
    s2 = s2
    v1 = v1
    v2 = v2
    Services = {s1, s2}
    Lanes <- OneLane
    Variants = {v1, v2}
    QuoteAt <- SameQuotes
    BarLength = 3
    EntryWindow = 2
    MaxLag = 1
    EnvelopeTtl = 1
    MaxBar = 2
    MaxFaults = 1
SYMMETRY ProducerSymmetry
INVARIANTS
    OneDecisionPerCandle
    CursorImportable
CHECK_DEADLOCK FALSE

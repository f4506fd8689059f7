\* Two prompts, a transcript with up to one earlier line and two new ones.
SPECIFICATION FairSpec
CONSTANTS
    m1 = m1
    m2 = m2
    m3 = m3
    Messages = {m1, m2, m3}
    ModelOf <- MCModelOf
    ListPrice <- MCListPrice
    FallbackPrice = 3
    Synthetic = "synthetic"
    Cap = 2
    Prompts = 2
    MaxCount = 2
    MaxLines = 2
INVARIANTS OverCapIsStopping Accounted
PROPERTY RunEnds
\* A run that is done does nothing more.
CHECK_DEADLOCK FALSE

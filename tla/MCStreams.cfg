\* Queue: one reader, as the class is documented; two distinguishable values
\* and four pushes: a value overtaking, lost or repeated shows with two.
\* Usage: two messages whose counts may grow once, in a file of four lines.
SPECIFICATION FairSuiteSpec
CONSTANTS
    Values = {v1, v2}
    Readers = {r1}
    None = None
    MaxPushes = 4
    Messages = {m1, m2}
    Counts = {1, 2}
    Unseen = Unseen
    Other = Other
    MaxLines = 4
INVARIANTS CompleteAtTheEnd OnlyGrowthRepeats
PROPERTIES ImplementsStream ReaderFinishes UsageIsLive
\* A run that ended with a full transcript does nothing more.
CHECK_DEADLOCK FALSE

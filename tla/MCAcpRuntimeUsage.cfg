SPECIFICATION FairSpec
CONSTANTS
    Approvals = {a1}
    Offers <- MCOffers
    Unasked = Unasked
    Waiting = Waiting
    Cancelled = Cancelled
    MaxTurns = 1
    MaxLines = 1
PROPERTIES UsageCompleteAtClose
\* A run that has ended does nothing more.
CHECK_DEADLOCK FALSE

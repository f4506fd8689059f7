\* Two requests that may wait at once, two turns, a usage line.
SPECIFICATION FairSpec
CONSTANTS
    Approvals = {a1, a2}
    Offers <- MCOffers
    Unasked = Unasked
    Waiting = Waiting
    Cancelled = Cancelled
    MaxTurns = 2
    MaxLines = 1
INVARIANTS WaitingIsPending WaitingCanBeDecided HistoryStaysOut OneTurnAtATime
           LastLookReportsAll EndedMeansReleased
PROPERTIES ImplementsDesk NobodyWaitsOnTheDead StartSettles EndRunCloses
\* A run that has ended does nothing more.
CHECK_DEADLOCK FALSE

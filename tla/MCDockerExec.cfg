SPECIFICATION FairSpec
CONSTANTS
    MaxPolls = 2
    MaxKills = 2
INVARIANT AnswersAreTrue
PROPERTIES NoSignalAfterAnswer ImplementsPromise TimedCallsAnswer
CHECK_DEADLOCK FALSE

\* A tick is a third of the beat's interval: the beat comes every third tick and
\* its key lasts nine, the ratio of 10 to 30 seconds; the probe timeout of two
\* seconds is rounded up to one tick.
SPECIFICATION FairSpec
CONSTANTS
    Interval = 3
    Ttl = 9
    Timeout = 1
    MaxPending = 2
INVARIANTS BlipsAreForgiven
PROPERTIES OkMeansRecent PageSettles

SPECIFICATION FairSpec
CONSTANTS
    Owners = {o}
    Senders = {a, b}
    Nobody = none
    Depth = 2
    MaxBuckets = 2
    MaxSends = 1
    LivesOn = TRUE
PROPERTIES AcceptedIsServed ClosedRetires TeardownEnds

SPECIFICATION FairSpec
CONSTANTS
    Producers = {p1, p2}
    Capacity = 2
    MaxCalls = 3
INVARIANT SlotExclusive
PROPERTIES ImplementsQueue FullMeansFull AcceptedDelivered

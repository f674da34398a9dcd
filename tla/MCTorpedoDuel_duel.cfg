SPECIFICATION FairSpec
CONSTANTS
    Cells <- Line3
    Near <- NearOnLine3
    Fleets <- Fleet3
    FeedCap = 1
    LogCap = 1
INVARIANTS DuelInv ChartAgrees OneWinner
           FrameIsBelievable LogOutlivesCallbacks
PROPERTIES PlaysBattleship Finishes
CHECK_DEADLOCK FALSE

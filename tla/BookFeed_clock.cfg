SPECIFICATION FairFeed
CONSTANTS
    Symbols = {a}
    Sampled = {a}
    MaxUpdates = 2  MaxEdits = 0  MaxFeedFaults = 1
    FeedFaults = {"jump"}
PROPERTIES Resynchronized
CHECK_DEADLOCK FALSE

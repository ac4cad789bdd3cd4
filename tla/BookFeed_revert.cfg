SPECIFICATION FairFeed
CONSTANTS
    Symbols = {a, b}
    Sampled = {a}
    MaxUpdates = 1  MaxEdits = 2  MaxFeedFaults = 1
    FeedFaults = {"reload"}
PROPERTIES BooksInTheEnd
CHECK_DEADLOCK FALSE

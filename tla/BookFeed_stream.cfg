SPECIFICATION FairFeed
CONSTANTS
    Symbols = {a, b}
    Sampled = {a}
    MaxUpdates = 2  MaxEdits = 2  MaxFeedFaults = 1
    FeedFaults = {"break", "jump", "reload", "bad"}
INVARIANTS ValidFollowsTheStream
PROPERTIES SubscribedInTheEnd SynchronizedUnlessRejected
CHECK_DEADLOCK FALSE

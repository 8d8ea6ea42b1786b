SPECIFICATION FairSpec
CONSTANTS
    Items = 2
    MaxRedirects = 2
INVARIANTS ItemsAreTheFeeds ReturnsWithTheFeed
PROPERTIES FeedWaitEnds
CHECK_DEADLOCK FALSE

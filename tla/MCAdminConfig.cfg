SPECIFICATION FairSpec
CONSTANTS
    a1 = a1
    a2 = a2
    a3 = a3
    empty = empty
    url = url
    key1 = key1
    key2 = key2
    Mask = Mask
    NoRow = NoRow
    Nothing = Nothing
    Admins = {a1, a2, a3}
    Upstreams = {empty, url}
    Keys = {key1, key2}
    Titles <- MCTitles
    Levels = {2, 4}
    Default <- MCDefault
    LostReplies = TRUE
    MaxUpdates = 3
    MaxCrashes = 1
INVARIANT TypeOK
INVARIANT UpstreamCoherent
INVARIANT SerialUpdatesCoherent
PROPERTY UntouchedKeySurvives
PROPERTY UpdatesFinish
CHECK_DEADLOCK FALSE

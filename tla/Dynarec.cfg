SPECIFICATION Spec
CONSTANTS
    Games <- MCGames
    PageSize = 4
    HashSize = 2
    MaxTrace = 4
    Threshold = 1
    MaxHot = 4
    MaxFragments = 2
    MaxReloads = 1
INVARIANTS CoreMatches CacheExact CodeFresh
PROPERTY FollowsGuest

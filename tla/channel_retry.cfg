SPECIFICATION FairSpec
INVARIANTS TypeOK ListedIsEnabled PricedByUsedGroup AttemptsBounded EveryGroupTried AbilitiesFollow
PROPERTIES CacheConverges
CONSTANTS
    a = a
    b = b
    c1 = c1
    c2 = c2
    None = None
    Channels = {c1, c2}
    AutoGroups <- MCAutoGroups
    Members <- PairMembers
    Priority <- PairPriority
    RetryTimes = 1
    Requests = {r1}
    Updaters = {u1}
    MaxUpdates = 1
    MaxFaults = 1

CHECK_DEADLOCK FALSE

SPECIFICATION FormSpec
CONSTANTS
    None = None
    Team = {1, 2, 3}
    Base = 4
    Client = {2, 5}
    Lead = {l1, l2}
    Kept = {k1}
    Tag = {green}
    Roster = {1, 3}
    Listed <- TwoListed
    LongestRun = 2
    Uneven = 2
    s1 = s1
    s2 = s2
    t1 = t1
    q1 = q1
    q2 = q2
    Scout = {s1, s2}
    Tablet = {t1}
    Ask = {q1, q2}
    FirstSchedule <- FourMatches
    Revised <- FirstRevised
    Edited = {1}
    Named = {s1, t1}
    Pools <- TabletAndScout
    AnyPools <- TwoPools
    Limits = {1}
    u1 = u1
    u2 = u2
    User = {u1, u2}
    Watched = {r1}
    Parts = 2
    MaxEdits = 1
    MaxLoads = 2
    MaxFaults = 2
    Question = {"f1", "f2"}
INVARIANT UntouchedStays
CHECK_DEADLOCK FALSE

\* Two tabs, 3 messages, 2 forks; one session, room for another and 4 messages said.
SPECIFICATION MCSpec
CONSTANTS
    t1 = t1
    t2 = t2
    Tabs <- TwoTabs
    MaxBodies = 3
    MaxForks = 2
    MaxCounted = 2
    MaxClock = 4
    s1 = s1
    s2 = s2
    NoId = NoId
    NoRow = NoRow
    SessionIds <- TwoIds
    Stored <- OneStored
    MaxSaid = 4
SYMMETRY TabSymmetry
CHECK_DEADLOCK FALSE
INVARIANT BranchesKept
 

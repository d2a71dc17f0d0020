SPECIFICATION FairSpec
CONSTANTS
    Uids = {1, 2}
    NumVids = 1
    Home <- MCHome
    Reads <- MCReads
    Fds = {3, 4}
    WideFds = {32768}
    MaxReloads = 1
CHECK_DEADLOCK FALSE
INVARIANTS
    TablesMatch
    RobotsConserved
    KillsAreMeant
PROPERTIES
    PlayersFinish
    QuitEnds

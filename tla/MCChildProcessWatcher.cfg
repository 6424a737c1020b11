SPECIFICATION FairSpec
CONSTANT Pid = {1, 2, 3}
INVARIANTS WatchedAreReports NoLostChild
PROPERTY EveryZombieReaped

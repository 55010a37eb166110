CONSTANTS
    Boards <- Builds
    Sfp = "sfp4"
    ProbeTicks = 2
    None = None
SPECIFICATION FairSpec
INVARIANTS LinkInv
PROPERTIES ReconfiguredOutOfFabric PollsSettle

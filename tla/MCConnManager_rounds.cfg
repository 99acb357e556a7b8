SPECIFICATION FairSpec
CONSTANT MaxRuns = 3
INVARIANTS TypeOK OwnAnswer FlagHonest
PROPERTIES ImplementsConnectivity ReconnectsWithinRounds

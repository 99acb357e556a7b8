SPECIFICATION FairSpec
CONSTANT MaxRuns = 3
PROPERTIES Reconnects

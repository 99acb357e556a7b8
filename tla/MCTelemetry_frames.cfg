SPECIFICATION FairSpec
CONSTANTS
  MaxFrames = 2
  MaxTicks = 2
INVARIANTS TypeOK OneFramePerIndex
PROPERTIES IndexNeverGoesBack MailTaken

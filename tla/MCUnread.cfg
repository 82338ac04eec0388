SPECIFICATION FairWatchSpec
CONSTANTS
  NoAnswer = NoAnswer
  MaxStored = 4
  MaxLives = 2
INVARIANT AnnouncedOnce
INVARIANT MissedOnlyIfLate
PROPERTY ArrivalsAreAnnounced

SPECIFICATION WatchSpec
CONSTANTS
  NoAnswer = NoAnswer
  MaxStored = 4
  MaxLives = 2
INVARIANT EachArrivalIsAnnounced

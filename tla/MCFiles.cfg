SPECIFICATION FairSpec
CONSTANTS
  s = s
  r = r
  n = n
  file = file
  message = message
  Users = {s, r}
  Identities = {s, r, n}
  Rosters <- OneNewcomer
  Items = {file, message}
  From <- Senders
  Chunks <- Sizes
  Readers = {r}
  Quota = 3
  Running = {s, r}
  MaxMishaps = 1
INVARIANT RemoteMeansWhole
PROPERTY FetchedOnce
PROPERTY OnlyChunksBlockTheInbox
PROPERTY SharedArrives

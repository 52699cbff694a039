SPECIFICATION FairSpec
CONSTANTS
  Pools = {tank}
  Readers = {r1, r2}
  Requests = {q1}
PROPERTIES
  ImplementsPoolFeed
  RecoversWithZpool

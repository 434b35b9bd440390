\* Up to three threads, up to four rounds of picks.
SPECIFICATION PoolSpec
CONSTANTS
  MaxThreads = 3
  MaxPicks = 4
INVARIANT EvenShare

SPECIFICATION SeedSpec
CONSTANTS
  None = None
  Texts = {t1, t2}
  MaxIds = 3
  MaxPlaces = 3
  Budget = 2
  MostSeeds = 1
  Multiplier = 1
  Backend = "pgvector"
INVARIANTS TruncationForgetsVectors
CHECK_DEADLOCK FALSE

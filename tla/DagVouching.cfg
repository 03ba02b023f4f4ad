CONSTANTS
  a = a
  b = b
  c = c
  d = d
  a0 = a0
  b0 = b0
  d0 = d0
  t0 = t0
  a1 = a1
  b1 = b1
  c1 = c1
  d1 = d1
  a2 = a2
  b2 = b2
  Validator <- Members
  Seat <- Members
  Holder <- SeatHolder
  World <- Vertexes
  round <- RoundOf
  source <- SourceOf
  refs <- RefsAhead
  past <- PastAhead
  Byzantine = {d}
  Agreed <- AllButTwin
  Heard <- LastAndFaulty
  FirstFloor = 0
  MaxFloor = 1
SPECIFICATION Spec
INVARIANT OnlyAgreed

SPECIFICATION Spec
CONSTANTS
  p1 = p1  p2 = p2  c1 = c1  c2 = c2  v1 = v1  v2 = v2
  Producers = {p1, p2}
  Consumers = {c1, c2}
  Running = {p1, p2, c1, c2}
  Values = {v1, v2}
  Zero = Zero
  Capacity = 2
  MaxCalls <- TwoOneTwoOne
INVARIANTS TypeOK ExclusiveCell ReadsWhatWasPut LengthAccounted RingInv DataInv
PROPERTY Linearizable

SPECIFICATION Spec
CONSTANTS
  a = a
  b = b
  k1 = k1
  k2 = k2
  End = {a, b}
  Sender = {a}
  Stopper = {b}
  Key = {k1, k2}
  MaxCreates = 2
  MaxSends = 2
  MaxFlight = 3
  MaxCork = 1
INVARIANT IdsAgree
INVARIANT ChannelsMeet
 
SYMMETRY KeySymmetry
CHECK_DEADLOCK FALSE

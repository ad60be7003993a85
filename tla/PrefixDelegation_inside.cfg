SPECIFICATION PdSpec
CONSTANTS
  Nothing = Nothing
  a = a  b = b  c = c  d = d  e = e  f = f
  g = g  h = h  i = i  j = j  k = k
  Order <- Eleven
  Delegations <- Many
INVARIANT
  InsidePrefix
CHECK_DEADLOCK FALSE

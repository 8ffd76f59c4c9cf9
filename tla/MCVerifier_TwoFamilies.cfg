CONSTANTS
  kr = kr  ka = ka  kb = kb  kc = kc
  r = r  a = a  b = b  cc = cc
  p = p  q = q
  clock = clock  always = always
  ZeroSecret = ZeroSecret
  Secret <- MCSecret
  Accepts <- MCAccepts
  Token <- TwoFamilies
  MaxDischarges = 3
  MAX_VERIFICATION_DEPTH = 2
  Exact = {p, q}
  General = {clock, always}
  MaxGeneral = 2
  MaxTime = 1

SPECIFICATION TwoFamiliesSpec
INVARIANT CallStackBounded
PROPERTY KeepsPromise

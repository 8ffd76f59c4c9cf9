CONSTANTS
  kr = kr  ka = ka  kb = kb  kc = kc
  r = r  a = a  b = b  cc = cc
  p = p  q = q
  clock = clock  always = always
  ZeroSecret = ZeroSecret
  Secret <- MCSecret
  Accepts <- MCAccepts
  Token <- DischargeTokens
  MaxDischarges = 2
  MAX_VERIFICATION_DEPTH = 2
  Exact = {p}
  General = {}
  MaxGeneral = 0
  MaxTime = 0

SPECIFICATION Spec
INVARIANTS TypeOK VerifierInv AcceptsOnlyAuthorized NotUsedMeansRedundant
PROPERTY KeepsPromise

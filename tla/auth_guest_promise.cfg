SPECIFICATION Spec
CONSTANTS
  Guest = {g1, g2}
  SignUp = {s1}
  Email = {e1}
  Facebook = {}
  Google = {}
  None = None
  Failed = Failed
  MaxInFlight = 2
PROPERTY AnonymousUserIsReturned

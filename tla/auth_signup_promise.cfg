SPECIFICATION Spec
CONSTANTS
  Guest = {g1}
  SignUp = {s1}
  Email = {e1}
  Facebook = {}
  Google = {}
  None = None
  Failed = Failed
  MaxInFlight = 1
INVARIANT SignUpSuccessSignsIn

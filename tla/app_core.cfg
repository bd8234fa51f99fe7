SPECIFICATION AppSpec
CONSTANTS
  Guest = {g1, g2}
  SignUp = {s1}
  Email = {}
  Facebook = {f1}
  Google = {o1}
  None = None
  Failed = Failed
  MaxInFlight = 2
  MaxHomes = 2
  ExtraCells = {"cellId"}
SYMMETRY Symmetry
INVARIANTS
  StackDiscipline
  FormMatchesButton
  GuestSeesMenu
PROPERTIES
  LeavingMenuSignsOut
  MenuNeedsSession
  MenuEndsSignIns

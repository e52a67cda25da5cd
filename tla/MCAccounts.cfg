SPECIFICATION Spec
CONSTANTS
  root = root
  ann = ann
  None = None
  User = {root, ann}
  Root = root
  Slot = {s1, s2}
SYMMETRY Symmetry
INVARIANTS AnAdminRemains DisabledAreLoggedOut

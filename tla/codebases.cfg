SPECIFICATION Spec
CONSTANTS
  Clients = {c1, c2}
  Uploads = {u1, u2, u3}
  Passes = {p1, p2}
  Faults <- BothFaults
INVARIANTS
  TypeOK
  OneActiveRow
  NoRowlessWork
  AloneUploadsWork
  VectorsHaveRow
SYMMETRY Symmetry
CHECK_DEADLOCK FALSE

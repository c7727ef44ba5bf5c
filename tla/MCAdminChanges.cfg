SPECIFICATION Spec
CONSTANTS
  User = {ann, bob, cyd}
  Role = {"SUPER_ADMIN", "RISK", "DEALER"}
  Request = {r1, r2}
  Worker = {w1, w2}
  Staffs <- MCStaffs
SYMMETRY Symmetry
INVARIANTS TypeOK
PROPERTIES SuperAdminRemains ChangesAreReviewed
CHECK_DEADLOCK FALSE

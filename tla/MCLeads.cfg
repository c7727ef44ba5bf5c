SPECIFICATION Spec
CONSTANTS
  Lead = {lena, otto}
  Work = {task}
  Staff = {ann, bob}
SYMMETRY Symmetric
PROPERTY NeverMergedIntoConverted
CHECK_DEADLOCK FALSE

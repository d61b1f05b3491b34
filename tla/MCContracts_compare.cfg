SPECIFICATION Spec
CONSTANTS
  Fields = {duration, line_id}
  Declarations <- MCDeclarations
  MaxVersions = 3
SYMMETRY FieldSymmetry
CHECK_DEADLOCK FALSE
INVARIANTS
  VerdictIsSound
  VerdictIsExact
  FullStepsCompose

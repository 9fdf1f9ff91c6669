SPECIFICATION S3Spec
CONSTANTS
  Keys <- MCKeys
  MaxParts = 2
  New = New
  Other = Other
  Void = Void
INVARIANT DeleteRemoves
CHECK_DEADLOCK FALSE

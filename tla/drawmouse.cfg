SPECIFICATION Spec
CONSTANTS
  N = 2
  Origin = Origin
  None = None
  Place = {Origin, Here, There}
INVARIANTS
  DrawMouseObeyed

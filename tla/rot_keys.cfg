CONSTANTS
  s1 = s1
  s2 = s2
  Sessions = {s1, s2}
  MaxRotations = 2
SPECIFICATION Spec
SYMMETRY Symmetric
INVARIANT BundleBindsKeys
INVARIANT ReplyOpens
INVARIANT FailsOnlyAcrossRotation

\* What the manual says of a server without a name.
SPECIFICATION Spec
CONSTANTS
  n1 = n1
  n2 = n2
  x1 = x1
  x2 = x2
  Default = Default
  Names = {Default, n1, n2}
  PlainKinds = {"server"}
  Required = {"hostname"}
  Optional = {"attempts"}
  Exts = {x1, x2}
  MaxBlocks = 3
SYMMETRY Symmetry
INVARIANT UnnamedIsDefault

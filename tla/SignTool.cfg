SPECIFICATION Spec
CONSTANTS
  a = a
  b = b
  c = c
  n = n
  k1 = k1
  k2 = k2
  Images = {a, b, c, n}
  Keys = {k1, k2}
  Junk = Junk
  NoSection = NoSection
  Wild = Wild
  NoPath = NoPath
  Section <- MCSection
  Paths <- MCPaths
  Commands <- MCCommands
  Initial <- MCInitial
  Compiled = {"prime"}
  Signatures = {"sig"}
  MaxCommands = 2
  MaxEdits = 2
 
INVARIANT FreshOutputSigned
CHECK_DEADLOCK FALSE

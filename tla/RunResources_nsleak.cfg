SPECIFICATION Spec
CONSTANTS
  r1 = r1
  r2 = r2
  dotted = dotted
  dashed = dashed
  other = other
  dashes = dashes
  plain = plain
  Nobody = Nobody
  Runs = {r1, r2}
  Ids = {dotted, dashed, other}
  Names = {dashes, plain}
  Safe <- SafeNames
  Ports = {1, 2}
  MaxCells = 2
  MaxTotal <- Totals
INVARIANT NamespaceEndsWithRun

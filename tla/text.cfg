\* Texts of bytes, and positions in them.
SPECIFICATION Spec
CONSTANTS
  MaxLength = 5
  Replacements <- MCReplacements
INVARIANTS
  PositionsAndOffsetsAgree
  PositionsCountCodeUnits
  FoldsEndWithTheirBlock

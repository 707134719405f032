SPECIFICATION HeapSpec
CONSTANTS
  HeapBase = 4
  HeapTop = 20
  MinSize = 4
  MinAlign = 1
  HeapMaxBlocks = 4
  HeapSizes = {4, 5, 12}
  HeapAligns = {4}
  MaxGrants = 4
INVARIANTS
  GrantsAligned

\* Two calls on one FASM object, and a third that finds no room in the lookup table.
SPECIFICATION FairSpec
CONSTANTS
  Texts <- MCTexts
  Bytes <- MCBytes
  Lines <- MCLines
  Files <- MCFiles
  Residue <- MCResidue
  Junk <- MCJunk
  MAIN_FUNC_NAME = "MAIN"
  MAX_INSTR_LOOKUP_COUNT = 40
INVARIANTS TypeOK StreamFits TargetsFollow OwnVariables Disjoint TextsFound Loadable Shipped
PROPERTY Returns
\* The shell makes no more calls, or the simulator is gone.
CHECK_DEADLOCK FALSE

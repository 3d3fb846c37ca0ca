\* A source with an error, then a file that is not there.
SPECIFICATION Spec
CONSTANTS
  Texts <- MCTexts
  Bytes <- MCBytes
  Lines <- MCLines
  Files <- MCFailing
  Residue <- MCResidue
  Junk <- MCJunk
  MAIN_FUNC_NAME = "MAIN"
  MAX_INSTR_LOOKUP_COUNT = 40
INVARIANT Survives
\* The shell makes no more calls.
CHECK_DEADLOCK FALSE

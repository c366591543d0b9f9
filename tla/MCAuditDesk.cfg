SPECIFICATION DeskSpec
CONSTANTS
  Amounts <- AmountsOf
  Dates <- DatesOf
  Auditors = {a1}
  Api = Api
  Handlers = {h1, h2}
  Inputs <- InputsOf
  Empty = Empty
  Keep = Keep
  Edited <- EditedOf
  MaxSaves = 2
  MaxPatches = 1
INVARIANTS
  DeskTypeOK
  ShownIsExplained
  ReviewIffHigh
  SignalsAgree
PROPERTY NoSilentEdit
SYMMETRY Symmetry
CHECK_DEADLOCK FALSE

SPECIFICATION DeskSpec
CONSTANTS
  Amounts <- AmountsOf
  Dates <- DatesOf
  Auditors = {a1, a2}
  Api = Api
  Handlers = {h1, h2}
  Inputs <- InputsOf
  Empty = Empty
  Keep = Keep
  Edited <- EditedOf
  MaxSaves = 2
  MaxPatches = 0
PROPERTY NoUnseenOverwrite
CHECK_DEADLOCK FALSE

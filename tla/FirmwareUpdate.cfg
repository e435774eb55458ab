SPECIFICATION FirmwareSpec
CONSTANTS
  None = None
  MaxChunks = 5
  Models <- McModels
  Offers <- McOffers
  Hex <- McHex
  Invocations <- McInvocations
  MaxRuns = 2
INVARIANTS
  TypeOK
  SuccessIsEarned
  RetryIsBounded
  PayloadRemoved
  FlashApprovalIsEarned
  ValidateForetellsFlash
CHECK_DEADLOCK FALSE

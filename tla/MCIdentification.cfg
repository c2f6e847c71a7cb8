SPECIFICATION Spec
CONSTANTS
  GRID = 1
  PENNY = 1
  LastDay = 5
  TaxYearStart = 2
  TaxYearEnd = 4
  BED_AND_BREAKFAST_DAYS = 2
  Histories <- IdentificationHistories
INVARIANTS
  NoAcquisitionIdentifiedTwice
  OwnDayComesFirst
  RecalculationAgrees
PROPERTIES
  ClaimsPrecedeAcquisition
  ImplementsIdentification
CHECK_DEADLOCK FALSE

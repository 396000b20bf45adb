SPECIFICATION Spec
CONSTANTS
  w1 = w1
  w2 = w2
  b1 = b1
  b2 = b2
  Bills <- SomeBills
  Revisions <- SomeRevisions
  Discounts = {0, 3, 4, 11}
  Rules <- SomeRules
  ModuleSets <- SomeModules
  FormTypes = {"general"}
  FormModules <- TwoSets
  AccountRoles = {"admin", "viewer"}
  MaxChanges = 2
  Windows <- TwoWindows
  MaxShifts = 2
  MaxDocs = 2
  Bill <- TwoBills
  Figures <- SomeFigures
  Cost = 1
  Paying = {1, 3}
  Month = 1
  Span = 1
  LastDay = 1
  MaxRecords = 2
SYMMETRY Alike
INVARIANTS BillsAreFair OfferedIsServed ShiftsCount ReportsAgree
PROPERTIES RepricedTheSame StructureIsKept HandedOverStays
CHECK_DEADLOCK FALSE

SPECIFICATION Spec
CONSTANTS
  Births <- Picked
  Profiles <- Facebook
  Texts <- Pages
  Languages <- OnlyEnglish
  NoPerson = NoPerson
  MaxSteps = 6
  MaxLaunches = 2
INVARIANTS
  TypeOK
  OneRoot
  AskedIsOnTop
  PersonWithSign
  SameObjectSameSign
  SettingsFollow
  SavedIsCurrent
CHECK_DEADLOCK FALSE

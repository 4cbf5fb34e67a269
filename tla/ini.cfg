\* Every file of up to four pieces, loaded, changed and saved.
SPECIFICATION IniSpec
CONSTANTS
  Characters <- MCCharacters
  Texts <- AllTexts
  NewOptions <- MCNewOptions
  MaxText = 30
  MaxItems = 3
  NotLoaded = notloaded
  Pieces = 4
INVARIANTS IniTypeOK ReadsAsWritten SavedLoadsBack OnlyStraysMove TidyIsStorable

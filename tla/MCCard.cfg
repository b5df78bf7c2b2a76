SPECIFICATION CardSpec
CONSTANTS
  Cards = {small, large, other}
  HighCapacity = {large}
  NoCard = none
  Names = {"d", "e", "f", "g", "h"}
  Directories = {"d", "e", "h"}
  Hidden = {"h"}
  Contents <- MCContents
  MaxEntries = 2
INVARIANTS ListingIsTheCards ListedWhereTheyAre
PROPERTIES CommandsEnd
CHECK_DEADLOCK FALSE

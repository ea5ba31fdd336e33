SPECIFICATION TextSpec
CONSTANTS
  Radix = 256
  NameOrder <- MCNameOrder
  Sources <- Texts
  NamesIn <- TermNames
  ItemNames = {"A", "x"}
  FieldNames = {"x", "y"}
  Terms <- DocTerms
  MaxItems = 2
  MaxFields = 2
  MaxDocuments = 2
INVARIANTS
  
  OnlyUnfinishedLiteralsEndEarly
  
  
  SurfaceReadsAsPrinted
PROPERTIES
  LinksFollowScope
  OwnFieldsWin
CHECK_DEADLOCK FALSE

SPECIFICATION Spec
CONSTANTS
  free = free
  ann = ann
  bob = bob
  cy = cy
  dee = dee
  eve = eve
  NoMessage = NoMessage
  Parsed <- MCParsed
  Forms <- MCForms
  RowTables <- MCRowTables
  Messages <- MCMessages
  Heats <- MCHeats
  FirstHeat <- MCFirstHeat
  MaxEdits = 3
INVARIANTS
  TypeOK
  RestartRestores
  UniqueSetIds
  PagesMissNothing
  CombinedAsEntered

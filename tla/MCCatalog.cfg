CONSTANTS
  Names = {"t", "tu"}
  Columns <- MCColumns
  Schemas <- MCSchemas
  OldCatalogs <- MCOldCatalogs
  nameParts <- MCNameParts
  columnParts <- MCColumnParts
  MaxTables = 2
  MaxRows = 1
  NoFile = NoFile
SPECIFICATION Spec
INVARIANTS
  TypeOK
  MemoryMatchesFile
  HandlesAreCurrent
  RowsReadable
  DanglingOnlyIfDropped

CONSTANTS
  Names = {"t", "tu"}
  Columns <- MCColumns
  Schemas <- MCSchemas
  OldCatalogs <- MCOldCatalogs
  nameParts <- MCNameParts
  columnParts <- MCColumnParts
  MaxTables = 2
  MaxRows = 2
  NoFile = NoFile
SPECIFICATION Spec
PROPERTIES
  RowsStay

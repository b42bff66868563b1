SPECIFICATION Spec
CONSTANTS
  Files <- MCFiles
  Contents <- MCContents
  None = None
INVARIANT ExportIsOfTheWave

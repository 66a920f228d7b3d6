CONSTANTS
  MaxKeys <- MCMaxKeys
  MaxWorld <- MCMaxWorld
  Cache = {1, 4}
  Artifact = {2, 8}
  Tombstone = {8}
  Home <- MCHome
  Here = {}
  MaxFetches = 2
  MaxCopies = 2
  Workflow = {1, 2}
  Ref = {"main", "dev"}
  Text = {"", "a", "b"}
  Schema <- MCSchema
  RefsOf <- MCRefsOf
  Named <- MCNamed
  MaxOut = 2
  MaxToggles = 2
  Files <- MCFiles
  Flags = {"vim"}
  Ceiling = 2
SPECIFICATION Spec
INVARIANTS TypeOK StorageIsTrue SettingsTakeEffect
PROPERTIES FormsKeepTheirWord
CHECK_DEADLOCK FALSE

SPECIFICATION MCSpec
CONSTANTS
  Directories <- Dirs
  Files <- MCFiles
  Names <- MCNames
  Ident <- MCIdent
  Malformed = {"bad"}
  Single = {"one"}
  NChunks = 2
  MaxAdds = 3
INVARIANTS
  StartExact
  NodesLive
  PrintedExact
  AllFreed
PROPERTIES
  ImplementsList

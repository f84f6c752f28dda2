\* Four files, all paths of two segments; two of the files change.
CONSTANTS
  Raws <- RawPaths
  Dirs <- Directories
  Variants <- FileSet
  Changing <- ChangingSet
  DotNames <- DottedNames
  Scripts <- ScriptNames
  BadNames <- NoNames
  FrontController <- FrontPath
  Accepts <- AcceptSets
  MaxChanges = 2
  Nothing = Nothing
SPECIFICATION FilesSpec
INVARIANTS FilesTypeOK Confined ScriptsAreRun ValidatorHonest

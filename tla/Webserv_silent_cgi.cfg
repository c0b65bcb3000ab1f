SPECIFICATION WebservSpec

CONSTANTS
  ConfigFiles <- JustDefault
  vaild_content_list <- ContentList
  Pages <- ErrorPages
  Extension <- ExtensionOf
  Mime <- Types
  Names <- SortedNames
  Disks <- Trees
  Requests <- CgiRequests
  CgiOutputs <- NoOutput

CHECK_DEADLOCK FALSE

INVARIANTS
  ErrorAlwaysTold

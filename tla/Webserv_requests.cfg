SPECIFICATION WebservSpec

CONSTANTS
  ConfigFiles <- Files
  vaild_content_list <- ContentList
  Pages <- ErrorPages
  Extension <- ExtensionOf
  Mime <- Types
  Names <- SortedNames
  Disks <- Trees
  Requests <- AllRequests
  CgiOutputs <- Outputs

CHECK_DEADLOCK FALSE

INVARIANTS
  Usable
  RightServer
  Framed
  ToldAsConfigured
  CgiDelivered
  ListingComplete

PROPERTIES
  AsWritten
  OnlyAsAllowed
  RefusedHasNoEffect
  ChildForCgi
  StoredIsServed
  DeletedIsGone

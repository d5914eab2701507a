CONSTANTS
  Accounts <- Users
  Menus <- AllMenus
  Domains <- FourDomains
  Config <- SmallConfig
SPECIFICATION Spec
INVARIANT
  SavedMeansSaved

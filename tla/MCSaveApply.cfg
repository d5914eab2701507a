CONSTANTS
  Accounts <- Users
  Menus <- AllMenus
  Domains <- FourDomains
  Config <- SmallConfig
SPECIFICATION Spec
INVARIANTS
  TypeOK
  NoLockoutWithoutCause
  SessionFollowsGateway
  SaveKeepsAGoodCopy
  RoundTripKeepsCore
  InterfacesRoundTrip
PROPERTIES
  EveryInvocationEnds

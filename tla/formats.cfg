SPECIFICATION Spec
CONSTANTS
  Contents <- MCContents
  Reported <- MCReported
  Queries <- MCQueries
  UserAgents <- MCUserAgents
  Drivers = {"bytes", "text"}
  MaxNodes = 2
INVARIANTS
  TypeOK
  FormatsAgree
  SelectorIsClosed
  LinksReimport
  AllOrNothing

SPECIFICATION Spec
CONSTANTS
  Contents = {}
  Reported <- MCReported
  Queries <- MCQueries
  UserAgents <- MCUserAgents
  Drivers = {"text"}
  MaxNodes = 2
INVARIANTS
  SettingsSurvive

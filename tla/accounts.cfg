SPECIFICATION Spec
CONSTANTS
  Subjects = {"s1", "s2"}
  NameOf <- MCNames
  Roles = {"admin", "editor", "stranger"}
  ValidRoles = {"admin", "editor"}
  RolesGiven <- MCRoles
  Clients = {c1, c2}
  Modes = {"local", "oidc"}
  Keys = {1, 2}
  NamesKey = {"s1"}
  Ttl = 2
  FetchLimit = 1
  TokenLife <- MCLives
  MaxTime = 3
  MaxActs <- MCActs
SYMMETRY MCClients
PROPERTIES
  ActsForItsAccount
  KeysFollowProvider
CHECK_DEADLOCK FALSE

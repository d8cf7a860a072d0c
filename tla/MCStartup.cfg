CONSTANTS
  Router = {r}
  Command = {c}
  Embedded <- MCMigrations
  Scripts <- MCScripts
  MaxKills = 2

SPECIFICATION StartSpec
INVARIANTS
  SplitsAtEnds
  SchemaIsPrefix
  CredentialsSurvive
  OnlyTornWedges
PROPERTIES
  ServesAgain

CONSTANTS
  Threads = {t1, t2}
  Schemas <- MCSchemas
  Formats = {"semver", "hex"}
  Name <- MCName
  Validators = {"v1", "v2"}
  NoFunc = "nil"
  Registrable = {"v1", "v2"}
  NoSchema = "noschema"
SPECIFICATION FairRegistry
INVARIANTS
  OutcomeJustified
PROPERTIES
  LateRegistrationWorks

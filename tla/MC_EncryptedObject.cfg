CONSTANTS
  Contexts <- MCContexts
  Policies = {"REQUIRE_ENCRYPT_ALLOW_DECRYPT", "REQUIRE_ENCRYPT_REQUIRE_DECRYPT"}
  MaxWrites = 2
SPECIFICATION Spec
INVARIANTS
  TypeOK
  ReadHonoursConfig
  ContextBinding
  MixUpsNeedOptIn
  PermittedReadSucceeds
  WritesInv

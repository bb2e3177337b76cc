CONSTANTS
  Contexts <- MCContexts
  Policies = {"REQUIRE_ENCRYPT_ALLOW_DECRYPT", "REQUIRE_ENCRYPT_REQUIRE_DECRYPT"}
  MaxWrites = 2
SPECIFICATION Spec
INVARIANT SameContextReads

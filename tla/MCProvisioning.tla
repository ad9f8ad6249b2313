--------------------------- MODULE MCProvisioning ---------------------------
EXTENDS Provisioning

AllRelations == {"self", "system_info", "command_result", "next", "other"}
AllRequests == {"register", "install", "unregister"}

=============================================================================

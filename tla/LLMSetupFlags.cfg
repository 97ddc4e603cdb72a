SPECIFICATION Spec
CONSTANT Names = {"anthropic", "openai", "other"}
INVARIANT FlagsTakePrecedence
CHECK_DEADLOCK FALSE

SPECIFICATION Spec
CONSTANT Names = {"anthropic", "openai", "other"}
INVARIANTS FlagKeyIsUsed DefaultIsServed
CHECK_DEADLOCK FALSE

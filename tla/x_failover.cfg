\* X with an xAI key, bird and xquik behind it.
SPECIFICATION Spec
CONSTANT Adapters = {"x_key"}
INVARIANT FailsOver
CHECK_DEADLOCK FALSE

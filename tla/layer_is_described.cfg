SPECIFICATION Spec
CONSTANT Kinds <- MCKinds
PROPERTY LayerIsDescribed
CHECK_DEADLOCK FALSE

SPECIFICATION Spec
CONSTANT MaxMessages = 2
INVARIANTS PageInv
PROPERTIES StopRetained ComposerFreed
CHECK_DEADLOCK FALSE

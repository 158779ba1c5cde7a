SPECIFICATION Spec
CONSTANTS
    Names = {"a"}
    Values = {"t", "u"}
    Namespaces = {"n"}
    NsPrefixes = {"p"}
    MaxTags = 3
    MaxEdits = 2
INVARIANTS EditsReturn
CHECK_DEADLOCK FALSE

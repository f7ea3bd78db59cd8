\* Whether the self-check always ends.
SPECIFICATION Spec
CONSTANTS
    MaxEvents = 9
    MaxEdits = 1
PROPERTIES
    SelfcheckEnds

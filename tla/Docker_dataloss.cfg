\* A new package: the application writes, and is deployed again.
CONSTANTS
    None = None
    Partial = Partial
    MaxWrites = 2
    Late = TRUE
    Found <- NewHost
    Slot = {s1}
    Checked = TRUE
SPECIFICATION Spec
PROPERTIES
    RestoreOnlyFirst

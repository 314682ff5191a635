\* Saves with failing pages and power cuts at every point.
SPECIFICATION Spec
CONSTANTS
    PageCount = 3
    Value = {0, 1, 2}
    Default <- MCDefault
    Settings <- MCSettings
    OFF = OFF
    INVALID = INVALID
INVARIANTS
    SavedUnlessTorn
PROPERTIES
    ImplementsStore

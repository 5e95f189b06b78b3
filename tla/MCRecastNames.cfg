SPECIFICATION Spec
CONSTANTS
    Schema <- MCSchema
    IntTexts <- MCIntTexts
    Documents <- MCNamesakes
INVARIANTS
    RestoresTypes
CHECK_DEADLOCK FALSE

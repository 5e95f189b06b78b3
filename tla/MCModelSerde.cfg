SPECIFICATION Spec
CONSTANTS
    Schema <- MCSchema
    IntTexts <- MCIntTexts
    Documents <- MCDocuments
INVARIANTS
    SerdeTypeOK
    RestoresTypes
    RecastAgain
    AnswerKeepsState
    RejectsJustTheUnsupported
    OnlySetsAreUnanswered
CHECK_DEADLOCK FALSE

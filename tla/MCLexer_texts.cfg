CONSTANT Scripts <- ScriptValues
SPECIFICATION Spec
INVARIANTS TypeOK NothingLost LinesRight AsksInsideStrings ReadsAsWritten

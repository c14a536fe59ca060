SPECIFICATION Spec
CONSTANT
    Entries = {1, 2}
INVARIANTS
    LibrariesNested
    CleanHandOver
    HookMatchesOutcome
PROPERTIES
    AnswersTheOS

SPECIFICATION Spec
CONSTANTS
    Calls = {c1}
    NumTasks = 3
    Agents = {a, b, c}
    Withheld = {c}
    None = None
INVARIANTS
    InputsExist
    CompletedMeansDone
    ReviewHasOutput
    OnceUndisturbed
PROPERTIES
    RequestsEnd
CHECK_DEADLOCK FALSE

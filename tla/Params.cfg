SPECIFICATION Spec
CONSTANTS
    Names = {1, 2, 3, 4}
    Documents <- MCDocuments
    OwnCodes = {"EXPR_DOMAIN", "PARAM_OUT_OF_RANGE"}
INVARIANTS OrderIsLeast CyclesAreFound RootCause
PROPERTIES KeepsPromise
CHECK_DEADLOCK FALSE

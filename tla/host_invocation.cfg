\* Two names and three definitions, so that one is refused; calls that invoke them.
SPECIFICATION FairSpec
CONSTANTS
    Keys = {f, g}
    Bindings = {b1, b2, b3}
    Signatures <- MCSignatures
    Kinds = {"i32", "i64"}
    Values <- MCValues
    None = None
INVARIANTS GuestGetsWhatWasPromised HostSeesItsDefinition BindingsOwned ContinuationOwned
PROPERTIES CallsKept InvocationsEnd
CHECK_DEADLOCK FALSE

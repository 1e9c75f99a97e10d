\* Every call with up to two arguments of four types, to functions of eight kinds.
SPECIFICATION Spec
CONSTANTS
    Exports <- MCExports
    Names <- MCNames
    Payloads = {0, 1}
    MaxArgs = 2
    Garbage = Garbage
    None = None
INVARIANTS GuestGetsArguments AnswerIsTrue ExternOwned
CHECK_DEADLOCK FALSE

\* Expected to be violated: see the finding of the same name.
SPECIFICATION Spec
CONSTANTS
    Namespaces = {"math", "app", "top"}
    Modules = {"adder", "user", "deep", "wrong", "refs", "memory", "both"}
    Imports <- MCImports
    Exports <- MCExports
    HostKeys <- MCHostKeys
    HostTypes <- MCHostTypes
INVARIANTS HostImportsRecognized

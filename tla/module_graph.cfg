\* Up to three modules of seven kinds, and a host that defines functions of its own.
SPECIFICATION FairSpec
CONSTANTS
    Namespaces = {"math", "app", "top"}
    Modules = {"adder", "user", "deep", "wrong", "refs", "memory", "both"}
    Imports <- MCImports
    Exports <- MCExports
    HostKeys <- MCHostKeys
    HostTypes <- MCHostTypes
INVARIANTS LinkedAsValidated ValidatedImportsLink NamesMeanOneThing WholeGraphPublished BuildingIsClean
PROPERTIES OutcomeIsFinal ActivationKept OwnershipKept AttemptsEnd

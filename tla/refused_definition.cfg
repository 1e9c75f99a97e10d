\* Expected to be violated: see the finding of the same name.
SPECIFICATION CarelessSpec
CHECK_DEADLOCK FALSE
CONSTANTS
    plain = plain
    user = user
    both = both
    f = f
    g = g
    Domains = {d1}
    Modules = {plain, user, both}
    HostFunctions = {f, g}
    Ops = {o1, o2}
    Instances = {i1}
    Imports <- MCImports
    None = None
INVARIANTS MutationsDoNotOverlap

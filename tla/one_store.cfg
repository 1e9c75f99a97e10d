\* One Store, two operation objects, every kind of module.
\* The host may destroy everything and stop: no state after that has a successor.
CHECK_DEADLOCK FALSE
SPECIFICATION Spec
CONSTANTS
    plain = plain
    user = user
    both = both
    f = f
    g = g
    Domains = {d1}
    Modules = {plain, user, both}
    HostFunctions = {f, g}
    Ops = {o1, o2}
    Instances = {i1}
    Imports <- MCImports
    None = None
INVARIANTS IInv StoreExclusive ActivityTracksUse SyncNeverReachesHost StoreOutlivesUse NativeErrorsOwned DomainsAccountedFor
PROPERTIES LinkerFrozen OwnershipKept OutcomesKept

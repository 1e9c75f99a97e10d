\* Liveness, under the fairness the host and its guests owe, with two Stores: host
\* code called back by one operates on the other.
\* The host may destroy everything and stop: no state after that has a successor.
SPECIFICATION FairSpec
CHECK_DEADLOCK FALSE
CONSTANTS
    plain = plain
    user = user
    both = both
    f = f
    g = g
    Domains = {d1, d2}
    Modules = {user}
    HostFunctions = {f}
    Ops = {o1, o2}
    Instances = {}
    Imports <- UserImports
    None = None
PROPERTIES StoreComesBack

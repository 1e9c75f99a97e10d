\* Two Runtimes, two Programs, every order of creation, destruction and move, by a
\* host that leaves main domains where they are. It may destroy everything and stop.
SPECIFICATION Spec
CONSTANTS
    Engines = {e1, e2}
    Modules = {m1, m2}
    Domains = {d1, d2}
    Programs = {p, q}
    Instances = {i}
    None = None
SYMMETRY Interchangeable
INVARIANTS TreeInv EngineOutlives NothingDangles InstancesAtHome GraphsAtHome
PROPERTIES NoResurrection
CHECK_DEADLOCK FALSE

\* An Instance of one Store in another.
SPECIFICATION MovingSpec
CONSTANTS
    Engines = {e1, e2}
    Modules = {m1, m2}
    Domains = {d1, d2}
    Programs = {p, q}
    Instances = {i}
    None = None
SYMMETRY Interchangeable
INVARIANTS InstancesAtHome
CHECK_DEADLOCK FALSE

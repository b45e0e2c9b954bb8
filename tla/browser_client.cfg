SPECIFICATION Spec
CONSTANTS
    None = None
    MaxLoads = 2
    MapSize = 2
    VehicleTypes = {"tx", "rx", "other"}
    MaxLoadsPlacing = 1
INVARIANTS
    IndInv
    SceneTracked
PROPERTIES
    OwnFeatures
    VehicleOnServersMap

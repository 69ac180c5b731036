SPECIFICATION Spec
CONSTANTS
    car = car
    walk = walk
    Vehicles = {car}
    Walks = {walk}
    LampOrder <- MCOrder
    Outputs = 5
    Wirings <- MCWirings
    Masks <- MCMasks
    Rows <- MCRows
    Duration = 7
    CutMax = 8
PROPERTY HalfNeverLights

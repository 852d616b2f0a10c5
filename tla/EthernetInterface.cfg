SPECIFICATION Spec
CONSTANTS
    Names <- MCNames
    IsBinding <- MCIsBinding
    Numbered <- MCNumbered
    StartsWith <- MCStartsWith
    LastNum <- MCLastNum
    DeviceLines <- MCDeviceLines
    Addrs = {a}
    NoAddr = NoAddr
    Objects = {o}
    MaxBindings = 2
PROPERTIES
    SavedMeansWritten
    StaysWithDevice

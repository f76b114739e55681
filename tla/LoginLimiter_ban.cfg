SPECIFICATION Spec
CONSTANTS
    Handlers = {h1}
    Ids = {i1, i2, i3}
    Max = 2
    Window = 2
    Ban = 3
    Keep = 4
PROPERTY BanLasts

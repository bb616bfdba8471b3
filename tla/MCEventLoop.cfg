\* Two listeners with one slot each, two connections, a Pi radio or the
\* monitor's descriptor and one libusb handle.
CONSTANTS
    Listeners = 2
    MaxClients = 1
    MaxConns = 2
    MaxUsb = 2
    MaxRegistered = 10
    FdLimit = 7
SPECIFICATION Spec
INVARIANTS
    ClientsWatched
    OnlyForeignFileStops
PROPERTY NoSpuriousClose

SPECIFICATION Spec
CONSTANTS
    usb = usb
    pci = pci
    nic = nic
    stick1 = stick1
    stick2 = stick2
    card = card
    card2 = card2
    Devices = {usb, pci, nic}
    Kind <- UsbAndPci
    Units = {stick1, stick2, card, card2}
    Id <- TwoSticks
    AtStart <- OneStickAndCard
    MaxPCI = 1
    Requests = {r1, r2}
    NoDevice = NoDevice
    MaxOps = 2
    MaxRestarts = 1
INVARIANTS OneAlertPerDevice NoSilentDevice
PROPERTIES RegistryConverges
\* the bounded host and operators may stop
CHECK_DEADLOCK FALSE

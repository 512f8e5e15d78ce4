\* One Xbox, one group address.
CONSTANTS
  Devices <- AllDevices
  Flags <- Names
  Stations = {xbox, group}
  Groups = {group}
  NoMAC = NoMAC
SPECIFICATION DeviceFairSpec
INVARIANTS
  SameInterface
  HandlesReleased
PROPERTY DiscoveryCancellable
\* A failed opening is final.
CHECK_DEADLOCK FALSE

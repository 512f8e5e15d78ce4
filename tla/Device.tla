------------------------------- MODULE Device -------------------------------
(***************************************************************************)
(* From the --interface flag to an open capture: the look-ups of the flag   *)
(* in the list of pcap devices (by main, by discovery and by capture.New,   *)
(* each on its own), discovery's and capture's pcap handles, opened step by *)
(* step with every step able to fail, and discovery's read loop.            *)
(*                                                                         *)
(* A device has a name, a text in some spelling, and a description: the     *)
(* lower-case texts that occur in it.  The list does not change meanwhile.  *)
(***************************************************************************)
EXTENDS Naturals, Sequences

CONSTANTS
  Devices,      \* the lists pcap.FindAllDevs may return
  Flags,        \* the names users may give
  Stations,     \* source addresses of System Link frames
  Groups,       \* those with the multicast bit
  NoMAC

ASSUME DeviceAssumption ==
  /\ \A list \in Devices : Len(list) \in Nat /\ DOMAIN list = 1..Len(list)
  /\ Groups \subseteq Stations /\ NoMAC \notin Stations

VARIABLES
  devices, ifaceName,
  mac,          \* the Xbox MAC, or NoMAC before discovery
  found,        \* main's look-up: an index of devices
  caller,       \* who opens a handle: "discovery" or "capture"
  pc,
  iface,        \* the device each caller opens; 0: not yet
  inactive,     \* callers holding an inactive handle
  handles,      \* callers holding an activated one
  cancelled     \* ctx

deviceVars ==
  <<devices, ifaceName, mac, found, caller, pc, iface, inactive, handles,
    cancelled>>

Caller == {"discovery", "capture"}

DeviceTypeOK ==
  /\ devices \in Devices /\ ifaceName \in Flags
  /\ mac \in (Stations \ Groups) \cup {NoMAC}
  /\ found \in 0..Len(devices) /\ caller \in Caller
  /\ pc \in {"find", "create", "configure", "activate", "filter", "read",
             "open", "closed", "failed"}
  /\ iface \in [Caller -> 0..Len(devices)]
  /\ inactive \subseteq Caller /\ handles \subseteq Caller
  /\ cancelled \in BOOLEAN

DeviceInit ==
  /\ devices \in Devices /\ ifaceName \in Flags
  /\ mac \in (Stations \ Groups) \cup {NoMAC}
  /\ found = 0 /\ caller = "capture" /\ pc = "find"
  /\ iface = [c \in Caller |-> 0]
  /\ inactive = {} /\ handles = {} /\ cancelled = FALSE

-----------------------------------------------------------------------------
ToLower(name) == name.text

\* A loop over the devices returns the first that passes, if any does.
First(passing) ==
  IF passing = {} THEN 0 ELSE CHOOSE i \in passing : \A j \in passing : i <= j

\* The three loops of a look-up.
Exact(name) == First({i \in DOMAIN devices : devices[i].name = name})
Folded(name) ==
  First({i \in DOMAIN devices : ToLower(devices[i].name) = ToLower(name)})
Described(name) ==
  First({i \in DOMAIN devices : ToLower(name) \in devices[i].description})

\* capture.FindInterface.
FindInterface(name) ==
  IF Exact(name) # 0 THEN Exact(name)
  ELSE IF Folded(name) # 0 THEN Folded(name) ELSE Described(name)

\* Mutant: discovery skips the exact comparison.
findInterface_Folded(name) ==
  IF Folded(name) # 0 THEN Folded(name) ELSE Described(name)

\* discovery.findInterface.
findInterface(name) ==
  IF Exact(name) # 0 THEN Exact(name)
  ELSE IF Folded(name) # 0 THEN Folded(name) ELSE Described(name)

\* main looks the flag up first; without a MAC discovery comes next.
Find ==
  /\ pc = "find"
  /\ found' = FindInterface(ifaceName)
  /\ pc' = IF found' = 0 THEN "failed" ELSE "create"
  /\ caller' = IF mac = NoMAC THEN "discovery" ELSE "capture"
  /\ UNCHANGED <<devices, ifaceName, mac, iface, inactive, handles, cancelled>>

-----------------------------------------------------------------------------
(* Opening a handle. *)

\* A failure returns through the deferred CleanUp and (discovery) Close.
GiveUp(open) ==
  /\ pc' = "failed"
  /\ inactive' = inactive \ {caller} /\ handles' = open
  /\ UNCHANGED iface

\* The look-up again, and NewInactiveHandle.
Create ==
  LET device == IF caller = "discovery" THEN findInterface(ifaceName)
                                        ELSE FindInterface(ifaceName) IN
  /\ pc = "create"
  /\ \/ /\ device # 0
        /\ pc' = "configure"
        /\ iface' = [iface EXCEPT ![caller] = device]
        /\ inactive' = inactive \cup {caller}
        /\ UNCHANGED handles
     \/ GiveUp(handles)
  /\ UNCHANGED <<devices, ifaceName, mac, found, caller, cancelled>>

\* SetSnapLen, SetPromisc and SetTimeout; SetBufferSize may fail unnoticed.
Configure ==
  /\ pc = "configure"
  /\ \/ pc' = "activate" /\ UNCHANGED <<iface, inactive, handles>>
     \/ GiveUp(handles)
  /\ UNCHANGED <<devices, ifaceName, mac, found, caller, cancelled>>

Activate ==
  /\ pc = "activate"
  /\ \/ /\ pc' = "filter"
        /\ handles' = handles \cup {caller}
        /\ UNCHANGED <<iface, inactive>>
     \/ GiveUp(handles)
  /\ UNCHANGED <<devices, ifaceName, mac, found, caller, cancelled>>

\* Mutant: a failing SetBPFFilter leaves the handle of capture.New open.
SetBPFFilter_Leak ==
  /\ pc = "filter"
  /\ \/ /\ caller = "capture"
        /\ pc' = "open" /\ inactive' = inactive \ {caller}
        /\ UNCHANGED <<iface, handles>>
     \/ caller = "discovery" /\ pc' = "read" /\ UNCHANGED <<iface, inactive, handles>>
     \/ GiveUp(handles \ {"discovery"})
  /\ UNCHANGED <<devices, ifaceName, mac, found, caller, cancelled>>

\* The last step: capture.New returns, Discover starts to read.
SetBPFFilter ==
  /\ pc = "filter"
  /\ \/ /\ caller = "capture"
        /\ pc' = "open" /\ inactive' = inactive \ {caller}
        /\ UNCHANGED <<iface, handles>>
     \/ caller = "discovery" /\ pc' = "read" /\ UNCHANGED <<iface, inactive, handles>>
     \/ GiveUp(handles \ {caller})
  /\ UNCHANGED <<devices, ifaceName, mac, found, caller, cancelled>>

-----------------------------------------------------------------------------
(* Discover's loop. *)

\* srcMAC[0]&0x01: the source of a frame is never a group.
IsStation(src) == src \notin Groups

\* Mutant: only a frame ends the loop.
SeesCancelled_Never == FALSE

SeesCancelled == cancelled

\* A pass: cancelled, or a System Link frame (if it is long enough), or a
\* timeout or an error, which are ignored alike.
Read ==
  /\ pc = "read"
  /\ \/ SeesCancelled /\ GiveUp(handles \ {caller}) /\ UNCHANGED <<mac, caller>>
     \/ /\ ~SeesCancelled
        /\ \E src \in Stations :
             /\ IsStation(src)
             /\ mac' = src
             /\ inactive' = inactive \ {caller} /\ handles' = handles \ {caller}
             /\ caller' = "capture" /\ pc' = "create"
        /\ UNCHANGED iface
     \/ ~SeesCancelled /\ UNCHANGED <<mac, caller, pc, iface, inactive, handles>>
  /\ UNCHANGED <<devices, ifaceName, found, cancelled>>

\* Capture.Close, which may be called again.
Close ==
  /\ pc \in {"open", "closed"}
  /\ pc' = "closed" /\ handles' = handles \ {"capture"}
  /\ UNCHANGED <<devices, ifaceName, mac, found, caller, iface, inactive, cancelled>>

CancelDiscovery ==
  /\ ~cancelled /\ cancelled' = TRUE
  /\ UNCHANGED <<devices, ifaceName, mac, found, caller, pc, iface, inactive, handles>>

DeviceNext ==
  \/ Find \/ Create \/ Configure \/ Activate \/ SetBPFFilter \/ Read \/ Close
  \/ CancelDiscovery

DeviceSpec == DeviceInit /\ [][DeviceNext]_deviceVars

\* Opening goes on, and reads time out; no station need ever send a frame.
DeviceFairSpec ==
  /\ DeviceSpec
  /\ WF_deviceVars(Find \/ Create \/ Configure \/ Activate \/ SetBPFFilter)
  /\ WF_deviceVars(Read /\ UNCHANGED mac)

-----------------------------------------------------------------------------
\* Discovery watches, and capture opens, the interface that main reported,
\* though each looks the flag up again and discovery with code of its own.
SameInterface == \A c \in Caller : iface[c] \in {0, found}

\* Whichever step of an opening fails, and however discovery ends, no handle
\* stays behind; an open capture holds its one handle and nothing else.
HandlesReleased ==
  /\ pc \in {"failed", "closed"} => handles = {} /\ inactive = {}
  /\ pc = "open" => handles = {"capture"} /\ inactive = {}

\* A cancelled discovery returns, on a silent or a failing interface as well.
DiscoveryCancellable ==
  cancelled /\ caller = "discovery" ~> pc = "failed" \/ caller = "capture"
=============================================================================

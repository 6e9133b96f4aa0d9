-------------------------------- MODULE Nic --------------------------------
(***************************************************************************)
(* The network card of src/net/src/nic.c and the program net.c that sends  *)
(* through it.  libpcap is external: the list of devices may be another at *)
(* every call of pcap_findalldevs, and each of its calls may fail.  A      *)
(* device is the sequence of the families of its addresses: "asked" is the *)
(* address find_nic is called with, "inet" another IPv4 address, "other"   *)
(* one of another family; a device has none when addresses is NULL.        *)
(***************************************************************************)
EXTENDS Integers, Sequences

CONSTANTS MaxDevices,   \* bound on the devices of a list
          MaxAddresses, \* bound on the addresses of a device
          NoList        \* NULL

SeqUpTo(S, n) == UNION {[1 .. k -> S] : k \in 0 .. n}
DeviceLists == SeqUpTo(SeqUpTo({"asked", "inet", "other"}, MaxAddresses), MaxDevices)

ASSUME NicAssumption ==
    /\ {MaxDevices, MaxAddresses} \subseteq Nat
    /\ NoList \notin DeviceLists \cup Nat \cup [list : DeviceLists, index : Nat]

\* What open_nic asks of a new handle, in the order of the code.
Settings == <<"snaplen", "promisc", "timeout", "immediate_mode", "activate",
              "setnonblock", "compile", "setfilter">>

VARIABLES
    nicCall,   \* the function that runs: "main" or one of nic.c
    caller,    \* of find_nic or show_nic: "main" or "open_nic"
    mainNext,  \* what main does next: 0 find_nic, 1 show_nic, 2 open_nic, 3 send, 4 return
    opening,   \* how far open_nic is, "no" outside it
    devices,   \* pcap_if_list of the function that runs, NoList for NULL
    live,      \* how many device lists were made and not freed
    nicStatus, \* what the last of find_nic and show_nic returned
    name_buf,  \* the device whose name find_nic wrote, as [list, index]; or NoList
    settings,  \* of the handle of open_nic: how many of Settings were done
    VIF,       \* the settings done on the handle main holds, NoList for NULL
    lost       \* handles made, not closed and no longer known to anyone

nicVars == <<nicCall, caller, mainNext, opening, devices, live, nicStatus, name_buf, settings, VIF, lost>>

NicInit ==
    /\ nicCall = "main" /\ caller = "main" /\ mainNext = 0 /\ opening = "no"
    /\ devices = NoList /\ live = 0 /\ nicStatus = 0 /\ name_buf = NoList
    /\ settings = 0 /\ VIF = NoList /\ lost = 0

HasInet(device) == \E i \in DOMAIN device : device[i] \in {"asked", "inet"}
Asked(device) == \E i \in DOMAIN device : device[i] = "asked"

\* Enter f, which starts with pcap_findalldevs: a list or, failing, NULL.
Call(f, from) ==
    /\ nicCall' = f
    /\ caller' = from
    /\ \/ \E list \in DeviceLists : devices' = list /\ live' = live + 1 /\ nicStatus' = 0
       \/ devices' = NoList /\ live' = live /\ nicStatus' = -1

(* Mutant: find_nic does not free the list in which it found the device.    *)
FreeUnlessFound ==
    live' = IF devices = NoList \/ (nicCall = "find_nic" /\ \E i \in DOMAIN devices : Asked(devices[i]))
            THEN live ELSE live - 1

\* pcap_freealldevs frees nothing for NULL.
Free == live' = IF devices = NoList THEN live ELSE live - 1

\* The first device with the address asked for.
FindReturns ==
    /\ nicCall = "find_nic"
    /\ LET matches == IF nicStatus < 0 THEN {} ELSE {i \in DOMAIN devices : Asked(devices[i])}
       IN  IF matches = {}
           THEN nicStatus' = -1 /\ UNCHANGED name_buf
           ELSE /\ nicStatus' = 0
                /\ name_buf' = [list |-> devices, index |-> CHOOSE i \in matches : \A j \in matches : i <= j]
    /\ Free
    /\ devices' = NoList
    /\ nicCall' = caller
    /\ UNCHANGED <<caller, mainNext, opening, settings, VIF, lost>>

ShowReturns ==
    /\ nicCall = "show_nic"
    /\ nicStatus' = IF nicStatus = 0 /\ \E i \in DOMAIN devices : HasInet(devices[i]) THEN 0 ELSE -1
    /\ Free
    /\ devices' = NoList
    /\ nicCall' = caller
    /\ UNCHANGED <<caller, mainNext, opening, name_buf, settings, VIF, lost>>
-----------------------------------------------------------------------------
\* main ignores what find_nic and show_nic return.
MainCalls ==
    /\ nicCall = "main"
    /\ \/ mainNext = 0 /\ Call("find_nic", "main") /\ opening' = "no"
       \/ mainNext = 1 /\ Call("show_nic", "main") /\ opening' = "no"
       \/ mainNext = 2 /\ Call("find_nic", "open_nic") /\ opening' = "find"
    /\ mainNext' = mainNext + 1
    /\ UNCHANGED <<name_buf, settings, VIF, lost>>

\* main sends for ever, whatever pcap_inject returns, or returns without a handle.
OpenReturns(handle) ==
    /\ nicCall' = "main"
    /\ opening' = "no"
    /\ VIF' = handle
    /\ mainNext' = IF handle = NoList THEN 4 ELSE 3
    /\ UNCHANGED <<caller, devices, live, nicStatus, name_buf, settings>>

\* In the debug build the devices are shown before open_nic returns NULL.
OpenFails ==
    /\ Call("show_nic", "open_nic")
    /\ opening' = "failed"
    /\ UNCHANGED <<mainNext, name_buf, settings, VIF, lost>>

OpenGoesOn(next) ==
    /\ opening' = next
    /\ UNCHANGED <<nicCall, caller, mainNext, devices, live, nicStatus, name_buf, VIF, lost>>

\* pcap_lookupnet and pcap_create.
OpenDevice ==
    /\ nicCall = "open_nic"
    /\ \/ opening = "find" /\ nicStatus < 0 /\ OpenFails
       \/ opening = "find" /\ nicStatus = 0 /\ OpenGoesOn("lookupnet") /\ UNCHANGED settings
       \/ opening \in {"lookupnet", "create"} /\ OpenFails
       \/ opening = "lookupnet" /\ OpenGoesOn("create") /\ UNCHANGED settings
       \/ opening = "create" /\ OpenGoesOn("set") /\ settings' = 0
       \/ opening = "failed" /\ OpenReturns(NoList) /\ UNCHANGED lost

\* A setting that fails returns NULL, and the handle is not closed.
SetHandle ==
    /\ nicCall = "open_nic"
    /\ opening = "set"
    /\ \/ settings < Len(Settings) /\ OpenGoesOn("set") /\ settings' = settings + 1
       \/ settings < Len(Settings) /\ OpenReturns(NoList) /\ lost' = lost + 1
       \/ settings = Len(Settings) /\ OpenReturns(settings) /\ UNCHANGED lost

NicNext == MainCalls \/ FindReturns \/ ShowReturns \/ OpenDevice \/ SetHandle

NicSpec == NicInit /\ [][NicNext]_nicVars
-----------------------------------------------------------------------------
\* Every device list is freed once, by the function that asked for it and
\* before it returns, on each of its paths; the name find_nic leaves is that of
\* the first device of its list with the address asked for; a handle comes out
\* of open_nic only with every setting done, and when one failed it is lost
\* and main holds none.
NicRight ==
    /\ live = (IF devices = NoList THEN 0 ELSE 1)
    /\ nicCall \in {"main", "open_nic"} => devices = NoList
    /\ name_buf # NoList =>
          /\ Asked(name_buf.list[name_buf.index])
          /\ \A i \in 1 .. name_buf.index - 1 : ~Asked(name_buf.list[i])
    /\ opening \in {"lookupnet", "create", "set"} => name_buf # NoList
    /\ VIF # NoList <=> mainNext = 3 /\ nicCall = "main" /\ opening = "no" /\ settings = Len(Settings) /\ lost = 0
    /\ lost # 0 => mainNext = 4 /\ settings < Len(Settings)
=============================================================================

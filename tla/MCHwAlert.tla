------------------------------- MODULE MCHwAlert -------------------------------
(* TLC instance of HwAlert. *)
EXTENDS HwAlert, TLC

CONSTANTS usb, pci, nic, stick1, stick2, card, card2

\* Storage sticks of one model, which can be blocked, and two PCI cards, which
\* policy silences, one more than a scan keeps.
UsbAndPci == usb :> "usb-storage" @@ pci :> "pci" @@ nic :> "pci"
TwoSticks == stick1 :> usb @@ stick2 :> usb @@ card :> pci @@ card2 :> nic
OneStickAndCard == stick1 :> "on" @@ stick2 :> "absent" @@ card :> "on" @@ card2 :> "absent"
=============================================================================

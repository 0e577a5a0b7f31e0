------------------------------- MODULE MCHnatPath -------------------------------
(* Instances of HnatPath for TLC: an external device that is a port of the  *)
(* bridge (wl), one that is not (usb), a LAN port, the WAN device.          *)
EXTENDS HnatPath, TLC

CONSTANTS wl, usb, lan, wan,
  fdown, fflood, flocal, fout, fin, fup, fodd, fxlat, f6rd

Route ==
  [f \in {fdown, fflood, flocal, fout, fin, fup, fodd, fxlat, f6rd} |->
     CASE f = fdown -> <<wan, wl, "routed">>     \* to the bridged external device
       [] f = fflood -> <<lan, wan, "bridged">>  \* to an address the bridge has not learned
       [] f = flocal -> <<lan, wan, "tunnel4">>
       [] f = fout -> <<wl, wan, "routed">>      \* from the bridged external device
       [] f = fup -> <<usb, wan, "routed">>      \* from the other
       [] f = fodd -> <<wl, lan, "routed">>      \* of a type the engine does not support
       [] f = fin -> <<wl, lan, "bridged">>
       [] f = fxlat -> <<lan, wan, "xlat">>
       [] f = f6rd -> <<lan, wan, "6rd">>]

MCFrom == [f \in Flows |-> Route[f][1]]
MCTo == [f \in Flows |-> Route[f][2]]
MCKind == [f \in Flows |-> Route[f][3]]

(* The MACs stay up and usb stays registered, with an index of its own: wl  *)
(* is the device that comes and goes.  Entries of two flows are in use at a *)
(* time at most: each flow has its own.                                     *)
MCSteady ==
  /\ \A d \in Macs : up[d]
  /\ ifindex[usb] = 2
  /\ Cardinality({f \in Flows : foe[f].state # "INVALID" \/ foe[f].act # 0 \/ f \in headroom}) <= 2
===============================================================================

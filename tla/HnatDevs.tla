-------------------------------- MODULE HnatDevs --------------------------------
(***************************************************************************)
(* The network devices mtk_hnat points to, and the references it holds.    *)
(*                                                                         *)
(* hnat_priv has a list of external interfaces, a table of the devices     *)
(* WiFi drivers registered, a port device (ppd) and a WAN device.  The     *)
(* operators take what is held to what is held after a handler; HnatControl *)
(* calls them.                                                             *)
(***************************************************************************)
EXTENDS Integers, Sequences, FiniteSets, FiniteSetsExt

CONSTANTS
  Devs,        \* network devices; a name is the device that has it
  Exts,        \* "ext-devices" of the device tree
  WifiDevs,    \* devices of a driver that uses the WiFi hooks
  Wan,         \* hnat_priv->wan
  MaxExt,      \* MAX_EXT_DEVS
  MaxIf,       \* MAX_IF_NUM - 1: slot 0 is not used
  None

ASSUME DevsAssumption ==
  /\ IsFiniteSet(Devs) /\ None \notin Devs
  /\ Exts \in Seq(Devs) /\ WifiDevs \subseteq Devs /\ Wan \in Devs
  /\ MaxExt \in Nat /\ MaxIf \in Nat /\ Len(Exts) <= MaxExt

Unused ==
  [refs |-> [d \in Devs |-> 0], ext |-> <<>>, wifi |-> [i \in 1 .. MaxIf |-> None],
   ppdev |-> None, wandev |-> None]

Hold(s, d) == [s EXCEPT !.refs[d] = @ + 1]

Put(s, d) == [s EXCEPT !.refs[d] = @ - 1]

(* The first of the indices of a loop.                                      *)
First(I) == CHOOSE i \in I : \A j \in I : i <= j

NamedExt(s, d) == {i \in DOMAIN s.ext : s.ext[i].name = d}

ExtOf(s, d) == {i \in DOMAIN s.ext : s.ext[i].dev = d}

SlotsOf(s, d) == {i \in 1 .. MaxIf : s.wifi[i] = d}

extif_set_dev(s, d) ==
  LET I == {i \in NamedExt(s, d) : s.ext[i].dev = None} IN
  IF I = {} THEN s ELSE [Hold(s, d) EXCEPT !.ext[First(I)].dev = d]

extif_put_dev(s, d) ==
  LET I == ExtOf(s, d) IN
  IF I = {} THEN s ELSE [Put(s, d) EXCEPT !.ext[First(I)].dev = None]

(* kzalloc and ext_if_add, at the end of the list                           *)
ext_if_add(s, name, d) ==
  IF Len(s.ext) < MaxExt THEN [s EXCEPT !.ext = Append(@, [name |-> name, dev |-> d])] ELSE s

(* The loops that release the list delete the entry at i and go on at       *)
(* i + 1, although ext_if_del moved the others down: every other one stays. *)
Skipped(s) == [i \in 1 .. Len(s.ext) \div 2 |-> s.ext[2 * i]]

Deleted(s) == {i \in DOMAIN s.ext : i % 2 = 1}
-------------------------------------------------------------------------------
(* Seeded fault: no reference for the slot of a device the list names.      *)
RegisterNamedUncounted(s, d) ==
  [extif_set_dev(s, d) EXCEPT !.wifi[First(SlotsOf(s, None))] = d]

(* add_wifi_hook_if of mtk_ppe_dev_register_hook, for a device the list of  *)
(* external interfaces names                                                *)
RegisterNamed(s, d) ==
  [Hold(extif_set_dev(s, d), d) EXCEPT !.wifi[First(SlotsOf(s, None))] = d]

(* and for one it does not.                                                 *)
RegisterNew(s, d) ==
  [Hold(ext_if_add(Hold(s, d), d, d), d) EXCEPT !.wifi[First(SlotsOf(s, None))] = d]

mtk_ppe_dev_register_hook(s, d) ==
  IF SlotsOf(s, d) # {} \/ SlotsOf(s, None) = {} THEN s
  ELSE IF NamedExt(s, d) # {} THEN RegisterNamed(s, d)
  ELSE IF Len(s.ext) >= MaxExt THEN s
  ELSE RegisterNew(s, d)

mtk_ppe_dev_unregister_hook(s, d) ==
  LET I == SlotsOf(s, d)
      t == IF I = {} THEN s ELSE [Put(s, d) EXCEPT !.wifi[First(I)] = None]
  IN extif_put_dev(t, d)

(* NETDEV_GOING_DOWN: a WiFi device stays until its driver takes it back.   *)
GoingDown(s, d) == IF SlotsOf(s, d) = {} THEN extif_put_dev(s, d) ELSE s

(* NETDEV_REGISTER                                                          *)
Registered(s, d, ppd) ==
  LET t == IF d = ppd /\ s.ppdev = None THEN [Hold(s, d) EXCEPT !.ppdev = d] ELSE s
  IN IF d = Wan /\ s.wandev = None THEN [Hold(t, d) EXCEPT !.wandev = d] ELSE t

(* NETDEV_UNREGISTER                                                        *)
Unregistered(s, d) ==
  LET t == IF s.ppdev = d THEN [Put(s, d) EXCEPT !.ppdev = None] ELSE s
  IN IF t.wandev = d THEN [Put(t, d) EXCEPT !.wandev = None] ELSE t

(* register_netdevice_notifier tells of the devices that are there.         *)
Replayed(s, registered, up, ppd) ==
  FoldSet(LAMBDA d, t : IF d \in up THEN extif_set_dev(Registered(t, d, ppd), d)
                        ELSE Registered(t, d, ppd),
          s, registered)

(* unregister_netdevice_notifier takes them back.                           *)
Unreplayed(s, registered, up) ==
  FoldSet(LAMBDA d, t : Unregistered(IF d \in up THEN GoingDown(t, d) ELSE t, d), s, registered)

(* dev_get_by_name                                                          *)
Found(name, registered) == IF name \in registered THEN name ELSE None

HoldFound(s, d) == IF d = None THEN s ELSE Hold(s, d)

(* The end of hnat_hw_init: whatever the pointers held, they are looked up  *)
(* anew.                                                                    *)
LookedUp(s, registered, ppd) ==
  LET p == Found(ppd, registered)
      w == Found(Wan, registered)
  IN [HoldFound(HoldFound(s, p), w) EXCEPT !.ppdev = p, !.wandev = w]

(* hnat_release_netdev                                                      *)
Released(s) ==
  LET drop(t, d) == IF d = None THEN t ELSE Put(t, d)
      u == FoldSet(LAMBDA i, t : drop(t, s.ext[i].dev), s, Deleted(s))
  IN [drop(drop(u, s.ppdev), s.wandev) EXCEPT !.ext = Skipped(s)]

Pointers(s, d) ==
  Cardinality(ExtOf(s, d)) + Cardinality(SlotsOf(s, d))
    + (IF s.ppdev = d THEN 1 ELSE 0) + (IF s.wandev = d THEN 1 ELSE 0)
===============================================================================

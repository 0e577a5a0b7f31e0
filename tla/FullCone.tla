-------------------------------- MODULE FullCone --------------------------------
(***************************************************************************)
(* What a full cone NAT promises (RFC3489, which patch/emortal/nft-fullcone*)
(* names as its flavour): an internal endpoint has one external endpoint   *)
(* per external address, whatever remote it talks to, and keeps it for as  *)
(* long as one of its flows lives.                                         *)
(***************************************************************************)
CONSTANTS Int, Ext, Remote    \* internal, external and remote endpoints

VARIABLES
  bind,   \* bindings of internal to external endpoints
  flow    \* established translated flows

Binding == [int : Int, ext : Ext]
Flow    == [int : Int, ext : Ext, remote : Remote]

BindingOf(f) == [int |-> f.int, ext |-> f.ext]

Used == {BindingOf(f) : f \in flow}

Compatible(b, c) ==
  /\ b.ext = c.ext => b = c
  /\ (b.int = c.int /\ b.ext.addr = c.ext.addr) => b = c

Init == bind = {} /\ flow = {}

(* Bindings come and go, but never while a flow uses them.                  *)
Rebind ==
  /\ bind' \in SUBSET Binding
  /\ \A b, c \in bind' : Compatible(b, c)
  /\ Used \subseteq bind'
  /\ UNCHANGED flow

(* A flow in either direction is translated by a binding that is in force.  *)
Open(f) ==
  /\ BindingOf(f) \in bind
  /\ flow' = flow \cup {f}
  /\ UNCHANGED bind

Close(f) ==
  /\ flow' = flow \ {f}
  /\ UNCHANGED bind

Next == Rebind \/ \E f \in Flow : Open(f) \/ Close(f)

Spec == Init /\ [][Next]_<<bind, flow>>
=================================================================================

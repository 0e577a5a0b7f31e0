---------------------------- MODULE MCMtkReconnect ----------------------------
(***************************************************************************)
(* MtkReconnect with the daemon's own proportions in units of one tick     *)
(* (5 seconds), or smaller ones where two profiles share an instance.      *)
(***************************************************************************)
EXTENDS MtkReconnect, TLC

On(p)  == [profile |-> p, disabled |-> FALSE]
Off(p) == [profile |-> p, disabled |-> TRUE]

(* More profiles than slots, in two orders: the last one gets no slot.      *)
MCCrowded == {<<On("home"), On("away"), On("guest")>>,
              <<On("away"), On("home"), On("guest")>>,
              <<On("home"), Off("guest")>>}

(* Two profiles in either order, or the first alone and switched off.        *)
MCReordered == {<<On("home"), On("guest")>>, <<On("guest"), On("home")>>, <<Off("home")>>}
===============================================================================

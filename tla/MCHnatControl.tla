----------------------------- MODULE MCHnatControl -----------------------------
(* Values of the constants of HnatControl for TLC.                           *)
EXTENDS HnatControl

CONSTANTS eth, wl

(* The device tree names the WiFi device, or does not.                       *)
MCExts == <<wl>>

MCNoExts == <<>>
===============================================================================

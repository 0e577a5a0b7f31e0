CONSTANTS
  wl = wl
  usb = usb
  lan = lan
  wan = wan
  fdown = fdown
  fflood = fflood
  flocal = flocal
  fout = fout
  fin = fin
  fodd = fodd
  fup = fup
  fxlat = fxlat
  f6rd = f6rd
  None = None
  Flows = {fdown, fout, fup, fin, fodd, flocal, fflood, fxlat}
  Skbs = {k1}
  From <- MCFrom
  To <- MCTo
  Kind <- MCKind
  Odd = {fodd}
  Missed = {fflood}
  Exts = {wl, usb}
  WifiDevs = {usb}
  Macs = {lan, wan}
  Ppd = ppd
  Ports = {wl, lan, ppd}
  ActSpace = 4
  MarkSpace = 8
  IfMax = 3
CONSTRAINT MCSteady
SPECIFICATION Spec
CHECK_DEADLOCK FALSE
INVARIANTS
  TripsEnd
  ReturnsToSource
  NotMisdelivered
  OnlyEligibleBound

------------------------------- MODULE MCHnatPpe -------------------------------
(* Values of the constants of HnatPpe for TLC.                               *)
EXTENDS HnatPpe, TLC

MCAll ==
  {"clear", "delete", "dump", "timestamp", "reset", "sma", "mape", "xlat", "l2br", "l4s", "hash",
   "prot_3t", "cport", "threshold", "tcp", "udp", "fin", "tcp_ka", "udp_ka"}

MCSome ==
  {"clear", "delete", "dump", "timestamp", "reset", "mape", "hash", "prot_3t", "cport", "fin"}

(* The longest programs: a state in which a reset runs beside another of    *)
(* them is checked and not followed.                                        *)
MCResetBeside ==
  ~ \E c, d \in CPUs : cpu[c].prog = "reset" /\ cpu[d].prog \in {"hash", "timestamp"}

MCCPUs == Permutations(CPUs)
===============================================================================

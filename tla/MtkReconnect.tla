------------------------------ MODULE MtkReconnect ------------------------------
(***************************************************************************)
(* mtkreconnect: the daemon that keeps the MediaTek station interfaces     *)
(* connected, the init script that starts, signals and stops it, and the   *)
(* UCI configuration both of them read.                                    *)
(*                                                                         *)
(* Abstractions.  A profile is the pair (ifname, ssid) that                *)
(* load_sta_configs takes for the identity of an interface.  Time is kept  *)
(* as what is left of next_try, the only thing the code asks of it, so     *)
(* "wait = 0" is "now >= next_try".  Counters the code only compares with  *)
(* a threshold stop there.  is_connected answers anything at any poll.     *)
(***************************************************************************)
EXTENDS Integers, Sequences, FiniteSets

CONSTANTS
  Profiles,       \* (ifname, ssid) pairs
  NoSsid,         \* those whose ssid is the empty string
  Configs,        \* the lists of sta sections /etc/config/wireless may hold
  MaxSta,         \* MAX_STA
  Cooldown,       \* RECONNECT_COOLDOWN
  MaxShift,       \* MAX_BACKOFF_SHIFT
  Jitter,         \* what rand() % RECONNECT_JITTER adds
  Confirm,        \* CONNECT_CONFIRM_TICKS
  StartStagger,   \* seconds between first attempts of two profiles at start
  ReloadDelay,    \* seconds before an attempt after a reload ...
  ReloadStagger,  \* ... and between two profiles
  Elapsed,        \* seconds one round of the loop may take, TICK_INTERVAL on
  LoadFails       \* whether uci_load and uci_alloc_context may fail

Section == [profile : Profiles, disabled : BOOLEAN]

ASSUME ReconnectAssumption ==
  /\ NoSsid \subseteq Profiles
  /\ Configs \subseteq Seq(Section)
  /\ {MaxSta, Cooldown, Confirm} \subseteq Nat \ {0}
  /\ {MaxShift, StartStagger, ReloadDelay, ReloadStagger} \subseteq Nat
  /\ Jitter \subseteq Nat /\ Elapsed \subseteq Nat \ {0}
  /\ LoadFails \in BOOLEAN

VARIABLES
  config,     \* the committed configuration
  trigger,    \* procd has a "wireless" reload trigger to run
  pc,         \* where the daemon is; "stopped" when procd runs none
  g_reload,   \* SIGHUP was caught
  list,       \* ifaces[0 .. count - 1]
  connecting, \* profiles whose transaction the last poll ran
  quiet,      \* history: cooldown left from the last attempt at a profile
  failed      \* history: the last load of the configuration failed

vars == <<config, trigger, pc, g_reload, list, connecting, quiet, failed>>

AtMost(a, b) == IF a < b THEN a ELSE b
Minus(a, b)  == IF a < b THEN 0 ELSE a - b

(* next_cooldown *)
NextCooldown(fail_count) == Cooldown * 2 ^ AtMost(Minus(fail_count, 1), MaxShift)

FailCap == MaxShift + 1   \* more failures than this change nothing

(* A property of 2 ^ k, of which the provers know little.                   *)
ASSUME CooldownAssumption == \A n \in 0 .. FailCap : NextCooldown(n) \in Nat

Fresh(p) ==
  [profile |-> p, wait |-> 0, fail_count |-> 0,
   disconn_streak |-> 0, connected_streak |-> 0]

Listed == {list[i].profile : i \in DOMAIN list}

SlotOf(p) == list[CHOOSE i \in DOMAIN list : list[i].profile = p]

Init ==
  /\ config \in Configs
  /\ trigger = TRUE          \* START=99: the init script runs at boot
  /\ pc = "stopped"
  /\ g_reload = FALSE
  /\ list = <<>>
  /\ connecting = {}
  /\ quiet = [p \in Profiles |-> 0]
  /\ failed = FALSE
-------------------------------------------------------------------------------
(***************************************************************************)
(* load_sta_configs.  The daemon does not look at "disabled".              *)
(***************************************************************************)
(* Seeded fault: sections beyond the last slot are loaded too.              *)
WantedAll(cfg) == [i \in DOMAIN cfg |-> cfg[i].profile]

Wanted(cfg) == [i \in 1 .. AtMost(Len(cfg), MaxSta) |-> cfg[i].profile]

(* The slots of a set of indices, in their order.                           *)
Selected(slots, K) ==
  LET order == CHOOSE f \in [1 .. Cardinality(K) -> K] :
                 \A i, j \in DOMAIN f : i < j => f[i] < f[j]
  IN [i \in DOMAIN order |-> slots[order[i]]]

(* The profiles whose running state is saved before the list is cleared.    *)
Backup(slots) == Selected(slots, {i \in DOMAIN slots : slots[i].profile \notin NoSsid})

Restored(p, old) ==
  LET same == {j \in DOMAIN old : old[j].profile = p}
  IN IF same = {} THEN Fresh(p)
     ELSE old[CHOOSE j \in same : \A k \in same : j <= k]

(* Seeded fault: the running state is not restored.                         *)
LoadFresh(cfg, slots) == [i \in DOMAIN Wanted(cfg) |-> Fresh(Wanted(cfg)[i])]

Load(cfg, slots) ==
  [i \in DOMAIN Wanted(cfg) |-> Restored(Wanted(cfg)[i], Backup(slots))]

(* What a load may leave: a failed uci_load keeps what was backed up.       *)
Loads(slots) == {Load(config, slots)} \cup (IF LoadFails THEN {Backup(slots)} ELSE {})

(* A profile that is no longer listed has no cooldown to keep.              *)
QuietOf(slots) ==
  [p \in Profiles |-> IF \E i \in DOMAIN slots : slots[i].profile = p THEN quiet[p] ELSE 0]
-------------------------------------------------------------------------------
(***************************************************************************)
(* The configuration and the init script.                                  *)
(***************************************************************************)
Commit(cfg) ==
  /\ cfg # config
  /\ config' = cfg
  /\ trigger' = TRUE
  /\ UNCHANGED <<pc, g_reload, list, connecting, quiet, failed>>

StaEnabled == \E i \in DOMAIN config : ~ config[i].disabled   \* check_sta

(* The process is gone; procd starts another if state is "boot".            *)
Gone(state) ==
  /\ pc' = state
  /\ g_reload' = FALSE
  /\ list' = <<>>
  /\ connecting' = {}
  /\ quiet' = [p \in Profiles |-> 0]
  /\ failed' = FALSE

(* reload_service, and start_service which it calls.  SIGHUP kills a daemon *)
(* that has not yet installed its handlers, and procd respawns it.          *)
ReloadService ==
  /\ trigger
  /\ trigger' = FALSE
  /\ UNCHANGED config
  /\ \/ /\ pc = "stopped" /\ StaEnabled
        /\ Gone("boot")
     \/ /\ pc = "stopped" /\ ~ StaEnabled
        /\ UNCHANGED <<pc, g_reload, list, connecting, quiet, failed>>
     \/ /\ pc # "stopped" /\ ~ StaEnabled
        /\ Gone("stopped")
     \/ /\ pc \in {"boot", "booted"} /\ StaEnabled
        /\ Gone("boot")
     \/ /\ pc \notin {"stopped", "boot", "booted"} /\ StaEnabled
        /\ g_reload' = TRUE
        /\ UNCHANGED <<pc, list, connecting, quiet, failed>>
-------------------------------------------------------------------------------
(***************************************************************************)
(* main.                                                                   *)
(***************************************************************************)
Boot ==
  /\ pc = "boot"
  /\ \E l \in Loads(<<>>) :
       /\ list' = [i \in DOMAIN l |-> [l[i] EXCEPT !.wait = (i - 1) * StartStagger]]
       /\ failed' = (l # Load(config, <<>>))
  /\ pc' = "booted"
  /\ UNCHANGED <<config, trigger, g_reload, connecting, quiet>>

InstallSignals ==
  /\ pc = "booted"
  /\ pc' = "loop"
  /\ UNCHANGED <<config, trigger, g_reload, list, connecting, quiet, failed>>

(* The top of the loop: the flag is cleared before the load it asks for.    *)
CheckReload ==
  /\ pc = "loop"
  /\ pc' = IF g_reload THEN "reload" ELSE "poll"
  /\ g_reload' = FALSE
  /\ UNCHANGED <<config, trigger, list, connecting, quiet, failed>>

(* A profile that may be tried at once is put off a little.                 *)
Rescheduled(slots) ==
  [i \in DOMAIN slots |->
     [slots[i] EXCEPT !.wait = IF @ = 0 THEN ReloadDelay + (i - 1) * ReloadStagger ELSE @,
                      !.disconn_streak = 0,
                      !.connected_streak = 0]]

Reload ==
  /\ pc = "reload"
  /\ pc' = "poll"
  /\ \/ \E l \in Loads(list) :
          list' = Rescheduled(l) /\ quiet' = QuietOf(l) /\ failed' = (l # Load(config, list))
     \/ LoadFails /\ failed' = TRUE /\ UNCHANGED <<list, quiet>>      \* no new uci context
  /\ UNCHANGED <<config, trigger, g_reload, connecting>>

(* Seeded fault: one poll with the link up resets the retry state.          *)
SeenUpAtOnce(s) ==
  [s EXCEPT !.connected_streak = AtMost(@ + 1, Confirm), !.disconn_streak = 0,
            !.fail_count = 0]

(* A profile seen connected: retry state is reset only when the link was up *)
(* for Confirm polls and the cooldown is over.                              *)
SeenUp(s) ==
  LET streak == AtMost(s.connected_streak + 1, Confirm)
  IN [s EXCEPT !.connected_streak = streak,
               !.disconn_streak = 0,
               !.fail_count = IF streak >= Confirm /\ s.wait = 0 THEN 0 ELSE @]

(* Seeded fault: only the very second disconnected poll is acted on.        *)
DueOnce(s) == s.disconn_streak + 1 = 2 /\ s.wait = 0

(* Seen disconnected twice in a row, with the cooldown over.                *)
Due(s) == s.disconn_streak + 1 >= 2 /\ s.wait = 0

(* do_connect_transaction and record_failure: the same whether the driver   *)
(* took the commands or not.                                                *)
Tried(s, jitter) ==
  LET fails == AtMost(s.fail_count + 1, FailCap)
  IN [s EXCEPT !.connected_streak = 0,
               !.disconn_streak = 0,
               !.fail_count = fails,
               !.wait = NextCooldown(fails) + jitter]

SeenDown(s, jitter) ==
  IF Due(s) THEN Tried(s, jitter)
  ELSE [s EXCEPT !.connected_streak = 0,
                 !.disconn_streak = AtMost(@ + 1, 2)]

Poll ==
  /\ pc = "poll"
  /\ \E up \in SUBSET DOMAIN list : \E jitter \in [DOMAIN list -> Jitter] :
       LET tried == {i \in DOMAIN list \ up : Due(list[i])}
       IN /\ list' = [i \in DOMAIN list |-> IF i \in up THEN SeenUp(list[i])
                                            ELSE SeenDown(list[i], jitter[i])]
          /\ connecting' = {list[i].profile : i \in tried}
          /\ quiet' = [p \in Profiles |->
                         IF p \in connecting' THEN NextCooldown(SlotOf(p)'.fail_count)
                                              ELSE quiet[p]]
  /\ pc' = "sleep"
  /\ UNCHANGED <<config, trigger, g_reload, failed>>

(* Seeded fault: the reload flag is cleared at the end of the round.        *)
SleepAndClear ==
  /\ pc = "sleep"
  /\ pc' = "loop"
  /\ \E t \in Elapsed :
       /\ list' = [i \in DOMAIN list |-> [list[i] EXCEPT !.wait = Minus(@, t)]]
       /\ quiet' = [p \in Profiles |-> Minus(quiet[p], t)]
  /\ connecting' = {}
  /\ g_reload' = FALSE
  /\ UNCHANGED <<config, trigger, failed>>

(* sleep(TICK_INTERVAL), cut short by a signal.                             *)
Sleep ==
  /\ pc = "sleep"
  /\ pc' = "loop"
  /\ \E t \in Elapsed \cup (IF g_reload THEN {0} ELSE {}) :
       /\ list' = [i \in DOMAIN list |-> [list[i] EXCEPT !.wait = Minus(@, t)]]
       /\ quiet' = [p \in Profiles |-> Minus(quiet[p], t)]
  /\ connecting' = {}
  /\ UNCHANGED <<config, trigger, g_reload, failed>>
-------------------------------------------------------------------------------
Daemon == Boot \/ InstallSignals \/ CheckReload \/ Reload \/ Poll \/ Sleep

Next ==
  \/ \E cfg \in Configs : Commit(cfg)
  \/ ReloadService
  \/ Daemon

Spec == Init /\ [][Next]_vars

(* The daemon's loop never blocks for good, and procd runs its triggers.    *)
FairSpec == Spec /\ WF_vars(Daemon) /\ WF_vars(ReloadService)
-------------------------------------------------------------------------------
Slot ==
  [profile : Profiles, wait : Nat, fail_count : 0 .. FailCap,
   disconn_streak : 0 .. 2, connected_streak : 0 .. Confirm]

TypeOK ==
  /\ config \in Configs
  /\ trigger \in BOOLEAN
  /\ pc \in {"stopped", "boot", "booted", "loop", "reload", "poll", "sleep"}
  /\ {g_reload, failed} \subseteq BOOLEAN
  /\ list \in Seq(Slot) /\ Len(list) <= MaxSta
  /\ connecting \subseteq Profiles
  /\ quiet \in [Profiles -> Nat]

(* A profile that stays configured is never tried again before the cooldown *)
(* of its last attempt is over, whatever reloads, failed reloads, changes   *)
(* of its place in the list and short-lived links come in between (the      *)
(* comments on the backup in load_sta_configs and on the rescheduling in    *)
(* main).                                                                   *)
NoEarlyRetry == [][\A p \in (connecting' \ connecting) \ NoSsid : quiet[p] = 0]_vars

(* Failures are forgotten only by a link that was up for Confirm polls in a *)
(* row, never by a reload or by a link the driver reports for a moment (the *)
(* comment on CONNECT_CONFIRM_TICKS).                                       *)
FailuresForgottenWhenStable ==
  [][\A p \in Listed \ NoSsid :
       (p \in Listed' /\ SlotOf(p)'.fail_count < SlotOf(p).fail_count)
         => SlotOf(p).connected_streak >= Confirm - 1 /\ quiet[p] = 0]_vars

(* A profile that stays listed and disconnected is retried for ever: no     *)
(* combination of streaks, cooldowns and earlier reloads disables it.       *)
RetriedForever ==
  \A p \in Profiles :
    <>[](p \in Listed /\ SlotOf(p).connected_streak = 0 /\ ~ g_reload /\ pc # "reload")
      => []<>(p \in connecting)

(* The daemon ends up with the profiles of the last committed configuration *)
(* if a station is enabled there, and stopped otherwise, wherever SIGHUP    *)
(* found it, unless its last load failed.                                   *)
LastConfigLoaded ==
  \A cfg \in Configs :
    <>[](config = cfg /\ ~failed)
      => <>[](IF StaEnabled THEN [i \in DOMAIN list |-> list[i].profile] = Wanted(cfg)
                            ELSE pc = "stopped")

(* A disabled station is not connected: start and reload count only the     *)
(* others, and the init script stops the daemon "when all STA interfaces    *)
(* are disabled" (its comment, in translation).                             *)
DisabledLeftAlone ==
  (pc = "sleep" /\ ~ trigger /\ ~ g_reload)
    => \A p \in connecting :
         \E i \in DOMAIN config : config[i].profile = p /\ ~ config[i].disabled
================================================================================

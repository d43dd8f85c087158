-------------------------------- MODULE Power --------------------------------
(***************************************************************************)
(* Switching off (charger.c, app-shipmode.c, orchard-app.c), and the       *)
(* configuration that is flushed before (userconfig.c).  The event thread  *)
(* checks the battery once a second, flushes what has changed, and pings   *)
(* the charger; the ship mode app flushes and waits for Select.  Whoever   *)
(* calls chargerShipMode sets up the charger over I2C, where a thread may  *)
(* have to wait for the bus, and spins until the power is gone.            *)
(*                                                                         *)
(* The configuration is a count of changes.  Neither flush takes a lock:   *)
(* when the two overlap an assertion may stop the badge, and what is       *)
(* stored may be any state the configuration has had (OrfsThreads has the  *)
(* details).                                                               *)
(***************************************************************************)
EXTENDS Naturals

CONSTANTS MAX_CHANGES, Torn

ASSUME PowerAssumption == MAX_CHANGES \in Nat /\ Torn \notin Nat

VARIABLES
  on,
  plugged,      \* the charger has power,
  charging,     \* and reports that it charges: isCharging()
  empty,        \* the voltage is below SHIPMODE_THRESH
  busy,         \* some other thread has the I2C bus
  stat,         \* the charger's timer and stat pin: "alive" or "disabled"
  shutdown_initiated,
  evt,          \* where the event thread is, or "halted" by an assertion,
  low,          \* and what it found the voltage to be
  pending,      \* its events
  app,          \* where the app thread is: "away" while another app runs
  pluggedin,    \* what the ship mode app believes
  cache, flash, \* the configuration; flash is Torn while it is patched,
  image,        \* from what the cache was then, or Torn when patches overlap
  due           \* history: what the cache was when the last check began, or
                \* 0 when the app patched during its flush

charger == <<stat, shutdown_initiated>>
config  == <<cache, flash, image, due>>
outside == <<plugged, charging, empty, busy>>
vars    == <<on, outside, charger, evt, low, pending, app, pluggedin, config>>

Init ==
  /\ on = TRUE /\ plugged = FALSE /\ charging = FALSE /\ empty = FALSE /\ busy = FALSE
  /\ stat = "alive" /\ shutdown_initiated = FALSE
  /\ evt = "idle" /\ low = FALSE /\ pending = {}
  /\ app = "away" /\ pluggedin = FALSE
  /\ cache = 0 /\ flash = 0 /\ image = 0 /\ due = 0

EvtAt(from, to) == on /\ evt = from /\ evt' = to

(* The app thread has a low priority: it gets nowhere while the event      *)
(* thread spins, nor does anybody after chSysHalt.                         *)
AppRuns == on /\ evt \notin {"spin", "halted"}
AppAt(from, to) == AppRuns /\ app = from /\ app' = to

(* The bus is given to the waiting thread with the highest priority.       *)
EvtHasBus == ~busy
AppHasBus == ~busy /\ evt \notin {"keepalive", "ctrl", "stat"}

-----------------------------------------------------------------------------
(* The event thread.  handle_chargecheck_timeout comes before              *)
(* chgKeepaliveHandler in the order of the events.                         *)

(* run_chargecheck, and chg_cb in the same way for the keep-alive.         *)
Timer(e) ==
  /\ on
  /\ pending' = pending \cup {e}
  /\ UNCHANGED <<on, outside, charger, evt, low, app, pluggedin, config>>

handle_chargecheck_timeout ==
  /\ EvtAt("idle", "flush") /\ "check" \in pending
  /\ pending' = pending \ {"check"}
  /\ low' = empty /\ due' = cache
  /\ UNCHANGED <<on, outside, charger, app, pluggedin, cache, flash, image>>

(* storagePatchData programs the words one by one, so a change that comes  *)
(* meanwhile may be too late.                                              *)
StartPatch(overlap) ==
  /\ flash' = Torn
  /\ image' = IF overlap THEN Torn ELSE cache

EndPatch(overlap) ==
  IF overlap THEN UNCHANGED <<flash, image>>
  ELSE /\ flash' \in (IF image = Torn THEN 0 ELSE image) .. cache
       /\ image' = 0

(* Mutant: only the first change is flushed.                               *)
configLazyFlush_once ==
  /\ on /\ evt = "flush"
  /\ \/ cache # flash /\ flash \in {0, Torn} /\ evt' = "program" /\ StartPatch(app = "program")
     \/ (flash # 0 \/ cache = 0) /\ evt' = "battery" /\ UNCHANGED <<flash, image>>
  /\ due' = (IF app = "program" THEN 0 ELSE due)
  /\ UNCHANGED <<on, outside, charger, low, pending, app, pluggedin, cache>>

(* What memcmp finds while the app patches depends on how far that is.     *)
configLazyFlush ==
  /\ on /\ evt = "flush"
  /\ \/ cache # flash /\ evt' = "program" /\ StartPatch(app = "program")
     \/ flash \in {cache, Torn} /\ evt' = "battery" /\ UNCHANGED <<flash, image>>
  /\ due' = (IF app = "program" THEN 0 ELSE due)
  /\ UNCHANGED <<on, outside, charger, low, pending, app, pluggedin, cache>>

Flushed ==
  /\ EvtAt("program", "battery")
  /\ EndPatch(app = "program")
  /\ UNCHANGED <<on, outside, charger, low, pending, app, pluggedin, cache, due>>

(* "Low level programming error in storagePatchData".                      *)
Assertion ==
  /\ AppRuns /\ image = Torn
  /\ evt' = "halted"
  /\ UNCHANGED <<on, outside, charger, low, pending, app, pluggedin, config>>

(* Mutant: the badge is only switched off when it is charging.             *)
CheckBattery_inverted ==
  /\ on /\ evt = "battery" /\ (low => EvtHasBus)
  /\ evt' = (IF low /\ charging THEN "ctrl" ELSE "idle")
  /\ shutdown_initiated' = (shutdown_initiated \/ (low /\ charging))
  /\ UNCHANGED <<on, outside, stat, low, pending, app, pluggedin, config>>

(* "But only if we're not plugged in to a charger": isCharging also says   *)
(* no when the charger is plugged in and idle, done or in fault.           *)
CheckBattery ==
  /\ on /\ evt = "battery" /\ (low => EvtHasBus)
  /\ evt' = (IF low /\ ~charging THEN "ctrl" ELSE "idle")
  /\ shutdown_initiated' = (shutdown_initiated \/ (low /\ ~charging))
  /\ UNCHANGED <<on, outside, stat, low, pending, app, pluggedin, config>>

chgKeepaliveHandler ==
  /\ "keepalive" \in pending /\ "check" \notin pending
  /\ EvtAt("idle", IF shutdown_initiated THEN "idle" ELSE "keepalive")
  /\ pending' = pending \ {"keepalive"}
  /\ UNCHANGED <<on, outside, charger, low, app, pluggedin, config>>

Keepalive ==
  /\ EvtAt("keepalive", "idle") /\ EvtHasBus
  /\ stat' = "alive"
  /\ UNCHANGED <<on, outside, shutdown_initiated, low, pending, app, pluggedin, config>>

(* Before it spins, chargerShipMode puts the gauge to sleep, sleeps for    *)
(* others to run, and reads both registers back.                           *)
EvtShipMode ==
  /\ EvtHasBus
  /\ \/ EvtAt("ctrl", "stat") /\ UNCHANGED stat
     \/ EvtAt("stat", "settle") /\ stat' = "disabled"
     \/ EvtAt("settle", "spin") /\ UNCHANGED stat
  /\ UNCHANGED <<on, outside, shutdown_initiated, low, pending, app, pluggedin, config>>

-----------------------------------------------------------------------------
(* The ship mode app.                                                      *)

shipmode_start ==
  /\ AppAt("away", "program")
  /\ StartPatch(evt = "program")
  /\ due' = (IF evt = "program" THEN 0 ELSE due)
  /\ UNCHANGED <<on, outside, charger, evt, low, pending, pluggedin, cache>>

configFlush ==
  /\ AppAt("program", "menu")
  /\ EndPatch(evt = "program")
  /\ UNCHANGED <<on, outside, charger, evt, low, pending, pluggedin, cache, due>>

(* timerEvent.                                                             *)
Refresh ==
  /\ AppAt("menu", "menu") /\ AppHasBus
  /\ pluggedin' = charging
  /\ UNCHANGED <<on, outside, charger, evt, low, pending, config>>

Select ==
  /\ AppAt("menu", "ctrl") /\ ~pluggedin
  /\ shutdown_initiated' = TRUE
  /\ UNCHANGED <<on, outside, stat, evt, low, pending, pluggedin, config>>

Home ==
  /\ AppAt("menu", "away")
  /\ UNCHANGED <<on, outside, charger, evt, low, pending, pluggedin, config>>

(* Mutant: nobody waits for the bus.                                       *)
AppShipMode_jumps ==
  /\ \/ AppAt("ctrl", "stat") /\ UNCHANGED stat
     \/ AppAt("stat", "settle") /\ stat' = "disabled"
     \/ AppAt("settle", "spin") /\ UNCHANGED stat
  /\ UNCHANGED <<on, outside, shutdown_initiated, evt, low, pending, pluggedin, config>>

AppShipMode ==
  /\ AppHasBus
  /\ \/ AppAt("ctrl", "stat") /\ UNCHANGED stat
     \/ AppAt("stat", "settle") /\ stat' = "disabled"
     \/ AppAt("settle", "spin") /\ UNCHANGED stat
  /\ UNCHANGED <<on, outside, shutdown_initiated, evt, low, pending, pluggedin, config>>

(* configIncSexInitiations, configIncSexResponses.                         *)
Change ==
  /\ AppRuns /\ cache < MAX_CHANGES
  /\ evt = "idle" \/ app = "away"
  /\ cache' = cache + 1
  /\ UNCHANGED <<on, outside, charger, evt, low, pending, app, pluggedin, flash, image, due>>

-----------------------------------------------------------------------------
Environment ==
  /\ \/ plugged' = ~plugged /\ charging' = FALSE /\ UNCHANGED <<empty, busy>>
     \/ plugged /\ charging' = ~charging /\ UNCHANGED <<plugged, empty, busy>>
     \/ empty' = ~empty /\ UNCHANGED <<plugged, charging, busy>>
     \/ on /\ ~busy /\ busy' = TRUE /\ UNCHANGED <<plugged, charging, empty>>
  /\ UNCHANGED <<on, charger, evt, low, pending, app, pluggedin, config>>

BusFree ==
  /\ busy /\ busy' = FALSE
  /\ UNCHANGED <<on, plugged, charging, empty, charger, evt, low, pending, app, pluggedin, config>>

(* The ship mode pin has been let go, and no charger feeds the badge.      *)
PowerOff ==
  /\ on /\ ~plugged /\ (evt = "spin" \/ app = "spin")
  /\ on' = FALSE
  /\ UNCHANGED <<outside, charger, evt, low, pending, app, pluggedin, config>>

(* main, with configStart: the configuration is read back, or the default  *)
(* one stored when the signature is gone.                                  *)
Boot ==
  /\ on' = TRUE
  /\ stat' = "alive" /\ shutdown_initiated' = FALSE
  /\ evt' = "idle" /\ low' = FALSE /\ pending' = {}
  /\ app' = "away" /\ pluggedin' = FALSE /\ busy' = FALSE
  /\ cache' \in (IF flash = Torn THEN 0 .. cache ELSE {flash})
  /\ flash' = cache' /\ image' = 0 /\ due' = 0
  /\ UNCHANGED <<plugged, charging, empty>>

(* "Requires plugging in to re-active battery".                            *)
PlugIn == ~on /\ plugged /\ Boot

(* The watchdog bites when the event thread does not ping it any more: a   *)
(* charger came too late for the check, or an assertion failed.  When it   *)
(* is the app thread that spins, the event thread pings on.                *)
Watchdog == on /\ (evt = "halted" \/ (evt = "spin" /\ plugged)) /\ Boot

EventThread ==
  \/ handle_chargecheck_timeout \/ configLazyFlush \/ Flushed \/ CheckBattery
  \/ chgKeepaliveHandler \/ Keepalive \/ EvtShipMode
AppThread == configFlush \/ AppShipMode

Next ==
  \/ EventThread \/ AppThread \/ Assertion \/ shipmode_start \/ Refresh \/ Select \/ Home \/ Change
  \/ \E e \in {"check", "keepalive"} : Timer(e)
  \/ Environment \/ BusFree \/ PowerOff \/ PlugIn \/ Watchdog

Spec == Init /\ [][Next]_vars

(* Timers and threads go on, the bus is not kept.  It may be taken again   *)
(* and again, but a waiting thread is served in between.                   *)
FairSpec ==
  /\ Spec /\ SF_vars(EventThread) /\ SF_vars(AppThread)
  /\ WF_vars(Timer("check")) /\ WF_vars(BusFree)
  /\ WF_vars(PowerOff)

-----------------------------------------------------------------------------
TypeOK ==
  /\ on \in BOOLEAN /\ plugged \in BOOLEAN /\ charging \in BOOLEAN
  /\ empty \in BOOLEAN /\ busy \in BOOLEAN
  /\ stat \in {"alive", "disabled"} /\ shutdown_initiated \in BOOLEAN
  /\ evt \in {"idle", "flush", "program", "battery", "keepalive", "ctrl", "stat", "settle",
             "spin", "halted"}
  /\ low \in BOOLEAN /\ pending \subseteq {"check", "keepalive"}
  /\ app \in {"away", "program", "menu", "ctrl", "stat", "settle", "spin"}
  /\ pluggedin \in BOOLEAN
  /\ cache \in 0 .. MAX_CHANGES /\ due \in 0 .. cache
  /\ image \in 0 .. cache \cup {Torn} /\ flash \in 0 .. cache \cup {Torn}
  /\ flash = Torn => ~on \/ evt \in {"program", "halted"} \/ app = "program"

(* "Don't ping the charger watchdog while shutdown is initiated": a ping   *)
(* that passed that test before the other thread began to switch off, and  *)
(* then had to wait for the bus, does not undo what was set.               *)
ShipModeIsKept ==
  on /\ (evt \in {"settle", "spin"} \/ app \in {"settle", "spin"}) => stat = "disabled"

(* An empty battery is switched off, unless somebody plugs the charger in  *)
(* or two flushes that overlap stop the badge.                             *)
EmptyPowersOff ==
  on /\ empty /\ ~plugged ~> ~on \/ ~empty \/ plugged \/ evt = "halted"

IsStored(n) == flash # Torn /\ flash >= n

(* When handle_chargecheck_timeout gets to the battery, and so whenever it *)
(* switches the badge off, all changes from before it began are in flash,  *)
(* unless the ship mode app patches at the same time.                      *)
CheckStores ==
  evt \in {"battery", "ctrl", "stat", "settle", "spin"} /\ app # "program" => IsStored(due)

(* Every change of the configuration gets to flash, also one that comes    *)
(* while an older state is being flushed: the next check stores it, unless *)
(* the badge goes off before or the two flushes overlap.                   *)
ChangesAreStored ==
  /\ [][CheckStores']_vars
  /\ \A n \in 0 .. MAX_CHANGES :
       on /\ cache = n ~> IsStored(n) \/ ~on \/ evt = "spin" \/ image = Torn
=============================================================================

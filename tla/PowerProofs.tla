----------------------------- MODULE PowerProofs -----------------------------
(***************************************************************************)
(* Proofs about Power, for any number of changes of the configuration:     *)
(* the charger stays as the thread that switches off has set it up, and a  *)
(* check of the battery leaves the changes before it in flash.             *)
(***************************************************************************)
EXTENDS Power, TLAPS

Flags ==
  /\ on \in BOOLEAN /\ plugged \in BOOLEAN /\ charging \in BOOLEAN /\ empty \in BOOLEAN /\ busy \in BOOLEAN
  /\ shutdown_initiated \in BOOLEAN /\ low \in BOOLEAN /\ pluggedin \in BOOLEAN

Threads ==
  /\ stat \in {"alive", "disabled"}
  /\ evt \in {"idle", "flush", "program", "battery", "keepalive", "ctrl", "stat", "settle",
             "spin", "halted"}
  /\ pending \subseteq {"check", "keepalive"}
  /\ app \in {"away", "program", "menu", "ctrl", "stat", "settle", "spin"}

(* Who programs flash has an image of the configuration of before.         *)
ConfigInv ==
  /\ cache \in 0 .. MAX_CHANGES /\ due \in 0 .. cache
  /\ image \in 0 .. cache \cup {Torn} /\ flash \in 0 .. cache \cup {Torn}
  /\ flash = Torn => ~on \/ evt \in {"program", "halted"} \/ app = "program"

(* The patch that is under way stores at least what the check owes.        *)
DueInv ==
  \/ evt = "program"
  \/ evt \in {"battery", "ctrl", "stat", "settle", "spin"} /\ app = "program"
  => due = 0 \/ (image # Torn /\ due <= image)

(* Whoever switches off has said so before it touches the charger,         *)
ShutdownInv ==
  /\ on /\ evt \in {"ctrl", "stat", "settle", "spin"} => shutdown_initiated
  /\ on /\ app \in {"ctrl", "stat", "settle", "spin"} => shutdown_initiated

(* and a ping that had passed its test has been sent before the app is     *)
(* done with the charger.                                                  *)
PingInv == on /\ app \in {"settle", "spin"} => evt # "keepalive"

IInv ==
  /\ Flags /\ Threads /\ ConfigInv /\ DueInv /\ CheckStores
  /\ ShutdownInv /\ PingInv /\ ShipModeIsKept

-----------------------------------------------------------------------------
LEMMA InitInv == Init => IInv
<1>. SUFFICES ASSUME Init PROVE IInv
  OBVIOUS
<1>1. Flags
  BY DEF Init, Flags
<1>2. Threads /\ ConfigInv /\ DueInv /\ CheckStores
  BY PowerAssumption DEF Init, Threads, ConfigInv, DueInv, CheckStores, IsStored
<1>3. ShutdownInv /\ PingInv /\ ShipModeIsKept
  BY DEF Init, ShutdownInv, PingInv, ShipModeIsKept
<1>. QED BY <1>1, <1>2, <1>3 DEF IInv

(* Every step keeps every part of the invariant.                           *)
LEMMA FlagsKept ==
  ASSUME IInv, Next
  PROVE  Flags'
<1>. USE PowerAssumption DEF IInv, Flags, charger, config, outside, EvtAt, AppAt, AppRuns, EvtHasBus,
       AppHasBus
<1>1. CASE EventThread \/ Assertion
  BY <1>1 DEF EventThread, Assertion, handle_chargecheck_timeout, configLazyFlush, Flushed, CheckBattery,
     chgKeepaliveHandler, Keepalive, EvtShipMode
<1>2. CASE AppThread \/ shipmode_start \/ Refresh \/ Select \/ Home \/ Change
  BY <1>2 DEF AppThread, configFlush, AppShipMode, shipmode_start, Refresh, Select, Home,
     Change
<1>3. CASE \E e \in {"check", "keepalive"} : Timer(e)
  BY <1>3 DEF Timer
<1>4. CASE Environment \/ BusFree \/ PowerOff
  BY <1>4 DEF Environment, BusFree, PowerOff
<1>5. CASE PlugIn \/ Watchdog
  BY <1>5 DEF PlugIn, Watchdog, Boot
<1>. QED BY <1>1, <1>2, <1>3, <1>4, <1>5 DEF Next

LEMMA ThreadsKept ==
  ASSUME IInv, Next
  PROVE  Threads'
<1>. USE PowerAssumption DEF IInv, Threads, charger, config, outside, EvtAt, AppAt, AppRuns, EvtHasBus,
       AppHasBus
<1>1. CASE EventThread \/ Assertion
  BY <1>1 DEF EventThread, Assertion, handle_chargecheck_timeout, configLazyFlush, Flushed, CheckBattery,
     chgKeepaliveHandler, Keepalive, EvtShipMode
<1>2. CASE AppThread \/ shipmode_start \/ Refresh \/ Select \/ Home \/ Change
  BY <1>2 DEF AppThread, configFlush, AppShipMode, shipmode_start, Refresh, Select, Home,
     Change
<1>3. CASE \E e \in {"check", "keepalive"} : Timer(e)
  BY <1>3 DEF Timer
<1>4. CASE Environment \/ BusFree \/ PowerOff
  BY <1>4 DEF Environment, BusFree, PowerOff
<1>5. CASE PlugIn \/ Watchdog
  BY <1>5 DEF PlugIn, Watchdog, Boot
<1>. QED BY <1>1, <1>2, <1>3, <1>4, <1>5 DEF Next

LEMMA ConfigKept ==
  ASSUME IInv, Next
  PROVE  ConfigInv'
<1>. USE PowerAssumption DEF IInv, Flags, Threads, ConfigInv, charger, config, outside, EvtAt,
       AppAt, AppRuns, EvtHasBus, AppHasBus
<1>1. CASE EventThread \/ Assertion
  BY <1>1 DEF EventThread, Assertion, handle_chargecheck_timeout, configLazyFlush, Flushed, CheckBattery,
     chgKeepaliveHandler, Keepalive, EvtShipMode, StartPatch, EndPatch
<1>2. CASE AppThread \/ shipmode_start \/ Refresh \/ Select \/ Home \/ Change
  BY <1>2 DEF AppThread, configFlush, AppShipMode, shipmode_start, Refresh, Select, Home,
     Change, StartPatch, EndPatch
<1>3. CASE \E e \in {"check", "keepalive"} : Timer(e)
  BY <1>3 DEF Timer
<1>4. CASE Environment \/ BusFree \/ PowerOff
  BY <1>4 DEF Environment, BusFree, PowerOff
<1>5. CASE PlugIn \/ Watchdog
  BY <1>5 DEF PlugIn, Watchdog, Boot
<1>. QED BY <1>1, <1>2, <1>3, <1>4, <1>5 DEF Next

LEMMA DueKept ==
  ASSUME IInv, Next
  PROVE  DueInv' /\ CheckStores'
<1>. USE PowerAssumption DEF IInv, Flags, Threads, ConfigInv, DueInv, CheckStores, IsStored, charger, config, outside, EvtAt,
       AppAt, AppRuns, EvtHasBus, AppHasBus
<1>1. CASE EventThread \/ Assertion
  BY <1>1 DEF EventThread, Assertion, handle_chargecheck_timeout, configLazyFlush, Flushed, CheckBattery,
     chgKeepaliveHandler, Keepalive, EvtShipMode, StartPatch, EndPatch
<1>2. CASE AppThread \/ shipmode_start \/ Refresh \/ Select \/ Home \/ Change
  BY <1>2 DEF AppThread, configFlush, AppShipMode, shipmode_start, Refresh, Select, Home,
     Change, StartPatch, EndPatch
<1>3. CASE \E e \in {"check", "keepalive"} : Timer(e)
  BY <1>3 DEF Timer
<1>4. CASE Environment \/ BusFree \/ PowerOff
  BY <1>4 DEF Environment, BusFree, PowerOff
<1>5. CASE PlugIn \/ Watchdog
  BY <1>5 DEF PlugIn, Watchdog, Boot
<1>. QED BY <1>1, <1>2, <1>3, <1>4, <1>5 DEF Next

LEMMA ShutdownKept ==
  ASSUME IInv, Next
  PROVE  ShutdownInv'
<1>. USE PowerAssumption DEF IInv, Flags, Threads, ShutdownInv, charger, config, outside,
       EvtAt, AppAt, AppRuns, EvtHasBus, AppHasBus
<1>1. CASE EventThread \/ Assertion
  BY <1>1 DEF EventThread, Assertion, handle_chargecheck_timeout, configLazyFlush, Flushed, CheckBattery,
     chgKeepaliveHandler, Keepalive, EvtShipMode
<1>2. CASE AppThread \/ shipmode_start \/ Refresh \/ Select \/ Home \/ Change
  BY <1>2 DEF AppThread, configFlush, AppShipMode, shipmode_start, Refresh, Select, Home,
     Change
<1>3. CASE \E e \in {"check", "keepalive"} : Timer(e)
  BY <1>3 DEF Timer
<1>4. CASE Environment \/ BusFree \/ PowerOff
  BY <1>4 DEF Environment, BusFree, PowerOff
<1>5. CASE PlugIn \/ Watchdog
  BY <1>5 DEF PlugIn, Watchdog, Boot
<1>. QED BY <1>1, <1>2, <1>3, <1>4, <1>5 DEF Next

LEMMA PingKept ==
  ASSUME IInv, Next
  PROVE  PingInv'
<1>. USE PowerAssumption DEF IInv, Flags, Threads, ShutdownInv, PingInv, charger, config,
       outside, EvtAt, AppAt, AppRuns, EvtHasBus, AppHasBus
<1>1. CASE EventThread \/ Assertion
  BY <1>1 DEF EventThread, Assertion, handle_chargecheck_timeout, configLazyFlush, Flushed, CheckBattery,
     chgKeepaliveHandler, Keepalive, EvtShipMode
<1>2. CASE AppThread \/ shipmode_start \/ Refresh \/ Select \/ Home \/ Change
  BY <1>2 DEF AppThread, configFlush, AppShipMode, shipmode_start, Refresh, Select, Home,
     Change
<1>3. CASE \E e \in {"check", "keepalive"} : Timer(e)
  BY <1>3 DEF Timer
<1>4. CASE Environment \/ BusFree \/ PowerOff
  BY <1>4 DEF Environment, BusFree, PowerOff
<1>5. CASE PlugIn \/ Watchdog
  BY <1>5 DEF PlugIn, Watchdog, Boot
<1>. QED BY <1>1, <1>2, <1>3, <1>4, <1>5 DEF Next

LEMMA ShipModeKept ==
  ASSUME IInv, Next
  PROVE  ShipModeIsKept'
<1>. USE PowerAssumption DEF IInv, Flags, Threads, ShutdownInv, PingInv, ShipModeIsKept,
       charger, config, outside, EvtAt, AppAt, AppRuns, EvtHasBus, AppHasBus
<1>1. CASE EventThread \/ Assertion
  BY <1>1 DEF EventThread, Assertion, handle_chargecheck_timeout, configLazyFlush, Flushed, CheckBattery,
     chgKeepaliveHandler, Keepalive, EvtShipMode
<1>2. CASE AppThread \/ shipmode_start \/ Refresh \/ Select \/ Home \/ Change
  BY <1>2 DEF AppThread, configFlush, AppShipMode, shipmode_start, Refresh, Select, Home,
     Change
<1>3. CASE \E e \in {"check", "keepalive"} : Timer(e)
  BY <1>3 DEF Timer
<1>4. CASE Environment \/ BusFree \/ PowerOff
  BY <1>4 DEF Environment, BusFree, PowerOff
<1>5. CASE PlugIn \/ Watchdog
  BY <1>5 DEF PlugIn, Watchdog, Boot
<1>. QED BY <1>1, <1>2, <1>3, <1>4, <1>5 DEF Next

LEMMA StutterKeepsInv ==
  ASSUME IInv, UNCHANGED vars
  PROVE  IInv'
<1>. USE DEF IInv, vars, outside, charger, config
<1>1. Flags'
  BY DEF Flags
<1>2. Threads' /\ ConfigInv' /\ DueInv' /\ CheckStores'
  BY DEF Threads, ConfigInv, DueInv, CheckStores, IsStored
<1>3. ShutdownInv' /\ PingInv' /\ ShipModeIsKept'
  BY DEF ShutdownInv, PingInv, ShipModeIsKept
<1>. QED BY <1>1, <1>2, <1>3

(* The invariant the theorems below are taken from.                        *)
THEOREM Invariant == Spec => []IInv
<1>1. IInv /\ [Next]_vars => IInv'
  BY FlagsKept, ThreadsKept, ConfigKept, DueKept, ShutdownKept, PingKept, ShipModeKept, StutterKeepsInv
     DEF IInv
<1>. QED BY InitInv, <1>1, PTL DEF Spec

(* Types, and that flash only ever holds a torn configuration while it is  *)
(* patched, or after the badge went off or was halted meanwhile.           *)
THEOREM TypeCorrect == Spec => []TypeOK
<1>1. IInv => TypeOK
  BY DEF IInv, Flags, Threads, ConfigInv, TypeOK
<1>. QED BY <1>1, Invariant, PTL

(* When the check gets to the battery, and whenever it switches the badge  *)
(* off, the changes from before it began are in flash (configLazyFlush),   *)
(* unless the ship mode app patches at the same time: this is the safety   *)
(* part of ChangesAreStored.                                               *)
THEOREM ChecksStoreChanges == Spec => []CheckStores
<1>1. IInv => CheckStores
  BY DEF IInv
<1>. QED BY <1>1, Invariant, PTL

(* Once a thread has set the charger up, on its way to spinning until the  *)
(* power is gone, the charger stays off, although the other thread may be  *)
(* in the middle of a ping (chgKeepaliveHandler).                          *)
THEOREM ShipModeStays == Spec => []ShipModeIsKept
<1>1. IInv => ShipModeIsKept
  BY DEF IInv
<1>. QED BY <1>1, Invariant, PTL
=============================================================================

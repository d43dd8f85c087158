----------------------------- MODULE TouchProofs -----------------------------
(***************************************************************************)
(* Proofs about Touch, for any set of keys: the event thread finds out     *)
(* about Home, and apps are told of the keys, whatever the two threads     *)
(* that share the sensor do.                                               *)
(***************************************************************************)
EXTENDS Touch, TLAPS

(* What is known while the interrupt line is not asserted.                 *)
LineInv ==
  /\ ~int => status = touched
  /\ int => evtPending

(* A reading holds the keys under a finger, and no other unless it is      *)
(* stale.                                                                  *)
IsReading(keys) == touched \subseteq keys /\ (~stale => keys = touched)

(* What the app thread will tell, from its first look at the sensor on.    *)
AppInv ==
  /\ app = "clear" /\ ~appPending /\ ~missed => IsReading(touch)
  /\ app = "hook" /\ ~missed => IsReading(keymask)
  /\ app \in {"start", "keymask", "hook"} => ~appPending

IInv == TypeOK /\ LineInv /\ HomeIsSeen /\ AppInv /\ KeysAreTold

LEMMA InitInv == Init => IInv
<1>. SUFFICES ASSUME Init PROVE IInv
  OBVIOUS
<1>. USE DEF Init
<1>1. TypeOK
  BY DEF TypeOK
<1>2. LineInv /\ AppInv /\ KeysAreTold
  BY DEF LineInv, AppInv, IsReading, KeysAreTold
<1>3. (Home \in touched) = FALSE
  OBVIOUS
<1>4. HomeIsSeen
  BY <1>3 DEF HomeIsSeen
<1>. QED BY <1>1, <1>2, <1>4 DEF IInv

(* A change of the sensor is pending for the event thread, and for the app *)
(* unless it is missed.                                                    *)
LEMMA SensorKeepsInv ==
  ASSUME IInv, NEW k \in Key, Touch(k) \/ Release(k)
  PROVE  IInv'
<1>. USE DEF Touch, Release, Edge, Listening, thread
<1>1. TypeOK'
  <2>1. touched' \subseteq status' /\ status' \subseteq Key
    BY DEF IInv, TypeOK
  <2>2. int' \in BOOLEAN /\ evtPending' \in BOOLEAN /\ appPending' \in BOOLEAN /\ missed' \in BOOLEAN
    BY DEF IInv, TypeOK
  <2>. QED BY <2>1, <2>2 DEF IInv, TypeOK
<1>2. LineInv' /\ evtPending'
  BY DEF IInv, LineInv, TypeOK
<1>3. HomeIsSeen'
  BY <1>2 DEF HomeIsSeen
<1>4. AppInv' /\ KeysAreTold'
  BY DEF IInv, TypeOK, AppInv, IsReading, KeysAreTold
<1>. QED BY <1>1, <1>2, <1>3, <1>4 DEF IInv

(* The event thread takes its event and clears the line in one step.       *)
LEMMA EventThreadKeepsInv ==
  ASSUME IInv, EventThread \/ OverrideBegin \/ getConsent
  PROVE  IInv'
<1>. USE DEF IInv, TypeOK, LineInv, HomeIsSeen, AppInv, IsReading, KeysAreTold, ClearInterrupt, sensor, thread
<1>1. CASE captouchRead
  BY <1>1 DEF captouchRead
<1>2. CASE poke_run_launcher_timer
  BY <1>2 DEF poke_run_launcher_timer
<1>3. CASE OverrideBegin
  BY <1>3 DEF OverrideBegin
<1>4. CASE getConsent
  BY <1>4 DEF getConsent
<1>5. CASE OverrideEnd
  BY <1>5 DEF OverrideEnd
<1>. QED BY <1>1, <1>2, <1>3, <1>4, <1>5 DEF EventThread

LEMMA AppThreadKeepsInv ==
  ASSUME IInv, AppThread \/ AppEnd
  PROVE  IInv'
<1>. USE DEF IInv, TypeOK, LineInv, HomeIsSeen, AppInv, IsReading, KeysAreTold, ClearInterrupt, sensor, thread
<1>1. CASE touchHandler
  BY <1>1 DEF touchHandler
<1>2. CASE keyHandler
  BY <1>2 DEF keyHandler, Told
<1>3. CASE AppBegin
  BY <1>3 DEF AppBegin
<1>4. CASE Keymask
  BY <1>4 DEF Keymask
<1>5. CASE Hook
  BY <1>5 DEF Hook
<1>6. CASE AppEnd
  BY <1>6 DEF AppEnd
<1>. QED BY <1>1, <1>2, <1>3, <1>4, <1>5, <1>6 DEF AppThread

LEMMA NextInv ==
  ASSUME IInv, [Next]_vars
  PROVE  IInv'
<1>1. CASE UNCHANGED vars
  BY <1>1 DEF vars, sensor, thread, IInv, TypeOK, LineInv, HomeIsSeen, AppInv, IsReading, KeysAreTold
<1>2. CASE Next
  BY <1>2, SensorKeepsInv, EventThreadKeepsInv, AppThreadKeepsInv DEF Next
<1>. QED BY <1>1, <1>2

(* The inductive invariant.  HomeIsSeen rests on LineInv: while the line   *)
(* is not asserted the status is the truth, and while it is, the event     *)
(* thread still has to look; whoever clears the line in between restores   *)
(* the first without undoing the second.                                   *)
THEOREM Invariant == Spec => []IInv
BY InitInv, NextInv, PTL DEF Spec

(* The types of Touch.                                                     *)
THEOREM TypeCorrect == Spec => []TypeOK
<1>1. IInv => TypeOK
  BY DEF IInv
<1>. QED BY <1>1, Invariant, PTL

(* When the event thread (poke_run_launcher_timer) is done with its events *)
(* it knows whether Home is touched.                                       *)
THEOREM HomeIsAlwaysSeen == Spec => []HomeIsSeen
<1>1. IInv => HomeIsSeen
  BY DEF IInv
<1>. QED BY <1>1, Invariant, PTL

(* What keyHandler has told the app holds all keys that are under a finger *)
(* and, unless a release was read before its interrupt was cleared, no     *)
(* others.  Exempt are changes that made no event for the app and those    *)
(* that keyHandler kept back.                                              *)
THEOREM KeysAreAlwaysTold == Spec => []KeysAreTold
<1>1. IInv => KeysAreTold
  BY DEF IInv
<1>. QED BY <1>1, Invariant, PTL
=============================================================================

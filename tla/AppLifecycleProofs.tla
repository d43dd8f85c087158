-------------------------- MODULE AppLifecycleProofs --------------------------
(***************************************************************************)
(* Proofs about AppLifecycle, for any set of apps: one app runs at a time, *)
(* and what it started, its timer and its dialog, does not outlive it.     *)
(***************************************************************************)
EXTENDS AppLifecycle, TLAPS

Place ==
  {"new", "hooked", "loop", "wait", "stop timer", "exit", "chosen", "reset",
   "disengage", "unhook", "unhooked", "dead"}

Event == {"touch", "radio", "ui_completed", "terminate", "timer", "other"}

Types ==
  /\ pc \in Place
  /\ app \in App /\ next_app \in App \cup {NoApp}
  /\ timer \in {"off", "own", "old"}
  /\ items \in {"none", "held", "leaked"}
  /\ ev \in {"idle", "held", "released", "override", "restart", "fault"}

Flags ==
  /\ terminating \in BOOLEAN
  /\ ui \in BOOLEAN
  /\ engaged \in BOOLEAN /\ armed \in BOOLEAN /\ home \in BOOLEAN
  /\ ui_override \in BOOLEAN

EventTypes ==
  pending \subseteq Event /\ ev_pending \subseteq {"touch", "urgent", "terminated"}

(* An app that is asked to end has a successor until it clears it.         *)
SuccessorInv ==
  /\ terminating /\ pc \in {"new", "hooked", "loop", "wait", "stop timer", "exit"}
     => next_app # NoApp
  /\ "terminate" \in pending => terminating

(* The timer runs from the start of the app to the end of its loop, and    *)
(* events come in while it is hooked.                                      *)
TimerInv ==
  /\ timer # "old"
  /\ timer = "own" => pc \in {"loop", "wait", "stop timer"}
  /\ pc \in {"unhooked", "dead", "new"} => pending = {}

(* The dialog is one of this app, and has its list until it is completed.  *)
DialogInv ==
  /\ pc = "hooked" => ~ui /\ "ui_completed" \notin pending
  /\ pc \in {"loop", "wait"} =>
       /\ "ui_completed" \in pending => ui
       /\ ui => items = "held" /\ app = led

(* What the app that ends has chosen.                                      *)
ChoiceInv ==
  pc = "chosen" /\ next_app # NoApp => app = next_app \/ next_app = launcher

(* While there is no app thread nothing else happens to it.                *)
RestartInv ==
  /\ ev \in {"restart", "fault"} => pc = "dead" /\ "terminated" \notin ev_pending
  /\ ev = "fault" => next_app = launcher

IInv ==
  /\ Types /\ Flags /\ EventTypes /\ SuccessorInv
  /\ NoAssertionFails /\ TimerInv /\ DialogInv /\ ChoiceInv /\ RestartInv

-----------------------------------------------------------------------------
LEMMA EventSet == {AppEvent[i] : i \in 1 .. 6} = Event
BY DEF AppEvent, Event

LEMMA DispatchedStep ==
  ASSUME NEW e, Dispatched(e)
  PROVE  pc = "wait" /\ pc' = "loop" /\ e \in pending
BY DEF Dispatched

LEMMA DispatchStep ==
  ASSUME Dispatch
  PROVE  pc = "wait" /\ pc' = "loop"
BY DispatchedStep DEF Dispatch, touchHandler, ui_complete_cleanup, terminate, timer_event,
                      OtherHandler

LEMMA InitInv == Init => IInv
<1>. SUFFICES ASSUME Init PROVE IInv
  OBVIOUS
<1>1. Types /\ ChoiceInv
  BY AppAssumption DEF Init, Types, Place, ChoiceInv
<1>. Flags
  BY DEF Init, Flags
<1>2. EventTypes /\ SuccessorInv
  BY DEF Init, EventTypes, Event, SuccessorInv
<1>3. NoAssertionFails /\ TimerInv /\ DialogInv /\ RestartInv
  BY DEF Init, NoAssertionFails, TimerInv, DialogInv, RestartInv
<1>. QED BY <1>1, <1>2, <1>3 DEF IInv

(* Every step keeps every part of the invariant.                           *)
LEMMA TypesKept ==
  ASSUME IInv, Next
  PROVE  Types'
<1>. USE AppAssumption DEF IInv, Types, Place, Signal, thread, dialog, menu, events
<1>1. CASE Touch \/ run_launcher \/ RunLauncherFault \/ Watchdog \/ timer_do_send_message
         \/ OtherEvent \/ UrgentEvent
  BY <1>1 DEF Touch, run_launcher, RunLauncherFault, Watchdog, timer_do_send_message,
     OtherEvent, UrgentEvent
<1>2. CASE EventThread
  BY <1>2 DEF EventThread, PokeRead, poke_run_launcher_timer, OverrideEnd, OverrideBegin,
     UrgentHandler, ReleaseThread, TakesEvent, orchardAppRestart
<1>3. CASE Dispatch
  BY <1>3, DispatchStep DEF Dispatch, touchHandler, ui_complete_cleanup, terminate, timer_event,
     OtherHandler, orchardAppRun, Ignore, list_event, confirm_sex
<1>4. CASE AppThread /\ ~Dispatch
  BY <1>4 DEF AppThread, AppBegin, AppStart, WaitOne, LeaveLoop, StopTimer, ChooseNext,
     ClearNext, ResetLauncherTimer, Disengage, Unhook, AppEnd
<1>. QED BY <1>1, <1>2, <1>3, <1>4 DEF Next

LEMMA FlagsKept ==
  ASSUME IInv, Next
  PROVE  Flags'
<1>. USE AppAssumption DEF IInv, Flags, Signal, thread, dialog, menu, events
<1>1. CASE Touch \/ run_launcher \/ RunLauncherFault \/ Watchdog \/ timer_do_send_message
         \/ OtherEvent \/ UrgentEvent
  BY <1>1 DEF Touch, run_launcher, RunLauncherFault, Watchdog, timer_do_send_message,
     OtherEvent, UrgentEvent
<1>2. CASE EventThread
  BY <1>2 DEF EventThread, PokeRead, poke_run_launcher_timer, OverrideEnd, OverrideBegin,
     UrgentHandler, ReleaseThread, TakesEvent, orchardAppRestart
<1>3. CASE Dispatch
  BY <1>3, DispatchStep DEF Dispatch, touchHandler, ui_complete_cleanup, terminate, timer_event,
     OtherHandler, orchardAppRun, Ignore, list_event, confirm_sex
<1>4. CASE AppThread /\ ~Dispatch
  BY <1>4 DEF AppThread, AppBegin, AppStart, WaitOne, LeaveLoop, StopTimer, ChooseNext,
     ClearNext, ResetLauncherTimer, Disengage, Unhook, AppEnd
<1>. QED BY <1>1, <1>2, <1>3, <1>4 DEF Next

LEMMA EventTypesKept ==
  ASSUME IInv, Next
  PROVE  EventTypes'
<1>. USE AppAssumption DEF IInv, EventTypes, Event, Signal, thread, dialog, menu, events
<1>1. CASE Touch \/ run_launcher \/ RunLauncherFault \/ Watchdog \/ timer_do_send_message
         \/ OtherEvent \/ UrgentEvent
  BY <1>1 DEF Touch, run_launcher, RunLauncherFault, Watchdog, timer_do_send_message,
     OtherEvent, UrgentEvent
<1>2. CASE EventThread
  BY <1>2 DEF EventThread, PokeRead, poke_run_launcher_timer, OverrideEnd, OverrideBegin,
     UrgentHandler, ReleaseThread, TakesEvent, orchardAppRestart
<1>3. CASE Dispatch
  BY <1>3, DispatchStep DEF Dispatch, touchHandler, ui_complete_cleanup, terminate, timer_event,
     OtherHandler, orchardAppRun, Ignore, list_event, confirm_sex
<1>4. CASE AppThread /\ ~Dispatch
  BY <1>4 DEF AppThread, AppBegin, AppStart, WaitOne, LeaveLoop, StopTimer, ChooseNext,
     ClearNext, ResetLauncherTimer, Disengage, Unhook, AppEnd
<1>. QED BY <1>1, <1>2, <1>3, <1>4 DEF Next

LEMMA SuccessorKept ==
  ASSUME IInv, Next
  PROVE  SuccessorInv'
<1>. USE AppAssumption DEF IInv, Types, SuccessorInv, TimerInv, RestartInv, NoAssertionFails, Signal,
       thread, dialog, menu, events
<1>1. CASE Touch
  BY <1>1 DEF Touch
<1>2. CASE run_launcher
  BY <1>2 DEF run_launcher
<1>3. CASE timer_do_send_message
  BY <1>3 DEF timer_do_send_message
<1>4. CASE OtherEvent
  BY <1>4 DEF OtherEvent
<1>5. CASE PokeRead
  BY <1>5 DEF PokeRead
<1>6. CASE poke_run_launcher_timer
  BY <1>6 DEF poke_run_launcher_timer
<1>7. CASE OverrideEnd
  BY <1>7 DEF OverrideEnd
<1>8. CASE OverrideBegin
  BY <1>8 DEF OverrideBegin
<1>9. CASE orchardAppRestart
  BY <1>9 DEF orchardAppRestart
<1>12. CASE RunLauncherFault
  BY <1>12 DEF RunLauncherFault
<1>13. CASE Watchdog
  BY <1>13 DEF Watchdog
<1>14. CASE UrgentEvent
  BY <1>14 DEF UrgentEvent
<1>15. CASE UrgentHandler
  BY <1>15 DEF UrgentHandler
<1>16. CASE ReleaseThread
  BY <1>16 DEF ReleaseThread
<1>10. CASE Dispatch
  <2>. pc = "wait" /\ pc' = "loop"
    BY <1>10, DispatchStep
  <2>. USE DEF orchardAppRun, Ignore, list_event, confirm_sex
  <2>1. CASE touchHandler
    BY <2>1 DEF touchHandler
  <2>2. CASE ui_complete_cleanup
    BY <2>2 DEF ui_complete_cleanup
  <2>3. CASE terminate
    BY <2>3, DispatchedStep DEF terminate
  <2>4. CASE timer_event
    BY <2>4 DEF timer_event
  <2>5. CASE OtherHandler("radio") \/ OtherHandler("other")
    BY <2>5 DEF OtherHandler
  <2>. QED BY <1>10, <2>1, <2>2, <2>3, <2>4, <2>5 DEF Dispatch
<1>11. CASE AppThread /\ ~Dispatch
  <2>1. CASE AppBegin
    BY <2>1 DEF AppBegin
  <2>2. CASE AppStart
    BY <2>2 DEF AppStart
  <2>3. CASE WaitOne
    BY <2>3 DEF WaitOne
  <2>4. CASE LeaveLoop
    BY <2>4 DEF LeaveLoop
  <2>5. CASE StopTimer
    BY <2>5 DEF StopTimer
  <2>6. CASE ChooseNext
    BY <2>6 DEF ChooseNext
  <2>7. CASE ClearNext
    BY <2>7 DEF ClearNext
  <2>8. CASE ResetLauncherTimer
    BY <2>8 DEF ResetLauncherTimer
  <2>9. CASE Disengage
    BY <2>9 DEF Disengage
  <2>10. CASE Unhook
    BY <2>10 DEF Unhook
  <2>11. CASE AppEnd
    BY <2>11 DEF AppEnd
  <2>. QED BY <1>11, <2>1, <2>2, <2>3, <2>4, <2>5, <2>6, <2>7, <2>8, <2>9, <2>10,
       <2>11 DEF AppThread
<1>. QED BY <1>1, <1>2, <1>3, <1>4, <1>5, <1>6, <1>7, <1>8, <1>9, <1>10, <1>11, <1>12,
    <1>13, <1>14, <1>15, <1>16 DEF Next, EventThread

LEMMA OneAppKept ==
  ASSUME IInv, Next
  PROVE  NoAssertionFails'
<1>. USE AppAssumption DEF IInv, NoAssertionFails, RestartInv, Signal, thread, dialog, menu, events
<1>1. CASE Touch \/ run_launcher \/ RunLauncherFault \/ Watchdog \/ timer_do_send_message
         \/ OtherEvent \/ UrgentEvent
  BY <1>1 DEF Touch, run_launcher, RunLauncherFault, Watchdog, timer_do_send_message,
     OtherEvent, UrgentEvent
<1>2. CASE EventThread
  BY <1>2 DEF EventThread, PokeRead, poke_run_launcher_timer, OverrideEnd, OverrideBegin,
     UrgentHandler, ReleaseThread, TakesEvent, orchardAppRestart
<1>3. CASE Dispatch
  BY <1>3, DispatchStep DEF Dispatch, touchHandler, ui_complete_cleanup, terminate, timer_event,
     OtherHandler, orchardAppRun, Ignore, list_event, confirm_sex
<1>4. CASE AppThread /\ ~Dispatch
  BY <1>4 DEF AppThread, AppBegin, AppStart, WaitOne, LeaveLoop, StopTimer, ChooseNext,
     ClearNext, ResetLauncherTimer, Disengage, Unhook, AppEnd
<1>. QED BY <1>1, <1>2, <1>3, <1>4 DEF Next

LEMMA TimerKept ==
  ASSUME IInv, Next
  PROVE  TimerInv'
<1>. USE AppAssumption DEF IInv, Types, TimerInv, RestartInv, NoAssertionFails, Signal, thread, dialog,
       menu, events
<1>1. CASE Touch \/ run_launcher \/ RunLauncherFault \/ Watchdog \/ timer_do_send_message
         \/ OtherEvent \/ UrgentEvent
  BY <1>1 DEF Touch, run_launcher, RunLauncherFault, Watchdog, timer_do_send_message,
     OtherEvent, UrgentEvent
<1>2. CASE EventThread
  BY <1>2 DEF EventThread, PokeRead, poke_run_launcher_timer, OverrideEnd, OverrideBegin,
     UrgentHandler, ReleaseThread, TakesEvent, orchardAppRestart
<1>3. CASE Dispatch
  BY <1>3, DispatchStep DEF Dispatch, touchHandler, ui_complete_cleanup, terminate, timer_event,
     OtherHandler, orchardAppRun, Ignore, list_event, confirm_sex
<1>4. CASE AppThread /\ ~Dispatch
  BY <1>4 DEF AppThread, AppBegin, AppStart, WaitOne, LeaveLoop, StopTimer, ChooseNext,
     ClearNext, ResetLauncherTimer, Disengage, Unhook, AppEnd
<1>. QED BY <1>1, <1>2, <1>3, <1>4 DEF Next

LEMMA DialogKept ==
  ASSUME IInv, Next
  PROVE  DialogInv'
<1>. USE AppAssumption DEF IInv, Types, TimerInv, DialogInv, RestartInv, NoAssertionFails, Signal, thread,
       dialog, menu, events
<1>1. CASE Touch
  BY <1>1 DEF Touch
<1>2. CASE run_launcher
  BY <1>2 DEF run_launcher
<1>3. CASE timer_do_send_message
  BY <1>3 DEF timer_do_send_message
<1>4. CASE OtherEvent
  BY <1>4 DEF OtherEvent
<1>5. CASE PokeRead
  BY <1>5 DEF PokeRead
<1>6. CASE poke_run_launcher_timer
  BY <1>6 DEF poke_run_launcher_timer
<1>7. CASE OverrideEnd
  BY <1>7 DEF OverrideEnd
<1>8. CASE OverrideBegin
  BY <1>8 DEF OverrideBegin
<1>9. CASE orchardAppRestart
  BY <1>9 DEF orchardAppRestart
<1>12. CASE RunLauncherFault
  BY <1>12 DEF RunLauncherFault
<1>13. CASE Watchdog
  BY <1>13 DEF Watchdog
<1>14. CASE UrgentEvent
  BY <1>14 DEF UrgentEvent
<1>15. CASE UrgentHandler
  BY <1>15 DEF UrgentHandler
<1>16. CASE ReleaseThread
  BY <1>16 DEF ReleaseThread
<1>10. CASE Dispatch
  <2>. pc = "wait" /\ pc' = "loop"
    BY <1>10, DispatchStep
  <2>. USE DEF orchardAppRun, Ignore, list_event, confirm_sex
  <2>1. CASE touchHandler
    BY <2>1 DEF touchHandler
  <2>2. CASE ui_complete_cleanup
    BY <2>2 DEF ui_complete_cleanup
  <2>3. CASE terminate
    BY <2>3 DEF terminate
  <2>4. CASE timer_event
    BY <2>4 DEF timer_event
  <2>5. CASE OtherHandler("radio") \/ OtherHandler("other")
    BY <2>5 DEF OtherHandler
  <2>. QED BY <1>10, <2>1, <2>2, <2>3, <2>4, <2>5 DEF Dispatch
<1>11. CASE AppThread /\ ~Dispatch
  <2>1. CASE AppBegin
    BY <2>1 DEF AppBegin
  <2>2. CASE AppStart
    BY <2>2 DEF AppStart
  <2>3. CASE WaitOne
    BY <2>3 DEF WaitOne
  <2>4. CASE LeaveLoop
    BY <2>4 DEF LeaveLoop
  <2>5. CASE StopTimer
    BY <2>5 DEF StopTimer
  <2>6. CASE ChooseNext
    BY <2>6 DEF ChooseNext
  <2>7. CASE ClearNext
    BY <2>7 DEF ClearNext
  <2>8. CASE ResetLauncherTimer
    BY <2>8 DEF ResetLauncherTimer
  <2>9. CASE Disengage
    BY <2>9 DEF Disengage
  <2>10. CASE Unhook
    BY <2>10 DEF Unhook
  <2>11. CASE AppEnd
    BY <2>11 DEF AppEnd
  <2>. QED BY <1>11, <2>1, <2>2, <2>3, <2>4, <2>5, <2>6, <2>7, <2>8, <2>9, <2>10,
       <2>11 DEF AppThread
<1>. QED BY <1>1, <1>2, <1>3, <1>4, <1>5, <1>6, <1>7, <1>8, <1>9, <1>10, <1>11, <1>12,
    <1>13, <1>14, <1>15, <1>16 DEF Next, EventThread

LEMMA ChoiceKept ==
  ASSUME IInv, Next
  PROVE  ChoiceInv'
<1>. USE AppAssumption DEF IInv, Types, ChoiceInv, Signal, thread, dialog, menu, events
<1>1. CASE Touch \/ run_launcher \/ RunLauncherFault \/ Watchdog \/ timer_do_send_message
         \/ OtherEvent \/ UrgentEvent
  BY <1>1 DEF Touch, run_launcher, RunLauncherFault, Watchdog, timer_do_send_message,
     OtherEvent, UrgentEvent
<1>2. CASE EventThread
  BY <1>2 DEF EventThread, PokeRead, poke_run_launcher_timer, OverrideEnd, OverrideBegin,
     UrgentHandler, ReleaseThread, TakesEvent, orchardAppRestart
<1>3. CASE Dispatch
  BY <1>3, DispatchStep DEF Dispatch, touchHandler, ui_complete_cleanup, terminate, timer_event,
     OtherHandler, orchardAppRun, Ignore, list_event, confirm_sex
<1>4. CASE AppThread /\ ~Dispatch
  BY <1>4 DEF AppThread, AppBegin, AppStart, WaitOne, LeaveLoop, StopTimer, ChooseNext,
     ClearNext, ResetLauncherTimer, Disengage, Unhook, AppEnd
<1>. QED BY <1>1, <1>2, <1>3, <1>4 DEF Next

LEMMA RestartKept ==
  ASSUME IInv, Next
  PROVE  RestartInv'
<1>. USE AppAssumption DEF IInv, Types, RestartInv, NoAssertionFails, Signal, thread, dialog,
       menu, events
<1>1. CASE Touch \/ run_launcher \/ RunLauncherFault \/ Watchdog \/ timer_do_send_message
         \/ OtherEvent \/ UrgentEvent
  BY <1>1 DEF Touch, run_launcher, RunLauncherFault, Watchdog, timer_do_send_message,
     OtherEvent, UrgentEvent
<1>2. CASE EventThread
  BY <1>2 DEF EventThread, PokeRead, poke_run_launcher_timer, OverrideEnd, OverrideBegin,
     UrgentHandler, ReleaseThread, TakesEvent, orchardAppRestart
<1>3. CASE Dispatch
  BY <1>3, DispatchStep DEF Dispatch, touchHandler, ui_complete_cleanup, terminate, timer_event,
     OtherHandler, orchardAppRun, Ignore, list_event, confirm_sex
<1>4. CASE AppThread /\ ~Dispatch
  BY <1>4 DEF AppThread, AppBegin, AppStart, WaitOne, LeaveLoop, StopTimer, ChooseNext,
     ClearNext, ResetLauncherTimer, Disengage, Unhook, AppEnd
<1>. QED BY <1>1, <1>2, <1>3, <1>4 DEF Next

LEMMA StutterKeepsInv ==
  ASSUME IInv, UNCHANGED vars
  PROVE  IInv'
<1>. USE DEF IInv, vars, thread, dialog, menu, events
<1>1. Types' /\ EventTypes' /\ SuccessorInv' /\ ChoiceInv' /\ RestartInv'
  BY DEF Types, EventTypes, SuccessorInv, ChoiceInv, RestartInv
<1>2. Flags'
  BY DEF Flags
<1>3. NoAssertionFails' /\ TimerInv' /\ DialogInv'
  BY DEF NoAssertionFails, TimerInv, DialogInv
<1>. QED BY <1>1, <1>2, <1>3

(* The invariant the theorems below are taken from.                        *)
THEOREM Invariant == Spec => []IInv
<1>1. IInv /\ [Next]_vars => IInv'
  BY TypesKept, FlagsKept, EventTypesKept, SuccessorKept, OneAppKept, TimerKept, DialogKept, ChoiceKept,
     RestartKept, StutterKeepsInv DEF IInv
<1>. QED BY InitInv, <1>1, PTL DEF Spec

(* Every variable keeps its type; whoever asks an app to end has said      *)
(* which one runs next.                                                    *)
THEOREM TypeCorrect == Spec => []TypeOK
<1>1. IInv => TypeOK
  BY EventSet DEF IInv, Types, Flags, EventTypes, SuccessorInv, TypeOK
<1>. QED BY <1>1, Invariant, PTL

(* The osalDbgAssert of orchardAppRestart never fails: the next app starts *)
(* after the thread of the one before has ended.                           *)
THEOREM OneAppAtATime == Spec => []NoAssertionFails
<1>1. IInv => NoAssertionFails
  BY DEF IInv
<1>. QED BY <1>1, Invariant, PTL

(* No timer outlives the app that set it.                                  *)
THEOREM TimersEndWithTheirApp == Spec => []TimerIsOwn
<1>1. IInv => TimerIsOwn
  BY DEF IInv, Types, TimerInv, TimerIsOwn
<1>. QED BY <1>1, Invariant, PTL

(* The list of a dialog that is completed is there for led to free.        *)
THEOREM CompletionsHaveLists == Spec => []CompletionHasList
<1>1. IInv => CompletionHasList
  BY DEF IInv, DialogInv, CompletionHasList
<1>. QED BY <1>1, Invariant, PTL

-----------------------------------------------------------------------------
(* Only the end of an app forgets who is to be next.                       *)
LEMMA DispatchKeepsRequest ==
  ASSUME Dispatch
  PROVE  next_app' = next_app \/ next_app' \in App
BY DEF Dispatch, touchHandler, ui_complete_cleanup, terminate, timer_event, OtherHandler,
       orchardAppRun, confirm_sex, Ignore, list_event

(* The app asked for last is the one that is run, but for the launcher.    *)
THEOREM RequestsRun == Spec => RequestsAreRun
<1>1. ASSUME IInv, [Next]_vars, next_app # NoApp, next_app' = NoApp
      PROVE  app' = next_app \/ next_app = launcher
  <2>1. ClearNext \/ next_app = launcher
    <3>. USE AppAssumption, <1>1 DEF IInv, RestartInv
    <3>1. CASE Touch \/ run_launcher \/ RunLauncherFault \/ Watchdog \/ timer_do_send_message
              \/ OtherEvent \/ UrgentEvent
      BY <3>1 DEF Touch, run_launcher, RunLauncherFault, Watchdog, timer_do_send_message,
                  OtherEvent, UrgentEvent
    <3>2. CASE EventThread
      BY <3>2 DEF EventThread, PokeRead, poke_run_launcher_timer, OverrideEnd, OverrideBegin,
                  UrgentHandler, ReleaseThread, TakesEvent, orchardAppRestart
    <3>3. CASE AppThread
      <4>1. CASE Dispatch
        BY <4>1, DispatchKeepsRequest
      <4>. QED
        BY <3>3, <4>1 DEF AppThread, AppBegin, AppStart, WaitOne, LeaveLoop, StopTimer, ChooseNext,
                    ResetLauncherTimer, Disengage, Unhook, AppEnd
    <3>4. CASE UNCHANGED vars
      BY <3>4 DEF vars
    <3>. QED BY <3>1, <3>2, <3>3, <3>4 DEF Next
  <2>. QED BY <1>1, <2>1 DEF IInv, ChoiceInv, ClearNext
<1>2. IInv /\ [Next]_vars => [next_app # NoApp /\ next_app' = NoApp => app' = next_app \/ next_app = launcher]_vars
  BY <1>1
<1>. QED BY <1>2, Invariant, PTL DEF Spec, RequestsAreRun

(* A timer that runs is marked, so that letting go of Home stops it.       *)
THEOREM ReleasesCancel == Spec => ReleaseCancels
<1>1. ASSUME IInv, [Next]_vars, armed', ~engaged'
      PROVE  pc = "disengage" \/ (armed /\ ~engaged)
  <2>. USE <1>1 DEF IInv, Types, menu
  <2>1. CASE Touch \/ run_launcher \/ RunLauncherFault \/ Watchdog \/ timer_do_send_message
            \/ OtherEvent \/ UrgentEvent
    BY <2>1 DEF Touch, run_launcher, RunLauncherFault, Watchdog, timer_do_send_message,
                OtherEvent, UrgentEvent
  <2>2. CASE EventThread
    BY <2>2 DEF EventThread, PokeRead, poke_run_launcher_timer, OverrideEnd, OverrideBegin,
                UrgentHandler, ReleaseThread, TakesEvent, orchardAppRestart
  <2>3. CASE AppThread
    <3>1. CASE Dispatch
      BY <3>1 DEF Dispatch, touchHandler, ui_complete_cleanup, terminate, timer_event, OtherHandler
    <3>. QED
      BY <2>3, <3>1 DEF AppThread, AppBegin, AppStart, WaitOne, LeaveLoop, StopTimer, ChooseNext,
                  ClearNext, ResetLauncherTimer, Disengage, Unhook, AppEnd
  <2>4. CASE UNCHANGED vars
    BY <2>4 DEF vars, menu
  <2>. QED BY <2>1, <2>2, <2>3, <2>4 DEF Next
<1>2. IInv /\ [Next]_vars => [armed' /\ ~engaged' => pc = "disengage" \/ (armed /\ ~engaged)]_vars
  BY <1>1
<1>. QED BY <1>2, Invariant, PTL DEF Spec, ReleaseCancels
=============================================================================

----------------------------- MODULE AppLifecycle -----------------------------
(***************************************************************************)
(* One app at a time (orchard-app.c, main.c).  The app runs in a thread of *)
(* its own with an event loop.  The event thread watches the Home pad and  *)
(* starts the next app when the old one's thread has ended; a timer        *)
(* interrupt asks the app to end when Home has been held for half a        *)
(* second; the app itself may ask for another app.  The event thread also  *)
(* takes the screen away for pages and consent prompts (ui_override).      *)
(*                                                                         *)
(* The event thread has the higher priority, so it and the interrupts come *)
(* in between any two steps of the app thread, whose end is modelled one   *)
(* statement at a time.                                                    *)
(***************************************************************************)
EXTENDS Naturals

CONSTANTS
  App,        \* the apps linked into the image,
  launcher,   \* the first of them,
  led,        \* the one that opens a dialog, "Blinkies and Sex!"
  NoApp

ASSUME AppAssumption == {launcher, led} \subseteq App /\ NoApp \notin App

VARIABLES
  app, next_app,  \* instance.app, instance.next_app
  pc,             \* where the app thread is
  terminating,    \* its CH_FLAG_TERMINATE
  pending,        \* the events it has been sent and has not dispatched
  timer,          \* instance.timer: "off", set by this app or by an "old" one
  ui,             \* instance.ui refers to the list dialog
  items,          \* its itemlist: "none", allocated ("held") or "leaked"
  engaged,        \* run_launcher_timer_engaged
  armed,          \* run_launcher_timer is running
  home,           \* a finger is on the Home pad
  ev,             \* the event thread: "idle", has read the pads (Home "held"
                  \* or "released"), has the screen ("override"), has no app
                  \* thread (instance.thr = NULL, "restart"); or a "fault"
  ev_pending,     \* its events
  ui_override

thread == <<pc, terminating, pending>>
dialog == <<ui, items>>
menu   == <<engaged, armed>>
events == <<ev, ev_pending>>
vars   == <<app, next_app, thread, timer, dialog, menu, home, events, ui_override>>

(* In the order in which they are hooked, which is that of their dispatch. *)
AppEvent == <<"touch", "radio", "ui_completed", "terminate", "timer", "other">>

(* Those of the event thread: "urgent" are the charge check, pages, pings, *)
(* packets and keep-alives, which all come before "terminated".            *)
Before(e) == IF e = "touch" THEN {} ELSE IF e = "urgent" THEN {"touch"} ELSE {"touch", "urgent"}

Signal(e) == pending' = IF pc \in {"new", "unhooked", "dead"} THEN pending
                        ELSE pending \cup {e}

Init ==
  /\ app = launcher /\ next_app = NoApp
  /\ pc = "new" /\ terminating = FALSE /\ pending = {}
  /\ timer = "off" /\ ui = FALSE /\ items = "none"
  /\ engaged = FALSE /\ armed = FALSE /\ home = FALSE
  /\ ev = "idle" /\ ev_pending = {} /\ ui_override = FALSE

-----------------------------------------------------------------------------
(* Interrupts.                                                             *)

(* The Home pad is touched or released; a touch of another pad only shows  *)
(* in the events it causes.                                                *)
Touch ==
  /\ ev # "fault"
  /\ home' \in BOOLEAN
  /\ Signal("touch")
  /\ ev_pending' = ev_pending \cup {"touch"}
  /\ UNCHANGED <<app, next_app, pc, terminating, timer, dialog, menu, ev, ui_override>>

(* Mutants: the app is flagged but not woken; the timer stays engaged.     *)
run_launcher_engaged ==
  /\ ev # "restart"
  /\ armed /\ armed' = FALSE
  /\ next_app' = launcher /\ terminating' = TRUE
  /\ Signal("terminate")
  /\ UNCHANGED <<app, pc, timer, dialog, engaged, home, events, ui_override>>
run_launcher_silent ==
  /\ ev # "restart"
  /\ armed /\ armed' = FALSE
  /\ next_app' = launcher /\ terminating' = TRUE
  /\ engaged' = FALSE
  /\ UNCHANGED <<app, pc, pending, timer, dialog, home, events, ui_override>>

run_launcher ==
  /\ ev # "restart"
  /\ armed /\ armed' = FALSE
  /\ next_app' = launcher /\ terminating' = TRUE
  /\ Signal("terminate")
  /\ engaged' = FALSE
  /\ UNCHANGED <<app, pc, timer, dialog, home, events, ui_override>>

(* The same interrupt while there is no app thread: it writes through NULL. *)
RunLauncherFault ==
  /\ ev = "restart" /\ ev' = "fault"
  /\ armed /\ armed' = FALSE
  /\ next_app' = launcher
  /\ UNCHANGED <<app, thread, timer, dialog, engaged, home, ev_pending, ui_override>>

(* Nobody pings the watchdog then, and the badge starts again.             *)
Watchdog ==
  /\ ev = "fault" /\ ev' = "idle" /\ ev_pending' = {}
  /\ app' = launcher /\ next_app' = NoApp
  /\ pc' = "new" /\ terminating' = FALSE /\ pending' = {}
  /\ timer' = "off" /\ ui' = FALSE /\ items' = "none"
  /\ engaged' = FALSE /\ armed' = FALSE
  /\ ui_override' = FALSE
  /\ UNCHANGED home

timer_do_send_message ==
  /\ timer # "off" /\ timer' = "off"
  /\ Signal("timer")
  /\ UNCHANGED <<app, next_app, pc, terminating, dialog, menu, home, events, ui_override>>

(* Radio; and temperature, microphone and accelerometer events.            *)
OtherEvent ==
  /\ ev # "fault"
  /\ Signal("radio") \/ Signal("other")
  /\ UNCHANGED <<app, next_app, pc, terminating, timer, dialog, menu, home, events, ui_override>>

UrgentEvent ==
  /\ ev # "fault"
  /\ ev_pending' = ev_pending \cup {"urgent"}
  /\ UNCHANGED <<app, next_app, thread, timer, dialog, menu, home, ev, ui_override>>

-----------------------------------------------------------------------------
(* The event thread: chEvtWaitOne takes the event that was hooked first.   *)

TakesEvent(e) ==
  /\ ev = "idle" /\ e \in ev_pending /\ ev_pending \cap Before(e) = {}
  /\ ev_pending' = ev_pending \ {e}

(* poke_run_launcher_timer reads the pads over I2C, which sleeps.          *)
PokeRead ==
  /\ TakesEvent("touch")
  /\ ev' = IF home THEN "held" ELSE "released"
  /\ UNCHANGED <<app, next_app, thread, timer, dialog, menu, home, ui_override>>

(* Mutant: the timer is not stopped.                                       *)
poke_run_launcher_timer_unstopped ==
  /\ ev \in {"held", "released"} /\ ev' = "idle"
  /\ IF engaged = (ev = "held")
     THEN UNCHANGED menu
     ELSE engaged' = ~engaged /\ armed' = TRUE
  /\ UNCHANGED <<app, next_app, thread, timer, dialog, home, ev_pending, ui_override>>

poke_run_launcher_timer ==
  /\ ev \in {"held", "released"} /\ ev' = "idle"
  /\ IF engaged = (ev = "held")
     THEN UNCHANGED menu
     ELSE engaged' = ~engaged /\ armed' = ~engaged
  /\ UNCHANGED <<app, next_app, thread, timer, dialog, home, ev_pending, ui_override>>

(* handle_radio_page, and the prompt of handle_radio_sex_req.              *)
OverrideBegin ==
  /\ TakesEvent("urgent")
  /\ ev' = "override" /\ ui_override' = TRUE
  /\ UNCHANGED <<app, next_app, thread, timer, dialog, menu, home>>

OverrideEnd ==
  /\ ev = "override" /\ ev' = "idle"
  /\ ui_override' = FALSE
  /\ UNCHANGED <<app, next_app, thread, timer, dialog, menu, home, ev_pending>>

(* The other handlers do nothing that shows here.                          *)
UrgentHandler ==
  /\ TakesEvent("urgent")
  /\ UNCHANGED <<app, next_app, thread, timer, dialog, menu, home, ev, ui_override>>

(* orchardAppRestart forgets the thread that has ended,                    *)
ReleaseThread ==
  /\ TakesEvent("terminated")
  /\ ev' = "restart"
  /\ UNCHANGED <<app, next_app, thread, timer, dialog, menu, home, ui_override>>

(* and creates the next.                                                   *)
orchardAppRestart ==
  /\ ev = "restart" /\ ev' = "idle"
  /\ pc' = "new" /\ terminating' = FALSE
  /\ timer' = IF timer = "off" THEN "off" ELSE "old"
  /\ items' = IF items = "held" THEN "leaked" ELSE items
  /\ UNCHANGED <<app, next_app, pending, ui, menu, home, ev_pending, ui_override>>

-----------------------------------------------------------------------------
(* The app thread: from its start to the event loop.                       *)

(* Mutant: the dialog of the app before is still there.                    *)
AppBegin_stale ==
  /\ pc = "new" /\ pc' = "hooked"
  /\ ui_override' = FALSE
  /\ UNCHANGED <<app, next_app, terminating, pending, timer, dialog, menu, home, events>>

AppBegin ==
  /\ pc = "new" /\ pc' = "hooked"
  /\ ui_override' = FALSE /\ ui' = FALSE
  /\ UNCHANGED <<app, next_app, terminating, pending, timer, items, menu, home, events>>

AppStart ==
  /\ pc = "hooked" /\ pc' = "loop"
  /\ timer' \in {timer, "own"}
  /\ UNCHANGED <<app, next_app, terminating, pending, dialog, menu, home, events, ui_override>>

(* Mutant: an app that is not found is not noticed.                        *)
orchardAppRun_unfound(e) ==
  /\ app = launcher
  /\ next_app' \in App \cup {NoApp}
  /\ terminating' = TRUE
  /\ pending' = (pending \ {e}) \cup {"terminate"}
  /\ UNCHANGED dialog

(* What an app does with an event: the launcher runs another app, and led  *)
(* opens its dialog (confirm_sex), unless there is no memory or no friend. *)
orchardAppRun(e) ==
  /\ app = launcher
  /\ next_app' \in App
  /\ terminating' = TRUE
  /\ pending' = (pending \ {e}) \cup {"terminate"}
  /\ UNCHANGED dialog

confirm_sex(e) ==
  /\ app = led
  /\ ui' = TRUE /\ items' = "held"
  /\ pending' = pending \ {e}
  /\ UNCHANGED <<next_app, terminating>>

Ignore(e) ==
  /\ pending' = pending \ {e}
  /\ UNCHANGED <<next_app, terminating, dialog>>

(* list_event: Select completes the dialog.                                *)
list_event ==
  /\ pending' \in {pending \ {"touch"}, (pending \ {"touch"}) \cup {"ui_completed"}}
  /\ UNCHANGED <<next_app, terminating, dialog>>

(* The loop looks at its flag and then waits for the next event.           *)
WaitOne ==
  /\ pc = "loop" /\ ~terminating
  /\ pc' = "wait"
  /\ UNCHANGED <<app, next_app, terminating, pending, timer, dialog, menu, home, events, ui_override>>

Dispatched(e) ==
  LET i == CHOOSE i \in 1 .. 6 : AppEvent[i] = e
  IN  /\ pc = "wait" /\ pc' = "loop"
      /\ e \in pending
      /\ \A j \in 1 .. i - 1 : AppEvent[j] \notin pending

(* Keys go to the dialog or else to the app, and Home to neither.          *)
touchHandler ==
  /\ Dispatched("touch")
  /\ \/ Ignore("touch")
     \/ /\ ~ui_override /\ ~home
        /\ \/ ui /\ list_event
           \/ ~ui /\ orchardAppRun("touch")
           \/ ~ui /\ confirm_sex("touch")
  /\ UNCHANGED <<app, timer, menu, home, events, ui_override>>

(* led frees the list when it is told that the dialog is completed.        *)
ui_complete_cleanup ==
  /\ Dispatched("ui_completed")
  /\ ui' = FALSE
  /\ items' = IF ~ui_override /\ app = led THEN "none" ELSE items
  /\ pending' = pending \ {"ui_completed"}
  /\ UNCHANGED <<app, next_app, terminating, timer, menu, home, events, ui_override>>

terminate ==
  /\ Dispatched("terminate")
  /\ \/ orchardAppRun("terminate")
     \/ /\ terminating' = TRUE
        /\ pending' = pending \ {"terminate"}
        /\ UNCHANGED <<next_app, dialog>>
  /\ UNCHANGED <<app, timer, menu, home, events, ui_override>>

(* The timers of the apps repeat.                                          *)
timer_event ==
  /\ Dispatched("timer")
  /\ timer' = "own"
  /\ \/ Ignore("timer")
     \/ ~ui_override /\ orchardAppRun("timer")
  /\ UNCHANGED <<app, menu, home, events, ui_override>>

OtherHandler(e) ==
  /\ Dispatched(e)
  /\ \/ Ignore(e)
     \/ ~ui_override /\ orchardAppRun(e)
  /\ UNCHANGED <<app, timer, menu, home, events, ui_override>>

Dispatch ==
  \/ touchHandler \/ OtherHandler("radio") \/ ui_complete_cleanup
  \/ terminate \/ timer_event \/ OtherHandler("other")

-----------------------------------------------------------------------------
(* The app thread: from the event loop to its end.                         *)

LeaveLoop ==
  /\ pc = "loop" /\ terminating
  /\ pc' = "stop timer"
  /\ UNCHANGED <<app, next_app, terminating, pending, timer, dialog, menu, home, events, ui_override>>

(* Mutant: the timer of the app goes on.                                   *)
StopTimer_missing ==
  /\ pc = "stop timer" /\ pc' = "exit"
  /\ UNCHANGED <<app, next_app, terminating, pending, timer, dialog, menu, home, events, ui_override>>

StopTimer ==
  /\ pc = "stop timer" /\ pc' = "exit"
  /\ timer' = "off"
  /\ UNCHANGED <<app, next_app, terminating, pending, dialog, menu, home, events, ui_override>>

(* Mutant: the app that ends is run again.                                 *)
ChooseNext_same ==
  /\ pc = "exit" /\ pc' = "chosen"
  /\ UNCHANGED <<app, next_app, terminating, pending, timer, dialog, menu, home, events, ui_override>>

ChooseNext ==
  /\ pc = "exit" /\ pc' = "chosen"
  /\ app' = IF next_app # NoApp THEN next_app ELSE launcher
  /\ UNCHANGED <<next_app, terminating, pending, timer, dialog, menu, home, events, ui_override>>

ClearNext ==
  /\ pc = "chosen" /\ pc' = "reset"
  /\ next_app' = NoApp
  /\ UNCHANGED <<app, terminating, pending, timer, dialog, menu, home, events, ui_override>>

ResetLauncherTimer ==
  /\ pc = "reset" /\ pc' = "disengage"
  /\ armed' = FALSE
  /\ UNCHANGED <<app, next_app, terminating, pending, timer, dialog, engaged, home, events, ui_override>>

Disengage ==
  /\ pc = "disengage" /\ pc' = "unhook"
  /\ engaged' = FALSE
  /\ UNCHANGED <<app, next_app, terminating, pending, timer, dialog, armed, home, events, ui_override>>

Unhook ==
  /\ pc = "unhook" /\ pc' = "unhooked"
  /\ pending' = {}
  /\ UNCHANGED <<app, next_app, terminating, timer, dialog, menu, home, events, ui_override>>

(* "Atomically broadcasting the event source and terminating the thread".  *)
AppEnd ==
  /\ pc = "unhooked" /\ pc' = "dead"
  /\ ev_pending' = ev_pending \cup {"terminated"}
  /\ UNCHANGED <<app, next_app, terminating, pending, timer, dialog, menu, home, ev, ui_override>>

AppThread ==
  \/ AppBegin \/ AppStart \/ WaitOne \/ Dispatch
  \/ LeaveLoop \/ StopTimer \/ ChooseNext \/ ClearNext
  \/ ResetLauncherTimer \/ Disengage \/ Unhook \/ AppEnd

EventThread ==
  \/ PokeRead \/ poke_run_launcher_timer \/ OverrideBegin \/ OverrideEnd \/ UrgentHandler
  \/ ReleaseThread \/ orchardAppRestart

Next ==
  \/ Touch \/ run_launcher \/ RunLauncherFault \/ Watchdog
  \/ timer_do_send_message \/ OtherEvent \/ UrgentEvent
  \/ EventThread \/ AppThread

Spec == Init /\ [][Next]_vars

(* Threads that can run do, a page or a prompt ends, timers run out.       *)
Fairness ==
  /\ WF_vars(AppThread) /\ WF_vars(EventThread)
  /\ WF_vars(run_launcher) /\ WF_vars(Watchdog)

FairSpec == Spec /\ Fairness

-----------------------------------------------------------------------------
(* Types; whoever asks an app to end has said which one is to run next.    *)
TypeOK ==
  /\ app \in App /\ next_app \in App \cup {NoApp}
  /\ terminating \in BOOLEAN
  /\ pending \subseteq {AppEvent[i] : i \in 1 .. 6}
  /\ timer \in {"off", "own", "old"}
  /\ ui \in BOOLEAN /\ items \in {"none", "held", "leaked"}
  /\ engaged \in BOOLEAN /\ armed \in BOOLEAN /\ home \in BOOLEAN
  /\ ev \in {"idle", "held", "released", "override", "restart", "fault"}
  /\ ev_pending \subseteq {"touch", "urgent", "terminated"}
  /\ ui_override \in BOOLEAN
  /\ terminating /\ pc \in {"loop", "wait", "stop timer", "exit"} => next_app # NoApp

(* "Only one app may run at a time": osalDbgAssert of orchardAppRestart,   *)
(* "App thread still running".                                             *)
NoAssertionFails == "terminated" \in ev_pending => pc = "dead"

(* The timer event an app gets is of a timer that it set itself: no timer  *)
(* outlives its app, whatever ended it and whenever.                       *)
TimerIsOwn ==
  /\ timer # "old"
  /\ timer = "own" \/ "timer" \in pending => pc \notin {"new", "dead"}

(* A dialog that is completed still has the list that led frees, once, and *)
(* it is a dialog of the app that is told.                                 *)
CompletionHasList ==
  pc \in {"loop", "wait"} /\ "ui_completed" \in pending => ui /\ items = "held" /\ app = led

(* The thread of an app that is asked to end ends, whatever events come.   *)
(* An app is started after it when the event thread gets to that, the last *)
(* of its events: a steady flow of touches, pages and packets keeps the    *)
(* badge without an app.                                                   *)
AskedToEndEnds ==
  /\ terminating ~> pc \in {"dead", "new"}
  /\ <>[](ev_pending \subseteq {"terminated"}) => (terminating ~> pc = "new")

(* Home held long enough asks the app to end, and a release before that    *)
(* stops the timer: it never stays engaged without one of the two, or the  *)
(* fault of a timer that runs out while there is no app thread.            *)
HomeIsAnswered == engaged ~> ~engaged

(* "Set up the next app to run when the orchard_app_terminated message is  *)
(* acted upon": the app that was asked for last runs next.  The end of an  *)
(* app reads next_app and clears it in two steps, so Home in between is    *)
(* forgotten; a request of the app itself, or of its timer, never is.      *)
RequestsAreRun ==
  [][next_app # NoApp /\ next_app' = NoApp => app' = next_app \/ next_app = launcher]_vars

(* "One or more buttons was released.  Cancel the timer.": a running timer *)
(* is marked as engaged, so that the release finds it.  It only loses its  *)
(* mark when Home is touched between the two statements of an ending app   *)
(* that reset both; the launcher is then run although Home was let go.     *)
ReleaseCancels ==
  [][armed' /\ ~engaged' => pc = "disengage" \/ (armed /\ ~engaged)]_vars
=============================================================================

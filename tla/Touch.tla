-------------------------------- MODULE Touch --------------------------------
(***************************************************************************)
(* The touch sensor and the two threads that read it over I2C: the event   *)
(* thread, which looks for Home (orchard-app.c), and the app thread, which *)
(* turns changes into key events (touch.c).  Both are told of the falling  *)
(* edge of one interrupt line and both clear it: captouchRead before it    *)
(* reads the keys, touchHandler after.                                     *)
(*                                                                         *)
(* The sensor, as the code uses it, asserts the line when a key is touched *)
(* or let go, and keeps a released key in its status until the interrupt   *)
(* is cleared.                                                             *)
(***************************************************************************)
EXTENDS FiniteSets

CONSTANTS
  Key,
  Home          \* MAIN_MENU_MASK

ASSUME TouchAssumption == Home \in Key

VARIABLES
  touched,      \* the keys under a finger,
  status,       \* the sensor's status register,
  int,          \* and its interrupt
  evtPending, appPending,   \* touch_event is pending for the thread
  ui_override,  \* the event thread shows a page
  evt,          \* where the event thread is: "idle" or "read",
  home,         \* and whether it found Home touched when it last looked
  app,          \* the app thread: "idle", "clear", "start", "keymask" or "hook"
  touch,        \* what touchHandler has read,
  keymask,      \* and what the app has been told
  stale,        \* history: that reading held a key that had been let go,
  missed        \* history: a change since then made no event for the app, or
                \* keyHandler kept it back

sensor == <<touched, status, int>>
thread == <<evt, home, ui_override>>
vars   == <<sensor, evtPending, appPending, thread, app, touch, keymask, stale, missed>>

Init ==
  /\ touched = {} /\ status = {} /\ int = FALSE
  /\ evtPending = FALSE /\ appPending = FALSE
  /\ ui_override = FALSE /\ evt = "idle" /\ home = FALSE
  /\ app = "start" /\ touch = {} /\ keymask = {}
  /\ stale = FALSE /\ missed = FALSE

-----------------------------------------------------------------------------
(* The sensor.  touchCb broadcasts touch_event at the edge, to the threads *)
(* that listen.                                                            *)

Listening == app \in {"idle", "clear"}

Edge ==
  /\ int' = TRUE
  /\ evtPending' = (evtPending \/ ~int)
  /\ appPending' = (appPending \/ (~int /\ Listening))
  /\ missed' = (missed \/ ~appPending')

Touch(k) ==
  /\ k \notin touched
  /\ touched' = touched \cup {k} /\ status' = status \cup {k}
  /\ Edge
  /\ UNCHANGED <<thread, app, touch, keymask, stale>>

Release(k) ==
  /\ k \in touched
  /\ touched' = touched \ {k}
  /\ Edge
  /\ UNCHANGED <<status, thread, app, touch, keymask, stale>>

ClearInterrupt == int' = FALSE /\ status' = touched

-----------------------------------------------------------------------------
(* The event thread: poke_run_launcher_timer is hooked before the page.    *)

(* Mutant: the interrupt is not cleared.                                   *)
captouchRead_uncleared ==
  /\ evt = "idle" /\ ~ui_override /\ evtPending
  /\ evtPending' = FALSE
  /\ evt' = "read"
  /\ UNCHANGED <<sensor, appPending, home, ui_override, app, touch, keymask, stale, missed>>

captouchRead ==
  /\ evt = "idle" /\ ~ui_override /\ evtPending
  /\ evtPending' = FALSE
  /\ evt' = "read"
  /\ ClearInterrupt
  /\ UNCHANGED <<touched, appPending, home, ui_override, app, touch, keymask, stale, missed>>

poke_run_launcher_timer ==
  /\ evt = "read"
  /\ evt' = "idle"
  /\ home' = (Home \in status)
  /\ UNCHANGED <<sensor, evtPending, appPending, ui_override, app, touch, keymask, stale, missed>>

(* Mutant: the page comes first.                                           *)
OverrideBegin_first ==
  /\ evt = "idle" /\ ~ui_override
  /\ ui_override' = TRUE
  /\ UNCHANGED <<sensor, evtPending, appPending, evt, home, app, touch, keymask, stale, missed>>

(* A page or a prompt, and the prompt's own reading of the keys.           *)
OverrideBegin ==
  /\ evt = "idle" /\ ~evtPending /\ ~ui_override
  /\ ui_override' = TRUE
  /\ UNCHANGED <<sensor, evtPending, appPending, evt, home, app, touch, keymask, stale, missed>>

getConsent ==
  /\ ui_override
  /\ ClearInterrupt
  /\ UNCHANGED <<touched, evtPending, appPending, thread, app, touch, keymask, stale, missed>>

OverrideEnd ==
  /\ ui_override
  /\ ui_override' = FALSE
  /\ UNCHANGED <<sensor, evtPending, appPending, evt, home, app, touch, keymask, stale, missed>>

-----------------------------------------------------------------------------
(* The app thread.                                                         *)

touchHandler ==
  /\ app = "idle" /\ appPending
  /\ appPending' = FALSE
  /\ app' = "clear"
  /\ touch' = status
  /\ stale' = (status # touched) /\ missed' = FALSE
  /\ UNCHANGED <<sensor, evtPending, thread, keymask>>

(* Mutant: keys that are let go stay in the mask.                          *)
Told_down == keymask' = keymask \cup touch

Told == keymask' = touch

(* The rest of touchHandler, with keyHandler: it says nothing during a     *)
(* page or while Home is touched.                                          *)
keyHandler ==
  /\ app = "clear"
  /\ app' = "idle" /\ touch' = {}
  /\ ClearInterrupt
  /\ IF ui_override \/ Home \in touch
     THEN missed' = (missed \/ keymask # touch) /\ UNCHANGED keymask
     ELSE Told /\ UNCHANGED missed
  /\ UNCHANGED <<touched, evtPending, appPending, thread, stale>>

(* The app ends, and its thread no longer listens.                         *)
AppEnd ==
  /\ app = "idle"
  /\ app' = "start" /\ appPending' = FALSE
  /\ UNCHANGED <<sensor, evtPending, thread, touch, keymask, stale, missed>>

(* orchard_app_thread starts with captouchRead, and listens after that.    *)
AppBegin ==
  /\ app = "start"
  /\ app' = "keymask"
  /\ ClearInterrupt
  /\ UNCHANGED <<touched, evtPending, appPending, thread, touch, keymask, stale, missed>>

Keymask ==
  /\ app = "keymask"
  /\ app' = "hook"
  /\ keymask' = status
  /\ stale' = (status # touched) /\ missed' = FALSE
  /\ UNCHANGED <<sensor, evtPending, appPending, thread, touch>>

Hook ==
  /\ app = "hook"
  /\ app' = "idle"
  /\ UNCHANGED <<sensor, evtPending, appPending, thread, touch, keymask, stale, missed>>

EventThread == captouchRead \/ poke_run_launcher_timer \/ OverrideEnd
AppThread == touchHandler \/ keyHandler \/ AppBegin \/ Keymask \/ Hook

Next ==
  \/ \E k \in Key : Touch(k) \/ Release(k)
  \/ EventThread \/ OverrideBegin \/ getConsent
  \/ AppThread \/ AppEnd

Spec == Init /\ [][Next]_vars

(* Threads run, and a page or a prompt ends.                               *)
FairSpec == Spec /\ WF_vars(EventThread) /\ WF_vars(AppThread)

-----------------------------------------------------------------------------
TypeOK ==
  /\ touched \subseteq status /\ status \subseteq Key /\ int \in BOOLEAN
  /\ evtPending \in BOOLEAN /\ appPending \in BOOLEAN
  /\ ui_override \in BOOLEAN /\ evt \in {"idle", "read"} /\ home \in BOOLEAN
  /\ app \in {"idle", "clear", "start", "keymask", "hook"}
  /\ touch \subseteq Key /\ keymask \subseteq Key
  /\ stale \in BOOLEAN /\ missed \in BOOLEAN
  /\ ui_override => evt = "idle"

(* The launcher's timer goes by the truth: when the event thread is done   *)
(* it knows whether Home is touched, however touches, releases and the     *)
(* app's clearing of the interrupt come in between ("one or more buttons   *)
(* was released.  Cancel the timer").                                      *)
HomeIsSeen == evt = "idle" /\ ~evtPending => home = (Home \in touched)

(* An app that is done with its events knows all the keys under a finger,  *)
(* unless a change made no event for it (one between its reading and the   *)
(* clearing of a line that is asserted, or while it did not listen) or     *)
(* keyHandler kept back what it read (during a page, with Home).  It also  *)
(* believes in no other key, unless it read the status with a release's    *)
(* interrupt not cleared.  Then the key is stuck until the next change:    *)
(* touchHandler clears the interrupt after it reads, and nothing tells the *)
(* app of that release again.                                              *)
KeysAreTold ==
  app = "idle" /\ ~appPending /\ ~missed =>
    touched \subseteq keymask /\ (~stale => keymask = touched)

(* Home, held for good, is found out, whatever pages and prompts come.     *)
HeldHomeIsSeen == <>[](Home \in touched) => <>[]home
=============================================================================

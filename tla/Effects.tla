------------------------------- MODULE Effects -------------------------------
(***************************************************************************)
(* The light pattern and its brightness (led.c), which the app thread      *)
(* changes for keys and music (app-default.c, AudioProcessor.c), and the   *)
(* event thread for pages and a low battery (orchard-app.c).               *)
(*                                                                         *)
(* The event thread has the higher priority: what it does without sleeping *)
(* is one step, and may come between any two accesses of the app thread.   *)
(* A page sleeps while it is shown.  The effects thread only reads.        *)
(*                                                                         *)
(* fx_index is not volatile, so the race on it is for the compiler to      *)
(* resolve: a statement loads it once (-O2), also where it tests and then  *)
(* changes it, and may go on with what the statement before has stored.    *)
(*                                                                         *)
(* Next, Spec and the like carry the module's name, for DefaultAppProofs   *)
(* extends this module together with Friends.                              *)
(***************************************************************************)
EXTENDS Integers

CONSTANTS
  fx_max,        \* the number of patterns; among them
  Lg,            \* the lightgenes, which show the genome of a family member,
  SAFETY,        \* the warning of a low battery,
  STROBE,        \* and the one of pages
  MAX_SHIFT,     \* the dimmest light
  BRIGHT_SHIFT,  \* the brightest with a weak battery,
  SAFETY_SHIFT,  \* and with a low one
  BEAT_SHIFT     \* how much brighter a beat is

(* The linker sorts the patterns by name: "Lg0" comes before "strobe".     *)
ASSUME EffectsAssumption ==
  /\ fx_max \in Nat \ {0} /\ SAFETY \in 0 .. fx_max - 1 /\ STROBE \in 1 .. fx_max - 1
  /\ Lg \subseteq 0 .. fx_max - 1 /\ SAFETY # STROBE /\ {SAFETY, STROBE} \cap Lg = {}
  /\ MAX_SHIFT \in Nat /\ BEAT_SHIFT \in Nat
  /\ BRIGHT_SHIFT \in 0 .. SAFETY_SHIFT /\ SAFETY_SHIFT \in 0 .. MAX_SHIFT

VARIABLES
  fx_index, shift_, beatShift_,
  diploid,      \* whose genome is shown; -1 is no member of the family
  ui_override,
  app,          \* where the app thread is,
  val,          \* and what it has read or computed
  popup,        \* the event thread is showing a page,
  oldfx,        \* and the pattern it goes back to
  pending,      \* its events: "check" and "page"
  battery,      \* "good", "weak" (BRIGHT_THRESH) or "low" (SAFETY_THRESH)
  raced         \* history: a page began or ended within the last change, or
                \* a low battery changed the pattern while it was skipping

light       == <<shift_, beatShift_>>
evt         == <<ui_override, popup, oldfx, pending>>
effectsVars == <<fx_index, light, diploid, app, val, evt, battery, raced>>

Pattern == 0 .. fx_max - 1

(* check_lightgene_hack in the event thread.                               *)
Expressed(fx) == IF fx \in Lg THEN fx ELSE diploid

(* effectsStart.                                                           *)
effectsStart ==
  /\ fx_index = 0 /\ diploid = (IF 0 \in Lg THEN 0 ELSE -1)
  /\ shift_ = BRIGHT_SHIFT /\ beatShift_ = MAX_SHIFT + 1
  /\ ui_override = FALSE /\ popup = FALSE /\ oldfx = 0 /\ pending = {}
  /\ app = "idle" /\ val = 0 /\ battery = "good" /\ raced = FALSE

-----------------------------------------------------------------------------
(* The app thread.  Keys do nothing while ui_override is set, but one that *)
(* is being handled goes on.                                               *)

At(from, to) == app = from /\ app' = to

(* effectsNextPattern (d = 1) and effectsPrevPattern (d = -1): read the    *)
(* index, write it, look whether it is the strobe, and once more.          *)
Move(d) ==
  /\ ~ui_override
  /\ At("idle", IF d = 1 THEN "next" ELSE "prev")
  /\ val' = (fx_index + d) % fx_max
  /\ raced' = popup
  /\ UNCHANGED <<fx_index, light, diploid, evt, battery>>

Moved ==
  /\ \/ At("next", "skip next") \/ At("prev", "skip prev") \/ At("again", "hack")
  /\ fx_index' = val
  /\ UNCHANGED <<light, diploid, val, evt, battery, raced>>

(* Mutant: the strobe is a pattern like any other.                         *)
SkipStrobe_never(d) ==
  /\ At(IF d = 1 THEN "skip next" ELSE "skip prev", "hack")
  /\ UNCHANGED <<fx_index, light, diploid, val, evt, battery, raced>>

SkipStrobe(d) ==
  /\ \E fx \in {val, fx_index} :
       IF d = 1 THEN At("skip next", IF fx = STROBE THEN "step next" ELSE "hack")
                ELSE At("skip prev", IF fx = STROBE THEN "step prev" ELSE "hack")
  /\ UNCHANGED <<fx_index, light, diploid, val, evt, battery, raced>>

MoveAgain(d) ==
  /\ At(IF d = 1 THEN "step next" ELSE "step prev", "again")
  /\ val' \in {(fx + d) % fx_max : fx \in {STROBE, fx_index}}
  /\ UNCHANGED <<fx_index, light, diploid, evt, battery, raced>>

Skipping == app \in {"skip next", "skip prev", "step next", "step prev"}

(* check_lightgene_hack looks the name of the current effect up twice, to  *)
(* see whether it is a lightgene and to find the family member.  When that *)
(* is another name by then, its third letter leads beyond the family.      *)
check_lightgene_hack ==
  /\ At("hack", IF fx_index \in Lg THEN "member" ELSE "idle")
  /\ UNCHANGED <<fx_index, light, diploid, val, evt, battery, raced>>

Member ==
  /\ At("member", "express")
  /\ val' = (IF fx_index \in Lg THEN fx_index ELSE -1)
  /\ UNCHANGED <<fx_index, light, diploid, evt, battery, raced>>

computeGeneExpression ==
  /\ At("express", "idle")
  /\ diploid' = val
  /\ val' = 0
  /\ UNCHANGED <<fx_index, light, evt, battery, raced>>

(* led_event, when an exchange has succeeded: the genes are new.           *)
NewGenes ==
  /\ ~ui_override
  /\ At("idle", "hack")
  /\ UNCHANGED <<fx_index, light, diploid, val, evt, battery, raced>>

(* Mutant: the counter of the brightness is not limited.                   *)
Dim_unlimited(d) ==
  /\ ~ui_override
  /\ At("idle", "dim")
  /\ val' = shift_ + d
  /\ UNCHANGED <<fx_index, light, diploid, evt, battery, raced>>

(* led_event, keyBottomR (d = 1) and keyTopR (d = -1).                     *)
Dim(d) ==
  /\ ~ui_override
  /\ At("idle", "dim")
  /\ val' = (IF shift_ + d \in 0 .. MAX_SHIFT THEN shift_ + d ELSE shift_)
  /\ UNCHANGED <<fx_index, light, diploid, evt, battery, raced>>

setShiftCeiling ==
  /\ At("dim", "idle")
  /\ shift_' = val
  /\ UNCHANGED <<fx_index, beatShift_, diploid, val, evt, battery, raced>>

(* The end of processAudioFrame, with a beat a short while ago or without. *)
processAudioFrame ==
  /\ At("idle", "beat")
  /\ val' \in {shift_, IF shift_ < BEAT_SHIFT THEN 0 ELSE shift_ - BEAT_SHIFT}
  /\ UNCHANGED <<fx_index, light, diploid, evt, battery, raced>>

(* Mutant: the beat is only made brighter.                                 *)
setBeatShift_brighter ==
  /\ At("beat", "idle")
  /\ beatShift_' = (IF val < beatShift_ THEN val ELSE beatShift_)
  /\ UNCHANGED <<fx_index, shift_, diploid, val, evt, battery, raced>>

setBeatShift ==
  /\ At("beat", "idle")
  /\ beatShift_' = val
  /\ UNCHANGED <<fx_index, shift_, diploid, val, evt, battery, raced>>

(* A new app starts, and takes the keys back from a page (AppLifecycle).   *)
AppBegin ==
  /\ app = "idle"
  /\ ui_override' = FALSE
  /\ UNCHANGED <<fx_index, light, diploid, app, val, popup, oldfx, pending, battery, raced>>

-----------------------------------------------------------------------------
(* The event thread: chEvtWaitOne takes the event hooked first, which is   *)
(* the check of the battery before the page.                               *)

run_chargecheck ==
  /\ pending' = pending \cup {"check"}
  /\ UNCHANGED <<fx_index, light, diploid, app, val, ui_override, popup, oldfx, battery, raced>>

(* Mutant: the brightness of a low battery is only set with its pattern.   *)
handle_chargecheck_timeout_once ==
  /\ ~popup /\ "check" \in pending
  /\ pending' = pending \ {"check"}
  /\ fx_index' = (IF battery = "low" THEN SAFETY ELSE fx_index)
  /\ shift_' = (IF battery = "low" /\ fx_index # SAFETY /\ shift_ < SAFETY_SHIFT
                THEN SAFETY_SHIFT ELSE shift_)
  /\ UNCHANGED <<beatShift_, diploid, app, val, ui_override, popup, oldfx, battery, raced>>

(* The decisions of handle_chargecheck_timeout, which follow one another   *)
(* without sleeping, on the voltage that was read before.                  *)
handle_chargecheck_timeout ==
  LET limit == CASE battery = "good" -> 0
                 [] battery = "weak" -> BRIGHT_SHIFT
                 [] battery = "low"  -> SAFETY_SHIFT
  IN
  /\ ~popup /\ "check" \in pending
  /\ pending' = pending \ {"check"}
  /\ fx_index' = (IF battery = "low" THEN SAFETY ELSE fx_index)
  /\ shift_' = (IF shift_ < limit THEN limit ELSE shift_)
  /\ raced' = (raced \/ (Skipping /\ battery = "low"))
  /\ UNCHANGED <<beatShift_, diploid, app, val, ui_override, popup, oldfx, battery>>

Changing == app \notin {"idle", "dim", "beat"}

(* A page is received by the event thread itself.                          *)
radio_message_received ==
  /\ ~popup
  /\ pending' = pending \cup {"page"}
  /\ UNCHANGED <<fx_index, light, diploid, app, val, ui_override, popup, oldfx, battery, raced>>

(* Mutant: the page is hooked before the check.                            *)
handle_radio_page_first ==
  /\ ~popup /\ "page" \in pending
  /\ pending' = pending \ {"page"}
  /\ popup' = TRUE /\ ui_override' = TRUE
  /\ oldfx' = fx_index /\ fx_index' = STROBE
  /\ raced' = (raced \/ Changing)
  /\ UNCHANGED <<light, diploid, app, val, battery>>

handle_radio_page ==
  /\ ~popup /\ "page" \in pending /\ "check" \notin pending
  /\ pending' = pending \ {"page"}
  /\ popup' = TRUE /\ ui_override' = TRUE
  /\ oldfx' = fx_index /\ fx_index' = STROBE
  /\ raced' = (raced \/ Changing)
  /\ UNCHANGED <<light, diploid, app, val, battery>>

PageShown ==
  /\ popup
  /\ popup' = FALSE /\ ui_override' = FALSE
  /\ fx_index' = oldfx /\ oldfx' = 0
  /\ diploid' = Expressed(oldfx)
  /\ raced' = (raced \/ Changing)
  /\ UNCHANGED <<light, app, val, pending, battery>>

Battery ==
  /\ battery' \in {"good", "weak", "low"} \ {battery}
  /\ UNCHANGED <<fx_index, light, diploid, app, val, evt, raced>>

AppStep ==
  \/ Moved \/ \E d \in {1, -1} : SkipStrobe(d) \/ MoveAgain(d)
  \/ check_lightgene_hack \/ Member \/ computeGeneExpression
  \/ setShiftCeiling \/ setBeatShift
Keys == NewGenes \/ \E d \in {1, -1} : Move(d) \/ Dim(d)
EventThread == handle_chargecheck_timeout \/ handle_radio_page \/ PageShown

EffectsNext ==
  \/ AppStep \/ Keys \/ processAudioFrame \/ AppBegin
  \/ EventThread \/ radio_message_received \/ run_chargecheck \/ Battery

EffectsSpec == effectsStart /\ [][EffectsNext]_effectsVars

(* The timer of the check goes on, sound comes in all the time, and the    *)
(* threads run: nobody has to touch a key, and there may always be another *)
(* page.                                                                   *)
EffectsFairSpec ==
  /\ EffectsSpec /\ WF_effectsVars(AppStep) /\ WF_effectsVars(EventThread)
  /\ WF_effectsVars(run_chargecheck) /\ SF_effectsVars(processAudioFrame)

-----------------------------------------------------------------------------
EffectsTypeOK ==
  /\ fx_index \in Pattern /\ oldfx \in Pattern
  /\ shift_ \in 0 .. MAX_SHIFT /\ beatShift_ \in 0 .. MAX_SHIFT + 1
  /\ diploid \in Lg \cup {-1}
  /\ ui_override \in BOOLEAN /\ popup \in BOOLEAN
  /\ app \in {"idle", "next", "prev", "skip next", "skip prev", "step next",
              "step prev", "again", "hack", "member", "express", "dim", "beat"}
  /\ val \in -1 .. fx_max + MAX_SHIFT
  /\ app \in {"next", "prev", "again"} => val \in Pattern
  /\ app = "express" => val \in Lg \cup {-1}
  /\ app \in {"dim", "beat"} => val \in 0 .. MAX_SHIFT
  /\ pending \subseteq {"check", "page"}
  /\ battery \in {"good", "weak", "low"} /\ raced \in BOOLEAN

(* A low battery is shown, whatever pages come and keys are touched: the   *)
(* check is not starved, and a page that puts its old pattern back only    *)
(* delays it.                                                              *)
LowBatteryIsShown == battery = "low" ~> fx_index = SAFETY \/ battery # "low"

(* "Limit brightness when battery is weak", "to guarantee ~2 hours runtime *)
(* in safety mode": the limit is enforced again and again, although a key  *)
(* whose brightness was read before the check is written after it.         *)
BrightnessIsLimited ==
  /\ []<>(battery = "weak" => shift_ >= BRIGHT_SHIFT)
  /\ []<>(battery = "low"  => shift_ >= SAFETY_SHIFT)

(* The beat follows the ceiling: once the user has settled on a brightness *)
(* no older one shines through (do_lightgene takes the brighter of both).  *)
BeatFollowsCeiling ==
  \A s \in 0 .. MAX_SHIFT :
    <>[](shift_ = s) => <>[](beatShift_ \in s - BEAT_SHIFT .. s)

(* Keys skip the strobe, and the genome shown is the one of the pattern    *)
(* ("updates the diploid genome to the current effect"), when no change is *)
(* under way.  This only fails when a page begins or ends within a change: *)
(* it then keeps the strobe for its old pattern, or has the genome of the  *)
(* pattern it puts back replaced by that of the other one; or when a low   *)
(* battery sets its pattern while a key skips the strobe.                  *)
PatternIsWhole ==
  ~raced /\ ~Changing /\ ~popup =>
    fx_index # STROBE /\ (fx_index \in Lg => diploid = fx_index)
=============================================================================

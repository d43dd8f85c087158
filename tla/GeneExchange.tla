----------------------------- MODULE GeneExchange -----------------------------
(***************************************************************************)
(* How two badges make a new light pattern (orchard-app.c, app-default.c,  *)
(* genes.c).  The default app of one badge broadcasts a request with both  *)
(* names and waits; the event thread of the badge that is named asks its   *)
(* user, and broadcasts a gamete with the name of the one who asked; the   *)
(* event thread of that one mixes it with its own genes, stores the child  *)
(* in flash and tells its app, which shows SUCCESS, or FAILURE when it has *)
(* waited too long.                                                        *)
(*                                                                         *)
(* The radio holds one packet: what comes while a badge handles another    *)
(* one waits there, or is lost.  While the prompt is on the screen, the    *)
(* app thread waits for it (orchard_gfxMutex, ui_override).                *)
(***************************************************************************)
EXTENDS Naturals

CONSTANTS
  Badge,
  Asks,         \* who may ask whom,
  SEX_TIMEOUT,  \* in ticks of the clock,
  CONSENT_TIME, \* and the time getConsent waits for a touch
  Nobody

ASSUME GeneAssumption ==
  /\ Nobody \notin Badge
  /\ Asks \subseteq {a \in Badge \X Badge : a[1] # a[2]}
  /\ SEX_TIMEOUT \in Nat /\ CONSENT_TIME \in Nat

Packet == [prot : {"req", "ack"}, from : Badge, to : Badge]
NoPacket == [prot |-> "none", from |-> Nobody, to |-> Nobody]

VARIABLES
  sex_running, sex_done,
  waited,       \* ticks since the request, while the app waits
  screen,       \* the app: "led", "failed" while it shows FAILURE, or "away"
                \* when another app runs
  ev,           \* the event thread: "idle", "prompt", "answer" or "store"
  prompt,       \* ticks the prompt has left
  packet,       \* what it handles,
  fifo,         \* and what waits in the radio
  fathers,      \* history: of the children stored since the last request
  consented     \* history: who sent a gamete to whom

app  == <<sex_running, waited, screen>>
evt  == <<ev, prompt, packet>>
vars == <<app, sex_done, evt, fifo, fathers, consented>>

Init ==
  /\ sex_running = [b \in Badge |-> FALSE] /\ sex_done = [b \in Badge |-> FALSE]
  /\ waited = [b \in Badge |-> 0]
  /\ screen = [b \in Badge |-> "led"]
  /\ ev = [b \in Badge |-> "idle"] /\ prompt = [b \in Badge |-> 0]
  /\ packet = [b \in Badge |-> NoPacket] /\ fifo = [b \in Badge |-> NoPacket]
  /\ fathers = [b \in Badge |-> {}] /\ consented = {}

(* Everybody hears a packet whose radio is free, or loses it.  A request   *)
(* to somebody else, dropped unread, can only be in the way of another     *)
(* packet, which is then lost: it is left out.                             *)
Broadcast(p) ==
  fifo' \in {f \in [Badge -> {fifo[b] : b \in Badge} \cup {p}] :
    \A b \in Badge :
      \/ f[b] = fifo[b]
      \/ f[b] = p /\ b # p.from /\ fifo[b] = NoPacket /\ (p.prot = "req" => p.to = b)}

-----------------------------------------------------------------------------
(* The app thread.  It does nothing while the prompt has the screen.       *)

AppRuns(b) == ev[b] # "prompt"

(* Mutant: the flag of an earlier exchange stays.                          *)
Ask_stale(b, p) ==
  /\ AppRuns(b) /\ screen[b] = "led" /\ ~sex_running[b]
  /\ sex_running' = [sex_running EXCEPT ![b] = TRUE]
  /\ waited' = [waited EXCEPT ![b] = 0]
  /\ fathers' = [fathers EXCEPT ![b] = {}]
  /\ Broadcast([prot |-> "req", from |-> b, to |-> p])
  /\ UNCHANGED <<sex_done, screen, evt, consented>>

(* led_event: the dialog says yes.  It opens only on a genetic pattern.    *)
Ask(b, p) ==
  /\ AppRuns(b) /\ screen[b] = "led" /\ ~sex_running[b]
  /\ sex_done' = [sex_done EXCEPT ![b] = FALSE]
  /\ sex_running' = [sex_running EXCEPT ![b] = TRUE]
  /\ waited' = [waited EXCEPT ![b] = 0]
  /\ fathers' = [fathers EXCEPT ![b] = {}]
  /\ Broadcast([prot |-> "req", from |-> b, to |-> p])
  /\ UNCHANGED <<screen, evt, consented>>

(* Mutant: the app waits for the answer only.                              *)
GiveUp_never(b) ==
  /\ AppRuns(b) /\ screen[b] = "led" /\ sex_running[b]
  /\ waited[b] > SEX_TIMEOUT /\ sex_done[b]
  /\ sex_running' = [sex_running EXCEPT ![b] = FALSE]
  /\ waited' = [waited EXCEPT ![b] = 0]
  /\ sex_done' = [sex_done EXCEPT ![b] = FALSE]
  /\ screen' = [screen EXCEPT ![b] = "failed"]
  /\ UNCHANGED <<evt, fifo, fathers, consented>>

(* The part of led_event that is run after every event: the time-out with  *)
(* its screen, and after that the test of sex_done.                        *)
GiveUp(b) ==
  /\ AppRuns(b) /\ screen[b] = "led" /\ sex_running[b]
  /\ waited[b] > SEX_TIMEOUT
  /\ sex_running' = [sex_running EXCEPT ![b] = FALSE]
  /\ waited' = [waited EXCEPT ![b] = 0]
  /\ sex_done' = [sex_done EXCEPT ![b] = FALSE]
  /\ screen' = [screen EXCEPT ![b] = "failed"]
  /\ UNCHANGED <<evt, fifo, fathers, consented>>

Succeed(b) ==
  /\ AppRuns(b) /\ sex_done[b]
  /\ \/ screen[b] = "failed"
     \/ screen[b] = "led" /\ sex_running[b] /\ waited[b] <= SEX_TIMEOUT
  /\ sex_running' = [sex_running EXCEPT ![b] = FALSE]
  /\ waited' = [waited EXCEPT ![b] = 0]
  /\ sex_done' = [sex_done EXCEPT ![b] = FALSE]
  /\ screen' = [screen EXCEPT ![b] = "led"]
  /\ UNCHANGED <<evt, fifo, fathers, consented>>

FailureShown(b) ==
  /\ AppRuns(b) /\ screen[b] = "failed" /\ ~sex_done[b]
  /\ screen' = [screen EXCEPT ![b] = "led"]
  /\ UNCHANGED <<sex_running, sex_done, waited, evt, fifo, fathers, consented>>

(* Home leaves the app as it is; led_start begins without an exchange.  It *)
(* makes no difference to a badge that never asks.                         *)
Leave(b) ==
  /\ AppRuns(b) /\ screen[b] = "led" /\ \E p \in Badge : <<b, p>> \in Asks
  /\ screen' = [screen EXCEPT ![b] = "away"]
  /\ UNCHANGED <<sex_running, sex_done, waited, evt, fifo, fathers, consented>>

led_start(b) ==
  /\ AppRuns(b) /\ screen[b] = "away"
  /\ screen' = [screen EXCEPT ![b] = "led"]
  /\ sex_running' = [sex_running EXCEPT ![b] = FALSE]
  /\ waited' = [waited EXCEPT ![b] = 0]
  /\ UNCHANGED <<sex_done, evt, fifo, fathers, consented>>

-----------------------------------------------------------------------------
(* The event thread.                                                       *)

Handle(b, to) ==
  /\ ev[b] = "idle" /\ fifo[b] # NoPacket
  /\ fifo' = [fifo EXCEPT ![b] = NoPacket]
  /\ ev' = [ev EXCEPT ![b] = to]

(* handle_radio_sex_req: the badge named in it prompts, or sleeps for a    *)
(* while when it is set to autosex.                                        *)
handle_radio_sex_req(b) ==
  /\ fifo[b].prot = "req" /\ fifo[b].to = b
  /\ packet' = [packet EXCEPT ![b] = fifo[b]]
  /\ \/ Handle(b, "prompt") /\ prompt' = [prompt EXCEPT ![b] = CONSENT_TIME]
     \/ Handle(b, "answer") /\ UNCHANGED prompt
  /\ UNCHANGED <<app, sex_done, fathers, consented>>

Consent(b) ==
  /\ ev[b] = "prompt" /\ prompt[b] > 0
  /\ ev' = [ev EXCEPT ![b] = "answer"]
  /\ prompt' = [prompt EXCEPT ![b] = 0]
  /\ UNCHANGED <<app, sex_done, packet, fifo, fathers, consented>>

Done(b) ==
  /\ ev' = [ev EXCEPT ![b] = "idle"]
  /\ packet' = [packet EXCEPT ![b] = NoPacket]

Deny(b) ==
  /\ ev[b] = "prompt" /\ prompt[b] = 0
  /\ Done(b)
  /\ UNCHANGED <<app, sex_done, prompt, fifo, fathers, consented>>

(* A badge whose pattern is not a genetic one says nothing; keys and the   *)
(* battery check may change the pattern at any time.                       *)
Answer(b) ==
  /\ ev[b] = "answer"
  /\ Done(b)
  /\ \/ /\ Broadcast([prot |-> "ack", from |-> b, to |-> packet[b].from])
        /\ consented' = consented \cup {<<b, packet[b].from>>}
     \/ UNCHANGED <<fifo, consented>>
  /\ UNCHANGED <<app, sex_done, prompt, fathers>>

(* Mutant: the name is not compared.                                       *)
IsExpected_nameless(b, p) == p.prot = "ack" /\ sex_running[b]

IsExpected(b, p) == p.prot = "ack" /\ sex_running[b] /\ p.to = b

handle_radio_sex_ack(b) ==
  /\ IsExpected(b, fifo[b])
  /\ Handle(b, "store")
  /\ packet' = [packet EXCEPT ![b] = fifo[b]]
  /\ UNCHANGED <<app, sex_done, prompt, fathers, consented>>

(* storagePatchData sleeps, and then sex_done is set.                      *)
Store(b) ==
  /\ ev[b] = "store"
  /\ fathers' = [fathers EXCEPT ![b] = @ \cup {packet[b].from}]
  /\ sex_done' = [sex_done EXCEPT ![b] = TRUE]
  /\ Done(b)
  /\ UNCHANGED <<app, prompt, fifo, consented>>

(* Answers to others, and answers nobody waits for.                        *)
Drop(b) ==
  /\ fifo[b] # NoPacket /\ ~IsExpected(b, fifo[b])
  /\ fifo[b].prot = "ack"
  /\ Handle(b, "idle")
  /\ UNCHANGED <<app, sex_done, prompt, packet, fathers, consented>>

Tick ==
  /\ waited' = [b \in Badge |->
       IF sex_running[b] /\ waited[b] <= SEX_TIMEOUT THEN waited[b] + 1 ELSE waited[b]]
  /\ prompt' = [b \in Badge |->
       IF ev[b] = "prompt" /\ prompt[b] > 0 THEN prompt[b] - 1 ELSE prompt[b]]
  /\ UNCHANGED <<sex_running, sex_done, screen, ev, packet, fifo, fathers, consented>>

AppThread(b) ==
  \/ GiveUp(b) \/ Succeed(b) \/ FailureShown(b)
  \/ led_start(b)

EventThread(b) ==
  \/ handle_radio_sex_req(b) \/ Deny(b) \/ Answer(b)
  \/ handle_radio_sex_ack(b) \/ Store(b) \/ Drop(b)

Next ==
  \/ \E a \in Asks : Ask(a[1], a[2])
  \/ \E b \in Badge : AppThread(b) \/ EventThread(b) \/ Leave(b) \/ Consent(b)
  \/ Tick

Spec == Init /\ [][Next]_vars

(* Timers go on and threads run; the event thread has priority, so the app *)
(* gets its turn between packets.  Nobody has to ask, answer or come back. *)
FairSpec ==
  /\ Spec /\ WF_vars(Tick)
  /\ \A b \in Badge : WF_vars(EventThread(b)) /\ SF_vars(GiveUp(b) \/ Succeed(b) \/ FailureShown(b))

-----------------------------------------------------------------------------
TypeOK ==
  /\ sex_running \in [Badge -> BOOLEAN] /\ sex_done \in [Badge -> BOOLEAN]
  /\ waited \in [Badge -> 0 .. SEX_TIMEOUT + 1]
  /\ screen \in [Badge -> {"led", "failed", "away"}]
  /\ ev \in [Badge -> {"idle", "prompt", "answer", "store"}]
  /\ prompt \in [Badge -> 0 .. CONSENT_TIME]
  /\ packet \in [Badge -> Packet \cup {NoPacket}]
  /\ fifo \in [Badge -> Packet \cup {NoPacket}]
  /\ fathers \in [Badge -> SUBSET Badge]
  /\ consented \subseteq Badge \X Badge
  /\ \A b \in Badge : prompt[b] > 0 => ev[b] = "prompt"

(* The father of a child sent a gamete to its mother: nobody's genes are   *)
(* taken by those who only listen ("actually I was hearing my neighbors"). *)
ChildrenAreConsensual ==
  \A b \in Badge : \A f \in fathers[b] : <<f, b>> \in consented

(* SUCCESS is only shown for a child stored since the request, whatever    *)
(* was left of an exchange before it, timed out, left or answered late.    *)
SuccessHasChild == [][\A b \in Badge : Succeed(b) => fathers[b] # {}]_vars

(* The app never waits forever: the exchange ends, or the user leaves.     *)
ExchangeEnds ==
  \A a \in Asks : sex_running[a[1]] ~> ~sex_running[a[1]] \/ screen[a[1]] = "away"
=============================================================================

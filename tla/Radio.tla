-------------------------------- MODULE Radio --------------------------------
(***************************************************************************)
(* radio.c: sending and receiving with the one radio of the badge.         *)
(* Threads that send hold radio_mutex from radioAcquire to radioRelease,   *)
(* hand a packet to the chip, and sleep until its interrupt wakes them; a  *)
(* received packet raises the same interrupt, which tells the event thread *)
(* to unload it.  Which of the two an interrupt means is read off          *)
(* radio->mode.                                                            *)
(*                                                                         *)
(* Every access to a register or the FIFO is an SPI transfer that sleeps,  *)
(* so other threads and the interrupt come in between any two of them; one *)
(* access is one step.  The chip is external: it is modelled by the four   *)
(* things radio.c asks of it (mode, DIO0 mapping, FIFO, PayloadReady).     *)
(***************************************************************************)
CONSTANTS
  Thread,     \* threads that use the radio
  event,      \* the event thread, which unloads packets
  Sender,     \* the threads that send
  Prompt,     \* senders that are asleep before their packet has gone out:
              \* nothing keeps them from the processor that long
  NoThread

ASSUME RadioAssumption ==
  /\ event \in Thread /\ Sender \subseteq Thread /\ Prompt \subseteq Sender
  /\ NoThread \notin Thread

VARIABLES
  mode,         \* radio->mode
  thread,       \* radio->thread, the sleeping sender
  radio_mutex,  \* its owner
  rf_pkt_rdy,   \* the event is pending for the event thread
  pc,           \* where each thread is in radio.c
  opMode,       \* the chip: "Rx" or "Tx"
  dio,          \* the chip: what DIO0 signals
  fifo,         \* the chip: "empty", a received "packet", an "outgoing" one, or
                \* one of which the event thread has read away some ("cut")
  ready,        \* the chip: PayloadReady; it receives nothing while it is set
  boost         \* the chip: PA and overcurrent registers are set to transmit

chip == <<opMode, dio, fifo, ready, boost>>
Loaded == fifo \in {"outgoing", "cut"}
vars == <<mode, thread, radio_mutex, rf_pkt_rdy, pc, chip>>

(* The end of radioStart.                                                  *)
Init ==
  /\ mode = "receiving" /\ thread = NoThread /\ radio_mutex = NoThread
  /\ rf_pkt_rdy = FALSE
  /\ pc = [t \in Thread |-> "idle"]
  /\ opMode = "Rx" /\ dio = "PayloadReady" /\ fifo = "empty"
  /\ ready = FALSE /\ boost = FALSE

Goto(t, from, to) == pc[t] = from /\ pc' = [pc EXCEPT ![t] = to]

-----------------------------------------------------------------------------
(* radioSend, between radioAcquire and radioRelease.                       *)

Want(t) ==
  /\ t \in Sender
  /\ Goto(t, "idle", "acquire")
  /\ UNCHANGED <<mode, thread, radio_mutex, rf_pkt_rdy, chip>>

(* Mutant: the mutex does not exclude.                                     *)
radioAcquire_shared(t) ==
  /\ radio_mutex' = t
  /\ \/ Goto(t, "acquire", "mode")
     \/ Goto(t, "acquire for pump", "pump")
  /\ UNCHANGED <<mode, thread, rf_pkt_rdy, chip>>

radioAcquire(t) ==
  /\ radio_mutex = NoThread
  /\ radio_mutex' = t
  /\ \/ Goto(t, "acquire", "mode")
     \/ Goto(t, "acquire for pump", "pump")
  /\ UNCHANGED <<mode, thread, rf_pkt_rdy, chip>>

SetTransmitting(t) ==
  /\ Goto(t, "mode", "OpMode Tx")
  /\ mode' = "transmitting"
  /\ UNCHANGED <<thread, radio_mutex, rf_pkt_rdy, chip>>

(* Leaving receive mode, the chip may or may not forget a packet that has  *)
(* not been unloaded.                                                      *)
OpModeTx(t) ==
  /\ Goto(t, "OpMode Tx", "PaLevel")
  /\ opMode' = "Tx"
  /\ \/ UNCHANGED <<fifo, ready>>
     \/ fifo' = "empty" /\ ready' = FALSE
  /\ UNCHANGED <<mode, thread, radio_mutex, rf_pkt_rdy, dio, boost>>

PaLevelTx(t) ==
  /\ Goto(t, "PaLevel", "DioMapping Tx")
  /\ boost' = TRUE
  /\ UNCHANGED <<mode, thread, radio_mutex, rf_pkt_rdy, opMode, dio, fifo, ready>>

DioMappingTx(t) ==
  /\ Goto(t, "DioMapping Tx", "Fifo")
  /\ dio' = "PacketSent"
  /\ UNCHANGED <<mode, thread, radio_mutex, rf_pkt_rdy, opMode, fifo, ready, boost>>

LoadFifo(t) ==
  /\ Goto(t, "Fifo", "suspend")
  /\ fifo' = "outgoing"
  /\ UNCHANGED <<mode, thread, radio_mutex, rf_pkt_rdy, opMode, dio, ready, boost>>

Suspend(t) ==
  /\ Goto(t, "suspend", "suspended")
  /\ thread' = t
  /\ UNCHANGED <<mode, radio_mutex, rf_pkt_rdy, chip>>

(* Mutant: the flags are looked at but the receiver is not restarted.      *)
RxRestart_missing(t) ==
  /\ Goto(t, "IrqFlags2", "PaLevel Rx")
  /\ UNCHANGED <<mode, thread, radio_mutex, rf_pkt_rdy, chip>>

RxRestart(t) ==
  /\ Goto(t, "IrqFlags2", "PaLevel Rx")
  /\ ready' = FALSE
  /\ fifo' = IF ready THEN "empty" ELSE fifo
  /\ UNCHANGED <<mode, thread, radio_mutex, rf_pkt_rdy, opMode, dio, boost>>

(* Mutant: the high power settings stay.                                   *)
PaLevelRx_missing(t) ==
  /\ Goto(t, "PaLevel Rx", "mode Rx")
  /\ UNCHANGED <<mode, thread, radio_mutex, rf_pkt_rdy, chip>>

PaLevelRx(t) ==
  /\ Goto(t, "PaLevel Rx", "mode Rx")
  /\ boost' = FALSE
  /\ UNCHANGED <<mode, thread, radio_mutex, rf_pkt_rdy, opMode, dio, fifo, ready>>

SetReceiving(t) ==
  /\ Goto(t, "mode Rx", "OpMode Rx")
  /\ mode' = "receiving"
  /\ UNCHANGED <<thread, radio_mutex, rf_pkt_rdy, chip>>

OpModeRx(t) ==
  /\ Goto(t, "OpMode Rx", "DioMapping Rx")
  /\ opMode' = "Rx"
  /\ UNCHANGED <<mode, thread, radio_mutex, rf_pkt_rdy, dio, fifo, ready, boost>>

DioMappingRx(t) ==
  /\ Goto(t, "DioMapping Rx", "release")
  /\ dio' = "PayloadReady"
  /\ UNCHANGED <<mode, thread, radio_mutex, rf_pkt_rdy, opMode, fifo, ready, boost>>

radioRelease(t) ==
  /\ Goto(t, "release", "idle") \/ Goto(t, "pump", "idle")
  /\ radio_mutex' = NoThread
  /\ UNCHANGED <<mode, thread, rf_pkt_rdy, chip>>

-----------------------------------------------------------------------------
(* The event thread: radio_unload_packet, without radio_mutex, and the     *)
(* reading of the flags by handle_chargecheck_timeout, with it.  A packet  *)
(* may be one that is answered: the handler sends.                         *)

radio_unload_packet ==
  /\ rf_pkt_rdy
  /\ rf_pkt_rdy' = FALSE
  /\ Goto(event, "idle", "unload")
  /\ UNCHANGED <<mode, thread, radio_mutex, chip>>

(* Mutant: a packet that is gone is waited for.                            *)
UnloadFlags_waiting ==
  /\ ready /\ Goto(event, "unload", "read FIFO")
  /\ UNCHANGED <<mode, thread, radio_mutex, rf_pkt_rdy, chip>>

UnloadFlags ==
  /\ \/ ready /\ Goto(event, "unload", "read FIFO")
     \/ ~ready /\ Goto(event, "unload", "idle")
  /\ UNCHANGED <<mode, thread, radio_mutex, rf_pkt_rdy, chip>>

(* What is read from the FIFO is gone, whoever put it there.               *)
ReadFifo ==
  \/ fifo = "empty" /\ UNCHANGED <<fifo, ready>>
  \/ fifo = "packet" /\ fifo' = "empty" /\ ready' = FALSE
  \/ Loaded /\ fifo' = "cut" /\ ready' \in {ready, FALSE}

(* Length, header and payload are read in one selection of the chip, and   *)
(* what is still in the FIFO is thrown away byte by byte after it: a packet*)
(* takes longer to arrive than to be thrown away, so that is one step.     *)
UnloadFifo ==
  /\ Goto(event, "read FIFO", "drain")
  /\ ReadFifo
  /\ UNCHANGED <<mode, thread, radio_mutex, rf_pkt_rdy, opMode, dio, boost>>

Drain ==
  /\ \/ Goto(event, "drain", "idle")
     \/ event \in Sender /\ Goto(event, "drain", "acquire")
  /\ ReadFifo
  /\ UNCHANGED <<mode, thread, radio_mutex, rf_pkt_rdy, opMode, dio, boost>>

handle_chargecheck_timeout ==
  /\ Goto(event, "idle", "acquire for pump")
  /\ UNCHANGED <<mode, thread, radio_mutex, rf_pkt_rdy, chip>>

-----------------------------------------------------------------------------
(* Mutant: the reference to the thread that is woken is kept.              *)
radio_handle_interrupt_stale ==
  \/ /\ mode = "transmitting"
     /\ IF thread = NoThread
        THEN UNCHANGED pc
        ELSE Goto(thread, "suspended", "IrqFlags2")
     /\ UNCHANGED <<thread, rf_pkt_rdy>>
  \/ /\ mode = "receiving"
     /\ rf_pkt_rdy' = TRUE
     /\ UNCHANGED <<thread, pc>>

(* The interrupt on the rising edge of DIO0.                               *)
radio_handle_interrupt ==
  \/ /\ mode = "transmitting"
     /\ IF thread = NoThread
        THEN UNCHANGED <<thread, pc>>
        ELSE Goto(thread, "suspended", "IrqFlags2") /\ thread' = NoThread
     /\ UNCHANGED rf_pkt_rdy
  \/ /\ mode = "receiving"
     /\ rf_pkt_rdy' = TRUE
     /\ UNCHANGED <<thread, pc>>

(* The chip has sent the packet in its FIFO, or what it found there of it: *)
(* it signals the end of either.                                           *)
PacketSent ==
  /\ opMode = "Tx" /\ Loaded
  /\ \A t \in Prompt : pc[t] # "suspend"
  /\ fifo' = "empty"
  /\ IF dio = "PacketSent" THEN radio_handle_interrupt
                           ELSE UNCHANGED <<thread, pc, rf_pkt_rdy>>
  /\ UNCHANGED <<mode, radio_mutex, opMode, dio, ready, boost>>

(* The chip has received a packet; in receive mode both mappings of DIO0   *)
(* signal it (PayloadReady, CrcOk).                                        *)
PacketReceived ==
  /\ opMode = "Rx" /\ fifo = "empty" /\ ~ready
  /\ fifo' = "packet" /\ ready' = TRUE
  /\ radio_handle_interrupt
  /\ UNCHANGED <<mode, radio_mutex, opMode, dio, boost>>

Send(t) ==
  \/ SetTransmitting(t) \/ OpModeTx(t) \/ PaLevelTx(t) \/ DioMappingTx(t)
  \/ LoadFifo(t) \/ Suspend(t) \/ RxRestart(t) \/ PaLevelRx(t)
  \/ SetReceiving(t) \/ OpModeRx(t) \/ DioMappingRx(t) \/ radioRelease(t)

Unload == radio_unload_packet \/ UnloadFlags \/ UnloadFifo \/ Drain

Next ==
  \/ \E t \in Thread : Want(t) \/ radioAcquire(t) \/ Send(t)
  \/ Unload \/ handle_chargecheck_timeout
  \/ PacketSent \/ PacketReceived

Spec == Init /\ [][Next]_vars

(* The scheduler runs every thread that can run; a mutex is handed to its  *)
(* waiters, so who keeps asking gets it; the chip sends what it was given. *)
(* Nobody has to send, or to answer, and no packet has to arrive.          *)
Fairness ==
  /\ \A t \in Thread : WF_vars(Send(t)) /\ SF_vars(radioAcquire(t))
  /\ SF_vars(radio_unload_packet) /\ WF_vars(UnloadFlags \/ UnloadFifo \/ Drain)
  /\ WF_vars(PacketSent)

FairSpec == Spec /\ Fairness

-----------------------------------------------------------------------------
(* Type invariant; radio->thread refers to a sleeping thread or to none    *)
(* (osalThreadSuspendS wants none when a sender goes to sleep).            *)
TypeOK ==
  /\ mode \in {"receiving", "transmitting"}
  /\ thread \in {NoThread} \cup {t \in Thread : pc[t] = "suspended"}
  /\ radio_mutex \in Thread \cup {NoThread}
  /\ rf_pkt_rdy \in BOOLEAN
  /\ DOMAIN pc = Thread
  /\ opMode \in {"Rx", "Tx"}
  /\ dio \in {"PayloadReady", "PacketSent"}
  /\ fifo \in {"empty", "packet", "outgoing", "cut"}
  /\ ready \in BOOLEAN /\ boost \in BOOLEAN

(* "Wait for the transmission to complete (will be unlocked in IRQ)": once *)
(* a sender has loaded its packet nobody takes the chip out of the set-up  *)
(* that sends it and signals its end, and what wakes the sender is that    *)
(* end.  Only the event thread's unloading, which takes no mutex, reaches  *)
(* into a transmission: it may send the packet of another thread short of  *)
(* what was read away, but never one of the event thread itself, and       *)
(* nothing of a packet stays behind for the next one.                      *)
TransmissionComplete ==
  /\ \A t \in Thread : pc[t] \in {"suspend", "suspended"} =>
       mode = "transmitting" /\ opMode = "Tx" /\ dio = "PacketSent" /\ boost
  /\ Loaded => \E t \in Thread :
       pc[t] \in {"suspend", "suspended"} /\ (fifo = "cut" => t # event)

(* "Turn off high power PA settings to prevent Rx damage": the chip is     *)
(* never in receive mode with them on.                                     *)
NoRxDamage == opMode = "Rx" => ~boost

(* "Prevent RX deadlock": a packet that has arrived, whatever the radio was*)
(* doing then, is unloaded or dropped, and the chip can receive again.     *)
ReceiverNeverStuck == ready ~> ~ready

(* Every call of radioSend, radio_unload_packet and the charge check comes *)
(* to its end: no sender sleeps forever, so nobody waits forever for the   *)
(* mutex it holds.                                                         *)
CallsReturn == \A t \in Thread : pc[t] # "idle" ~> pc[t] = "idle"
=============================================================================

----------------------------- MODULE RadioProofs -----------------------------
(***************************************************************************)
(* Proofs about Radio, for any set of threads: a transmission comes to its *)
(* end undisturbed but for what the event thread unloads of the packet of  *)
(* another thread, and the receiver is never on with the settings of the   *)
(* sender.                                                                 *)
(***************************************************************************)
EXTENDS Radio, TLAPS

(* Where a thread can be: outside, in radioSend before and after its       *)
(* sleep, and in the other section that holds the mutex.                   *)
Outside == {"idle", "acquire", "acquire for pump", "unload", "read FIFO", "drain"}
Before  == {"OpMode Tx", "PaLevel", "DioMapping Tx", "Fifo"}
Asleep  == {"suspend", "suspended"}
After   == {"IrqFlags2", "PaLevel Rx", "mode Rx", "OpMode Rx", "DioMapping Rx"}
Sending == Before \cup Asleep \cup After
Place   == Outside \cup Sending \cup {"mode", "release", "pump"}

(* The mutex excludes.                                                     *)
Mutex == \A t \in Thread : pc[t] \notin Outside => radio_mutex = t

(* What the radio is set to when nobody sends, and at each place of a      *)
(* sender.                                                                 *)
Receiving ==
  (\A t \in Thread : pc[t] \notin Sending) =>
    mode = "receiving" /\ opMode = "Rx" /\ dio = "PayloadReady" /\ ~boost /\ ~Loaded

Set(p) ==
  /\ mode   = IF p \in {"OpMode Rx", "DioMapping Rx"} THEN "receiving" ELSE "transmitting"
  /\ opMode = IF p \in {"OpMode Tx", "DioMapping Rx"} THEN "Rx" ELSE "Tx"
  /\ p \in {"OpMode Tx", "PaLevel", "DioMapping Tx"} => dio = "PayloadReady"
  /\ p \in {"Fifo"} \cup Asleep => dio = "PacketSent"
  /\ p \in {"OpMode Tx", "PaLevel", "mode Rx", "OpMode Rx", "DioMapping Rx"} => ~boost
  /\ p \in {"DioMapping Tx", "Fifo"} \cup Asleep => boost
  /\ p \notin Asleep => ~Loaded

Settings == \A t \in Thread : pc[t] \in Sending => Set(pc[t])

(* The event thread cannot unload while it sleeps in radioSend.            *)
Whole == pc[event] \in Asleep => fifo # "cut"

IInv ==
  /\ TypeOK /\ pc \in [Thread -> Place]
  /\ Mutex /\ Receiving /\ Settings /\ Whole

LEMMA InitInv == Init => IInv
BY RadioAssumption DEF Init, IInv, TypeOK, Whole, Loaded, Place, Outside, Mutex, Receiving, Settings, Sending, Before, Asleep, After

(* A step of thread t from one place to another, with all others where     *)
(* they are.                                                               *)
LEMMA GotoMoves ==
  ASSUME IInv, NEW t \in Thread, NEW from, NEW to \in Place, Goto(t, from, to)
  PROVE  /\ pc[t] = from /\ pc'[t] = to /\ pc' \in [Thread -> Place] /\ DOMAIN pc' = Thread
         /\ \A u \in Thread : u # t => pc'[u] = pc[u]
BY DEF IInv, Goto

(* A holder of the mutex is alone.                                         *)
LEMMA Alone ==
  ASSUME IInv, NEW t \in Thread, pc[t] \notin Outside
  PROVE  /\ radio_mutex = t
         /\ \A u \in Thread : u # t => pc[u] \in Outside
BY DEF IInv, Mutex

(* What a step of a sender has to show: its new place has its settings.    *)
LEMMA SenderKeepsInv ==
  ASSUME IInv, NEW t \in Thread, pc[t] \notin Outside,
         NEW to \in Sending, pc' = [pc EXCEPT ![t] = to],
         TypeOK', radio_mutex' = radio_mutex, Set(to)', fifo' # "cut" \/ fifo' = fifo
  PROVE  IInv'
<1>0. pc[t] \notin Asleep => ~Loaded
  <2>1. CASE pc[t] \in Sending
    BY <2>1 DEF IInv, Settings, Set
  <2>2. CASE pc[t] \notin Sending
    <3>1. \A u \in Thread : pc[u] \notin Sending
      BY <2>2, Alone DEF Outside, Sending, Before, Asleep, After
    <3>. QED BY <3>1 DEF IInv, Receiving
  <2>. QED BY <2>1, <2>2
<1>1. pc' \in [Thread -> Place] /\ pc'[t] = to /\ \A u \in Thread : u # t => pc'[u] = pc[u]
  BY DEF IInv, Place
<1>2. radio_mutex = t /\ \A u \in Thread : u # t => pc[u] \in Outside
  BY Alone
<1>3. Mutex'
  BY <1>1, <1>2 DEF Mutex
<1>4. Receiving'
  BY <1>1 DEF Receiving
<1>5. Settings'
  BY <1>1, <1>2 DEF Settings, Sending, Before, Asleep, After, Outside
<1>6. Whole'
  <2>1. SUFFICES ASSUME pc'[event] \in Asleep PROVE fifo' # "cut"
    BY DEF Whole
  <2>2. t = event
    BY <1>1, <1>2, <2>1, RadioAssumption DEF Outside, Asleep
  <2>3. CASE pc[t] \in Asleep
    BY <2>2, <2>3 DEF IInv, Whole
  <2>4. CASE pc[t] \notin Asleep
    <3>1. ~Loaded
      BY <2>4, <1>0
    <3>. QED BY <3>1 DEF Loaded
  <2>. QED BY <2>3, <2>4
<1>. QED BY <1>1, <1>3, <1>4, <1>5, <1>6 DEF IInv

(* With nobody sending, before and after.                                  *)
LEMMA QuietKeepsInv ==
  ASSUME IInv, NEW t \in Thread, pc[t] \notin Sending,
         NEW to \in Place \ Sending, pc' = [pc EXCEPT ![t] = to],
         TypeOK', mode' = mode, opMode' = opMode, dio' = dio, boost' = boost,
         Loaded' => Loaded, fifo' = "cut" => fifo = "cut" \/ t = event,
         to \in Outside \/ radio_mutex' = t,
         \A u \in Thread : u # t /\ pc[u] \notin Outside => radio_mutex' = u
  PROVE  IInv'
<1>1. pc' \in [Thread -> Place] /\ pc'[t] = to /\ \A u \in Thread : u # t => pc'[u] = pc[u]
  BY DEF IInv, Place
<1>2. Mutex'
  BY <1>1 DEF Mutex, IInv
<1>3. Receiving'
  <2>1. SUFFICES ASSUME \A u \in Thread : pc'[u] \notin Sending
                 PROVE  \A u \in Thread : pc[u] \notin Sending
    BY <2>1 DEF Receiving, IInv
  <2>. QED BY <1>1, <2>1
<1>4. Settings'
  BY <1>1 DEF Settings, IInv, Set
<1>5. Whole'
  BY <1>1, RadioAssumption DEF Whole, IInv, Sending
<1>. QED BY <1>1, <1>2, <1>3, <1>4, <1>5 DEF IInv

(* Nobody moves.                                                           *)
LEMMA StillKeepsInv ==
  ASSUME IInv, pc' = pc, TypeOK', radio_mutex' = radio_mutex,
         mode' = mode, opMode' = opMode, dio' = dio, boost' = boost,
         Loaded' => Loaded, fifo' = "cut" => fifo = "cut"
  PROVE  IInv'
<1>1. Mutex' /\ Receiving' /\ Whole'
  BY DEF IInv, Mutex, Receiving, Whole
<1>2. Settings'
  BY DEF IInv, Settings, Set
<1>. QED BY <1>1, <1>2 DEF IInv

-----------------------------------------------------------------------------
(* The steps of a sender that holds the mutex.                             *)

LEMMA SendKeepsInv ==
  ASSUME IInv, NEW t \in Thread, Send(t)
  PROVE  IInv'
<1>. USE DEF Goto, chip, Loaded, Outside, Sending, Before, Asleep, After
<1>0. TypeOK /\ DOMAIN pc = Thread /\ (pc[t] \in Sending => Set(pc[t]))
  BY DEF IInv, Settings
<1>1. CASE SetTransmitting(t)
  <2>1. mode = "receiving" /\ opMode = "Rx" /\ dio = "PayloadReady" /\ ~boost /\ ~Loaded
    <3>1. pc[t] = "mode"
      BY <1>1 DEF SetTransmitting
    <3>2. \A u \in Thread : pc[u] \notin Sending
      BY <3>1, Alone
    <3>. QED BY <3>2 DEF IInv, Receiving
  <2>2. TypeOK'
    BY <1>0, <1>1 DEF SetTransmitting, TypeOK
  <2>3. Set("OpMode Tx")'
    BY <1>1, <2>1 DEF SetTransmitting, Set
  <2>. QED BY <1>1, <2>2, <2>3, SenderKeepsInv DEF SetTransmitting
<1>2. CASE OpModeTx(t)
  <2>1. TypeOK' /\ Set("PaLevel")'
    BY <1>0, <1>2 DEF OpModeTx, TypeOK, Set
  <2>. QED BY <1>2, <2>1, SenderKeepsInv DEF OpModeTx
<1>3. CASE PaLevelTx(t)
  <2>1. TypeOK' /\ Set("DioMapping Tx")'
    BY <1>0, <1>3 DEF PaLevelTx, TypeOK, Set
  <2>. QED BY <1>3, <2>1, SenderKeepsInv DEF PaLevelTx
<1>4. CASE DioMappingTx(t)
  <2>1. TypeOK' /\ Set("Fifo")'
    BY <1>0, <1>4 DEF DioMappingTx, TypeOK, Set
  <2>. QED BY <1>4, <2>1, SenderKeepsInv DEF DioMappingTx
<1>5. CASE LoadFifo(t)
  <2>1. TypeOK' /\ Set("suspend")'
    BY <1>0, <1>5 DEF LoadFifo, TypeOK, Set
  <2>. QED BY <1>5, <2>1, SenderKeepsInv DEF LoadFifo
<1>6. CASE Suspend(t)
  <2>1. TypeOK' /\ Set("suspended")'
    BY <1>0, <1>6 DEF Suspend, TypeOK, Set
  <2>. QED BY <1>6, <2>1, SenderKeepsInv DEF Suspend
<1>7. CASE RxRestart(t)
  <2>1. TypeOK' /\ Set("PaLevel Rx")'
    BY <1>0, <1>7 DEF RxRestart, TypeOK, Set
  <2>. QED BY <1>7, <2>1, SenderKeepsInv DEF RxRestart
<1>8. CASE PaLevelRx(t)
  <2>1. TypeOK' /\ Set("mode Rx")'
    BY <1>0, <1>8 DEF PaLevelRx, TypeOK, Set
  <2>. QED BY <1>8, <2>1, SenderKeepsInv DEF PaLevelRx
<1>9. CASE SetReceiving(t)
  <2>1. TypeOK' /\ Set("OpMode Rx")'
    BY <1>0, <1>9 DEF SetReceiving, TypeOK, Set
  <2>. QED BY <1>9, <2>1, SenderKeepsInv DEF SetReceiving
<1>10. CASE OpModeRx(t)
  <2>1. TypeOK' /\ Set("DioMapping Rx")'
    BY <1>0, <1>10 DEF OpModeRx, TypeOK, Set
  <2>. QED BY <1>10, <2>1, SenderKeepsInv DEF OpModeRx
<1>11. CASE DioMappingRx(t)
  <2>1. TypeOK' /\ pc' \in [Thread -> Place]
    BY <1>0, <1>11 DEF DioMappingRx, TypeOK, IInv, Place
  <2>2. mode' = "receiving" /\ opMode' = "Rx" /\ dio' = "PayloadReady" /\ ~boost' /\ ~Loaded'
    BY <1>0, <1>11 DEF DioMappingRx, Set
  <2>3. pc'[t] = "release" /\ radio_mutex' = t /\ \A u \in Thread : u # t => pc'[u] \in Outside
    BY <1>0, <1>11, Alone DEF DioMappingRx
  <2>4. Whole'
    BY <2>2 DEF Whole, Loaded
  <2>. QED BY <2>1, <2>2, <2>3, <2>4 DEF IInv, Mutex, Receiving, Settings
<1>12. CASE radioRelease(t)
  <2>1. TypeOK' /\ pc[t] \notin Outside
    BY <1>0, <1>12 DEF radioRelease, TypeOK
  <2>2. \A u \in Thread : u # t => pc[u] \in Outside
    BY <2>1, Alone
  <2>. QED BY <1>12, <2>1, <2>2, QuietKeepsInv DEF radioRelease, Place
<1>. QED BY <1>1, <1>2, <1>3, <1>4, <1>5, <1>6, <1>7, <1>8, <1>9, <1>10, <1>11, <1>12 DEF Send

(* Everything before the mutex, and the unloading without it.              *)
LEMMA OutsideKeepsInv ==
  ASSUME IInv, NEW t \in Thread,
         Want(t) \/ radioAcquire(t) \/ Unload \/ handle_chargecheck_timeout
  PROVE  IInv'
<1>. USE DEF Goto, chip, Loaded, Outside, Sending, Before, Asleep, After, Place
<1>0. TypeOK /\ DOMAIN pc = Thread /\ event \in Thread /\ NoThread \notin Thread
  BY RadioAssumption DEF IInv
<1>1. CASE Want(t)
  <2>1. TypeOK'
    BY <1>0, <1>1 DEF Want, TypeOK
  <2>. QED BY <1>0, <1>1, <2>1, QuietKeepsInv DEF Want, IInv, Mutex
<1>2. CASE radioAcquire(t)
  <2>1. TypeOK'
    BY <1>0, <1>2 DEF radioAcquire, TypeOK
  <2>2. \A u \in Thread : pc[u] \in Outside
    BY <1>0, <1>2 DEF radioAcquire, IInv, Mutex
  <2>. QED BY <1>2, <2>1, <2>2, QuietKeepsInv DEF radioAcquire
<1>3. CASE radio_unload_packet
  <2>1. TypeOK'
    BY <1>0, <1>3 DEF radio_unload_packet, TypeOK
  <2>. QED BY <1>0, <1>3, <2>1, QuietKeepsInv DEF radio_unload_packet, IInv, Mutex
<1>4. CASE UnloadFlags
  <2>1. TypeOK'
    BY <1>0, <1>4 DEF UnloadFlags, TypeOK
  <2>. QED BY <1>0, <1>4, <2>1, QuietKeepsInv DEF UnloadFlags, IInv, Mutex
<1>5. CASE UnloadFifo \/ Drain
  <2>1. TypeOK'
    BY <1>0, <1>5 DEF UnloadFifo, Drain, ReadFifo, TypeOK
  <2>2. \E to \in {"drain", "idle", "acquire"} : pc' = [pc EXCEPT ![event] = to]
    BY <1>5 DEF UnloadFifo, Drain
  <2>3. pc[event] \in Outside /\ (Loaded' => Loaded) /\ mode' = mode /\ opMode' = opMode
        /\ dio' = dio /\ boost' = boost /\ radio_mutex' = radio_mutex
    BY <1>5 DEF UnloadFifo, Drain, ReadFifo
  <2>. QED BY <1>0, <2>1, <2>2, <2>3, QuietKeepsInv DEF IInv, Mutex
<1>6. CASE handle_chargecheck_timeout
  <2>1. TypeOK'
    BY <1>0, <1>6 DEF handle_chargecheck_timeout, TypeOK
  <2>. QED BY <1>0, <1>6, <2>1, QuietKeepsInv DEF handle_chargecheck_timeout, IInv, Mutex
<1>. QED BY <1>1, <1>2, <1>3, <1>4, <1>5, <1>6 DEF Unload

-----------------------------------------------------------------------------
(* The chip and its interrupt.                                             *)

LEMMA PacketSentKeepsInv ==
  ASSUME IInv, PacketSent
  PROVE  IInv'
<1>. USE DEF PacketSent, Loaded
<1>1. CASE pc' = pc
  <2>1. TypeOK'
    BY <1>1 DEF IInv, TypeOK, radio_handle_interrupt
  <2>. QED BY <1>1, <2>1, StillKeepsInv
<1>2. CASE pc' # pc
  <2>1. /\ thread # NoThread /\ mode = "transmitting"
        /\ Goto(thread, "suspended", "IrqFlags2") /\ thread' = NoThread /\ UNCHANGED rf_pkt_rdy
    BY <1>2 DEF radio_handle_interrupt
  <2>2. thread \in Thread
    BY <2>1 DEF IInv, TypeOK
  <2>3. Set("IrqFlags2")'
    BY <2>1 DEF Set, Asleep
  <2>4. TypeOK'
    BY <2>1 DEF IInv, TypeOK, Goto
  <2>. QED BY <2>1, <2>2, <2>3, <2>4, SenderKeepsInv
           DEF Goto, Outside, Sending, After
<1>. QED BY <1>1, <1>2

(* A packet is only received in receive mode, when nobody sleeps.          *)
LEMMA PacketReceivedKeepsInv ==
  ASSUME IInv, PacketReceived
  PROVE  IInv'
<1>. USE DEF PacketReceived, Loaded
<1>1. ASSUME thread # NoThread PROVE FALSE
  BY <1>1 DEF IInv, TypeOK, Settings, Set, Sending, Asleep
<1>2. pc' = pc /\ TypeOK'
  BY <1>1 DEF IInv, TypeOK, radio_handle_interrupt
<1>. QED BY <1>2, StillKeepsInv

LEMMA NextInv ==
  ASSUME IInv, [Next]_vars
  PROVE  IInv'
<1>1. CASE UNCHANGED vars
  <2>1. TypeOK' /\ Mutex' /\ Receiving' /\ Whole'
    BY <1>1 DEF vars, chip, Loaded, IInv, TypeOK, Mutex, Receiving, Whole
  <2>2. Settings'
    BY <1>1 DEF vars, chip, Loaded, IInv, Settings, Set
  <2>. QED BY <1>1, <2>1, <2>2 DEF vars, IInv
<1>2. CASE Next
  <2>1. event \in Thread
    BY RadioAssumption
  <2>. QED BY <1>2, <2>1, SendKeepsInv, OutsideKeepsInv, PacketSentKeepsInv, PacketReceivedKeepsInv DEF Next
<1>. QED BY <1>1, <1>2

(* The inductive invariant: who is outside the mutex leaves the radio's    *)
(* set-up alone, so at each place of the one sender it is what the sender  *)
(* has made of it.                                                         *)
THEOREM Invariant == Spec => []IInv
BY InitInv, NextInv, PTL DEF Spec

(* The types of Radio; radio->thread refers to a sleeping thread.          *)
THEOREM TypeCorrect == Spec => []TypeOK
<1>1. IInv => TypeOK
  BY DEF IInv
<1>. QED BY <1>1, Invariant, PTL

(* The set-up of a transmission stays until its end, and only the packet   *)
(* of another thread than the event thread is sent short of what the event *)
(* thread has read away.                                                   *)
THEOREM TransmissionsComplete == Spec => []TransmissionComplete
<1>1. ASSUME IInv, NEW t \in Thread, pc[t] \in Asleep
      PROVE  mode = "transmitting" /\ opMode = "Tx" /\ dio = "PacketSent" /\ boost
  BY <1>1 DEF IInv, Settings, Set, Sending, Before, Asleep, After
<1>2. ASSUME IInv, Loaded
      PROVE  \E t \in Thread : pc[t] \in Asleep /\ (fifo = "cut" => t # event)
  <2>1. PICK t \in Thread : pc[t] \in Sending
    BY <1>2 DEF IInv, Receiving
  <2>2. pc[t] \in Asleep
    BY <1>2, <2>1 DEF IInv, Settings, Set
  <2>. QED BY <1>2, <2>2 DEF IInv, Whole
<1>3. IInv => TransmissionComplete
  BY <1>1, <1>2 DEF TransmissionComplete, Asleep
<1>. QED BY <1>3, Invariant, PTL

(* The receiver is never on with the high power settings.                  *)
THEOREM ReceiverIsNotDamaged == Spec => []NoRxDamage
<1>1. IInv => NoRxDamage
  <2>. SUFFICES ASSUME IInv PROVE NoRxDamage
    OBVIOUS
  <2>1. CASE \E t \in Thread : pc[t] \in Sending
    <3>1. PICK t \in Thread : pc[t] \in Sending
      BY <2>1
    <3>2. Set(pc[t])
      BY <3>1 DEF IInv, Settings
    <3>. QED BY <3>1, <3>2 DEF Set, Sending, Before, Asleep, After, NoRxDamage
  <2>2. CASE \A t \in Thread : pc[t] \notin Sending
    BY <2>2 DEF IInv, Receiving, NoRxDamage
  <2>. QED BY <2>1, <2>2
<1>. QED BY <1>1, Invariant, PTL
=============================================================================

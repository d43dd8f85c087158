-------------------------- MODULE GeneExchangeProofs --------------------------
(***************************************************************************)
(* Proofs about GeneExchange, for any badges, any requests and any times:  *)
(* children have consenting fathers, and SUCCESS is shown for a child.     *)
(***************************************************************************)
EXTENDS GeneExchange, TLAPS

(* A badge that is not idle handles a packet.                              *)
HandledInv == \A b \in Badge : ev[b] # "idle" => packet[b] \in Packet

(* Gametes are under way, and stored, only after consent.                  *)
AirInv ==
  \A b \in Badge : fifo[b].prot = "ack" => <<fifo[b].from, fifo[b].to>> \in consented

StoreInv ==
  \A b \in Badge : ev[b] = "store" => packet[b].to = b /\ <<packet[b].from, b>> \in consented

(* Only a child that is stored ends an exchange.                           *)
DoneInv == \A b \in Badge : sex_done[b] => fathers[b] # {}

IInv == TypeOK /\ HandledInv /\ AirInv /\ StoreInv /\ ChildrenAreConsensual /\ DoneInv

-----------------------------------------------------------------------------
LEMMA PacketFields ==
  /\ \A p \in Packet : p.prot \in {"req", "ack"} /\ p.from \in Badge /\ p.to \in Badge
  /\ NoPacket.prot = "none"
  /\ NoPacket \notin Packet
BY DEF Packet, NoPacket

LEMMA InitInv == Init => IInv
<1>. SUFFICES ASSUME Init PROVE IInv
  OBVIOUS
<1>1. TypeOK
  BY GeneAssumption DEF Init, TypeOK
<1>2. HandledInv /\ StoreInv /\ AirInv
  BY PacketFields DEF Init, HandledInv, StoreInv, AirInv
<1>3. ChildrenAreConsensual /\ DoneInv
  BY DEF Init, ChildrenAreConsensual, DoneInv
<1>. QED BY <1>1, <1>2, <1>3 DEF IInv

(* What a packet sent does to the radios.                                  *)
LEMMA BroadcastStep ==
  ASSUME TypeOK, NEW p \in Packet, Broadcast(p)
  PROVE  /\ fifo' \in [Badge -> Packet \cup {NoPacket}]
         /\ \A b \in Badge : fifo'[b] = fifo[b] \/ fifo'[b] = p
<1>1. \A b \in Badge : fifo[b] \in Packet \cup {NoPacket}
  BY DEF TypeOK
<1>2. fifo' \in [Badge -> {fifo[b] : b \in Badge} \cup {p}]
  BY DEF Broadcast
<1>3. \A b \in Badge : fifo'[b] = fifo[b] \/ fifo'[b] = p
  BY DEF Broadcast
<1>4. \A b \in Badge : fifo'[b] \in Packet \cup {NoPacket}
  BY <1>1, <1>3
<1>. QED BY <1>2, <1>3, <1>4

-----------------------------------------------------------------------------
(* The app thread touches no genes, but for forgetting the last exchange.  *)
LEMMA AskKeepsInv ==
  ASSUME IInv, NEW b \in Badge, NEW p \in Badge, Ask(b, p)
  PROVE  IInv'
<1>. DEFINE q == [prot |-> "req", from |-> b, to |-> p]
<1>1. q \in Packet /\ q.prot = "req"
  BY DEF Packet
<1>2. /\ fifo' \in [Badge -> Packet \cup {NoPacket}]
      /\ \A c \in Badge : fifo'[c] = fifo[c] \/ fifo'[c] = q
  BY <1>1, BroadcastStep DEF IInv, Ask
<1>. HIDE DEF q
<1>3. TypeOK'
  <2>1. /\ sex_running' \in [Badge -> BOOLEAN] /\ sex_done' \in [Badge -> BOOLEAN]
        /\ fathers' \in [Badge -> SUBSET Badge]
    BY DEF IInv, TypeOK, Ask
  <2>2. waited' \in [Badge -> 0 .. SEX_TIMEOUT + 1]
    BY GeneAssumption DEF IInv, TypeOK, Ask
  <2>3. UNCHANGED <<screen, ev, prompt, packet, consented>>
    BY DEF Ask, evt
  <2>. QED BY <1>2, <2>1, <2>2, <2>3 DEF IInv, TypeOK
<1>4. HandledInv' /\ StoreInv'
  BY DEF IInv, HandledInv, StoreInv, Ask, evt
<1>5. AirInv'
  BY <1>1, <1>2 DEF IInv, AirInv, Ask
<1>6. ChildrenAreConsensual' /\ DoneInv'
  BY DEF IInv, TypeOK, ChildrenAreConsensual, DoneInv, Ask
<1>. QED BY <1>3, <1>4, <1>5, <1>6 DEF IInv

LEMMA AppKeepsInv ==
  ASSUME IInv, NEW b \in Badge, AppThread(b) \/ Leave(b)
  PROVE  IInv'
<1>. USE DEF AppThread, GiveUp, Succeed, FailureShown, led_start, Leave, evt
<1>1. TypeOK'
  <2>1. sex_running' \in [Badge -> BOOLEAN] /\ sex_done' \in [Badge -> BOOLEAN]
    BY DEF IInv, TypeOK
  <2>2. waited' \in [Badge -> 0 .. SEX_TIMEOUT + 1]
    BY GeneAssumption DEF IInv, TypeOK
  <2>3. screen' \in [Badge -> {"led", "failed", "away"}]
    BY DEF IInv, TypeOK
  <2>4. UNCHANGED <<ev, prompt, packet, fifo, fathers, consented>>
    OBVIOUS
  <2>. QED BY <2>1, <2>2, <2>3, <2>4 DEF IInv, TypeOK
<1>2. HandledInv' /\ StoreInv' /\ AirInv'
  BY DEF IInv, HandledInv, StoreInv, AirInv
<1>3. ChildrenAreConsensual' /\ DoneInv'
  BY DEF IInv, TypeOK, ChildrenAreConsensual, DoneInv
<1>. QED BY <1>1, <1>2, <1>3 DEF IInv

(* A packet leaves the radio.                                              *)
LEMMA HandleKeepsInv ==
  ASSUME IInv, NEW b \in Badge, handle_radio_sex_req(b) \/ handle_radio_sex_ack(b) \/ Drop(b)
  PROVE  IInv'
<1>. USE PacketFields DEF Handle, app
<1>1. fifo[b] \in Packet
  BY DEF IInv, TypeOK, handle_radio_sex_req, handle_radio_sex_ack, Drop
<1>2. CASE handle_radio_sex_req(b)
  <2>. USE <1>1, <1>2 DEF handle_radio_sex_req
  <2>1. TypeOK'
    BY GeneAssumption DEF IInv, TypeOK
  <2>2. HandledInv' /\ StoreInv'
    BY DEF IInv, TypeOK, HandledInv, StoreInv
  <2>3. AirInv'
    BY DEF IInv, TypeOK, AirInv
  <2>4. ChildrenAreConsensual' /\ DoneInv'
    BY DEF IInv, ChildrenAreConsensual, DoneInv
  <2>. QED BY <2>1, <2>2, <2>3, <2>4 DEF IInv
<1>3. CASE handle_radio_sex_ack(b)
  <2>. USE <1>1, <1>3 DEF handle_radio_sex_ack, IsExpected
  <2>1. TypeOK'
    BY DEF IInv, TypeOK
  <2>2. HandledInv'
    BY DEF IInv, TypeOK, HandledInv
  <2>3. StoreInv'
    BY DEF IInv, TypeOK, AirInv, StoreInv
  <2>4. AirInv'
    BY DEF IInv, TypeOK, AirInv
  <2>5. ChildrenAreConsensual' /\ DoneInv'
    BY DEF IInv, ChildrenAreConsensual, DoneInv
  <2>. QED BY <2>1, <2>2, <2>3, <2>4, <2>5 DEF IInv
<1>4. CASE Drop(b)
  <2>. USE <1>1, <1>4 DEF Drop
  <2>1. TypeOK'
    BY DEF IInv, TypeOK
  <2>2. HandledInv' /\ StoreInv'
    BY DEF IInv, TypeOK, HandledInv, StoreInv
  <2>3. AirInv'
    BY DEF IInv, TypeOK, AirInv
  <2>4. ChildrenAreConsensual' /\ DoneInv'
    BY DEF IInv, ChildrenAreConsensual, DoneInv
  <2>. QED BY <2>1, <2>2, <2>3, <2>4 DEF IInv
<1>. QED BY <1>2, <1>3, <1>4

(* A gamete is sent, and its sender has consented.                         *)
LEMMA AnswerKeepsInv ==
  ASSUME IInv, NEW b \in Badge, Answer(b)
  PROVE  IInv'
<1>. DEFINE p == [prot |-> "ack", from |-> b, to |-> packet[b].from]
<1>. USE DEF Answer, Done, app
<1>1. p \in Packet /\ p.from = b /\ p.to = packet[b].from
  BY PacketFields DEF IInv, HandledInv, Packet
<1>2. /\ fifo' \in [Badge -> Packet \cup {NoPacket}]
      /\ \A c \in Badge : fifo'[c] = fifo[c] \/ (fifo'[c] = p /\ <<b, packet[b].from>> \in consented')
      /\ consented \subseteq consented' /\ consented' \subseteq Badge \X Badge
  <2>1. CASE Broadcast(p) /\ consented' = consented \cup {<<b, packet[b].from>>}
    <3>1. packet[b].from \in Badge
      BY PacketFields DEF IInv, HandledInv
    <3>. QED BY <1>1, <2>1, <3>1, BroadcastStep DEF IInv, TypeOK
  <2>2. CASE UNCHANGED <<fifo, consented>>
    BY <2>2 DEF IInv, TypeOK
  <2>. QED BY <2>1, <2>2
<1>. HIDE DEF p
<1>3. TypeOK'
  BY <1>2 DEF IInv, TypeOK
<1>4. HandledInv' /\ StoreInv'
  BY <1>2 DEF IInv, TypeOK, HandledInv, StoreInv
<1>5. AirInv'
  BY <1>1, <1>2 DEF IInv, AirInv
<1>6. ChildrenAreConsensual' /\ DoneInv'
  BY <1>2 DEF IInv, ChildrenAreConsensual, DoneInv
<1>. QED BY <1>3, <1>4, <1>5, <1>6 DEF IInv

(* A child is stored, and its father is one who consented.                 *)
LEMMA StoreKeepsInv ==
  ASSUME IInv, NEW b \in Badge, Store(b)
  PROVE  IInv'
<1>. USE DEF Store, Done, app
<1>1. packet[b].from \in Badge /\ <<packet[b].from, b>> \in consented
  BY PacketFields DEF IInv, HandledInv, StoreInv
<1>2. TypeOK'
  BY <1>1 DEF IInv, TypeOK
<1>3. HandledInv' /\ StoreInv' /\ AirInv'
  BY DEF IInv, TypeOK, HandledInv, StoreInv, AirInv
<1>4. ChildrenAreConsensual' /\ DoneInv'
  BY <1>1 DEF IInv, TypeOK, ChildrenAreConsensual, DoneInv
<1>. QED BY <1>2, <1>3, <1>4 DEF IInv

LEMMA PromptKeepsInv ==
  ASSUME IInv, Tick \/ \E b \in Badge : Consent(b) \/ Deny(b)
  PROVE  IInv'
<1>1. CASE Tick
  <2>1. TypeOK'
    BY <1>1, GeneAssumption DEF IInv, TypeOK, Tick
  <2>2. HandledInv' /\ StoreInv' /\ AirInv' /\ ChildrenAreConsensual' /\ DoneInv'
    BY <1>1 DEF IInv, Tick, HandledInv, StoreInv, AirInv, ChildrenAreConsensual, DoneInv
  <2>. QED BY <2>1, <2>2 DEF IInv
<1>2. ASSUME NEW b \in Badge, Consent(b) \/ Deny(b)
      PROVE  IInv'
  <2>. USE <1>2 DEF Consent, Deny, Done, app
  <2>1. TypeOK'
    BY GeneAssumption DEF IInv, TypeOK
  <2>2. HandledInv' /\ StoreInv' /\ AirInv'
    BY DEF IInv, TypeOK, HandledInv, StoreInv, AirInv
  <2>3. ChildrenAreConsensual' /\ DoneInv'
    BY DEF IInv, ChildrenAreConsensual, DoneInv
  <2>. QED BY <2>1, <2>2, <2>3 DEF IInv
<1>. QED BY <1>1, <1>2

LEMMA StutterKeepsInv ==
  ASSUME IInv, UNCHANGED vars
  PROVE  IInv'
BY DEF IInv, TypeOK, HandledInv, AirInv, StoreInv, ChildrenAreConsensual, DoneInv, vars, app, evt

(* The invariant the theorems below are taken from.                        *)
THEOREM Invariant == Spec => []IInv
<1>1. IInv /\ [Next]_vars => IInv'
  <2>. SUFFICES ASSUME IInv, [Next]_vars PROVE IInv'
    OBVIOUS
  <2>1. CASE \E a \in Asks : Ask(a[1], a[2])
    BY <2>1, AskKeepsInv, GeneAssumption
  <2>2. ASSUME NEW b \in Badge, AppThread(b) \/ EventThread(b) \/ Leave(b) \/ Consent(b)
        PROVE  IInv'
    BY <2>2, AppKeepsInv, HandleKeepsInv, AnswerKeepsInv, StoreKeepsInv, PromptKeepsInv
       DEF EventThread
  <2>3. CASE Tick \/ UNCHANGED vars
    BY <2>3, PromptKeepsInv, StutterKeepsInv
  <2>. QED BY <2>1, <2>2, <2>3 DEF Next
<1>. QED BY InitInv, <1>1, PTL DEF Spec

(* Every variable keeps its type.                                          *)
THEOREM TypeCorrect == Spec => []TypeOK
<1>1. IInv => TypeOK
  BY DEF IInv
<1>. QED BY <1>1, Invariant, PTL

(* The father of a child sent its gamete to the mother.                    *)
THEOREM FathersConsented == Spec => []ChildrenAreConsensual
<1>1. IInv => ChildrenAreConsensual
  BY DEF IInv
<1>. QED BY <1>1, Invariant, PTL

(* SUCCESS is only shown for a child stored since the request.             *)
THEOREM SuccessIsEarned == Spec => SuccessHasChild
<1>1. IInv => (\A b \in Badge : Succeed(b) => fathers[b] # {})
  BY DEF IInv, DoneInv, Succeed
<1>. QED BY <1>1, Invariant, PTL DEF Spec, SuccessHasChild
=============================================================================

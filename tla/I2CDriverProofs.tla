-------------------------- MODULE I2CDriverProofs --------------------------
(***************************************************************************)
(* The I2C driver tells its caller the truth and leaves nothing behind,    *)
(* for transfers of any number of bytes and any set of faults.             *)
(***************************************************************************)
EXTENDS I2CDriver, TLAPS

(* What holds whatever goes wrong: a thread pointer belongs to a sleeping  *)
(* caller, a stream that is on has bytes left.                             *)
Sound ==
  /\ thread <=> pc = "ASLEEP"
  /\ pc = "OUT" => timer = "off"
  /\ tx.on => tx.size > 0
  /\ rx.on => rx.size > 0
  /\ flags # {} => failed

Addressing == {"SB", "CALLTX", "CALLRX", "ADDRTX", "ADDRRX"}

(* Who is on the bus: without a bus error, only the transfer of the caller *)
(* that sleeps.                                                            *)
OwnTransfer ==
  /\ start => pc = "ASLEEP" /\ bus \in {"FREE", "BTF"} /\ flags = {}
  /\ stop => pc # "ASLEEP"
  /\ bus \in Addressing \cup {"TX", "RX"} => pc = "ASLEEP"
  /\ flags # {} => pc = "ASLEEP" /\ bus \in {"NACK", "FREE"}
  /\ tx.on => pc = "ASLEEP" /\ (bus \in {"TX", "STALLED"} \/ flags # {})
  /\ rx.on => pc = "ASLEEP" /\ bus \in {"RX", "STALLED"}

(* What the interrupts know: BTF is looked at once, after the stream has   *)
(* ended, and the bytes are there when a stream says so.                   *)
InOrder ==
  /\ "TX" \in ended => ~start /\ bus \notin Addressing \cup {"RX", "FULL"}
  /\ bus \in {"TX", "BTF"} /\ itevten => ~tx.on /\ "TX" \notin ended
  /\ bus = "TX" /\ tx.on => "TX" \notin ended
  /\ bus = "BTF" /\ pc # "ASLEEP" => ~itevten /\ "TX" \notin ended
  /\ bus = "TX" /\ ~tx.on => tx.size = 0
  /\ bus = "BTF" /\ pc = "ASLEEP" /\ rx.size = 0 => moved
  /\ start /\ bus = "BTF" => rx.size > 0
  /\ "RX" \in ended /\ pc = "ASLEEP" => bus = "FULL" /\ moved

IInv == TypeOK /\ Sound /\ AnswerIsTrue /\ (~broken => OwnTransfer /\ InOrder)
-----------------------------------------------------------------------------
(* The invariant holds at the start.                                       *)
LEMMA InvInit == Init => IInv
<1> SUFFICES ASSUME Init PROVE IInv
    OBVIOUS
<1> USE DriverAssumption DEF DriverAssumption, Init, Idle
<1>1. TypeOK
  <2>1. tx \in Streams /\ rx \in Streams
    BY DEF Streams
  <2>2. flags \subseteq Faults /\ ended \subseteq {"TX", "RX"}
    OBVIOUS
  <2>3. bus \in Phases
    BY DEF Phases
  <2>4. QED
    BY <2>1, <2>2, <2>3 DEF TypeOK
<1>2. Sound
  BY DEF Sound
<1>3. AnswerIsTrue
  BY <1>1 DEF AnswerIsTrue
<1>4. OwnTransfer
  BY DEF OwnTransfer, Addressing
<1>5. InOrder
  BY DEF InOrder, Addressing
<1>6. QED
  BY <1>1, <1>2, <1>3, <1>4, <1>5 DEF IInv

(* A stream that moves a byte.                                             *)
LEMMA Shorter ==
  ASSUME NEW s \in Streams, s.size > 0,
         NEW r, r = [on |-> s.size > 1, size |-> s.size - 1]
  PROVE  r \in Streams /\ (r.on <=> s.size > 1) /\ r.size = s.size - 1
<1>1. s.size \in 1 .. Bytes /\ Bytes \in Nat
  BY DriverAssumption DEF DriverAssumption, Streams
<1>2. (s.size > 1) \in BOOLEAN /\ s.size - 1 \in 0 .. Bytes
  BY <1>1
<1>3. r.on = (s.size > 1) /\ r.size = s.size - 1
  OBVIOUS
<1>4. r \in Streams
  BY <1>2, Zenon DEF Streams
<1>5. QED
  BY <1>3, <1>4

(* A start condition goes out.                                             *)
LEMMA InvStartSent == ASSUME IInv, StartSent PROVE IInv'
<1> USE DriverAssumption DEF DriverAssumption, IInv, StartSent, driver,
        registers, history
<1>1. TypeOK'
  <2>1. tx' \in Streams /\ rx' \in Streams
    BY DEF TypeOK, Streams
  <2>2. bus' \in Phases /\ ended' \subseteq {"TX", "RX"} /\ flags' \subseteq Faults
    BY DEF TypeOK, Phases
  <2>3. /\ pc' \in {"OUT", "SPINS", "ASLEEP", "WOKEN"}
        /\ rdymsg' \in {"RDY_OK", "RDY_RESET", "RDY_TIMEOUT"}
    BY DEF TypeOK
  <2>4. /\ state' \in {"STOP", "READY", "ACTIVE", "LOCKED"}
        /\ timer' \in {"off", "armed", "fired"}
    BY DEF TypeOK
  <2>5. /\ thread' \in BOOLEAN /\ errors' \in BOOLEAN /\ reads' \in BOOLEAN
        /\ moved' \in BOOLEAN /\ failed' \in BOOLEAN /\ broken' \in BOOLEAN
    BY DEF TypeOK
  <2>6. itevten' \in BOOLEAN /\ start' \in BOOLEAN /\ stop' \in BOOLEAN
    BY DEF TypeOK
  <2>7. QED
    BY <2>1, <2>2, <2>3, <2>4, <2>5, <2>6 DEF TypeOK
<1>2. Sound'
  BY DEF TypeOK, Streams, Sound
<1>3. AnswerIsTrue'
  BY <1>1 DEF AnswerIsTrue, TypeOK, Sound, OwnTransfer, InOrder
<1>4. ~broken' => OwnTransfer'
  BY DEF OwnTransfer, InOrder, Sound, Addressing, TypeOK, Streams
<1>5. ~broken' => InOrder'
  BY DEF OwnTransfer, InOrder, Sound, Addressing, TypeOK, Streams
<1>6. QED
  BY <1>1, <1>2, <1>3, <1>4, <1>5

(* The device answers to its address.                                      *)
LEMMA InvAddressAcked == ASSUME IInv, AddressAcked PROVE IInv'
BY DriverAssumption DEF DriverAssumption, IInv, AddressAcked, Signals, driver,
   registers, history, TypeOK, Streams, Phases, Sound, AnswerIsTrue,
   OwnTransfer, InOrder, Addressing

(* A byte goes out: the stream ends with the last one.                     *)
LEMMA InvByteSent == ASSUME IInv, ByteSent PROVE IInv'
<1> USE DriverAssumption DEF DriverAssumption, IInv, ByteSent, driver,
        registers, history
<1>0. /\ tx' \in Streams /\ (tx'.on <=> tx.size > 1) /\ tx'.size = tx.size - 1
      /\ tx.size \in Nat /\ tx.size > 0
  BY Shorter DEF TypeOK, Streams, Sound
<1>1. TypeOK'
  <2>1. tx' \in Streams /\ rx' \in Streams
    BY <1>0 DEF TypeOK, Streams
  <2>2. bus' \in Phases /\ ended' \subseteq {"TX", "RX"} /\ flags' \subseteq Faults
    BY DEF TypeOK, Phases
  <2>3. /\ pc' \in {"OUT", "SPINS", "ASLEEP", "WOKEN"}
        /\ rdymsg' \in {"RDY_OK", "RDY_RESET", "RDY_TIMEOUT"}
    BY DEF TypeOK
  <2>4. /\ state' \in {"STOP", "READY", "ACTIVE", "LOCKED"}
        /\ timer' \in {"off", "armed", "fired"}
    BY DEF TypeOK
  <2>5. /\ thread' \in BOOLEAN /\ errors' \in BOOLEAN /\ reads' \in BOOLEAN
        /\ moved' \in BOOLEAN /\ failed' \in BOOLEAN /\ broken' \in BOOLEAN
    BY DEF TypeOK
  <2>6. itevten' \in BOOLEAN /\ start' \in BOOLEAN /\ stop' \in BOOLEAN
    BY DEF TypeOK
  <2>7. QED
    BY <2>1, <2>2, <2>3, <2>4, <2>5, <2>6 DEF TypeOK
<1>2. Sound'
  BY <1>0 DEF TypeOK, Sound
<1>3. AnswerIsTrue'
  BY <1>1 DEF AnswerIsTrue, TypeOK, Sound, OwnTransfer, InOrder
<1>4. ~broken' => OwnTransfer'
  BY DEF OwnTransfer, InOrder, Sound, Addressing, TypeOK, Streams
<1>5. ~broken' => InOrder'
  BY DEF OwnTransfer, InOrder, Sound, Addressing, TypeOK, Streams
<1>6. QED
  BY <1>1, <1>2, <1>3, <1>4, <1>5

(* BTF: the bytes of a transmission are out, for only an error or the end  *)
(* turns the stream off.                                                   *)
LEMMA InvNothingLeft == ASSUME IInv, NothingLeft PROVE IInv'
BY DriverAssumption DEF DriverAssumption, IInv, NothingLeft, Signals, driver,
   registers, history, TypeOK, Streams, Phases, Sound, AnswerIsTrue,
   OwnTransfer, InOrder, Addressing

(* A byte comes in, with the last one the end interrupt.                   *)
LEMMA InvByteReceived == ASSUME IInv, ByteReceived PROVE IInv'
<1> USE DriverAssumption DEF DriverAssumption, IInv, ByteReceived, Signals,
        driver, registers, history
<1>0. /\ rx' \in Streams /\ (rx'.on <=> rx.size > 1) /\ rx'.size = rx.size - 1
      /\ rx.size \in Nat /\ rx.size > 0
  BY Shorter DEF TypeOK, Streams, Sound
<1>1. TypeOK'
  <2>1. tx' \in Streams /\ rx' \in Streams
    BY <1>0 DEF TypeOK, Streams
  <2>2. bus' \in Phases /\ ended' \subseteq {"TX", "RX"} /\ flags' \subseteq Faults
    BY DEF TypeOK, Phases
  <2>3. /\ pc' \in {"OUT", "SPINS", "ASLEEP", "WOKEN"}
        /\ rdymsg' \in {"RDY_OK", "RDY_RESET", "RDY_TIMEOUT"}
    BY DEF TypeOK
  <2>4. /\ state' \in {"STOP", "READY", "ACTIVE", "LOCKED"}
        /\ timer' \in {"off", "armed", "fired"}
    BY DEF TypeOK
  <2>5. /\ thread' \in BOOLEAN /\ errors' \in BOOLEAN /\ reads' \in BOOLEAN
        /\ moved' \in BOOLEAN /\ failed' \in BOOLEAN /\ broken' \in BOOLEAN
    BY DEF TypeOK
  <2>6. itevten' \in BOOLEAN /\ start' \in BOOLEAN /\ stop' \in BOOLEAN
    BY DEF TypeOK
  <2>7. QED
    BY <2>1, <2>2, <2>3, <2>4, <2>5, <2>6 DEF TypeOK
<1>2. Sound'
  BY <1>0 DEF TypeOK, Sound
<1>3. AnswerIsTrue'
  BY <1>1 DEF AnswerIsTrue, TypeOK, Sound, OwnTransfer, InOrder
<1>4. ~broken' => OwnTransfer'
  BY <1>0 DEF OwnTransfer, InOrder, Addressing, TypeOK
<1>5. ~broken' => InOrder'
  BY <1>0 DEF OwnTransfer, InOrder, Addressing, TypeOK
<1>6. QED
  BY <1>1, <1>2, <1>3, <1>4, <1>5

(* A stop condition goes out.                                              *)
LEMMA InvStopSent == ASSUME IInv, StopSent PROVE IInv'
<1> USE DriverAssumption DEF DriverAssumption, IInv, StopSent, driver,
        registers, history
<1>1. TypeOK'
  <2>1. tx' \in Streams /\ rx' \in Streams
    BY DEF TypeOK, Streams
  <2>2. bus' \in Phases /\ ended' \subseteq {"TX", "RX"} /\ flags' \subseteq Faults
    BY DEF TypeOK, Phases
  <2>3. /\ pc' \in {"OUT", "SPINS", "ASLEEP", "WOKEN"}
        /\ rdymsg' \in {"RDY_OK", "RDY_RESET", "RDY_TIMEOUT"}
    BY DEF TypeOK
  <2>4. /\ state' \in {"STOP", "READY", "ACTIVE", "LOCKED"}
        /\ timer' \in {"off", "armed", "fired"}
    BY DEF TypeOK
  <2>5. /\ thread' \in BOOLEAN /\ errors' \in BOOLEAN /\ reads' \in BOOLEAN
        /\ moved' \in BOOLEAN /\ failed' \in BOOLEAN /\ broken' \in BOOLEAN
    BY DEF TypeOK
  <2>6. itevten' \in BOOLEAN /\ start' \in BOOLEAN /\ stop' \in BOOLEAN
    BY DEF TypeOK
  <2>7. QED
    BY <2>1, <2>2, <2>3, <2>4, <2>5, <2>6 DEF TypeOK
<1>2. Sound'
  BY DEF TypeOK, Streams, Sound
<1>3. AnswerIsTrue'
  BY <1>1 DEF AnswerIsTrue, TypeOK, Sound, OwnTransfer, InOrder
<1>4. ~broken' => OwnTransfer'
  BY DEF OwnTransfer, InOrder, Sound, Addressing, TypeOK, Streams
<1>5. ~broken' => InOrder'
  BY DEF OwnTransfer, InOrder, Sound, Addressing, TypeOK, Streams
<1>6. QED
  BY <1>1, <1>2, <1>3, <1>4, <1>5

(* The device stops the clock.                                             *)
LEMMA InvStall == ASSUME IInv, Stall PROVE IInv'
BY DriverAssumption DEF DriverAssumption, IInv, Stall, Signals, driver,
   registers, history, TypeOK, Streams, Phases, Sound, AnswerIsTrue,
   OwnTransfer, InOrder, Addressing

(* EV5: the address follows the start.                                     *)
LEMMA InvMasterModeSelect == ASSUME IInv, MasterModeSelect PROVE IInv'
BY DriverAssumption DEF DriverAssumption, IInv, MasterModeSelect, Signals,
   Event, driver, registers, history, TypeOK, Streams, Phases, Sound,
   AnswerIsTrue, OwnTransfer, InOrder, Addressing

(* EV6: the stream takes over.                                             *)
LEMMA InvModeSelected == ASSUME IInv, ModeSelected PROVE IInv'
<1> USE DriverAssumption DEF DriverAssumption, IInv, ModeSelected, Event,
        driver, registers, history
<1>1. TypeOK'
  <2>1. tx' \in Streams /\ rx' \in Streams
    BY DEF TypeOK, Streams
  <2>2. bus' \in Phases /\ ended' \subseteq {"TX", "RX"} /\ flags' \subseteq Faults
    BY DEF TypeOK, Phases
  <2>3. /\ pc' \in {"OUT", "SPINS", "ASLEEP", "WOKEN"}
        /\ rdymsg' \in {"RDY_OK", "RDY_RESET", "RDY_TIMEOUT"}
    BY DEF TypeOK
  <2>4. /\ state' \in {"STOP", "READY", "ACTIVE", "LOCKED"}
        /\ timer' \in {"off", "armed", "fired"}
    BY DEF TypeOK
  <2>5. /\ thread' \in BOOLEAN /\ errors' \in BOOLEAN /\ reads' \in BOOLEAN
        /\ moved' \in BOOLEAN /\ failed' \in BOOLEAN /\ broken' \in BOOLEAN
    BY DEF TypeOK
  <2>6. itevten' \in BOOLEAN /\ start' \in BOOLEAN /\ stop' \in BOOLEAN
    BY DEF TypeOK
  <2>7. QED
    BY <2>1, <2>2, <2>3, <2>4, <2>5, <2>6 DEF TypeOK
<1>2. Sound'
  BY DEF TypeOK, Streams, Sound
<1>3. AnswerIsTrue'
  BY <1>1 DEF AnswerIsTrue, TypeOK, Sound, OwnTransfer, InOrder
<1>4. ~broken' => OwnTransfer'
  BY DEF OwnTransfer, InOrder, Sound, Addressing, TypeOK, Streams
<1>5. ~broken' => InOrder'
  <2>1. CASE flags # {}
    BY <2>1 DEF OwnTransfer
  <2>2. CASE flags = {} /\ bus = "ADDRTX"
    <3>1. tx \in Streams /\ (~broken => ~tx.on)
      BY <2>2 DEF OwnTransfer, TypeOK
    <3>1a. (tx.on \/ (bus = "ADDRTX" /\ tx.size > 0)) \in BOOLEAN
      OBVIOUS
    <3>2. ~broken => (tx'.on <=> tx.size > 0) /\ tx'.size = tx.size
      BY <2>2, <3>1 DEF Streams
    <3>3. ~broken => (~tx'.on => tx'.size = 0)
      BY <3>1, <3>2 DEF Streams
    <3>4. bus' = "TX" /\ itevten' = FALSE /\ ended' = ended /\ start' = start
      BY <2>2
    <3>5. QED
      BY <2>2, <3>3, <3>4 DEF OwnTransfer, InOrder, Addressing
  <2>3. CASE flags = {} /\ bus = "ADDRRX"
    BY <2>3 DEF OwnTransfer, InOrder, Sound, Addressing, TypeOK
  <2>4. QED
    BY <2>1, <2>2, <2>3
<1>6. QED
  BY <1>1, <1>2, <1>3, <1>4, <1>5

(* EV8_2: the end of a transmission wakes its caller.                      *)
LEMMA InvByteTransmitted == ASSUME IInv, ByteTransmitted PROVE IInv'
<1> USE DriverAssumption DEF DriverAssumption, IInv, ByteTransmitted, Event,
        WakeupIsr, driver, registers, history
<1>1. TypeOK'
  <2>1. tx' \in Streams /\ rx' \in Streams
    BY DEF TypeOK, Streams
  <2>2. bus' \in Phases /\ ended' \subseteq {"TX", "RX"} /\ flags' \subseteq Faults
    BY DEF TypeOK, Phases
  <2>3. /\ pc' \in {"OUT", "SPINS", "ASLEEP", "WOKEN"}
        /\ rdymsg' \in {"RDY_OK", "RDY_RESET", "RDY_TIMEOUT"}
    BY DEF TypeOK
  <2>4. /\ state' \in {"STOP", "READY", "ACTIVE", "LOCKED"}
        /\ timer' \in {"off", "armed", "fired"}
    BY DEF TypeOK
  <2>5. /\ thread' \in BOOLEAN /\ errors' \in BOOLEAN /\ reads' \in BOOLEAN
        /\ moved' \in BOOLEAN /\ failed' \in BOOLEAN /\ broken' \in BOOLEAN
    BY DEF TypeOK
  <2>6. itevten' \in BOOLEAN /\ start' \in BOOLEAN /\ stop' \in BOOLEAN
    BY DEF TypeOK
  <2>7. QED
    BY <2>1, <2>2, <2>3, <2>4, <2>5, <2>6 DEF TypeOK
<1>2. Sound'
  BY DEF TypeOK, Streams, Sound
<1>3. AnswerIsTrue'
  <2>1. CASE rx.size > 0
    BY <1>1, <2>1 DEF AnswerIsTrue, TypeOK
  <2>2. CASE ~(rx.size > 0)
    <3>1. rx.size = 0
      BY <2>2 DEF TypeOK, Streams
    <3>2. thread => moved \/ broken
      BY <3>1 DEF Sound, InOrder
    <3>3. QED
    BY <1>1, <2>2, <3>2 DEF AnswerIsTrue, TypeOK
  <2>3. QED
    BY <2>1, <2>2
<1>4. ~broken' => OwnTransfer'
  <2>1. CASE rx.size > 0
    BY <2>1 DEF OwnTransfer, InOrder, Sound, Addressing, TypeOK, Streams
  <2>2. CASE ~(rx.size > 0)
    BY <2>2 DEF OwnTransfer, InOrder, Sound, Addressing, TypeOK, Streams
  <2>3. QED
    BY <2>1, <2>2

<1>5. ~broken' => InOrder'
  BY DEF OwnTransfer, InOrder, Sound, Addressing, TypeOK, Streams
<1>6. QED
  BY <1>1, <1>2, <1>3, <1>4, <1>5

(* The end of a reception wakes its caller, if it still sleeps.            *)
LEMMA InvRxEnd == ASSUME IInv, RxEnd PROVE IInv'
<1> USE DriverAssumption DEF DriverAssumption, IInv, RxEnd, WakeupIsr,
        Disabled, driver, registers, history
<1>1. TypeOK'
  <2>1. tx' \in Streams /\ rx' \in Streams
    BY DEF TypeOK, Streams
  <2>2. bus' \in Phases /\ ended' \subseteq {"TX", "RX"} /\ flags' \subseteq Faults
    BY DEF TypeOK, Phases
  <2>3. /\ pc' \in {"OUT", "SPINS", "ASLEEP", "WOKEN"}
        /\ rdymsg' \in {"RDY_OK", "RDY_RESET", "RDY_TIMEOUT"}
    BY DEF TypeOK
  <2>4. /\ state' \in {"STOP", "READY", "ACTIVE", "LOCKED"}
        /\ timer' \in {"off", "armed", "fired"}
    BY DEF TypeOK
  <2>5. /\ thread' \in BOOLEAN /\ errors' \in BOOLEAN /\ reads' \in BOOLEAN
        /\ moved' \in BOOLEAN /\ failed' \in BOOLEAN /\ broken' \in BOOLEAN
    BY DEF TypeOK
  <2>6. itevten' \in BOOLEAN /\ start' \in BOOLEAN /\ stop' \in BOOLEAN
    BY DEF TypeOK
  <2>7. QED
    BY <2>1, <2>2, <2>3, <2>4, <2>5, <2>6 DEF TypeOK
<1>2. Sound'
  BY DEF TypeOK, Streams, Sound
<1>3. AnswerIsTrue'
  BY <1>1 DEF AnswerIsTrue, TypeOK, Sound, OwnTransfer, InOrder
<1>4. ~broken' => OwnTransfer'
  BY DEF OwnTransfer, InOrder, Sound, Addressing, TypeOK, Streams
<1>5. ~broken' => InOrder'
  BY DEF OwnTransfer, InOrder, Sound, Addressing, TypeOK, Streams
<1>6. QED
  BY <1>1, <1>2, <1>3, <1>4, <1>5

(* The end of the transmit stream lets BTF through.                        *)
LEMMA InvTxEnd == ASSUME IInv, TxEnd PROVE IInv'
<1> USE DriverAssumption DEF DriverAssumption, IInv, TxEnd, Disabled, driver,
        registers, history
<1>1. TypeOK'
  <2>1. tx' \in Streams /\ rx' \in Streams
    BY DEF TypeOK, Streams
  <2>2. bus' \in Phases /\ ended' \subseteq {"TX", "RX"} /\ flags' \subseteq Faults
    BY DEF TypeOK, Phases
  <2>3. /\ pc' \in {"OUT", "SPINS", "ASLEEP", "WOKEN"}
        /\ rdymsg' \in {"RDY_OK", "RDY_RESET", "RDY_TIMEOUT"}
    BY DEF TypeOK
  <2>4. /\ state' \in {"STOP", "READY", "ACTIVE", "LOCKED"}
        /\ timer' \in {"off", "armed", "fired"}
    BY DEF TypeOK
  <2>5. /\ thread' \in BOOLEAN /\ errors' \in BOOLEAN /\ reads' \in BOOLEAN
        /\ moved' \in BOOLEAN /\ failed' \in BOOLEAN /\ broken' \in BOOLEAN
    BY DEF TypeOK
  <2>6. itevten' \in BOOLEAN /\ start' \in BOOLEAN /\ stop' \in BOOLEAN
    BY DEF TypeOK
  <2>7. QED
    BY <2>1, <2>2, <2>3, <2>4, <2>5, <2>6 DEF TypeOK
<1>2. Sound'
  BY DEF TypeOK, Streams, Sound
<1>3. AnswerIsTrue'
  BY <1>1 DEF AnswerIsTrue, TypeOK, Sound, OwnTransfer, InOrder
<1>4. ~broken' => OwnTransfer'
  BY DEF OwnTransfer, InOrder, Sound, Addressing, TypeOK, Streams
<1>5. ~broken' => InOrder'
  BY DEF OwnTransfer, InOrder, Sound, Addressing, TypeOK, Streams
<1>6. QED
  BY <1>1, <1>2, <1>3, <1>4, <1>5

(* An error wakes the caller with the streams off.                         *)
LEMMA InvErrorInterrupt == ASSUME IInv, ErrorInterrupt PROVE IInv'
<1> USE DriverAssumption DEF DriverAssumption, IInv, ErrorInterrupt, WakeupIsr,
        Disabled, driver, registers, history
<1>1. TypeOK'
  <2>1. tx' \in Streams /\ rx' \in Streams
    BY DEF TypeOK, Streams
  <2>2. bus' \in Phases /\ ended' \subseteq {"TX", "RX"} /\ flags' \subseteq Faults
    BY DEF TypeOK, Phases
  <2>3. /\ pc' \in {"OUT", "SPINS", "ASLEEP", "WOKEN"}
        /\ rdymsg' \in {"RDY_OK", "RDY_RESET", "RDY_TIMEOUT"}
    BY DEF TypeOK
  <2>4. /\ state' \in {"STOP", "READY", "ACTIVE", "LOCKED"}
        /\ timer' \in {"off", "armed", "fired"}
    BY DEF TypeOK
  <2>5. /\ thread' \in BOOLEAN /\ errors' \in BOOLEAN /\ reads' \in BOOLEAN
        /\ moved' \in BOOLEAN /\ failed' \in BOOLEAN /\ broken' \in BOOLEAN
    BY DEF TypeOK
  <2>6. itevten' \in BOOLEAN /\ start' \in BOOLEAN /\ stop' \in BOOLEAN
    BY DEF TypeOK
  <2>7. QED
    BY <2>1, <2>2, <2>3, <2>4, <2>5, <2>6 DEF TypeOK
<1>2. Sound'
  BY DEF TypeOK, Streams, Sound
<1>3. AnswerIsTrue'
  BY <1>1 DEF AnswerIsTrue, TypeOK, Sound, OwnTransfer, InOrder
<1>4. ~broken' => OwnTransfer'
  BY DEF OwnTransfer, InOrder, Sound, Addressing, TypeOK, Streams
<1>5. ~broken' => InOrder'
  BY DEF OwnTransfer, InOrder, Sound, Addressing, TypeOK, Streams
<1>6. QED
  BY <1>1, <1>2, <1>3, <1>4, <1>5

(* The timer gives the bus up only for a sleeping caller.                  *)
LEMMA InvSafetyTimeout == ASSUME IInv, SafetyTimeout PROVE IInv'
<1> USE DriverAssumption DEF DriverAssumption, IInv, SafetyTimeout, WakeupIsr,
        Abort, Disabled, driver, registers, history
<1>1. TypeOK'
  <2>1. tx' \in Streams /\ rx' \in Streams
    BY DEF TypeOK, Streams
  <2>2. bus' \in Phases /\ ended' \subseteq {"TX", "RX"} /\ flags' \subseteq Faults
    BY DEF TypeOK, Phases
  <2>3. /\ pc' \in {"OUT", "SPINS", "ASLEEP", "WOKEN"}
        /\ rdymsg' \in {"RDY_OK", "RDY_RESET", "RDY_TIMEOUT"}
    BY DEF TypeOK
  <2>4. /\ state' \in {"STOP", "READY", "ACTIVE", "LOCKED"}
        /\ timer' \in {"off", "armed", "fired"}
    BY DEF TypeOK
  <2>5. /\ thread' \in BOOLEAN /\ errors' \in BOOLEAN /\ reads' \in BOOLEAN
        /\ moved' \in BOOLEAN /\ failed' \in BOOLEAN /\ broken' \in BOOLEAN
    BY DEF TypeOK
  <2>6. itevten' \in BOOLEAN /\ start' \in BOOLEAN /\ stop' \in BOOLEAN
    BY DEF TypeOK
  <2>7. QED
    BY <2>1, <2>2, <2>3, <2>4, <2>5, <2>6 DEF TypeOK
<1>2. Sound'
  BY DEF TypeOK, Streams, Sound
<1>3. AnswerIsTrue'
  BY <1>1 DEF AnswerIsTrue, TypeOK, Sound, OwnTransfer, InOrder
<1>4. ~broken' => OwnTransfer'
  BY DEF OwnTransfer, InOrder, Sound, Addressing, TypeOK, Streams
<1>5. ~broken' => InOrder'
  BY DEF OwnTransfer, InOrder, Sound, Addressing, TypeOK, Streams
<1>6. QED
  BY <1>1, <1>2, <1>3, <1>4, <1>5

(* The busy-wait ends by the timer.                                        *)
LEMMA InvGiveUp == ASSUME IInv, GiveUp PROVE IInv'
BY DriverAssumption DEF DriverAssumption, IInv, GiveUp, Answer, Quiet, driver,
   registers, history, TypeOK, Streams, Phases, Sound, AnswerIsTrue,
   OwnTransfer, InOrder, Addressing

(* The caller goes to sleep on a free bus.                                 *)
LEMMA InvRequest == ASSUME IInv, Request PROVE IInv'
BY DriverAssumption DEF DriverAssumption, IInv, Request, Busy, Quiet, driver,
   registers, history, TypeOK, Streams, Phases, Sound, AnswerIsTrue,
   OwnTransfer, InOrder, Addressing

(* The caller returns and its timer is reset.                              *)
LEMMA InvReturn == ASSUME IInv, Return PROVE IInv'
BY DriverAssumption DEF DriverAssumption, IInv, Return, Answer, Quiet, driver,
   registers, history, TypeOK, Streams, Phases, Sound, AnswerIsTrue,
   OwnTransfer, InOrder, Addressing

(* i2cStop turns everything off.                                           *)
LEMMA InvStop == ASSUME IInv, Stop PROVE IInv'
BY DriverAssumption DEF DriverAssumption, IInv, Stop, Abort, Disabled, Quiet,
   driver, registers, history, TypeOK, Streams, Phases, Sound, AnswerIsTrue,
   OwnTransfer, InOrder, Addressing

(* i2cStart: a reset peripheral owes nothing to the past.                  *)
LEMMA InvStart == ASSUME IInv, Start PROVE IInv'
BY DriverAssumption DEF DriverAssumption, IInv, Start, Disabled, Quiet, driver,
   registers, history, TypeOK, Streams, Phases, Sound, AnswerIsTrue,
   OwnTransfer, InOrder, Addressing

(* An error flag keeps the caller's transfer from going on.                *)
LEMMA InvFaultRaised ==
  ASSUME IInv, NEW f \in Faults,
         FaultRaised(f)
  PROVE  IInv'
<1> USE DriverAssumption DEF DriverAssumption, IInv, FaultRaised, driver,
        registers, history
<1>1. TypeOK'
  <2>1. tx' \in Streams /\ rx' \in Streams
    BY DEF TypeOK, Streams
  <2>2. bus' \in Phases /\ ended' \subseteq {"TX", "RX"} /\ flags' \subseteq Faults
    BY DEF TypeOK, Phases
  <2>3. /\ pc' \in {"OUT", "SPINS", "ASLEEP", "WOKEN"}
        /\ rdymsg' \in {"RDY_OK", "RDY_RESET", "RDY_TIMEOUT"}
    BY DEF TypeOK
  <2>4. /\ state' \in {"STOP", "READY", "ACTIVE", "LOCKED"}
        /\ timer' \in {"off", "armed", "fired"}
    BY DEF TypeOK
  <2>5. /\ thread' \in BOOLEAN /\ errors' \in BOOLEAN /\ reads' \in BOOLEAN
        /\ moved' \in BOOLEAN /\ failed' \in BOOLEAN /\ broken' \in BOOLEAN
    BY DEF TypeOK
  <2>6. itevten' \in BOOLEAN /\ start' \in BOOLEAN /\ stop' \in BOOLEAN
    BY DEF TypeOK
  <2>7. QED
    BY <2>1, <2>2, <2>3, <2>4, <2>5, <2>6 DEF TypeOK
<1>2. Sound'
  BY DEF TypeOK, Streams, Sound
<1>3. AnswerIsTrue'
  BY <1>1 DEF AnswerIsTrue, TypeOK, Sound, OwnTransfer, InOrder
<1>4. ~broken' => OwnTransfer'
  BY DEF OwnTransfer, InOrder, Sound, Addressing, TypeOK, Streams
<1>5. ~broken' => InOrder'
  BY DEF OwnTransfer, InOrder, Sound, Addressing, TypeOK, Streams
<1>6. QED
  BY <1>1, <1>2, <1>3, <1>4, <1>5

(* A transmission is prepared with the streams off.                        *)
LEMMA InvTransmit ==
  ASSUME IInv, NEW n \in 1 .. Bytes, NEW m \in 0 .. Bytes, NEW timed \in BOOLEAN,
         Transmit(n, m, timed)
  PROVE  IInv'
<1> USE DriverAssumption DEF DriverAssumption, IInv, Transmit, Begin, Sized,
        Quiet, driver, registers, history
<1>1. TypeOK'
  <2>1. tx' \in Streams /\ rx' \in Streams
    BY DEF TypeOK, Streams
  <2>2. bus' \in Phases /\ ended' \subseteq {"TX", "RX"} /\ flags' \subseteq Faults
    BY DEF TypeOK, Phases
  <2>3. /\ pc' \in {"OUT", "SPINS", "ASLEEP", "WOKEN"}
        /\ rdymsg' \in {"RDY_OK", "RDY_RESET", "RDY_TIMEOUT"}
    BY DEF TypeOK
  <2>4. /\ state' \in {"STOP", "READY", "ACTIVE", "LOCKED"}
        /\ timer' \in {"off", "armed", "fired"}
    BY DEF TypeOK
  <2>5. /\ thread' \in BOOLEAN /\ errors' \in BOOLEAN /\ reads' \in BOOLEAN
        /\ moved' \in BOOLEAN /\ failed' \in BOOLEAN /\ broken' \in BOOLEAN
    BY DEF TypeOK
  <2>6. itevten' \in BOOLEAN /\ start' \in BOOLEAN /\ stop' \in BOOLEAN
    BY DEF TypeOK
  <2>7. QED
    BY <2>1, <2>2, <2>3, <2>4, <2>5, <2>6 DEF TypeOK
<1>2. Sound'
  BY DEF TypeOK, Streams, Sound
<1>3. AnswerIsTrue'
  BY <1>1 DEF AnswerIsTrue, TypeOK, Sound, OwnTransfer, InOrder
<1>4. ~broken' => OwnTransfer'
  BY DEF OwnTransfer, InOrder, Sound, Addressing, TypeOK, Streams
<1>5. ~broken' => InOrder'
  BY DEF OwnTransfer, InOrder, Sound, Addressing, TypeOK, Streams
<1>6. QED
  BY <1>1, <1>2, <1>3, <1>4, <1>5

(* So is a reception.                                                      *)
LEMMA InvReceive ==
  ASSUME IInv, NEW n \in 1 .. Bytes, NEW timed \in BOOLEAN,
         Receive(n, timed)
  PROVE  IInv'
<1> USE DriverAssumption DEF DriverAssumption, IInv, Receive, Begin, Sized,
        Quiet, driver, registers, history
<1>1. TypeOK'
  <2>1. tx' \in Streams /\ rx' \in Streams
    BY DEF TypeOK, Streams
  <2>2. bus' \in Phases /\ ended' \subseteq {"TX", "RX"} /\ flags' \subseteq Faults
    BY DEF TypeOK, Phases
  <2>3. /\ pc' \in {"OUT", "SPINS", "ASLEEP", "WOKEN"}
        /\ rdymsg' \in {"RDY_OK", "RDY_RESET", "RDY_TIMEOUT"}
    BY DEF TypeOK
  <2>4. /\ state' \in {"STOP", "READY", "ACTIVE", "LOCKED"}
        /\ timer' \in {"off", "armed", "fired"}
    BY DEF TypeOK
  <2>5. /\ thread' \in BOOLEAN /\ errors' \in BOOLEAN /\ reads' \in BOOLEAN
        /\ moved' \in BOOLEAN /\ failed' \in BOOLEAN /\ broken' \in BOOLEAN
    BY DEF TypeOK
  <2>6. itevten' \in BOOLEAN /\ start' \in BOOLEAN /\ stop' \in BOOLEAN
    BY DEF TypeOK
  <2>7. QED
    BY <2>1, <2>2, <2>3, <2>4, <2>5, <2>6 DEF TypeOK
<1>2. Sound'
  BY DEF TypeOK, Streams, Sound
<1>3. AnswerIsTrue'
  BY <1>1 DEF AnswerIsTrue, TypeOK, Sound, OwnTransfer, InOrder
<1>4. ~broken' => OwnTransfer'
  BY DEF OwnTransfer, InOrder, Sound, Addressing, TypeOK, Streams
<1>5. ~broken' => InOrder'
  BY DEF OwnTransfer, InOrder, Sound, Addressing, TypeOK, Streams
<1>6. QED
  BY <1>1, <1>2, <1>3, <1>4, <1>5

(* Every step keeps the invariant.                                         *)
LEMMA InvNext == IInv /\ [Next]_vars => IInv'
<1> SUFFICES ASSUME IInv, [Next]_vars PROVE IInv'
    OBVIOUS
<1>1. CASE UNCHANGED vars
  BY <1>1 DEF vars, driver, registers, history, IInv, TypeOK, Sound, AnswerIsTrue,
     OwnTransfer, InOrder
<1>2. CASE Hardware
  BY <1>2, InvStartSent, InvAddressAcked, InvByteSent, InvNothingLeft,
     InvByteReceived, InvStopSent DEF Hardware
<1>3. CASE Interrupts
  BY <1>3, InvMasterModeSelect, InvModeSelected, InvByteTransmitted, InvRxEnd,
     InvTxEnd, InvErrorInterrupt DEF Interrupts
<1>4. CASE Caller \/ SafetyTimeout \/ Stop \/ Start \/ Stall
  BY <1>4, InvGiveUp, InvRequest, InvReturn, InvSafetyTimeout, InvStop,
     InvStart, InvStall DEF Caller
<1>5. CASE \E f \in Faults : FaultRaised(f)
  BY <1>5, InvFaultRaised
<1>6. CASE \E timed \in BOOLEAN, n \in 1 .. Bytes :
             \/ \E m \in 0 .. Bytes : Transmit(n, m, timed)
             \/ Receive(n, timed)
  BY <1>6, InvTransmit, InvReceive
<1>7. QED
  BY <1>1, <1>2, <1>3, <1>4, <1>5, <1>6 DEF Next

LEMMA Invariance == Spec => []IInv
BY InvInit, InvNext, PTL DEF Spec

(* The fields of the driver, the registers and the streams keep their      *)
(* types, so no stream ever counts below zero.                             *)
THEOREM TypeCorrect == Spec => []TypeOK
<1>1. IInv => TypeOK
  BY DEF IInv
<1>2. QED
  BY <1>1, Invariance, PTL

(* What a caller of the driver is told is true of its own transfer, for    *)
(* transfers of any length.                                                *)
THEOREM TrueAnswers == Spec => []AnswerIsTrue
<1>1. IInv => AnswerIsTrue
  BY DEF IInv
<1>2. QED
  BY <1>1, Invariance, PTL

(* No timer, thread pointer or stream outlives the call it belongs to.     *)
THEOREM NothingLeftBehind == Spec => []NothingOutlivesTheCall
<1>1. IInv => NothingOutlivesTheCall
  BY DEF IInv, Sound, OwnTransfer, NothingOutlivesTheCall, TypeOK
<1>2. QED
  BY <1>1, Invariance, PTL
=============================================================================

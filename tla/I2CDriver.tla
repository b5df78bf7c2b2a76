----------------------------- MODULE I2CDriver -----------------------------
(***************************************************************************)
(* One I2C bus: the driver (chibios/os/hal/src/i2c.c and its low level     *)
(* part i2c_lld.c) with its event, error and DMA interrupts, the safety    *)
(* timer, and the peripheral with a device that may refuse, disturb or     *)
(* stall a transfer.                                                       *)
(*                                                                         *)
(* The caller owns the bus (i2cAcquireBus), so there is one call at a time.*)
(* Interrupts of the driver share a priority: they do not nest, and no     *)
(* thread runs while one is pending.                                       *)
(***************************************************************************)
EXTENDS Naturals

CONSTANTS
  Bytes,      (* the largest number of bytes of a transfer                 *)
  Faults      (* the error flags the peripheral may raise                  *)

ASSUME DriverAssumption ==
  Bytes \in Nat \ {0} /\ Faults \subseteq {"AF", "ARLO", "BERR"}

VARIABLES
  pc,         (* the caller: outside, in the busy-wait, asleep, woken      *)
  state,      (* i2cp->state, ACTIVE for I2C_ACTIVE_TX and _RX             *)
  thread,     (* i2cp->thread is not NULL                                  *)
  rdymsg,     (* p_u.rdymsg of the caller                                  *)
  timer,      (* the safety timer: off for TIME_INFINITE, armed, fired     *)
  errors,     (* i2cp->errors is not zero                                  *)
  reads,      (* bit 0 of i2cp->addr                                       *)
  tx, rx,     (* the DMA streams: enabled, and what is left to move        *)
  ended,      (* DMA streams whose end interrupt is pending                *)
  itevten, start, stop,  (* bits of CR2 and CR1                            *)
  flags,      (* error flags of SR1                                        *)
  bus,        (* what the bus is at, with the event flags of SR1           *)
  moved,      (* history: the device took or gave every byte of the call   *)
  failed,     (* history: an error flag was raised since the call began    *)
  broken      (* history: a bus error was flagged since the last start     *)

driver == <<state, thread, rdymsg, timer, errors, reads>>
registers == <<itevten, start, stop>>
history == <<moved, failed, broken>>
vars == <<pc, driver, tx, rx, ended, registers, flags, bus, history>>

(* SB and ADDR after a start, BTF when nothing is left to send, NACK after *)
(* a refused byte, FULL when every byte was received.                      *)
Phases == {"FREE", "SB", "CALLTX", "CALLRX", "ADDRTX", "ADDRRX", "TX", "BTF", "RX",
           "FULL", "NACK", "STALLED"}

Streams == [on : BOOLEAN, size : 0 .. Bytes]

TypeOK ==
  /\ pc \in {"OUT", "SPINS", "ASLEEP", "WOKEN"}
  /\ state \in {"STOP", "READY", "ACTIVE", "LOCKED"}
  /\ rdymsg \in {"RDY_OK", "RDY_RESET", "RDY_TIMEOUT"}
  /\ timer \in {"off", "armed", "fired"}
  /\ thread \in BOOLEAN /\ errors \in BOOLEAN /\ reads \in BOOLEAN
  /\ itevten \in BOOLEAN /\ start \in BOOLEAN /\ stop \in BOOLEAN
  /\ moved \in BOOLEAN /\ failed \in BOOLEAN /\ broken \in BOOLEAN
  /\ tx \in Streams /\ rx \in Streams
  /\ ended \subseteq {"TX", "RX"}
  /\ flags \subseteq Faults
  /\ bus \in Phases

Idle == [on |-> FALSE, size |-> 0]

(* i2c_lld_init and i2c_lld_start.                                         *)
Init ==
  /\ pc = "OUT" /\ state = "READY" /\ rdymsg = "RDY_OK" /\ timer = "off"
  /\ thread = FALSE /\ errors = FALSE /\ reads = FALSE
  /\ tx = Idle /\ rx = Idle /\ ended = {} /\ flags = {}
  /\ itevten = FALSE /\ start = FALSE /\ stop = FALSE
  /\ bus = "FREE"
  /\ moved = FALSE /\ failed = FALSE /\ broken = FALSE

Disabled(stream) == [stream EXCEPT !.on = FALSE]

(* dmaStreamSetTransactionSize: no effect on an enabled stream.            *)
Sized(stream, n) == IF stream.on THEN stream ELSE [stream EXCEPT !.size = n]
-----------------------------------------------------------------------------
(* The peripheral and the device on the bus.                               *)

Signals(phase) == bus' = phase /\ UNCHANGED <<pc, driver, registers>>

(* A requested start is sent on a free bus or after the last byte.         *)
StartSent ==
  /\ start /\ bus \in {"FREE", "BTF"}
  /\ bus' = "SB" /\ start' = FALSE
  /\ UNCHANGED <<pc, driver, tx, rx, ended, itevten, stop, flags, history>>

AddressAcked ==
  /\ bus \in {"CALLTX", "CALLRX"}
  /\ Signals(IF bus = "CALLTX" THEN "ADDRTX" ELSE "ADDRRX")
  /\ UNCHANGED <<tx, rx, ended, flags, history>>

(* The stream gives a byte to the peripheral; with the last one it is      *)
(* disabled by the hardware and its interrupt becomes pending.             *)
ByteSent ==
  /\ bus = "TX" /\ tx.on
  /\ tx' = [on |-> tx.size > 1, size |-> tx.size - 1]
  /\ ended' = IF tx.size = 1 THEN ended \cup {"TX"} ELSE ended
  /\ UNCHANGED <<pc, driver, rx, registers, flags, bus, history>>

(* The device has taken what it was sent, and no stream brings more.       *)
NothingLeft ==
  /\ bus = "TX" /\ ~tx.on
  /\ Signals("BTF")
  /\ moved' = (moved \/ (tx.size = 0 /\ rx.size = 0))
  /\ UNCHANGED <<tx, rx, ended, flags, failed, broken>>

ByteReceived ==
  /\ bus = "RX" /\ rx.on
  /\ rx' = [on |-> rx.size > 1, size |-> rx.size - 1]
  /\ IF rx.size = 1
     THEN /\ Signals("FULL")
          /\ ended' = ended \cup {"RX"} /\ moved' = TRUE
     ELSE /\ Signals("RX")
          /\ UNCHANGED <<ended, moved>>
  /\ UNCHANGED <<tx, flags, failed, broken>>

(* A requested stop frees the bus.                                         *)
StopSent ==
  /\ stop /\ bus \notin {"STALLED", "RX"}
  /\ bus' = "FREE" /\ stop' = FALSE
  /\ UNCHANGED <<pc, driver, tx, rx, ended, itevten, start, flags, history>>

(* Acknowledge failure, lost arbitration, bus error.  The first leaves the *)
(* bus to be stopped, the second to somebody else until it is free, the    *)
(* third as it is.  There is one bus error at most between two starts of   *)
(* the driver: a line that raises them for ever keeps all threads out.     *)
FaultRaised(f) ==
  /\ CASE f = "AF"   -> bus \in {"CALLTX", "CALLRX", "TX"} /\ bus' = "NACK"
       [] f = "ARLO" -> bus \in {"CALLTX", "CALLRX", "TX"} /\ bus' = "FREE"
       [] f = "BERR" -> bus \notin {"FREE", "STALLED"} /\ ~broken /\ bus' = bus
  /\ flags' = flags \cup {f}
  /\ failed' = TRUE
  /\ broken' = (broken \/ f = "BERR")
  /\ UNCHANGED <<pc, driver, tx, rx, ended, registers, moved>>

(* The device holds the clock and never lets go.                           *)
Stall ==
  /\ bus \in {"CALLTX", "CALLRX", "TX", "RX"}
  /\ Signals("STALLED")
  /\ UNCHANGED <<tx, rx, ended, flags, history>>

Hardware ==
  StartSent \/ AddressAcked \/ ByteSent \/ NothingLeft \/ ByteReceived \/ StopSent
-----------------------------------------------------------------------------
(* wakeup_isr.                                                             *)
WakeupIsr(msg) ==
  IF thread
  THEN thread' = FALSE /\ rdymsg' = msg /\ pc' = "WOKEN"
  ELSE UNCHANGED <<thread, rdymsg, pc>>

Event == itevten /\ bus \in {"SB", "ADDRTX", "ADDRRX", "BTF"}

(* i2c_lld_serve_event_interrupt.  The event must match exactly: with an   *)
(* error flag beside it nothing is done but to clear ADDR.                 *)
MasterModeSelect ==
  /\ Event /\ bus = "SB" /\ flags = {}
  /\ Signals(IF reads THEN "CALLRX" ELSE "CALLTX")
  /\ UNCHANGED <<tx, rx, ended, flags, history>>

ModeSelected ==
  /\ Event /\ bus \in {"ADDRTX", "ADDRRX"}
  /\ bus' = IF bus = "ADDRTX" THEN "TX" ELSE "RX"
  /\ IF flags # {} THEN UNCHANGED <<tx, rx, itevten>>
     ELSE /\ itevten' = FALSE
          /\ tx' = [tx EXCEPT !.on = @ \/ (bus = "ADDRTX" /\ tx.size > 0)]
          /\ rx' = [rx EXCEPT !.on = @ \/ (bus = "ADDRRX" /\ rx.size > 0)]
  /\ UNCHANGED <<pc, driver, ended, start, stop, flags, history>>

(* Mutant: the transfer is over once the bytes are written.                *)
ByteTransmittedEnds ==
  /\ Event /\ bus = "BTF" /\ flags = {}
  /\ itevten' = FALSE /\ stop' = TRUE
  /\ WakeupIsr("RDY_OK")
  /\ UNCHANGED <<state, timer, errors, reads, tx, rx, ended, start, flags, bus, history>>

(* End of the transmission: a read after write starts again.               *)
ByteTransmitted ==
  /\ Event /\ bus = "BTF" /\ flags = {}
  /\ IF rx.size > 0
     THEN /\ reads' = TRUE /\ start' = TRUE
          /\ UNCHANGED <<pc, thread, rdymsg, itevten, stop>>
     ELSE /\ itevten' = FALSE /\ stop' = TRUE
          /\ WakeupIsr("RDY_OK")
          /\ UNCHANGED <<reads, start>>
  /\ UNCHANGED <<state, timer, errors, tx, rx, ended, flags, bus, history>>

(* i2c_lld_serve_rx_end_irq.                                               *)
RxEnd ==
  /\ "RX" \in ended
  /\ ended' = ended \ {"RX"}
  /\ rx' = Disabled(rx)
  /\ stop' = TRUE
  /\ WakeupIsr("RDY_OK")
  /\ UNCHANGED <<state, timer, errors, reads, tx, itevten, start, flags, bus, history>>

(* i2c_lld_serve_tx_end_irq.                                               *)
TxEnd ==
  /\ "TX" \in ended
  /\ ended' = ended \ {"TX"}
  /\ tx' = Disabled(tx)
  /\ itevten' = TRUE
  /\ UNCHANGED <<pc, driver, rx, start, stop, flags, bus, history>>

(* i2c_lld_serve_error_interrupt.                                          *)
ErrorInterrupt ==
  /\ flags # {}
  /\ tx' = Disabled(tx) /\ rx' = Disabled(rx)
  /\ flags' = {}
  /\ IF "AF" \in flags THEN itevten' = FALSE /\ stop' = TRUE
     ELSE UNCHANGED <<itevten, stop>>
  /\ errors' = TRUE
  /\ WakeupIsr("RDY_RESET")
  /\ UNCHANGED <<state, timer, reads, ended, start, bus, history>>

Interrupts ==
  MasterModeSelect \/ ModeSelected \/ ByteTransmitted \/ RxEnd \/ TxEnd \/ ErrorInterrupt

Quiet == ~Event /\ ended = {} /\ flags = {}

(* i2c_lld_abort_operation: the peripheral lets go of the bus.             *)
Abort ==
  /\ itevten' = FALSE /\ start' = FALSE /\ stop' = FALSE /\ flags' = {}
  /\ tx' = Disabled(tx) /\ rx' = Disabled(rx)
  /\ bus' = IF bus = "STALLED" THEN bus ELSE "FREE"

(* i2c_lld_safety_timeout.                                                 *)
SafetyTimeout ==
  /\ timer = "armed" /\ timer' = "fired"
  /\ IF thread THEN Abort ELSE UNCHANGED <<tx, rx, registers, flags, bus>>
  /\ WakeupIsr("RDY_TIMEOUT")
  /\ UNCHANGED <<state, errors, reads, ended, history>>
-----------------------------------------------------------------------------
(* The caller.                                                             *)

(* i2cMasterTransmitTimeout and i2cMasterReceiveTimeout up to the busy-    *)
(* wait.  A transmission sets both streams, a reception only its own.      *)
Begin(timed) ==
  /\ pc = "OUT" /\ state = "READY" /\ Quiet
  /\ pc' = "SPINS" /\ state' = "ACTIVE"
  /\ timer' = IF timed THEN "armed" ELSE "off"
  /\ errors' = FALSE
  /\ moved' = FALSE /\ failed' = FALSE
  /\ UNCHANGED <<thread, rdymsg, ended, registers, flags, bus, broken>>

Transmit(txbytes, rxbytes, timed) ==
  /\ Begin(timed)
  /\ reads' = FALSE
  /\ tx' = Sized(tx, txbytes) /\ rx' = Sized(rx, rxbytes)

Receive(rxbytes, timed) ==
  /\ Begin(timed)
  /\ reads' = TRUE
  /\ rx' = Sized(rx, rxbytes) /\ UNCHANGED tx

Busy == bus # "FREE" \/ stop

(* Back in the high level function: RDY_TIMEOUT locks the driver.          *)
Answer(msg) ==
  /\ pc' = "OUT" /\ timer' = "off"
  /\ state' = IF msg = "RDY_TIMEOUT" THEN "LOCKED" ELSE "READY"

(* Mutant: the timer is not looked at in the busy-wait.                    *)
GiveUpNever == FALSE /\ UNCHANGED vars

(* The timer fired before the transfer began, in the busy-wait or between  *)
(* its end and the lock.                                                   *)
GiveUp ==
  /\ pc = "SPINS" /\ timer = "fired" /\ Quiet
  /\ rdymsg' = "RDY_TIMEOUT"
  /\ Answer("RDY_TIMEOUT")
  /\ UNCHANGED <<thread, errors, reads, tx, rx, ended, registers, flags, bus, history>>

(* The start is requested and the caller sleeps, with the kernel locked.   *)
Request ==
  /\ pc = "SPINS" /\ timer # "fired" /\ Quiet
  /\ ~Busy
  /\ pc' = "ASLEEP" /\ thread' = TRUE
  /\ itevten' = TRUE /\ start' = TRUE
  /\ UNCHANGED <<state, rdymsg, timer, errors, reads, tx, rx, ended, stop, flags, bus,
                 history>>

(* Mutant: the timer is left to itself.                                    *)
ReturnArmed ==
  /\ pc = "WOKEN" /\ Quiet
  /\ pc' = "OUT" /\ state' = IF rdymsg = "RDY_TIMEOUT" THEN "LOCKED" ELSE "READY"
  /\ UNCHANGED <<timer, thread, rdymsg, errors, reads, tx, rx, ended, registers, flags, bus,
                 history>>

(* The caller runs again, resets an armed timer and returns.               *)
Return ==
  /\ pc = "WOKEN" /\ Quiet
  /\ Answer(rdymsg)
  /\ UNCHANGED <<thread, rdymsg, errors, reads, tx, rx, ended, registers, flags, bus, history>>

(* i2cStop.                                                                *)
Stop ==
  /\ pc = "OUT" /\ state \in {"READY", "LOCKED"} /\ Quiet
  /\ state' = "STOP"
  /\ Abort
  /\ UNCHANGED <<pc, thread, rdymsg, timer, errors, reads, ended, history>>

(* i2cStart of a stopped or locked driver: the peripheral is reset, and    *)
(* dmaStreamSetMode leaves the streams disabled.                           *)
Start ==
  /\ pc = "OUT" /\ state \in {"STOP", "LOCKED"} /\ Quiet
  /\ state' = "READY"
  /\ itevten' = FALSE /\ start' = FALSE /\ stop' = FALSE
  /\ bus' = IF bus = "STALLED" THEN bus ELSE "FREE"
  /\ tx' = Disabled(tx) /\ rx' = Disabled(rx)
  /\ broken' = FALSE
  /\ UNCHANGED <<pc, thread, rdymsg, timer, errors, reads, ended, flags, moved, failed>>

Caller == GiveUp \/ Request \/ Return

Next ==
  \/ Hardware \/ Interrupts \/ SafetyTimeout \/ Caller \/ Stop \/ Start \/ Stall
  \/ \E f \in Faults : FaultRaised(f)
  \/ \E timed \in BOOLEAN, n \in 1 .. Bytes :
       \/ \E m \in 0 .. Bytes : Transmit(n, m, timed)
       \/ Receive(n, timed)

(* The peripheral goes on, an interrupt is served, the timer runs out and  *)
(* the caller gets the processor; nobody has to fail, stall or call.       *)
Spec ==
  /\ Init /\ [][Next]_vars
  /\ WF_vars(Hardware) /\ WF_vars(Interrupts) /\ WF_vars(SafetyTimeout) /\ WF_vars(Caller)
-----------------------------------------------------------------------------
(* The answer a caller wakes up with is about its own transfer: OK when    *)
(* every byte was moved, an error when one was flagged and kept for        *)
(* i2cGetErrors, a timeout when its own timer fired.  Interrupts of an     *)
(* earlier transfer, a late timer and the two causes of one wake-up are in *)
(* the way.                                                                *)
AnswerIsTrue ==
  /\ TypeOK
  /\ pc = "WOKEN" =>
       /\ rdymsg = "RDY_OK" => moved \/ broken
       /\ rdymsg = "RDY_RESET" => failed /\ errors
       /\ rdymsg = "RDY_TIMEOUT" => timer = "fired"

(* Nothing of a call is left when it returns: the timer and the buffers    *)
(* are on its stack.  A bus error is the exception, after which the        *)
(* peripheral goes on with the transfer its caller was told has failed.    *)
NothingOutlivesTheCall ==
  /\ pc = "OUT" => timer = "off" /\ ~thread
  /\ (tx.on \/ rx.on) /\ ~broken => pc = "ASLEEP"
  /\ thread <=> pc = "ASLEEP"

(* Every call ends, with a timeout whatever the device does, and without   *)
(* one unless the device stalls or a bus error leaves the bus busy.        *)
CallsEnd ==
  pc # "OUT" ~> (pc = "OUT" \/ (timer = "off" /\ (bus = "STALLED" \/ broken)))
=============================================================================

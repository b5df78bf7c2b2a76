-------------------------------- MODULE MMC --------------------------------
(***************************************************************************)
(* The driver of the memory card (chibios/os/hal/src/mmc_spi.c) over an    *)
(* SPI port, and the card, which may be missing and may leave any command  *)
(* unanswered.  Only the shell thread calls the driver, so a call between  *)
(* two waits is one action.  The program never writes to the card.         *)
(***************************************************************************)
EXTENDS Naturals, Sequences

CONSTANTS
  Cards,
  HighCapacity, (* the cards that are addressed by blocks                  *)
  NoCard

ASSUME CardAssumption == HighCapacity \subseteq Cards /\ NoCard \notin Cards

VARIABLES
  card,       (* in the socket, or NoCard                                  *)
  state,      (* mmcp->state, without BLK_                                 *)
  block_addresses,
  spi,        (* the port: stopped, at low or at full speed                *)
  failed      (* history: a read has failed since the last mmcConnect      *)

mmc == <<card, state, block_addresses, spi, failed>>

MMCTypeOK ==
  /\ card \in Cards \cup {NoCard}
  /\ state \in {"ACTIVE", "CONNECTING", "READY", "READING", "DISCONNECTING"}
  /\ spi \in {"STOP", "SLOW", "FULL"}
  /\ block_addresses \in BOOLEAN /\ failed \in BOOLEAN

(* mmcObjectInit and mmcStart.                                             *)
MMCInit ==
  /\ card \in Cards \cup {NoCard}
  /\ state = "ACTIVE" /\ block_addresses = FALSE /\ spi = "STOP"
  /\ failed = FALSE

(* The addresses that the driver sends are those the card expects.         *)
Addressed == block_addresses = (card \in HighCapacity)

(* The start of mmcConnect.                                                *)
ConnectBegins ==
  /\ state' = "CONNECTING" /\ spi' = "SLOW" /\ failed' = FALSE
  /\ UNCHANGED <<card, block_addresses>>

(* Its end: the card is initialised, or something went wrong before or     *)
(* after its kind was found.  block_addresses is set and never reset.  An  *)
(* OCR that gets lost is read as ones, and says blocks.                    *)
ConnectEnds ==
  \E ok, blocks \in BOOLEAN :
    /\ ok \/ blocks => card # NoCard
    /\ ok /\ card \in HighCapacity => blocks
    /\ block_addresses' = (block_addresses \/ blocks)
    /\ IF ok THEN state' = "READY" /\ spi' = "FULL"
             ELSE state' = "ACTIVE" /\ spi' = "STOP"
    /\ UNCHANGED <<card, failed>>

(* Mutant: a card that is not connected is waited for as well.             *)
DisconnectAlways ==
  /\ state' = "DISCONNECTING"
  /\ UNCHANGED <<card, block_addresses, spi, failed>>

(* mmcDisconnect: at once when nothing is connected, else up to sync().    *)
DisconnectBegins ==
  IF state = "ACTIVE" THEN UNCHANGED mmc
  ELSE /\ state' = "DISCONNECTING"
       /\ UNCHANGED <<card, block_addresses, spi, failed>>

(* After sync(), which needs a port that runs.                             *)
DisconnectEnds ==
  /\ spi # "STOP"
  /\ state' = "ACTIVE" /\ spi' = "STOP"
  /\ UNCHANGED <<card, block_addresses, failed>>

(* disk_read of a sector of a card that is READY: the three calls for a    *)
(* sequential read.  A failure of the first or second stops the port and   *)
(* leaves the state as it is.                                              *)
ReadSucceeds ==
  /\ state = "READY" /\ card # NoCard
  /\ spi' = "FULL"
  /\ UNCHANGED <<card, state, block_addresses, failed>>

ReadFails ==
  /\ state = "READY"
  /\ state' = "READING" /\ spi' = "STOP" /\ failed' = TRUE
  /\ UNCHANGED <<card, block_addresses>>

(* A card is put in or taken out.                                          *)
Exchange ==
  /\ card' \in (Cards \cup {NoCard}) \ {card}
  /\ UNCHANGED <<state, block_addresses, spi, failed>>
=============================================================================

-------------------------------- MODULE Card --------------------------------
(***************************************************************************)
(* The shell's commands for the memory card (shellCommands.c), the walk    *)
(* through its directories (fsInit.c) and what FatFs (ff.c) keeps of the   *)
(* volume between two calls.  The path of the walk is a sequence of names  *)
(* and separators.                                                         *)
(***************************************************************************)
EXTENDS MMC, SequencesExt

CONSTANTS
  Names, Directories, Hidden, (* Hidden: those that begin with a dot       *)
  Contents,   (* the entries of each directory, which is the sequence of   *)
              (* the names that lead to it                                 *)
  MaxEntries  (* bound on what is read of a directory at a wrong address   *)

Separator == "/"

ASSUME NamesAssumption ==
  /\ MaxEntries \in Nat
  /\ Directories \cup Hidden \subseteq Names /\ Separator \notin Names
  /\ \A place \in DOMAIN Contents : Contents[place] \in Seq(Names)

VARIABLES
  at,         (* what the shell is doing                                   *)
  fs_ready,
  volume,     (* the card FatFs took its parameters from, NoCard if        *)
              (* fs_type is 0                                              *)
  path,       (* fbuff                                                     *)
  calls,      (* the calls of scan_files, the outermost first: the         *)
              (* directory that was opened, the entries read, and i        *)
  line        (* what was printed last, and the file it stands for         *)

walk == <<path, calls, line>>
cardVars == <<mmc, at, fs_ready, volume, walk>>

CardInit ==
  /\ MMCInit
  /\ at = "PROMPT" /\ fs_ready = FALSE /\ volume = NoCard
  /\ path = <<>> /\ calls = <<>> /\ line = [shown |-> <<>>, file |-> <<>>]
-----------------------------------------------------------------------------
(* cmd_mount: mmcConnect, whose answer is not looked at, then f_mount,     *)
(* which does not touch the card.                                          *)
Mount ==
  /\ at = "PROMPT" /\ at' = "CONNECT"
  /\ ConnectBegins
  /\ UNCHANGED <<fs_ready, volume, walk>>

Connected ==
  /\ at = "CONNECT" /\ at' = "F_MOUNT"
  /\ ConnectEnds
  /\ UNCHANGED <<fs_ready, volume, walk>>

(* Mutant: a volume that is known stays known.                             *)
FMountKeeps ==
  /\ at = "F_MOUNT" /\ at' = "PROMPT"
  /\ fs_ready' = TRUE
  /\ UNCHANGED <<mmc, volume, walk>>

FMount ==
  /\ at = "F_MOUNT" /\ at' = "PROMPT"
  /\ volume' = NoCard /\ fs_ready' = TRUE
  /\ UNCHANGED <<mmc, walk>>

(* cmd_unmount.                                                            *)
Unmount ==
  /\ at = "PROMPT"
  /\ DisconnectBegins
  /\ IF state = "ACTIVE" THEN at' = "PROMPT" /\ fs_ready' = FALSE
                         ELSE at' = "SYNC" /\ UNCHANGED fs_ready
  /\ UNCHANGED <<volume, walk>>

Disconnected ==
  /\ at = "SYNC" /\ at' = "PROMPT"
  /\ DisconnectEnds
  /\ fs_ready' = FALSE
  /\ UNCHANGED <<volume, walk>>
-----------------------------------------------------------------------------
(* cmd_tree, with a mounted file system.                                   *)
Tree ==
  /\ at = "PROMPT" /\ fs_ready
  /\ at' = "GETFREE"
  /\ UNCHANGED <<mmc, fs_ready, volume, walk>>

(* The command returns to the prompt after an error: a card that is not    *)
(* READY, a failed read, no file system, or no memory for a long name.     *)
GivesUp ==
  /\ at' = "PROMPT" /\ path' = <<>> /\ calls' = <<>>
  /\ UNCHANGED <<fs_ready, line>>

(* chk_mounted: the known volume is good while the card is READY, else the *)
(* boot sector, at address 0 in bytes and in blocks, is read.  A failed    *)
(* read of the FSINFO sector is passed over, and the count that follows    *)
(* fails.                                                                  *)
Known == volume # NoCard /\ state = "READY"

CheckFails ==
  /\ ~Known
  /\ \/ state # "READY" /\ UNCHANGED mmc /\ volume' = NoCard
     \/ ReadFails /\ volume' \in {NoCard, card}
     \/ ReadSucceeds /\ volume' = NoCard
  /\ GivesUp

CheckSucceeds ==
  IF Known THEN UNCHANGED <<mmc, volume>>
  ELSE ReadSucceeds /\ volume' = card

(* A further sector is needed or is in the window already.                 *)
ReadOrKept == ReadSucceeds \/ UNCHANGED mmc

ReadError ==
  /\ Known
  /\ ReadFails \/ UNCHANGED mmc
  /\ UNCHANGED volume
  /\ GivesUp

(* f_getfree: the volume is checked and its free clusters are counted.     *)
GetFree ==
  /\ at = "GETFREE"
  /\ \/ CheckFails
     \/ ReadError
     \/ /\ CheckSucceeds /\ at' = "OPEN"
        /\ path' = <<>> /\ UNCHANGED <<fs_ready, calls, line>>

(* The path as FatFs follows it: separators in a row count as one.         *)
Place(p) ==
  LET names[k \in 0 .. Len(p)] ==
        IF k = 0 THEN <<>>
        ELSE IF p[k] = Separator THEN names[k - 1] ELSE Append(names[k - 1], p[k])
  IN  names[Len(p)]

(* f_opendir at the head of scan_files, of a volume that is known.         *)
Open ==
  /\ at = "OPEN"
  /\ \/ ReadError
     \/ /\ Known /\ ReadOrKept /\ at' = "READDIR"
        /\ calls' = Append(calls, [dir |-> Place(path), read |-> 0, i |-> Len(path)])
        /\ UNCHANGED <<fs_ready, volume, path, line>>

Top == Last(calls)

(* The next entry.  Under a wrong addressing it is anything.               *)
Entry(name) ==
  IF Addressed
  THEN /\ Top.read < Len(Contents[Top.dir])
       /\ name = Contents[Top.dir][Top.read + 1]
  ELSE /\ Top.read < MaxEntries
       /\ Append(Top.dir, name) \in DOMAIN Contents \/ name \notin Directories

(* f_readdir fails: scan_files returns, and so do all its callers.         *)
ReadDirFails ==
  /\ at = "READDIR"
  /\ ReadError

NextCall == [calls EXCEPT ![Len(calls)].read = @ + 1]

(* A directory: path[i++] = '/', its name with another separator, and      *)
(* scan_files again.                                                       *)
EnterDirectory(name) ==
  /\ path' = SubSeq(path, 1, Top.i) \o <<Separator, Separator, name>>
  /\ calls' = [NextCall EXCEPT ![Len(calls)].i = @ + 1]
  /\ at' = "OPEN"

ReadDir(name) ==
  /\ at = "READDIR" /\ Known /\ ReadOrKept
  /\ Entry(name)
  /\ \/ /\ name \in Hidden
        /\ calls' = NextCall /\ UNCHANGED <<at, path, line>>
     \/ /\ name \in Directories \ Hidden
        /\ EnterDirectory(name) /\ UNCHANGED line
     \/ /\ name \in Names \ (Directories \cup Hidden)
        /\ line' = [shown |-> Place(path \o <<Separator, name>>),
                    file |-> Append(Top.dir, name)]
        /\ calls' = NextCall /\ UNCHANGED <<at, path>>
  /\ UNCHANGED <<fs_ready, volume>>

(* Mutant: the path is not cut after the call.                             *)
LeaveUncut ==
  /\ calls' = Front(calls)
  /\ IF Len(calls) = 1 THEN at' = "PROMPT" /\ path' = <<>>
                       ELSE UNCHANGED <<at, path>>

(* Return to the caller: path[i] = 0.                                      *)
LeaveDirectory ==
  /\ calls' = Front(calls)
  /\ IF Len(calls) = 1 THEN at' = "PROMPT" /\ path' = <<>>
     ELSE at' = at /\ path' = SubSeq(path, 1, Last(calls').i)

(* The end of the directory.                                               *)
ReadDirEnds ==
  /\ at = "READDIR" /\ Known /\ ReadOrKept
  /\ ~Addressed \/ Top.read = Len(Contents[Top.dir])
  /\ LeaveDirectory
  /\ UNCHANGED <<fs_ready, volume, line>>
-----------------------------------------------------------------------------
(* As the user is told to, cards are changed while none is mounted.        *)
ChangeCard ==
  /\ at = "PROMPT" /\ ~fs_ready
  /\ Exchange
  /\ UNCHANGED <<at, fs_ready, volume, walk>>

Goes ==
  \/ Connected \/ FMount \/ Disconnected \/ GetFree \/ Open
  \/ ReadDirFails \/ (\E name \in Names : ReadDir(name)) \/ ReadDirEnds

CardNext == Mount \/ Unmount \/ Tree \/ ChangeCard \/ Goes

(* The retries of mmcConnect and the waits for data are counted, and no    *)
(* card keeps its line low for ever: a command goes on.                    *)
CardSpec == CardInit /\ [][CardNext]_cardVars /\ WF_cardVars(Goes)
-----------------------------------------------------------------------------
(* What tree shows is read from the card in the socket: neither what FatFs *)
(* keeps of an earlier card, nor a mount that failed, nor a failed read    *)
(* before lets it walk another volume or a stopped port.                   *)
ListingIsTheCards ==
  /\ MMCTypeOK
  /\ at \in {"OPEN", "READDIR"} => Known /\ volume = card /\ spi = "FULL"

(* A file is shown where it is, though all directories share one buffer    *)
(* for the path, each leaves a separator behind, and i is kept from one    *)
(* entry to the next.                                                      *)
ListedWhereTheyAre == line.shown = line.file

(* Every command comes back to the prompt, whatever the card refuses, but  *)
(* for an unmount after a failed read: the driver has stopped the port in  *)
(* the state READING, and sync() waits on it for ever.                     *)
CommandsEnd == at # "PROMPT" ~> at = "PROMPT" \/ (at = "SYNC" /\ failed)
=============================================================================

---------------------------- MODULE FirmwareLoader ----------------------------
(***************************************************************************)
(* The sensor hub's firmware loader (hardware-moto-sensors/motosh_bin):    *)
(* "motosh boot", run at every start of the phone, compares the firmware   *)
(* in the file system with the one in the hub and downloads it where they  *)
(* differ.  The phone may go down at any moment, every request to the      *)
(* driver may fail, and the file an application installed may be damaged.  *)
(*                                                                         *)
(* A byte is a number.  The CRC is taken to tell all flash contents apart: *)
(* it is modelled by the bytes it is computed over.  The hub, its flash and*)
(* its boot code are external: a hub whose flash holds no complete firmware*)
(* answers nothing.                                                        *)
(***************************************************************************)
EXTENDS Integers, Sequences, FiniteSets, SequencesExt

CONSTANTS
  FLASH_SIZE,     \* bytes of flash
  PacketLength,   \* STM_MAX_PACKET_LENGTH
  Align,          \* packets are a multiple of this many bytes
  Firmware,       \* the firmware files there may be: [ver, data]
  Stock,          \* the one of the system, a member of Firmware
  BlackList       \* the firmware the system asks to be deleted

FLASH_FILL == 255
STM_DOWNLOADRETRIES == 3

None == [ver |-> "none", data |-> <<>>]

\* None stands for the absence of a file, and is none.  The flash is no multiple of
\* Align (0x0FFFFF bytes, packets of 8): what fills up the last packet may lie behind
\* the bytes that count.
ASSUME LoaderAssumption ==
  /\ FLASH_SIZE \in Nat /\ Align \in Nat \ {0} /\ PacketLength \in Nat \ {0}
  /\ PacketLength % Align = 0
  /\ Stock \in Firmware /\ None \notin Firmware
  /\ \A f \in Firmware : f.data \in Seq(0 .. 255) /\ Len(f.data) <= FLASH_SIZE

VARIABLES
  apk,       \* the firmware an application installed, or None
  flash,     \* the hub's flash
  hubMode,   \* "reset", "bootloader" or "normal"
  hubAddr,   \* where the bootloader writes next
  ld,        \* the loader: where it is, its file, how far it has read it, and (history)
             \* whether a packet of this download was written in part only
  booted,    \* hw.motosh.booted
  antcap     \* the antenna's capacity sensor: enabled, and its calibration

lvars == <<apk, flash, hubMode, hubAddr, ld, booted, antcap>>

Erased == [i \in 1 .. FLASH_SIZE |-> FLASH_FILL]
Idle   == [pc |-> "idle", file |-> None, force |-> FALSE, pos |-> 0, tries |-> 0,
           ok |-> FALSE, short |-> FALSE]

\* What calculateFileCrc32 is computed over: the file, filled up.
Image(f) == [i \in 1 .. FLASH_SIZE |-> IF i <= Len(f.data) THEN f.data[i] ELSE FLASH_FILL]

\* CRC32.c: calculateFileCrc32 of a file, and the hub's own over its flash.
calculateFileCrc32(f) == Image(f)
Programmed == {f \in Firmware : Image(f) = flash}

-------------------------------------------------------------------------------
(* Requests to the hub.  A request that fails changes nothing.             *)

\* getFlashCrc, getVersionStr: nothing from a hub that is not running.
Answers   == hubMode = "normal" /\ Programmed # {}
getFlashCrc   == IF Answers THEN {flash, <<>>} ELSE {<<>>}
getVersionStr == IF Answers THEN {f.ver : f \in Programmed} \cup {""} ELSE {""}

\* The version at the end of the file; "" where the file does not hold it.
stm_getFwVersionFromFile(f) == IF f = None THEN "" ELSE f.ver

\* The application's firmware before the system's.
stm_getFwFile == IF apk # None THEN apk ELSE Stock

\* A file without a version is not worth downloading; a hub that does not
\* answer is.  The result is one of the two constants.
stm_versionCheck_noCrc ==
  LET f == stm_getFwFile
  IN  IF stm_getFwVersionFromFile(f) = "" THEN {"match"}
      ELSE {IF v = stm_getFwVersionFromFile(f) THEN "match" ELSE "mismatch" : v \in getVersionStr}

stm_versionCheck ==
  LET f == stm_getFwFile
  IN  IF stm_getFwVersionFromFile(f) = "" THEN {"match"}
      ELSE {r \in {"match", "mismatch"} :
              \E v \in getVersionStr, c \in getFlashCrc :
                r = "match" <=> v = stm_getFwVersionFromFile(f) /\ c = calculateFileCrc32(f)}

\* The next bytes of the file, filled up to a multiple of Align.
stm_getpacket(f, pos) ==
  LET rest == SubSeq(f.data, pos + 1, Len(f.data))
      len  == IF Len(rest) > PacketLength THEN PacketLength ELSE Len(rest)
      pad  == (Align - (len % Align)) % Align
  IN  SubSeq(rest, 1, len) \o [i \in 1 .. pad |-> FLASH_FILL]

\* write() takes the first n bytes of a packet, to where the last one ended.
Burn(packet, n) ==
  /\ flash' = [i \in 1 .. FLASH_SIZE |->
                 IF i - hubAddr \in 1 .. n THEN packet[i - hubAddr] ELSE flash[i]]
  /\ hubAddr' = hubAddr + n

LoaderAt(pc) == ld' = [ld EXCEPT !.pc = pc]
Fail == LoaderAt("exit")

-------------------------------------------------------------------------------
(* main: "motosh boot".                                                    *)

\* flash_capsense is external to the hub; the black list comes first.
stm_processBlackList == IF apk \in BlackList THEN apk' = None ELSE UNCHANGED apk

Boot_ ==
  /\ ld.pc = "idle" /\ ~booted
  /\ \E force \in BOOLEAN : ld' = [Idle EXCEPT !.pc = "list", !.force = force]
  /\ UNCHANGED <<apk, flash, hubMode, hubAddr, booted, antcap>>

OpenFirmware ==
  /\ ld.pc = "list"
  /\ stm_processBlackList
  /\ ld' = [ld EXCEPT !.pc = "normal", !.file = IF apk' # None THEN apk' ELSE Stock]
  /\ UNCHANGED <<flash, hubMode, hubAddr, booted, antcap>>

\* Take the hub out of reset, and wait until it answers or 20 tries are over.
NormalMode ==
  /\ ld.pc = "normal"
  /\ \/ hubMode' = "normal" /\ LoaderAt("check")
     \/ Fail /\ UNCHANGED hubMode
  /\ UNCHANGED <<apk, flash, hubAddr, booted, antcap>>

CheckVersion ==
  /\ ld.pc = "check"
  /\ \E v \in stm_versionCheck :
       ld' = [ld EXCEPT !.ok = v = "match",
                        !.pc = IF ld.force \/ v = "mismatch" THEN "bootloader" ELSE "capsense"]
  /\ UNCHANGED <<apk, flash, hubMode, hubAddr, booted, antcap>>

\* A failed download is tried again, from wherever the file was read to.
Again_forever(pos) == ld' = [ld EXCEPT !.pos = pos, !.pc = "bootloader"]

Again(pos) ==
  ld' = [ld EXCEPT !.pos = pos, !.tries = @ + 1,
                   !.pc = IF ld.tries + 1 < STM_DOWNLOADRETRIES THEN "bootloader" ELSE "exit"]

\* stm_downloadFirmware: bootloader, erase, start address, packets.
BootloaderMode ==
  /\ ld.pc = "bootloader"
  /\ \/ hubMode' = "bootloader" /\ LoaderAt("erase")
     \/ Again(ld.pos) /\ UNCHANGED hubMode
  /\ UNCHANGED <<apk, flash, hubAddr, booted, antcap>>

MassErase ==
  /\ ld.pc = "erase"
  /\ \/ flash' = Erased /\ LoaderAt("address")
     \/ Again(ld.pos) /\ UNCHANGED flash
  /\ UNCHANGED <<apk, hubMode, hubAddr, booted, antcap>>

\* The file is read from its beginning, for this may be a retry.
SetStartAddr_noRewind ==
  /\ ld.pc = "address"
  /\ \/ hubAddr' = 0 /\ LoaderAt("send")
     \/ Again(ld.pos) /\ UNCHANGED hubAddr
  /\ UNCHANGED <<apk, flash, hubMode, booted, antcap>>

SetStartAddr ==
  /\ ld.pc = "address"
  /\ \/ hubAddr' = 0 /\ ld' = [ld EXCEPT !.pc = "send", !.pos = 0, !.short = FALSE]
     \/ Again(ld.pos) /\ UNCHANGED hubAddr
  /\ UNCHANGED <<apk, flash, hubMode, booted, antcap>>

\* A write() that takes less than the packet counts as one that took it.
SendPacket ==
  /\ ld.pc = "send"
  /\ LET p == stm_getpacket(ld.file, ld.pos)
     IN  \/ p = <<>> /\ LoaderAt("reset") /\ UNCHANGED <<flash, hubAddr>>
         \/ \E n \in 0 .. Len(p) :
              /\ p # <<>> /\ Burn(p, n)
              /\ ld' = [ld EXCEPT !.pos = @ + PacketLength, !.short = @ \/ n < Len(p)]
         \/ p # <<>> /\ Again(ld.pos + PacketLength) /\ UNCHANGED <<flash, hubAddr>>
  /\ UNCHANGED <<apk, hubMode, booted, antcap>>

\* The hub is reset; whether that worked is not asked.
ResetHub ==
  /\ ld.pc = "reset" /\ LoaderAt("verify")
  /\ hubMode' \in {"normal", hubMode}
  /\ UNCHANGED <<apk, flash, hubAddr, booted, antcap>>

\* The versions are compared again, twice at most; a mismatch is only logged.
Verify ==
  /\ ld.pc = "verify"
  /\ \E v1 \in stm_versionCheck : \E v2 \in IF v1 = "match" THEN {v1} ELSE stm_versionCheck :
       ld' = [ld EXCEPT !.pc = "capsense", !.ok = v2 = "match"]
  /\ UNCHANGED <<apk, flash, hubMode, hubAddr, booted, antcap>>

\* configure_capsense: disable, configure, calibrate, enable, each only after the
\* one before it; with -f it is left alone.  A calibration file that is too short
\* gives the default.
configure_capsense ==
  /\ ld.pc = "capsense"
  /\ IF ld.force THEN UNCHANGED antcap
     ELSE \/ UNCHANGED antcap
          \/ antcap' = [antcap EXCEPT !.on = FALSE]
          \/ \E c \in {"file", "default"} :
               \/ antcap' = [on |-> FALSE, cal |-> c]
               \/ antcap' = [on |-> TRUE, cal |-> c]
  /\ LoaderAt("booted")
  /\ UNCHANGED <<apk, flash, hubMode, hubAddr, booted>>

Booted ==
  /\ ld.pc = "booted" /\ booted' = TRUE /\ LoaderAt("exit")
  /\ UNCHANGED <<apk, flash, hubMode, hubAddr, antcap>>

Exit == /\ ld.pc = "exit" /\ ld' = Idle
        /\ UNCHANGED <<apk, flash, hubMode, hubAddr, booted, antcap>>

Loader == \/ OpenFirmware \/ NormalMode \/ CheckVersion \/ BootloaderMode \/ MassErase
          \/ SetStartAddr \/ SendPacket \/ ResetHub \/ Verify \/ configure_capsense
          \/ Booted \/ Exit

-------------------------------------------------------------------------------
(* The other commands that change the hub, and the world around.           *)

\* "motosh normal", "motosh tboot" and "motosh masserase".
Command ==
  /\ ld.pc = "idle" /\ booted
  /\ \/ hubMode' \in {"normal", "bootloader"} /\ UNCHANGED flash
     \/ hubMode' = "bootloader" /\ flash' = Erased
  /\ UNCHANGED <<apk, hubAddr, ld, booted, antcap>>

\* An application installs a firmware, perhaps not all of it.
Install ==
  /\ ld.pc = "idle" /\ booted
  /\ apk' \in Firmware
  /\ UNCHANGED <<flash, hubMode, hubAddr, ld, booted, antcap>>

\* The phone goes down, at any moment.
PowerLoss ==
  /\ ld' = Idle /\ booted' = FALSE /\ hubMode' = "reset" /\ hubAddr' = 0
  /\ antcap' = [on |-> FALSE, cal |-> "none"]
  /\ UNCHANGED <<apk, flash>>

LInit ==
  /\ apk = None /\ flash = Erased /\ hubMode = "reset" /\ hubAddr = 0
  /\ ld = Idle /\ booted = FALSE /\ antcap = [on |-> FALSE, cal |-> "none"]

LNext == Boot_ \/ Loader \/ Command \/ Install \/ PowerLoss

LFairness == WF_lvars(Loader)

LSpec == LInit /\ [][LNext]_lvars /\ LFairness

-------------------------------------------------------------------------------
(* Properties                                                              *)

LTypeOK ==
  /\ apk \in Firmware \cup {None} /\ hubMode \in {"reset", "bootloader", "normal"}
  /\ Len(flash) = FLASH_SIZE /\ hubAddr \in 0 .. FLASH_SIZE + PacketLength
  /\ ld.tries \in 0 .. STM_DOWNLOADRETRIES /\ {booted, ld.short} \subseteq BOOLEAN
  /\ antcap \in [on : BOOLEAN, cal : {"none", "file", "default"}]

\* A download that is taken for complete has put the whole file, and nothing else,
\* into the flash, whatever failed before (motosh.cpp: stm_downloadFirmware), unless a
\* write() took less than its packet: the loop asks for an error only, and leaves a
\* short one to the comparison of the CRCs that follows.
FlashIsFile == ld.pc = "reset" /\ ~ld.short => flash = Image(ld.file)

\* The hub is announced as booted only when it runs the firmware of the file
\* system, unless an error was logged or the file has no version, also after the
\* phone went down in the middle of a download or a packet was written in part only
\* (motosh.cpp: main).
BootedRunsFile ==
  ld.pc = "booted" /\ ld.ok /\ ld.file.ver # "" => hubMode = "normal" /\ flash = Image(ld.file)

\* The loader gives up sooner or later, so that the start of the phone goes on
\* (motosh.cpp: STM_DOWNLOADRETRIES).
LoaderEnds == ld.pc # "idle" ~> ld.pc = "idle"
===============================================================================

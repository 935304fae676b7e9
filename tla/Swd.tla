---------------------------------- MODULE Swd ----------------------------------
(***************************************************************************)
(* The SWD programmer of FRDM/KL03Z: swd.c and the part of main.c that     *)
(* loads a program into another KL03's memory over the two debug wires and *)
(* starts it.  The host is a sequence of calls, a call a sequence of       *)
(* packets; one attempt to send a packet is one action, with the answer    *)
(* the target gives: ACK, WAIT (sent again, SWD_MAX_FAIL times), FAULT or  *)
(* nothing, or a parity error in the data of either direction.             *)
(*                                                                         *)
(* The target, its debug port with the sticky error flags, its access      *)
(* ports, memory and core, is external: it is what the registers and flags *)
(* named in swd.h and swd_kl03.h are used for.                             *)
(***************************************************************************)
EXTENDS Integers, Sequences

CONSTANTS
  MaxFail,  \* SWD_MAX_FAIL: how often a packet is sent again
  Words,    \* blink_code_len / 4
  MaxFaults \* bound on what goes wrong on the wires and the target's bus

ASSUME SwdAssumption ==
  /\ MaxFail \in Nat
  /\ Words \in Nat \ {0}
  /\ MaxFaults \in Nat

VARIABLES
  call, step, \* the call of Program and the packet of it that is next
  tries,      \* count of swd_read and swd_write
  result,     \* what the call returns, or NONE while it runs
  data,       \* the variable of the call that its reads fill
  dap,        \* the target
  flags,      \* the error flags that clear_faults found
  faults,     \* how many more faults there may be
  lost        \* history: what went wrong and no flag of the target keeps

host == <<call, step, tries, result, data, flags>>
swdVars == <<host, dap, faults, lost>>

(* Answers. *)
ACK   == "ACK"
WAIT  == "WAIT"
FAULT == "FAULT"
MUTE  == "MUTE" \* no answer: the three bits read are none of the others
NONE  == "NONE"

(* The sticky flags of CTRL_STAT. *)
WDATA == "WDATA_ERR"
ERR   == "STICKY_ERR"

(* The target's addresses: the words at SRAM_START, and CoreDebug. *)
Code   == 1..Words
DHCSR  == Words + 1
DCRDR  == Words + 2
DCRSR  == Words + 3
Memory == 1..Words + 3

(* Data, as far as anything depends on it. *)
Unknown    == 0
IdCode     == 1 \* 0x477
PwrUp      == 2 \* C_DBG_PWR_UP_ACK
MdmStat    == 3
RegReady   == 4 \* DHCSR with bit 16
Csw        == 5 \* 0x03000042: words, no increment
CswInc     == 6 \* the same with 0x10
Halt       == 7 \* 0xA05F0003
Run        == 8 \* 0xA05F0000
Pc         == 9 \* register 0xF
Lr         == 10 \* register 0xE
Entry      == 11 \* SRAM_START
Return     == 12 \* SRAM_START+1
Word(i)    == 12 + i

Bit16(v)  == v \in {RegReady, Entry, Return}
OrInc(v)  == IF v \in {Csw, CswInc} THEN CswInc ELSE Unknown

-------------------------------------------------------------------------------
(* The packets of a call.  With must, any answer but ACK is returned.      *)
R(reg, must)      == [op |-> "R", reg |-> reg, val |-> Unknown, must |-> must]
W(reg, val, must) == [op |-> "W", reg |-> reg, val |-> val, must |-> must]

(* Mutant of Abort0x16: 0x1E clears the write-data error as well. *)
Abort0x1E == {WDATA, ERR}
(* The flags that an ABORT of 0x16 clears, of those that can be set here. *)
Abort0x16 == {ERR}

swd_config_mem_access(addr) ==
  << W("ABORT", Abort0x16, TRUE), W("SELECT", "MEM", TRUE), W("TAR", addr, TRUE) >>

swd_read_mem(addr) ==
  swd_config_mem_access(addr) \o << R("DRW", TRUE), R("RD_BUFF", TRUE) >>

(* Mutant of swd_write_mem: CSW is not read. *)
swd_write_memUnread(addr, val) ==
  swd_config_mem_access(addr) \o << W("DRW", val, FALSE) >>
swd_write_mem(addr, val) ==
  swd_config_mem_access(addr) \o << W("DRW", val, FALSE), R("CSW", TRUE) >>

swd_write_array ==
  swd_config_mem_access(1)
  \o << R("CSW", FALSE), R("RD_BUFF", TRUE), W("CSW", OrInc(data), FALSE) >>
  \o [i \in Code |-> W("DRW", Word(i), FALSE)]
  \o << W("CSW", data, TRUE) >>

swd_write_reg(reg, val) ==
  << swd_read_mem(DHCSR), swd_write_mem(DCRDR, val), swd_write_mem(DCRSR, reg),
     swd_read_mem(DHCSR) >>

(* The loops of reset_and_power_debug. *)
Connect == << R("IDCODE", FALSE), W("ABORT", Abort0x16, FALSE) >>
PowerUp == << W("CTRL_STAT", PwrUp, TRUE), R("CTRL_STAT", TRUE) >>

(* Mutant of clear_faults: the write-data error is not cleared. *)
clear_faultsNoWd ==
  << R("CTRL_STAT", TRUE) >>
  \o IF flags \ {WDATA} = {} THEN <<>> ELSE << W("ABORT", flags \ {WDATA}, TRUE) >>
clear_faults ==
  << R("CTRL_STAT", TRUE) >>
  \o IF flags = {} THEN <<>> ELSE << W("ABORT", flags, TRUE) >>

(* main, between the two loops and the first call. *)
Prelude ==
  << W("SELECT", "MDM", FALSE), W("TAR", Unknown, FALSE), R("CSW", FALSE),
     R("RD_BUFF", FALSE), W("SELECT", "MEM", FALSE), W("CSW", Csw, FALSE),
     R("CSW", FALSE), R("RD_BUFF", FALSE) >>

(* main: it looks at the result of no call. *)
Program ==
  << Connect, PowerUp, clear_faults, Prelude, swd_write_mem(DHCSR, Halt),
     swd_write_array >>
  \o swd_write_reg(Pc, Entry) \o swd_write_reg(Lr, Return)
  \o << swd_write_mem(DHCSR, Run) >>

Connecting == 1
Powering   == 2
Clearing   == 3
Loading    == 4
Array      == 6
Polls      == {10, 14} \* the loops of the two swd_write_reg
Releasing  == 15
Done       == 16

Packet == Program[call][step]

-------------------------------------------------------------------------------
(* The target.  An access port keeps what its last read found in rdbuff    *)
(* and returns what the one before found.  In the MDM-AP, TAR, CSW and DRW *)
(* are CTL, STAT and nothing.                                              *)
Faulted(p) ==
  /\ dap.sticky # {}
  /\ ~(p.op = "R" /\ p.reg \in {"IDCODE", "CTRL_STAT"})
  /\ ~(p.op = "W" /\ p.reg = "ABORT")

MemRead == IF dap.tar \notin Memory THEN Unknown
           ELSE IF dap.tar = DHCSR /\ dap.xfer = Unknown THEN RegReady
           ELSE IF dap.tar = DHCSR THEN Unknown
           ELSE dap.mem[dap.tar]

NextTar == IF dap.csw = CswInc THEN dap.tar + 1 ELSE dap.tar

(* A word that is written; in DCRSR it starts the transfer of a register   *)
(* of a core that is halted.                                               *)
MemWritten(val) ==
  IF dap.csw \in {Csw, CswInc} /\ dap.tar \in Memory
  THEN [dap EXCEPT !.mem[dap.tar] = val, !.tar = NextTar,
                   !.xfer = IF dap.tar = DCRSR /\ dap.mem[DHCSR] = Halt
                            THEN val ELSE @]
  ELSE dap

Written(p) ==
  CASE p.reg = "ABORT"     -> [dap EXCEPT !.sticky = @ \ p.val]
    [] p.reg = "CTRL_STAT" -> [dap EXCEPT !.pwr = IF @ = "off" THEN "req" ELSE @]
    [] p.reg = "SELECT"    -> [dap EXCEPT !.sel = p.val]
    [] p.reg = "TAR" /\ dap.sel = "MEM" -> [dap EXCEPT !.tar = p.val]
    [] p.reg = "CSW" /\ dap.sel = "MEM" -> [dap EXCEPT !.csw = p.val]
    [] p.reg = "DRW" /\ dap.sel = "MEM" -> MemWritten(p.val)
    [] OTHER               -> dap

ReadValue(p) ==
  CASE p.reg = "IDCODE"    -> IdCode
    [] p.reg = "CTRL_STAT" -> IF dap.pwr = "up" THEN PwrUp ELSE Unknown
    [] OTHER               -> dap.rdbuff

ReadDone(p) ==
  CASE p.reg \in {"CSW", "DRW"} /\ dap.sel = "MDM" -> [dap EXCEPT !.rdbuff = MdmStat]
    [] p.reg = "CSW" /\ dap.sel = "MEM" -> [dap EXCEPT !.rdbuff = dap.csw]
    [] p.reg = "DRW" /\ dap.sel = "MEM" -> [dap EXCEPT !.rdbuff = MemRead, !.tar = NextTar]
    [] OTHER -> dap

(* DCRDR or DCRSR is written before the last transfer has taken place, or  *)
(* the core started before.                                                *)
Early(p) ==
  /\ p.op = "W" /\ p.reg = "DRW" /\ dap.sel = "MEM"
  /\ dap.tar \in {DHCSR, DCRDR, DCRSR} /\ dap.xfer # Unknown

(* The ABORT at the begin of an access to memory clears an error of the    *)
(* target's bus that an access before it had.                              *)
Clears(p) ==
  call > Loading /\ p.reg = "ABORT" /\ ERR \in p.val \cap dap.sticky

(* What an acknowledged packet makes the target forget. *)
Forgotten(p) == {w \in {"early"} : Early(p)} \cup {w \in {"cleared"} : Clears(p)}

-------------------------------------------------------------------------------
(* The target is as it was left: debug off, any flag set.                  *)
SwdInit ==
  /\ call = Connecting /\ step = 1 /\ tries = 0 /\ result = NONE
  /\ data \in {Unknown, IdCode} \* reset_and_power_debug does not set it
  /\ flags = {}
  /\ \E f \in SUBSET {WDATA, ERR} :
       dap = [sticky |-> f, pwr |-> "off", sel |-> "MEM", tar |-> Unknown,
              csw |-> Unknown, rdbuff |-> Unknown,
              mem |-> [a \in Memory |-> Unknown], xfer |-> Unknown,
              regs |-> [r \in {Pc, Lr} |-> Unknown]]
  /\ faults = MaxFaults
  /\ lost = {}

Sending == call # Done /\ result = NONE

(* The host goes on after an answer a; what it has just read may have      *)
(* added a packet to clear_faults.                                         *)
Proceed(a) ==
  /\ tries' = 0
  /\ UNCHANGED call
  /\ IF (a # ACK /\ Packet.must) \/ step = Len(Program[call])'
     THEN result' = a /\ UNCHANGED step
     ELSE step' = step + 1 /\ UNCHANGED result

(* A packet is sent, and all goes well; clear_faults looks at the flags.   *)
Acknowledged ==
  /\ Sending
  /\ ~Faulted(Packet)
  /\ IF Packet.op = "W"
     THEN dap' = Written(Packet) /\ UNCHANGED <<data, flags>>
     ELSE /\ dap' = ReadDone(Packet)
          /\ data' = ReadValue(Packet)
          /\ flags' = IF call = Clearing THEN dap.sticky ELSE flags
  /\ Proceed(ACK)
  /\ lost' = lost \cup Forgotten(Packet)
  /\ UNCHANGED faults

Refused ==
  /\ Sending
  /\ Faulted(Packet)
  /\ UNCHANGED <<data, flags, dap, faults, lost>>
  /\ Proceed(FAULT)

(* What may go wrong goes wrong once more. *)
Fault == Sending /\ faults > 0 /\ faults' = faults - 1

SentAgain ==
  /\ Fault
  /\ ~Faulted(Packet)
  /\ tries < MaxFail
  /\ tries' = tries + 1
  /\ UNCHANGED <<call, step, result, data, flags, dap, lost>>

(* WAIT once too often, or no answer at all. *)
GivenUp ==
  /\ Fault
  /\ lost' = lost \cup {"missed"}
  /\ UNCHANGED <<data, flags, dap>>
  /\ \E a \in {WAIT, MUTE} :
       /\ a = WAIT => tries = MaxFail /\ ~Faulted(Packet)
       /\ Proceed(a)

(* The target has acknowledged and finds the parity of the data wrong. *)
WriteParity ==
  /\ Fault
  /\ ~Faulted(Packet) /\ Packet.op = "W"
  /\ dap' = [dap EXCEPT !.sticky = @ \cup {WDATA}]
  /\ UNCHANGED <<data, flags, lost>>
  /\ Proceed(ACK)

(* The host finds it wrong: "let's say it was in wait". *)
ReadParity ==
  /\ Fault
  /\ ~Faulted(Packet) /\ Packet.op = "R"
  /\ dap' = ReadDone(Packet)
  /\ data' \in {Unknown, RegReady}
  /\ lost' = lost \cup {"parity"}
  /\ UNCHANGED flags
  /\ Proceed(WAIT)

(* The target's bus fails, which only the next packet is told. *)
BusError ==
  /\ Fault
  /\ ~Faulted(Packet) /\ Packet.reg = "DRW" /\ dap.sel = "MEM"
  /\ dap' = [dap EXCEPT !.sticky = @ \cup {ERR}]
  /\ UNCHANGED <<data, flags, lost>>
  /\ Proceed(ACK)

-------------------------------------------------------------------------------
(* Begin the call c.  regData of swd_write_reg is also what it polls into. *)
Begin(c) ==
  /\ call' = c /\ step' = 1 /\ result' = NONE
  /\ data' = IF c = call \/ c \notin Polls THEN data
             ELSE IF c = 10 THEN Entry ELSE Return
  /\ flags' = {}
  /\ UNCHANGED <<tries, dap, faults, lost>>

(* The loop's condition sees the answer to ABORT, and the ID read before. *)
Connected ==
  /\ call = Connecting /\ result # NONE
  /\ Begin(IF result = ACK /\ data = IdCode THEN Powering ELSE Connecting)

(* "continue" goes to the loop's condition, with the answer of the write. *)
PoweredUp ==
  /\ call = Powering /\ result # NONE
  /\ Begin(IF step = 1 THEN Clearing
           ELSE IF result = ACK /\ data = PwrUp THEN Loading ELSE Powering)

Cleared ==
  /\ call = Clearing /\ result # NONE
  /\ Begin(Powering)

(* Again while the answer is WAIT and the register is not ready. *)
Polled ==
  /\ call \in Polls /\ result # NONE
  /\ Begin(IF result = WAIT /\ ~Bit16(data) THEN call ELSE call + 1)

Returned ==
  /\ call \in Loading..Releasing \ Polls /\ result # NONE
  /\ Begin(call + 1)

(* The target powers its debug logic up, and moves a register. *)
PowerAck ==
  /\ dap.pwr = "req"
  /\ dap' = [dap EXCEPT !.pwr = "up"]
  /\ UNCHANGED <<host, faults, lost>>

Transfer ==
  /\ dap.xfer # Unknown
  /\ dap' = [dap EXCEPT !.regs[dap.xfer] = dap.mem[DCRDR], !.xfer = Unknown]
  /\ UNCHANGED <<host, faults, lost>>

Host == \/ Acknowledged \/ Refused \/ SentAgain \/ GivenUp
        \/ WriteParity \/ ReadParity \/ BusError
        \/ Connected \/ PoweredUp \/ Cleared \/ Polled \/ Returned

(* main blinks its own light from now on. *)
Blink == call = Done /\ UNCHANGED swdVars

SwdNext == Host \/ PowerAck \/ Transfer \/ Blink

(* The host never stops, and the target gets its work done. *)
SwdSpec ==
  /\ SwdInit /\ [][SwdNext]_swdVars
  /\ WF_swdVars(Host) /\ WF_swdVars(PowerAck) /\ WF_swdVars(Transfer)

-------------------------------------------------------------------------------
SwdTypeOK ==
  /\ call \in 1..Done /\ step \in 1..Words + 7 /\ tries \in 0..MaxFail
  /\ result \in {NONE, ACK, WAIT, FAULT, MUTE}
  /\ data \in 0..Word(Words)
  /\ flags \subseteq {WDATA, ERR} /\ dap.sticky \subseteq {WDATA, ERR}
  /\ dap.mem \in [Memory -> 0..Word(Words)]
  /\ faults \in 0..MaxFaults
  /\ lost \subseteq {"missed", "parity", "cleared", "early"}

(* What each call is asked to write. *)
Asked(c) ==
  CASE c = Array     -> {<<i, Word(i)>> : i \in Code}
    [] c = 5         -> {<<DHCSR, Halt>>}
    [] c = Releasing -> {<<DHCSR, Run>>}
    [] c = 8         -> {<<DCRDR, Entry>>}
    [] c = 9         -> {<<DCRSR, Pc>>}
    [] c = 12        -> {<<DCRDR, Return>>}
    [] c = 13        -> {<<DCRSR, Lr>>}
    [] OTHER         -> {}

(***************************************************************************)
(* A call that returns ACK has written what it was asked to, although      *)
(* swd_write_mem returns the answer of the read that follows the write,    *)
(* and swd_write_array that of the last of many writes: the sticky flags   *)
(* carry an error over to it.  Not so for a packet that the target missed. *)
(***************************************************************************)
ReportIsTrue ==
  result = ACK /\ "missed" \notin lost =>
    \A w \in Asked(call) : dap.mem[w[1]] = w[2]

(***************************************************************************)
(* main looks at no result, and still the core it starts has its program,  *)
(* its entry point and its link register, whatever was sent again and      *)
(* whatever data the target threw away for its parity: that error is the   *)
(* one which 0x16 does not clear, and everything after it is refused.      *)
(* The target's bus may fail as well: only if the ABORT of a later call    *)
(* clears that error does main go on past it.  That, a missed packet, a    *)
(* read that fails its parity and a register that is not ready in time are *)
(* the ways to start half a program.                                       *)
(***************************************************************************)
ReleasedIsComplete ==
  dap.mem[DHCSR] = Run /\ lost = {} =>
    /\ \A i \in Code : dap.mem[i] = Word(i)
    /\ dap.regs[Pc] = Entry /\ dap.regs[Lr] = Return

(***************************************************************************)
(* With whatever flags set it finds its target, the programmer comes to an *)
(* end once the faults do: neither of its loops waits for something that   *)
(* its own packets keep from happening.                                    *)
(***************************************************************************)
InjectionEnds == <>(call = Done)
=============================================================================

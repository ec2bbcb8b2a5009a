-------------------------------- MODULE Ahci --------------------------------
(***************************************************************************)
(* The SATA disk: driver/ahci.c, the boot-time check of driver/disk.c and  *)
(* read_block() and the superblock check of fs/ext2.c, which are its       *)
(* callers.  The driver polls: it fills a command slot, waits while the    *)
(* device is busy, issues the command and waits for its bit in PxCI to go  *)
(* away or for TFES.  The host adapter is external: it moves one sector at *)
(* a time between ahci_buf and the medium, completes a command, or gives   *)
(* one up with TFES, after which its bit in PxCI may stay set (nothing     *)
(* restarts the port) and the adapter may stop for good.                   *)
(***************************************************************************)
EXTENDS Integers

CONSTANTS
    cap,        \* abar->cap
    Ports,      \* indices of abar->ports[]
    Sectors,    \* number of sectors of the medium
    SpinMax,    \* bound of the busy wait, 1000000 in the code
    Blocks,     \* bound: the blocks the file system asks for
    Writes,     \* bound: the sectors written
    Signable    \* bound: the sectors whose bytes may carry EXT2_SIGNATURE

ASSUME CapAssumption == cap \in Nat
ASSUME PortsAssumption == Ports \subseteq Nat
ASSUME SectorsAssumption == Sectors \in Nat /\ Sectors >= 8
ASSUME BlocksAssumption ==
    /\ Blocks \subseteq 0..(Sectors \div 2 - 1)
    /\ Writes \subseteq 0..(Sectors - 1)
    /\ Signable \subseteq 0..(Sectors - 1)
ASSUME SpinAssumption == SpinMax \in Nat \ {0}

cmdslots == (cap \div 256) % 16     \* get_bits_range(abar->cap, 8, 4)
CmdSlots == 0..(cmdslots - 1)
BufSectors == 16                    \* ahci_buf[8192]
BlockSectors == 2                   \* BLOCK_SIZE / 512
Zero == -1                          \* a sector ahci_buf has never received

VARIABLES
    present,    \* the ports whose ssts says present and active
    pi,         \* the ports abar->pi implements
    gport,      \* port_num of disk_init(), gport of ext2.c; -1 before
    phase,      \* progress of disk_init() and ext2_init()
    e2fs,       \* the contents copied to e2fs.sb
    block_size, \* e2fs.block_size: "zero" or "set"
    magic,      \* the contents with EXT2_SIGNATURE where s_magic lies
    medium,     \* sector -> contents; sector s holds s when the machine starts
    ahci_buf,   \* sector of the buffer -> contents
    is, ci, tfd,            \* PxIS.TFES, PxCI, PxTFD (busy or not)
    cmdtbl,                 \* slot -> [op, start, count]
    aborted, xfer, dev,     \* adapter: slots given up, sectors moved, on or stopped
    pc, req, slot, spin,    \* do_ahci_read(), do_ahci_write()
    ret, buf                \* result of the last call and its caller's buffer

boot == <<present, pi, gport, phase, e2fs, block_size, magic>>
port == <<is, ci, tfd>>
adapter == <<aborted, xfer, dev>>
call == <<req, slot, spin>>
result == <<ret, buf>>
vars == <<boot, port, adapter, call, result, medium, ahci_buf, cmdtbl, pc>>

Request == [op : {"read", "write"}, start : Nat, count : 1..BufSectors]
NoRequest == [op |-> "read", start |-> 0, count |-> 1]

Init ==
    /\ pi \in SUBSET Ports
    /\ present \in SUBSET pi
    /\ gport = -1
    /\ phase = "probe"
    /\ e2fs = Zero /\ block_size = "zero"
    /\ magic \in SUBSET Signable
    /\ medium = [s \in 0..(Sectors - 1) |-> s]
    /\ ahci_buf = [k \in 0..(BufSectors - 1) |-> Zero]
    /\ is = "clear" /\ ci = {} /\ tfd = "idle"
    /\ cmdtbl = [s \in CmdSlots |-> NoRequest]
    /\ aborted = {} /\ xfer = 0 /\ dev = "on"
    /\ pc = "idle" /\ req = NoRequest /\ slot = -1 /\ spin = 0
    /\ ret = 0
    /\ buf = [k \in 0..(BufSectors - 1) |-> Zero]

-----------------------------------------------------------------------------
(* ahic_probe_port(): pi is never shifted, so its bit 0 decides for every  *)
(* port, and the second active port is taken, whatever its index.          *)
SecondActive(i) ==
    /\ i \in present
    /\ \E j \in present : j < i /\ \A l \in present : l < i => l = j

Probe ==
    /\ phase = "probe"
    /\ \/ /\ 0 \in pi
          /\ \E i \in Ports : SecondActive(i) /\ gport' = i
          /\ phase' = "check"
       \/ /\ 0 \notin pi \/ \A i \in Ports : ~SecondActive(i)
          /\ phase' = "panic"       \* ports[-1] leaves buf as it was
          /\ UNCHANGED gport
    /\ UNCHANGED <<present, pi, e2fs, block_size, magic, port, adapter, call, result,
                   medium, ahci_buf, cmdtbl, pc>>

(* The request each phase makes: disk_init() reads sectors 0 to 7, then    *)
(* ext2_read_superblock() block 1; afterwards any block may be asked for.  *)
ReadBlock(b) == [op |-> "read", start |-> b * BlockSectors, count |-> BlockSectors]
Requests ==
    CASE phase = "check" -> {[op |-> "read", start |-> 0, count |-> 8]}
      [] phase = "super" -> {ReadBlock(1)}
      [] phase = "up" -> {ReadBlock(b) : b \in Blocks} \union
                         {[op |-> "write", start |-> s, count |-> 1] : s \in Writes}
      [] OTHER -> {}

(* find_cmdslot(): sact stays 0, no command is queued.                     *)
FreeSlot(i) == i \in CmdSlots /\ i \notin ci /\ \A j \in 0..(i - 1) : j \in ci

(* Up to the wait of do_ahci_read(), and of do_ahci_write(), which repeats *)
(* it with another command: PxIS is cleared, the command table is filled.  *)
ClearKept == is                     \* variant: PxIS not cleared
ClearIs == "clear"
Fill(r) ==
    /\ pc = "idle"
    /\ req' = r
    /\ is' = ClearIs
    /\ spin' = 0
    /\ \/ \E i \in CmdSlots :
            /\ FreeSlot(i)
            /\ slot' = i
            /\ cmdtbl' = [cmdtbl EXCEPT ![i] = r]
            /\ pc' = "spin"
            /\ UNCHANGED ret
       \/ /\ CmdSlots \subseteq ci
          /\ pc' = "return" /\ ret' = -1
          /\ UNCHANGED <<slot, cmdtbl>>
    /\ UNCHANGED <<boot, ci, tfd, adapter, medium, buf>>
BeginRead(r) == r.op = "read" /\ Fill(r) /\ UNCHANGED ahci_buf

(* ahci_write() has no caller.  do_ahci_write() leaves the header's w at 0 *)
(* (read); the adapter modelled here goes by the command in the FIS.       *)
Written(r, k) == IF k < r.count THEN Sectors + r.start + k ELSE ahci_buf[k]
BeginWrite(r) ==
    /\ r.op = "write" /\ Fill(r)
    /\ ahci_buf' = [k \in DOMAIN ahci_buf |-> Written(r, k)]

SpinningLate == spin <= SpinMax             \* variant: one round too many
Spinning == spin < SpinMax
Spin ==
    /\ pc = "spin" /\ tfd = "busy" /\ Spinning
    /\ spin' = spin + 1
    /\ UNCHANGED <<boot, port, adapter, req, slot, result, medium, ahci_buf, cmdtbl, pc>>

(* The test after the loop is spin == 1000000, so a device that is ready   *)
(* on the last round counts as hung too.                                   *)
Hung ==
    /\ pc = "spin" /\ spin = SpinMax
    /\ pc' = "return" /\ ret' = -1
    /\ UNCHANGED <<boot, port, adapter, call, buf, medium, ahci_buf, cmdtbl>>

Issue ==
    /\ pc = "spin" /\ tfd = "idle" /\ spin < SpinMax
    /\ ci' = ci \union {slot}
    /\ tfd' = "busy" /\ xfer' = 0           \* the adapter fetches the command
    /\ pc' = "poll"
    /\ UNCHANGED <<boot, is, aborted, dev, call, result, medium, ahci_buf, cmdtbl>>

(* The loop at 128 ends when the bit in PxCI is gone or on TFES, and TFES  *)
(* is looked at once more after the loop.                                  *)
PollOverCi == slot \notin ci                \* variant: TFES not looked at
PollOver == slot \notin ci \/ is = "tfes"
CheckOnce == IF slot \in ci THEN -1 ELSE 0  \* variant: no second look
CheckAgain == IF slot \in ci \/ is = "tfes" THEN -1 ELSE 0
Poll ==
    /\ pc = "poll" /\ PollOver
    /\ ret' = CheckAgain
    /\ pc' = "return"
    /\ UNCHANGED <<boot, port, adapter, call, buf, medium, ahci_buf, cmdtbl>>

(* Another turn of the loop: it goes on for as long as neither changes.    *)
PollAgain == pc = "poll" /\ ~PollOver /\ UNCHANGED vars

(* ahci_read() copies ahci_buf whatever do_ahci_read() returned.  The      *)
(* callers drop its result: disk_init() looks for the signature 1024 bytes *)
(* into its buffer, and ext2_read_superblock() in the block it has copied  *)
(* to e2fs.sb; its own result is dropped by ext2_init_disk().              *)
Magic(v) == v \in magic
NextPhase(data) ==
    CASE phase = "check" -> IF Magic(data[2]) THEN "super" ELSE "panic"
      [] phase = "super" -> "up"
      [] OTHER -> phase
SuperBlockUnchecked(data) ==               \* variant: s_magic not looked at
    e2fs' = data[0] /\ block_size' = "set"
SuperBlock(data) ==
    /\ e2fs' = data[0]
    /\ block_size' = IF Magic(data[0]) THEN "set" ELSE block_size
Return ==
    /\ pc = "return"
    /\ pc' = "idle"
    /\ IF req.op = "read"
       THEN /\ buf' = [k \in DOMAIN buf |-> IF k < req.count THEN ahci_buf[k] ELSE buf[k]]
            /\ phase' = NextPhase(ahci_buf)
            /\ IF phase = "super" THEN SuperBlock(ahci_buf)
               ELSE UNCHANGED <<e2fs, block_size>>
       ELSE UNCHANGED <<buf, phase, e2fs, block_size>>
    /\ UNCHANGED <<present, pi, gport, magic, port, adapter, call, ret, medium,
                   ahci_buf, cmdtbl>>

-----------------------------------------------------------------------------
(* The adapter and the drive (external).                                   *)

Active(s) == dev = "on" /\ s \in ci \ aborted

(* PRDT entries hold 16 sectors each and start 0x1000 bytes apart.         *)
DmaOffset(k) == (k \div 16) * 8 + (k % 16)

Transfer(s) ==
    /\ Active(s)
    /\ xfer < cmdtbl[s].count
    /\ xfer' = xfer + 1
    /\ IF cmdtbl[s].op = "read"
       THEN /\ ahci_buf' = [ahci_buf EXCEPT ![DmaOffset(xfer)] = medium[cmdtbl[s].start + xfer]]
            /\ UNCHANGED medium
       ELSE /\ medium' = [medium EXCEPT ![cmdtbl[s].start + xfer] = ahci_buf[DmaOffset(xfer)]]
            /\ UNCHANGED ahci_buf
    /\ UNCHANGED <<boot, port, aborted, dev, call, result, cmdtbl, pc>>

Complete(s) ==
    /\ Active(s)
    /\ xfer = cmdtbl[s].count
    /\ ci' = ci \ {s}
    /\ tfd' = "idle"
    /\ UNCHANGED <<boot, is, adapter, call, result, medium, ahci_buf, cmdtbl, pc>>

(* A command fails: some adapters clear its bit, some keep it; the drive   *)
(* may stay busy and the adapter may process nothing any more.             *)
Fail(s) ==
    /\ Active(s)
    /\ is' = "tfes"
    /\ tfd' \in {"idle", "busy"}
    /\ \/ ci' = ci \ {s} /\ UNCHANGED aborted
       \/ aborted' = aborted \union {s} /\ UNCHANGED ci
    /\ dev' \in {"on", "stopped"}
    /\ UNCHANGED <<boot, xfer, call, result, medium, ahci_buf, cmdtbl, pc>>

Recover ==
    /\ dev = "on" /\ tfd = "busy" /\ ci \subseteq aborted
    /\ tfd' = "idle"
    /\ UNCHANGED <<boot, is, ci, adapter, call, result, medium, ahci_buf, cmdtbl, pc>>

-----------------------------------------------------------------------------
Driver == Probe \/ Spin \/ Hung \/ Issue \/ Poll \/ Return
Device == \E s \in CmdSlots : Transfer(s) \/ Complete(s) \/ Fail(s)
Panicked == phase = "panic" /\ UNCHANGED vars

Next ==
    \/ Probe
    \/ \E r \in Requests : BeginRead(r) \/ BeginWrite(r)
    \/ Spin \/ Hung \/ Issue \/ Poll \/ PollAgain \/ Return
    \/ \E s \in CmdSlots : Transfer(s) \/ Complete(s) \/ Fail(s)
    \/ Recover
    \/ Panicked

Spec == Init /\ [][Next]_vars

(* The processor executes the driver's loops, and an adapter that has not  *)
(* stopped goes on with the command it was given.                          *)
FairSpec == Spec /\ WF_vars(Driver) /\ WF_vars(Device)

-----------------------------------------------------------------------------
(* Properties.                                                             *)

(* Every variable has its type.                                            *)
TypeOK ==
    /\ pi \subseteq Ports /\ present \subseteq pi
    /\ gport \in Ports \union {-1}
    /\ phase \in {"probe", "check", "super", "up", "panic"}
    /\ e2fs \in Int /\ block_size \in {"zero", "set"} /\ magic \subseteq Signable
    /\ medium \in [0..(Sectors - 1) -> Int]
    /\ ahci_buf \in [0..(BufSectors - 1) -> Int]
    /\ buf \in [0..(BufSectors - 1) -> Int]
    /\ is \in {"clear", "tfes"} /\ ci \subseteq CmdSlots /\ tfd \in {"idle", "busy"}
    /\ cmdtbl \in [CmdSlots -> Request]
    /\ aborted \subseteq CmdSlots /\ xfer \in 0..BufSectors /\ dev \in {"on", "stopped"}
    /\ pc \in {"idle", "spin", "poll", "return"}
    /\ req \in Request /\ req.start + req.count <= Sectors
    /\ slot \in CmdSlots \union {-1} /\ spin \in 0..SpinMax /\ ret \in {-1, 0}

(* do_ahci_read() and do_ahci_write() return 0 only if every sector of the *)
(* request has moved: no error raised before, during or after the last     *)
(* look at PxCI is taken for success, and no earlier command's failure for *)
(* this one's.                                                             *)
SuccessMeansTransferred ==
    pc = "return" /\ ret = 0 =>
        \A k \in 0..(req.count - 1) : ahci_buf[k] = medium[req.start + k]

(* Between calls every bit set in PxCI belongs to a command given up: no   *)
(* transfer reaches ahci_buf or the medium after its call has returned,    *)
(* and find_cmdslot() fails only once every slot is lost to an error.      *)
NothingOutstanding == pc \in {"idle", "return"} => ci \subseteq aborted

(* Whatever reads fail on the way, the kernel goes on past disk_init()     *)
(* only if sector 2 of the disk at the second active port carries the      *)
(* signature, and e2fs has a block size only if the bytes in e2fs.sb carry *)
(* it too.  These are the superblock, or, when the second read moved       *)
(* nothing, the boot sector the first one had left in ahci_buf.            *)
MountedSuperblock ==
    /\ phase \in {"super", "up"} => 2 \in magic /\ SecondActive(gport)
    /\ block_size = "set" => e2fs \in magic /\ e2fs \in {0, 2}

(* Every call returns, unless the adapter has stopped: the wait at 128 has *)
(* no bound of its own.                                                    *)
CallReturns == (pc # "idle") ~> (pc = "idle" \/ dev = "stopped")

-----------------------------------------------------------------------------
(* What the repository says of the program and the code does not do.       *)

(* A block that could not be read is not used: ext2.c tests the result of  *)
(* read_block() and returns an error.  read_block() returns 0 always.      *)
BlockIsDisk ==
    [][phase = "up" /\ pc = "return" /\ pc' = "idle" /\ req.op = "read" =>
        \A k \in 0..(req.count - 1) : buf'[k] = medium[req.start + k]]_vars

(* The superblock in use is the disk's: ext2_read_superblock() returns -1  *)
(* for what is none.  A boot sector with the signature is taken for it.    *)
SuperblockIsDisk == block_size = "set" => e2fs = 2

=============================================================================

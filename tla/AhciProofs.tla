----------------------------- MODULE AhciProofs -----------------------------
(***************************************************************************)
(* What the driver of Ahci promises, for every adapter (number of slots    *)
(* and ports), every size of the medium and every bound of the waits.      *)
(***************************************************************************)
EXTENDS Ahci, TLAPS

(* The first n sectors of the request in progress have moved.              *)
Moved(n) == \A k \in 0..(n - 1) : ahci_buf[k] = medium[req.start + k]

(* Only the slot of the call in progress can be active, and only while the *)
(* driver polls and has seen no error.                                     *)
OneActive ==
    /\ aborted \subseteq ci
    /\ pc # "poll" => ci \subseteq aborted
    /\ pc = "spin" => is = "clear" /\ slot \in CmdSlots \ ci
    /\ pc = "poll" => slot \in CmdSlots /\ ci \subseteq aborted \union {slot}
    /\ pc = "poll" /\ is = "tfes" => ci \subseteq aborted
    /\ pc \in {"spin", "poll"} => cmdtbl[slot] = req

(* A command polled without an error has moved what xfer says, and all of  *)
(* it once its bit in PxCI is gone.                                        *)
Progress ==
    pc = "poll" /\ is = "clear" =>
        /\ slot \notin aborted
        /\ xfer <= req.count /\ Moved(xfer)
        /\ slot \notin ci => xfer = req.count

IInv == TypeOK /\ OneActive /\ Progress /\ SuccessMeansTransferred

-----------------------------------------------------------------------------
(* Every request of the driver's callers lies on the medium.               *)
LEMMA RequestsFit ==
    ASSUME NEW r \in Requests
    PROVE  r \in Request /\ r.start + r.count <= Sectors
<1>1. CASE phase = "check"
    <2>1. r = [op |-> "read", start |-> 0, count |-> 8]
        BY <1>1 DEF Requests
    <2> QED BY <2>1, SectorsAssumption DEF Request, BufSectors
<1>2. CASE phase = "super"
    <2>1. r = [op |-> "read", start |-> 2, count |-> 2]
        BY <1>2 DEF Requests, ReadBlock, BlockSectors
    <2> QED BY <2>1, SectorsAssumption DEF Request, BufSectors
<1>3. CASE phase = "up"
    <2>1. CASE r \in {ReadBlock(b) : b \in Blocks}
        <3>1. PICK b \in Blocks : r = [op |-> "read", start |-> b * 2, count |-> 2]
            BY <2>1 DEF ReadBlock, BlockSectors
        <3>2. b \in Nat /\ b * 2 + 2 <= Sectors
            BY SectorsAssumption, BlocksAssumption
        <3> QED BY <3>1, <3>2 DEF Request, BufSectors
    <2>2. CASE r \in {[op |-> "write", start |-> s, count |-> 1] : s \in Writes}
        <3>1. PICK s \in Writes : r = [op |-> "write", start |-> s, count |-> 1]
            BY <2>2
        <3>2. s \in Nat /\ s + 1 <= Sectors
            BY SectorsAssumption, BlocksAssumption
        <3> QED BY <3>1, <3>2 DEF Request, BufSectors
    <2> QED BY <1>3, <2>1, <2>2 DEF Requests
<1>4. CASE phase \notin {"check", "super", "up"}
    BY <1>4 DEF Requests
<1> QED BY <1>1, <1>2, <1>3, <1>4

(* Within ahci_buf a transfer goes to consecutive sectors.                 *)
LEMMA DmaIsLinear ==
    ASSUME NEW k \in 0..(BufSectors - 1)
    PROVE  DmaOffset(k) = k
BY DEF DmaOffset, BufSectors

(* The adapter works on the call in progress only.                         *)
LEMMA ActiveIsCurrent ==
    ASSUME TypeOK, OneActive, NEW s \in CmdSlots, Active(s)
    PROVE  s = slot /\ pc = "poll" /\ is = "clear" /\ cmdtbl[s] = req
BY DEF TypeOK, OneActive, Active

(* Before the first call nothing is outstanding.                           *)
LEMMA InitInv == Init => IInv
<1> SUFFICES ASSUME Init PROVE IInv
    OBVIOUS
<1>1. NoRequest \in Request /\ NoRequest.start + NoRequest.count <= Sectors
    BY SectorsAssumption DEF NoRequest, Request, BufSectors
<1>2. TypeOK
    BY <1>1, SpinAssumption, SectorsAssumption DEF Init, TypeOK, BufSectors, Zero
<1>3. OneActive /\ Progress /\ SuccessMeansTransferred
    BY DEF Init, OneActive, Progress, SuccessMeansTransferred
<1> QED BY <1>2, <1>3 DEF IInv

-----------------------------------------------------------------------------
(* Preservation, one step per action.                                      *)

(* Every step keeps the types; a transfer needs OneActive to know that it  *)
(* works on the request in progress.                                       *)
LEMMA TypeStep == TypeOK /\ OneActive /\ [Next]_vars => TypeOK'
<1> SUFFICES ASSUME TypeOK, OneActive, [Next]_vars PROVE TypeOK'
    OBVIOUS
<1> USE DEF boot, port, adapter, call, result
<1>1. CASE Probe
    <2>1. gport' \in Ports \union {-1} /\ phase' \in {"check", "panic"}
        BY <1>1 DEF Probe, TypeOK
    <2> QED BY <1>1, <2>1 DEF Probe, TypeOK
<1>2. ASSUME NEW r \in Requests, Fill(r), ahci_buf' \in [0..(BufSectors - 1) -> Int]
      PROVE  TypeOK'
    <2>1. r \in Request /\ r.start + r.count <= Sectors
        BY RequestsFit
    <2>2. slot' \in CmdSlots \union {-1} /\ cmdtbl' \in [CmdSlots -> Request]
          /\ pc' \in {"spin", "return"} /\ ret' \in {-1, 0}
        BY <1>2, <2>1 DEF Fill, TypeOK
    <2>3. spin' \in 0..SpinMax /\ is' \in {"clear", "tfes"}
        BY <1>2, SpinAssumption DEF Fill, ClearIs
    <2> QED BY <1>2, <2>1, <2>2, <2>3 DEF Fill, TypeOK
<1>3. ASSUME NEW r \in Requests, BeginRead(r) PROVE TypeOK'
    BY <1>2, <1>3 DEF BeginRead, TypeOK
<1>4. ASSUME NEW r \in Requests, BeginWrite(r) PROVE TypeOK'
    <2>1. ASSUME NEW k \in 0..(BufSectors - 1) PROVE Written(r, k) \in Int
        <3>1. r.start \in Nat /\ ahci_buf[k] \in Int
            BY RequestsFit DEF Request, TypeOK
        <3>2. Sectors + r.start + k \in Int
            BY <3>1, SectorsAssumption DEF BufSectors
        <3> QED BY <3>1, <3>2 DEF Written
    <2>2. ahci_buf' \in [0..(BufSectors - 1) -> Int]
        BY <1>4, <2>1 DEF BeginWrite, TypeOK
    <2> QED BY <1>2, <1>4, <2>2 DEF BeginWrite
<1>5. CASE Spin
    BY <1>5, SpinAssumption DEF Spin, Spinning, TypeOK
<1>6. CASE Hung
    BY <1>6 DEF Hung, TypeOK
<1>7. CASE Issue
    <2>1. ci' \subseteq CmdSlots /\ xfer' \in 0..BufSectors
        BY <1>7 DEF Issue, TypeOK, OneActive, BufSectors
    <2> QED BY <1>7, <2>1 DEF Issue, TypeOK
<1>8. CASE Poll
    BY <1>8 DEF Poll, CheckAgain, TypeOK
<1>9. CASE Return
    <2>1. buf' \in [0..(BufSectors - 1) -> Int]
        BY <1>9 DEF Return, TypeOK
    <2>2. phase' \in {"probe", "check", "super", "up", "panic"}
        BY <1>9 DEF Return, NextPhase, TypeOK
    <2>3. e2fs' \in Int /\ block_size' \in {"zero", "set"}
        <3>1. ahci_buf[0] \in Int
            BY DEF TypeOK, BufSectors
        <3> QED BY <1>9, <3>1 DEF Return, SuperBlock, TypeOK
    <2> QED BY <1>9, <2>1, <2>2, <2>3 DEF Return, TypeOK
<1>10. ASSUME NEW s \in CmdSlots, Transfer(s) PROVE TypeOK'
    <2>1. Active(s)
        BY <1>10 DEF Transfer
    <2>2. cmdtbl[s] = req /\ req \in Request /\ req.start + req.count <= Sectors
        BY <2>1, ActiveIsCurrent DEF TypeOK
    <2>3. xfer \in 0..(BufSectors - 1) /\ req.start + xfer \in 0..(Sectors - 1)
        <3>1. req.start \in Nat /\ req.count \in 1..16 /\ xfer \in 0..16
            BY <2>2 DEF TypeOK, Request, BufSectors
        <3>2. xfer < req.count
            BY <1>10, <2>2 DEF Transfer
        <3> QED BY <2>2, <3>1, <3>2, SectorsAssumption DEF BufSectors
    <2>4. ahci_buf' \in [0..(BufSectors - 1) -> Int] /\ medium' \in [0..(Sectors - 1) -> Int]
        BY <1>10, <2>2, <2>3, DmaIsLinear DEF Transfer, TypeOK
    <2>5. xfer' \in 0..BufSectors
        BY <1>10, <2>3 DEF Transfer, BufSectors
    <2> QED BY <1>10, <2>4, <2>5 DEF Transfer, TypeOK
<1>11. ASSUME NEW s \in CmdSlots, Complete(s) PROVE TypeOK'
    BY <1>11 DEF Complete, TypeOK
<1>12. ASSUME NEW s \in CmdSlots, Fail(s) PROVE TypeOK'
    BY <1>12 DEF Fail, TypeOK
<1>13. CASE Recover
    BY <1>13 DEF Recover, TypeOK
<1>14. CASE UNCHANGED vars
    BY <1>14 DEF vars, TypeOK
<1> QED BY <1>1, <1>3, <1>4, <1>5, <1>6, <1>7, <1>8, <1>9, <1>10, <1>11, <1>12, <1>13, <1>14
        DEF Next, PollAgain, Panicked

(* Every step keeps at most one slot active: the next call clears PxIS and *)
(* takes a slot that is not in PxCI, and the poll ends on an error.        *)
LEMMA ActiveStep == TypeOK /\ OneActive /\ [Next]_vars => OneActive'
<1> SUFFICES ASSUME TypeOK, OneActive, [Next]_vars PROVE OneActive'
    OBVIOUS
<1> USE DEF boot, port, adapter, call, result
<1>1. CASE Probe
    BY <1>1 DEF Probe, OneActive
<1>2. ASSUME NEW r \in Requests, Fill(r) PROVE OneActive'
    <2>1. CASE pc' = "spin"
        <3>1. PICK i \in CmdSlots : FreeSlot(i) /\ slot' = i /\ cmdtbl' = [cmdtbl EXCEPT ![i] = r]
            BY <1>2, <2>1 DEF Fill
        <3>2. cmdtbl'[slot'] = req' /\ slot' \in CmdSlots \ ci'
            BY <1>2, <3>1 DEF Fill, FreeSlot, TypeOK
        <3> QED BY <1>2, <2>1, <3>2 DEF Fill, ClearIs, OneActive
    <2>2. CASE pc' = "return"
        BY <1>2, <2>2 DEF Fill, OneActive
    <2> QED BY <1>2, <2>1, <2>2 DEF Fill
<1>3. ASSUME NEW r \in Requests, BeginRead(r) \/ BeginWrite(r) PROVE OneActive'
    BY <1>2, <1>3 DEF BeginRead, BeginWrite
<1>5. CASE Spin
    BY <1>5 DEF Spin, OneActive
<1>6. CASE Hung
    BY <1>6 DEF Hung, OneActive
<1>7. CASE Issue
    BY <1>7 DEF Issue, OneActive
<1>8. CASE Poll
    BY <1>8 DEF Poll, PollOver, TypeOK, OneActive
<1>9. CASE Return
    BY <1>9 DEF Return, OneActive
<1>10. ASSUME NEW s \in CmdSlots, Transfer(s) PROVE OneActive'
    BY <1>10 DEF Transfer, OneActive
<1>11. ASSUME NEW s \in CmdSlots, Complete(s) PROVE OneActive'
    <2>1. s = slot /\ pc = "poll" /\ s \notin aborted
        BY <1>11, ActiveIsCurrent DEF Complete, Active
    <2> QED BY <1>11, <2>1 DEF Complete, OneActive
<1>12. ASSUME NEW s \in CmdSlots, Fail(s) PROVE OneActive'
    <2>1. s = slot /\ pc = "poll" /\ s \in ci \ aborted
        BY <1>12, ActiveIsCurrent DEF Fail, Active
    <2> QED BY <1>12, <2>1 DEF Fail, OneActive
<1>13. CASE Recover
    BY <1>13 DEF Recover, OneActive
<1>14. CASE UNCHANGED vars
    BY <1>14 DEF vars, OneActive
<1> QED BY <1>1, <1>3, <1>5, <1>6, <1>7, <1>8, <1>9, <1>10, <1>11, <1>12, <1>13, <1>14
        DEF Next, PollAgain, Panicked

(* The transfer of one more sector, in either direction.                   *)
LEMMA TransferMoves ==
    ASSUME TypeOK, OneActive, Progress, NEW s \in CmdSlots, Transfer(s)
    PROVE  Progress'
<1> USE DEF boot, port, adapter, call, result
<1>1. Active(s)
    BY DEF Transfer
<1>2. s = slot /\ pc = "poll" /\ is = "clear" /\ cmdtbl[s] = req
    BY <1>1, ActiveIsCurrent
<1>3. s \in ci /\ s \notin aborted
    BY <1>1 DEF Active
<1>4. req.start \in Nat /\ req.count \in 1..16 /\ xfer \in 0..16 /\ xfer < req.count
      /\ req.start + req.count <= Sectors
    BY <1>2 DEF Transfer, TypeOK, Request, BufSectors
<1>5. DmaOffset(xfer) = xfer
    BY <1>4, DmaIsLinear DEF BufSectors
<1>6. UNCHANGED <<req, slot, pc, is, ci, aborted>> /\ xfer' = xfer + 1
    BY DEF Transfer
<1>7. Moved(xfer)
    BY <1>2 DEF Progress
<1>8. ASSUME NEW k \in 0..(xfer' - 1)
      PROVE  ahci_buf'[k] = medium'[req'.start + k]
    <2>1. k \in 0..xfer /\ k \in 0..15 /\ xfer \in 0..15
        BY <1>4, <1>6
    <2>2. req.start + k \in 0..(Sectors - 1) /\ req.start + xfer \in 0..(Sectors - 1)
        BY <1>4, <2>1, SectorsAssumption
    <2>3. k # xfer => ahci_buf[k] = medium[req.start + k]
        BY <1>4, <1>7, <2>1 DEF Moved
    <2>4. CASE req.op = "read"
        <3>1. ahci_buf' = [ahci_buf EXCEPT ![xfer] = medium[req.start + xfer]] /\ medium' = medium
            BY <1>2, <1>5, <2>4 DEF Transfer
        <3>2. ahci_buf \in [0..15 -> Int]
            BY DEF TypeOK, BufSectors
        <3>3. ahci_buf'[k] = IF k = xfer THEN medium[req.start + xfer] ELSE ahci_buf[k]
            BY <2>1, <3>1, <3>2
        <3> QED BY <1>6, <2>3, <3>1, <3>3
    <2>5. CASE req.op # "read"
        <3>1. medium' = [medium EXCEPT ![req.start + xfer] = ahci_buf[xfer]] /\ ahci_buf' = ahci_buf
            BY <1>2, <1>5, <2>5 DEF Transfer
        <3>2. k # xfer => req.start + k # req.start + xfer
            BY <1>4, <2>1
        <3> QED BY <1>6, <2>1, <2>2, <2>3, <3>1, <3>2 DEF TypeOK
    <2> QED BY <2>4, <2>5
<1>9. xfer' <= req'.count /\ slot' \notin aborted' /\ slot' \in ci'
    BY <1>2, <1>3, <1>4, <1>6
<1> QED BY <1>8, <1>9 DEF Progress, Moved

(* Every step keeps xfer the number of sectors that have moved.            *)
LEMMA ProgressStep == TypeOK /\ OneActive /\ Progress /\ [Next]_vars => Progress'
<1> SUFFICES ASSUME TypeOK, OneActive, Progress, [Next]_vars PROVE Progress'
    OBVIOUS
<1> USE DEF boot, port, adapter, call, result
<1>1. CASE Probe
    BY <1>1 DEF Probe, Progress, Moved
<1>2. ASSUME NEW r \in Requests, BeginRead(r) \/ BeginWrite(r) PROVE Progress'
    BY <1>2 DEF BeginRead, BeginWrite, Fill, Progress
<1>3. CASE Spin
    BY <1>3 DEF Spin, Progress
<1>4. CASE Hung
    BY <1>4 DEF Hung, Progress
<1>5. CASE Issue
    <2>1. slot' \notin aborted' /\ slot' \in ci' /\ xfer' = 0
        BY <1>5 DEF Issue, OneActive
    <2>2. req'.count \in 1..16
        BY <1>5 DEF Issue, TypeOK, Request, BufSectors
    <2>3. xfer' <= req'.count /\ Moved(xfer)'
        BY <2>1, <2>2 DEF Moved
    <2> QED BY <2>1, <2>3 DEF Progress
<1>6. CASE Poll
    BY <1>6 DEF Poll, Progress
<1>7. CASE Return
    BY <1>7 DEF Return, Progress
<1>8. ASSUME NEW s \in CmdSlots, Transfer(s) PROVE Progress'
    BY <1>8, TransferMoves
<1>9. ASSUME NEW s \in CmdSlots, Complete(s) PROVE Progress'
    <2>1. s = slot /\ pc = "poll" /\ is = "clear" /\ cmdtbl[s] = req
        BY <1>9, ActiveIsCurrent DEF Complete
    <2>2. xfer' = req'.count
        BY <1>9, <2>1 DEF Complete
    <2>3. req.count \in 1..16
        BY DEF TypeOK, Request, BufSectors
    <2> QED BY <1>9, <2>1, <2>2, <2>3 DEF Complete, Progress, Moved
<1>10. ASSUME NEW s \in CmdSlots, Fail(s) PROVE Progress'
    BY <1>10 DEF Fail, Progress
<1>11. CASE Recover
    BY <1>11 DEF Recover, Progress, Moved
<1>12. CASE UNCHANGED vars
    BY <1>12 DEF vars, Progress, Moved
<1> QED BY <1>1, <1>2, <1>3, <1>4, <1>5, <1>6, <1>7, <1>8, <1>9, <1>10, <1>11, <1>12
        DEF Next, PollAgain, Panicked

(* Only Poll reports success, and only when the command has left PxCI      *)
(* without an error; after that the adapter is idle.                       *)
LEMMA SuccessStep == IInv /\ [Next]_vars => SuccessMeansTransferred'
<1> SUFFICES ASSUME IInv, [Next]_vars PROVE SuccessMeansTransferred'
    OBVIOUS
<1> USE DEF boot, port, adapter, call, result
<1>1. CASE Probe
    BY <1>1 DEF Probe, IInv, SuccessMeansTransferred
<1>2. ASSUME NEW r \in Requests, BeginRead(r) \/ BeginWrite(r) PROVE SuccessMeansTransferred'
    BY <1>2 DEF BeginRead, BeginWrite, Fill, SuccessMeansTransferred
<1>3. CASE Spin
    BY <1>3 DEF Spin, SuccessMeansTransferred
<1>4. CASE Hung
    BY <1>4 DEF Hung, SuccessMeansTransferred
<1>5. CASE Issue
    BY <1>5 DEF Issue, SuccessMeansTransferred
<1>6. CASE Poll
    <2>1. UNCHANGED <<req, ahci_buf, medium>>
        BY <1>6 DEF Poll
    <2>2. ret' = 0 => slot \notin ci /\ is = "clear" /\ pc = "poll"
        BY <1>6 DEF Poll, CheckAgain, IInv, TypeOK
    <2>3. ret' = 0 => Moved(req.count)
        BY <2>2 DEF IInv, Progress
    <2> QED BY <2>1, <2>3 DEF Moved, SuccessMeansTransferred
<1>7. CASE Return
    BY <1>7 DEF Return, SuccessMeansTransferred
<1>8. ASSUME NEW s \in CmdSlots, Transfer(s) \/ Complete(s) \/ Fail(s)
      PROVE  SuccessMeansTransferred'
    <2>1. pc = "poll"
        BY <1>8, ActiveIsCurrent DEF Transfer, Complete, Fail, IInv
    <2>2. pc' = pc
        BY <1>8 DEF Transfer, Complete, Fail
    <2> QED BY <2>1, <2>2 DEF SuccessMeansTransferred
<1>9. CASE Recover
    BY <1>9 DEF Recover, IInv, SuccessMeansTransferred
<1>10. CASE UNCHANGED vars
    BY <1>10 DEF vars, IInv, SuccessMeansTransferred
<1> QED BY <1>1, <1>2, <1>3, <1>4, <1>5, <1>6, <1>7, <1>8, <1>9, <1>10
        DEF Next, PollAgain, Panicked

(* The driver's invariant.                                                 *)
THEOREM DriverInvariant == Spec => []IInv
<1>1. IInv /\ [Next]_vars => IInv'
    BY TypeStep, ActiveStep, ProgressStep, SuccessStep DEF IInv
<1> QED BY InitInv, <1>1, PTL DEF Spec

-----------------------------------------------------------------------------
(* The state of driver and adapter keeps its types; among them, no request *)
(* reaches past the end of the medium or of ahci_buf (TypeOK).             *)
THEOREM TypeCorrect == Spec => []TypeOK
<1>1. IInv => TypeOK
    BY DEF IInv
<1> QED BY DriverInvariant, <1>1, PTL

(* do_ahci_read() and do_ahci_write() never report success for a transfer  *)
(* that did not happen (SuccessMeansTransferred).                          *)
THEOREM SuccessIsReal == Spec => []SuccessMeansTransferred
<1>1. IInv => SuccessMeansTransferred
    BY DEF IInv
<1> QED BY DriverInvariant, <1>1, PTL

(* No command outlives its call: what is left in PxCI between calls was    *)
(* given up by the adapter (NothingOutstanding).                           *)
THEOREM NoCommandOutlivesItsCall == Spec => []NothingOutstanding
<1>1. IInv => NothingOutstanding
    BY DEF IInv, OneActive, NothingOutstanding
<1> QED BY DriverInvariant, <1>1, PTL

(* The disk is as it was when the machine started until the kernel is up,  *)
(* and the two reads before that are the ones disk_init() and              *)
(* ext2_read_superblock() make.                                            *)
BootReads ==
    /\ phase = "probe" => pc = "idle"
    /\ phase = "check" /\ pc # "idle" => req = [op |-> "read", start |-> 0, count |-> 8]
    /\ phase = "super" /\ pc # "idle" => req = ReadBlock(1)
    /\ phase \in {"probe", "check", "super"} => \A s \in 0..(Sectors - 1) : medium[s] = s

(* ahci_buf holds only what these reads can have brought, at its place.    *)
BootBuffer ==
    /\ phase \in {"probe", "check"} => \A k \in 0..(BufSectors - 1) : ahci_buf[k] \in {Zero, k}
    /\ phase = "super" => ahci_buf[0] \in {Zero, 0, 2}

(* The port was probed before anything is read from it, and the superblock *)
(* is read last.                                                           *)
MountInv ==
    /\ BootReads /\ BootBuffer /\ MountedSuperblock
    /\ phase \in {"check", "super", "up"} => SecondActive(gport)
    /\ block_size = "set" => phase = "up"

(* A sector moved during the boot goes where BootBuffer allows it.         *)
LEMMA BootTransfer ==
    ASSUME IInv, MountInv, NEW s \in CmdSlots, Transfer(s)
    PROVE  BootReads' /\ BootBuffer'
<1> USE DEF boot, port, adapter, call, result
<1>1. pc = "poll" /\ cmdtbl[s] = req
    BY ActiveIsCurrent DEF Transfer, IInv
<1>2. req.start \in Nat /\ req.count \in 1..16 /\ xfer \in 0..15 /\ xfer < req.count
      /\ req.start + req.count <= Sectors
    <2>1. req.start \in Nat /\ req.count \in 1..16 /\ xfer \in 0..16
          /\ req.start + req.count <= Sectors
        BY DEF IInv, TypeOK, Request, BufSectors
    <2>2. xfer < req.count
        BY <1>1 DEF Transfer
    <2> QED BY <2>1, <2>2
<1>3. DmaOffset(xfer) = xfer
    BY <1>2, DmaIsLinear DEF BufSectors
<1>4. UNCHANGED <<phase, pc, req>> /\ phase # "probe"
    BY <1>1 DEF Transfer, MountInv, BootReads
<1>5. ahci_buf \in [0..15 -> Int]
    BY DEF IInv, TypeOK, BufSectors
<1>6. phase \in {"check", "super"} => req.op = "read"
    BY <1>1 DEF MountInv, BootReads, ReadBlock
<1>7. phase \in {"check", "super"} =>
        /\ medium' = medium
        /\ ahci_buf' = [ahci_buf EXCEPT ![xfer] = req.start + xfer]
    <2>1. req.start + xfer \in 0..(Sectors - 1)
        BY <1>2, SectorsAssumption
    <2>2. phase \in {"check", "super"} => medium[req.start + xfer] = req.start + xfer
        BY <2>1 DEF MountInv, BootReads
    <2> QED BY <1>1, <1>3, <1>6, <2>2 DEF Transfer
<1>8. BootReads'
    BY <1>4, <1>7 DEF MountInv, BootReads
<1>9. CASE phase = "check"
    <2>1. req.start = 0
        BY <1>1, <1>9 DEF MountInv, BootReads
    <2>2. ASSUME NEW k \in 0..15 PROVE ahci_buf'[k] \in {Zero, k}
        <3>1. ahci_buf[k] \in {Zero, k}
            BY <1>9 DEF MountInv, BootBuffer, BufSectors
        <3> QED BY <1>2, <1>5, <1>7, <1>9, <2>1, <3>1
    <2> QED BY <1>4, <1>8, <1>9, <2>2 DEF BootBuffer, BufSectors
<1>10. CASE phase = "super"
    <2>1. req.start = 2
        BY <1>1, <1>10 DEF MountInv, BootReads, ReadBlock, BlockSectors
    <2>2. ahci_buf[0] \in {Zero, 0, 2}
        BY <1>10 DEF MountInv, BootBuffer
    <2>3. ahci_buf'[0] \in {Zero, 0, 2}
        BY <1>2, <1>5, <1>7, <1>10, <2>1, <2>2
    <2> QED BY <1>4, <1>8, <1>10, <2>3 DEF BootBuffer
<1>11. CASE phase \notin {"check", "super"}
    BY <1>4, <1>8, <1>11 DEF BootBuffer
<1> QED BY <1>8, <1>9, <1>10, <1>11

(* The kernel mounts the disk at the second active port, with the          *)
(* signature in its superblock, or none, and the superblock it works with  *)
(* carries it too (MountedSuperblock), whatever reads fail.                *)
THEOREM MountsSignedDisk == Spec => []MountedSuperblock
<1> USE DEF boot, port, adapter, call, result
<1>1. Init => MountInv
    BY DEF Init, MountInv, MountedSuperblock, BootReads, BootBuffer
<1>2. IInv /\ MountInv /\ [Next]_vars => MountInv'
    <2> SUFFICES ASSUME IInv, MountInv, [Next]_vars PROVE MountInv'
        OBVIOUS
    <2>1. CASE Probe
        <3>1. BootReads' /\ BootBuffer'
            BY <2>1 DEF Probe, MountInv, BootReads, BootBuffer
        <3>2. MountedSuperblock'
            BY <2>1 DEF Probe, MountInv, MountedSuperblock
        <3>3. phase' \in {"check", "super", "up"} => SecondActive(gport)'
            BY <2>1 DEF Probe, SecondActive
        <3>4. block_size' # "set"
            BY <2>1 DEF Probe, MountInv
        <3> QED BY <3>1, <3>2, <3>3, <3>4 DEF MountInv
    <2>2. CASE Return
        <3>1. UNCHANGED <<present, gport, magic, medium, ahci_buf, req>> /\ pc' = "idle"
              /\ phase # "probe"
            BY <2>2 DEF Return, MountInv, BootReads
        <3>2. phase' \in {"check", "super", "up"} => SecondActive(gport)'
            BY <2>2, <3>1 DEF Return, NextPhase, MountInv, SecondActive
        <3>3. BootReads'
            BY <2>2, <3>1 DEF Return, NextPhase, MountInv, BootReads
        <3>4. Zero \notin magic
            BY BlocksAssumption DEF IInv, TypeOK, Zero
        <3>5. CASE phase = "check"
            <4>1. ahci_buf[0] \in {Zero, 0} /\ ahci_buf[2] \in {Zero, 2}
                BY <3>5 DEF MountInv, BootBuffer, BufSectors
            <4>2. req.op = "read"
                BY <2>2, <3>5 DEF Return, MountInv, BootReads
            <4>3. phase' \in {"super", "panic"} /\ UNCHANGED <<e2fs, block_size>>
                BY <2>2, <3>5, <4>2 DEF Return, NextPhase
            <4>4. phase' = "super" => 2 \in magic
                BY <2>2, <3>4, <3>5, <4>1, <4>2 DEF Return, NextPhase, Magic
            <4>5. block_size' # "set"
                BY <3>5, <4>3 DEF MountInv
            <4>6. BootBuffer'
                BY <3>1, <4>1, <4>3 DEF BootBuffer
            <4> QED BY <3>1, <3>2, <3>3, <4>3, <4>4, <4>5, <4>6 DEF MountInv, MountedSuperblock
        <3>6. CASE phase = "super"
            <4>1. ahci_buf[0] \in {Zero, 0, 2}
                BY <3>6 DEF MountInv, BootBuffer
            <4>2. req.op = "read"
                BY <2>2, <3>6 DEF Return, MountInv, BootReads, ReadBlock
            <4>3. phase' = "up" /\ SuperBlock(ahci_buf)
                BY <2>2, <3>6, <4>2 DEF Return, NextPhase
            <4>4. block_size' = "set" => ahci_buf[0] \in magic
                BY <3>6, <4>3 DEF SuperBlock, Magic, MountInv
            <4>5. MountedSuperblock'
                BY <3>1, <3>2, <3>4, <3>6, <4>1, <4>3, <4>4
                DEF SuperBlock, MountInv, MountedSuperblock
            <4> QED BY <3>2, <3>3, <4>3, <4>5 DEF MountInv, BootBuffer
        <3>7. CASE phase \notin {"check", "super"}
            <4>1. UNCHANGED <<phase, e2fs, block_size>>
                BY <2>2, <3>7 DEF Return, NextPhase
            <4> QED BY <3>1, <3>2, <3>3, <3>7, <4>1
                    DEF MountInv, MountedSuperblock, SecondActive, BootBuffer
        <3> QED BY <3>5, <3>6, <3>7
    <2>3. ASSUME UNCHANGED boot, BootReads', BootBuffer' PROVE MountInv'
        BY <2>3 DEF MountInv, MountedSuperblock, SecondActive
    <2>4. ASSUME NEW s \in CmdSlots, Transfer(s) PROVE MountInv'
        BY <2>3, <2>4, BootTransfer DEF Transfer
    <2>5. ASSUME NEW r \in Requests, BeginRead(r) \/ BeginWrite(r) PROVE MountInv'
        <3>1. UNCHANGED <<boot, medium>> /\ req' = r
            BY <2>5 DEF BeginRead, BeginWrite, Fill
        <3>2. phase \in {"check", "super", "up"}
            BY <2>5 DEF Requests
        <3>3. phase = "check" => r = [op |-> "read", start |-> 0, count |-> 8]
            BY <2>5 DEF Requests
        <3>4. phase = "super" => r = ReadBlock(1)
            BY <2>5 DEF Requests
        <3>5. BootReads'
            BY <3>1, <3>2, <3>3, <3>4 DEF MountInv, BootReads, ReadBlock
        <3>6. phase \in {"check", "super"} => ahci_buf' = ahci_buf
            BY <2>5, <3>3, <3>4 DEF BeginRead, BeginWrite, ReadBlock
        <3>7. BootBuffer'
            BY <3>1, <3>2, <3>6 DEF MountInv, BootBuffer
        <3> QED BY <2>3, <3>1, <3>5, <3>7
    <2>6. ASSUME UNCHANGED <<boot, medium, ahci_buf, req>>, pc = "idle" => pc' = "idle"
          PROVE  MountInv'
        BY <2>3, <2>6 DEF MountInv, BootReads, BootBuffer
    <2>7. ASSUME NEW s \in CmdSlots, Complete(s) \/ Fail(s) PROVE MountInv'
        BY <2>6, <2>7 DEF Complete, Fail
    <2>8. CASE Spin \/ Hung \/ Issue \/ Poll \/ Recover \/ UNCHANGED vars
        BY <2>6, <2>8 DEF Spin, Hung, Issue, Poll, Recover, vars
    <2> QED BY <2>1, <2>2, <2>4, <2>5, <2>7, <2>8 DEF Next, PollAgain, Panicked
<1>3. MountInv => MountedSuperblock
    BY DEF MountInv
<1> QED BY <1>1, <1>2, <1>3, DriverInvariant, PTL DEF Spec

=============================================================================

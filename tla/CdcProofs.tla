------------------------------ MODULE CdcProofs ------------------------------
(***************************************************************************)
(* The serial port: the types of its variables, the pool of receive        *)
(* buffers, the data of a sender that cdc_task reads from where it is, and *)
(* the order in both directions: what USB_receive returns is what the host *)
(* sent, for transfers of one block, and what the host gets is what was    *)
(* given to USB_send.                                                      *)
(***************************************************************************)
EXTENDS CdcSerial, FiniteSetTheorems, SequenceTheorems, TLAPS

(* The control block, between the handlers and vcom_bread. *)
ReceiveState ==
  /\ "FULL" \in rx_flags <=> rx_count # 0
  /\ "QUEUED" \in rx_flags => rx_count = 0
  /\ armed => "QUEUED" \in rx_flags /\ "OUT" \notin events
  /\ "OUT" \in events => "QUEUED" \in rx_flags
  /\ rx_rd_count <= rx_count
  /\ cpc # "release" => rx_rd_count < rx_count \/ rx_count = 0
  /\ cpc \in {"copy", "release"} => rx_count # 0 /\ cnt = 1

(* and between the handlers and vcom_write. *)
SendState ==
  /\ "BUSY" \in tx_flags => "CONNECTED" \in tx_flags
  /\ cpc = "store" => "CONNECTED" \in tx_flags /\ loaded = {"CONNECTED", "BUSY"}
  /\ "LINE" \in events /\ "CONNECTED" \in tx_flags => reopened < MaxReopens

(* The item queued or being written belongs to the one sender that waits. *)
Packets == Senders \X Nat \X Nat
Items == [by : Senders \cup {None}, dptr : Seq(Packets)]

Sending ==
  /\ spc \in [Senders -> {"idle", "mutex", "queue", "complete", "release"}]
  /\ data \in [Senders -> Seq(Packets)] /\ calls \in [Senders -> Nat]
  /\ SendMutex \in Senders \cup {None}
  /\ snd \in Items /\ SendComplete \in 0..1

OneSender ==
  /\ \A s \in Senders :
       spc[s] \in {"queue", "complete", "release"} <=> SendMutex = s
  /\ \A s \in Senders : spc[s] # "idle" => data[s] # <<>>
  /\ \/ SendQueue = <<>>
     \/ \E s \in Senders : /\ SendQueue = <<[by |-> s, dptr |-> data[s]]>>
                           /\ spc[s] = "complete"
                           /\ ~Pending /\ SendComplete = 0
  /\ Pending => /\ snd.by \in Senders /\ spc[snd.by] = "complete"
                /\ SendQueue = <<>> /\ SendComplete = 0
  /\ SendComplete = 1 => /\ \E s \in Senders : spc[s] = "complete"
                         /\ SendQueue = <<>> /\ ~Pending
  /\ cpc \in {"load", "store", "writeEP"} => Pending

(* cdc_task and the reader have a buffer exactly where they use one. *)
Lent ==
  /\ cpc \in {"bread", "copy", "release", "post"} => rcv # None
  /\ rpc = "receive" <=> rec = None
  /\ cpc = "create" => /\ rcv = None /\ rec = None
                       /\ AllocQueue = <<>> /\ ReceiveQueue = <<>>

Pool ==
  /\ g_rxBuff \in [Buffers -> Seq(0..MaxBlocks)]
  /\ AllocQueue \in Seq(Buffers) /\ ReceiveQueue \in Seq(Buffers)
  /\ rcv \in Buffers \cup {None} /\ rec \in Buffers \cup {None}
  /\ rpc \in {"receive", "copy", "free"}

Steps == {"create", "hwInit", "vcomInit", "enable", "attach", "connect", "alloc",
          "bread", "copy", "release", "post", "load", "store", "writeEP", "poll"}

PortInv ==
  /\ VcomTypeOK /\ cpc \in Steps /\ ReceiveState /\ SendState
  /\ Pool /\ Lent
  /\ Sending /\ OneSender

-----------------------------------------------------------------------------
(* The steps of the driver and of the host, and their effect on it.        *)

LEMMA HostWritesStep ==
  ASSUME VcomTypeOK, ReceiveState, SendState,
         NEW n \in 0..MaxTransfer, HostWrites(n)
  PROVE  VcomTypeOK' /\ ReceiveState' /\ SendState'
<1>1. /\ armed /\ outSent + n <= MaxBlocks
      /\ rx_buff' = [i \in 1..MaxTransfer |->
                       IF i <= n THEN outSent + i ELSE rx_buff[i]]
      /\ received' = n /\ outSent' = outSent + n /\ armed' = FALSE
      /\ events' = events \cup {"OUT"}
      /\ UNCHANGED <<cpc, rx_count, rx_rd_count, rx_flags, tx_flags, inEp, cnt,
                     loaded, hostGot, reopened, usbVars>>
  BY DEF HostWrites, txVars
<1>2. rx_buff' \in [1..MaxTransfer -> 0..MaxBlocks]
  <2>1. \A i \in 1..MaxTransfer : i <= n => outSent + i \in 0..MaxBlocks
    BY <1>1, VcomAssumption DEF VcomTypeOK, VcomAssumption
  <2>2. QED
    BY <1>1, <2>1 DEF VcomTypeOK
<1>3. outSent' \in 0..MaxBlocks
  BY <1>1, VcomAssumption DEF VcomTypeOK, VcomAssumption
<1>4. VcomTypeOK'
  BY <1>1, <1>2, <1>3 DEF VcomTypeOK, Events, usbVars
<1>5. ReceiveState'
  BY <1>1 DEF ReceiveState
<1>6. SendState'
  BY <1>1 DEF SendState
<1>7. QED
  BY <1>4, <1>5, <1>6

LEMMA BulkOutStep ==
  ASSUME VcomTypeOK, ReceiveState, SendState, BulkOut
  PROVE  VcomTypeOK' /\ ReceiveState' /\ SendState'
<1>1. /\ "OUT" \in events /\ events' = events \ {"OUT"}
      /\ rx_count' = received
      /\ rx_flags' = IF "QUEUED" \notin rx_flags THEN rx_flags
                     ELSE (rx_flags \ {"QUEUED"})
                            \cup IF rx_count' # 0 THEN {"FULL"} ELSE {}
      /\ UNCHANGED <<cpc, rx_buff, received, rx_rd_count, armed, tx_flags, inEp,
                     cnt, loaded, hostVars, usbVars>>
  BY DEF BulkOut, Endpoint, Raised, txVars
<1>2. VcomTypeOK'
  BY <1>1 DEF VcomTypeOK, RxFlags, hostVars, usbVars
<1>3. ReceiveState'
  BY <1>1 DEF ReceiveState, VcomTypeOK
<1>4. SendState'
  BY <1>1 DEF SendState, hostVars
<1>5. QED
  BY <1>2, <1>3, <1>4

LEMMA BulkOutNakStep ==
  ASSUME VcomTypeOK, ReceiveState, SendState, BulkOutNak
  PROVE  VcomTypeOK' /\ ReceiveState' /\ SendState'
<1>1. /\ events' = events \ {"OUT_NAK"}
      /\ IF rx_flags \cap {"FULL", "QUEUED"} = {}
           THEN armed' = TRUE /\ rx_flags' = rx_flags \cup {"QUEUED"}
           ELSE UNCHANGED <<armed, rx_flags>>
      /\ UNCHANGED <<cpc, rx_buff, received, rx_count, rx_rd_count, tx_flags,
                     inEp, cnt, loaded, hostVars, usbVars>>
  BY DEF BulkOutNak, Endpoint, Raised, txVars
<1>2. VcomTypeOK'
  BY <1>1 DEF VcomTypeOK, RxFlags, hostVars, usbVars
<1>3. ReceiveState'
  BY <1>1 DEF ReceiveState
<1>4. SendState'
  BY <1>1 DEF SendState, hostVars
<1>5. QED
  BY <1>2, <1>3, <1>4

(* what leaves the receiving half alone *)
LEMMA ReceiveUntouched ==
  ASSUME ReceiveState, UNCHANGED rxVars, "OUT" \in events' <=> "OUT" \in events,
         \/ UNCHANGED <<cpc, cnt>>
         \/ cpc \notin {"copy", "release"} /\ cpc' \notin {"copy", "release"}
  PROVE  ReceiveState'
  BY DEF ReceiveState, rxVars

LEMMA HostEventStep ==
  ASSUME VcomTypeOK, ReceiveState, SendState,
         HostRefused \/ HostReads \/ HostSetsLineCoding
  PROVE  VcomTypeOK' /\ ReceiveState' /\ SendState'
<1>1. /\ UNCHANGED <<cpc, rxVars, tx_flags, cnt, loaded, outSent, reopened,
                     usbVars>>
      /\ \/ events' = events \cup {"OUT_NAK"}
         \/ events' = events \cup {"IN"}
         \/ /\ events' = events \cup {"LINE"}
            /\ "CONNECTED" \in tx_flags => reopened < MaxReopens
  BY DEF HostRefused, HostReads, HostSetsLineCoding, txVars, hostVars
<1>2. VcomTypeOK'
  BY <1>1 DEF VcomTypeOK, Events, rxVars, usbVars
<1>3. ReceiveState'
  BY <1>1, ReceiveUntouched
<1>4. SendState'
  BY <1>1 DEF SendState
<1>5. QED
  BY <1>2, <1>3, <1>4

LEMMA BulkInStep ==
  ASSUME VcomTypeOK, ReceiveState, SendState, VCOM_bulk_in_hdlr
  PROVE  VcomTypeOK' /\ ReceiveState' /\ SendState'
<1>1. /\ events' = events \ {"IN"} /\ tx_flags' = tx_flags \ {"BUSY"}
      /\ UNCHANGED <<cpc, rxVars, inEp, cnt, loaded, hostVars, usbVars>>
  BY DEF VCOM_bulk_in_hdlr, Endpoint, Raised
<1>2. VcomTypeOK'
  BY <1>1 DEF VcomTypeOK, rxVars, hostVars, usbVars
<1>3. ReceiveState'
  BY <1>1, ReceiveUntouched
<1>4. SendState'
  BY <1>1 DEF SendState, hostVars
<1>5. QED
  BY <1>2, <1>3, <1>4

LEMMA SetLineCodeStep ==
  ASSUME VcomTypeOK, ReceiveState, SendState, VCOM_SetLineCode
  PROVE  VcomTypeOK' /\ ReceiveState' /\ SendState'
<1>1. /\ "LINE" \in events /\ events' = events \ {"LINE"}
      /\ tx_flags' = {"CONNECTED"}
      /\ reopened' = IF "CONNECTED" \in tx_flags THEN reopened + 1 ELSE reopened
      /\ UNCHANGED <<cpc, rxVars, inEp, cnt, loaded, outSent, hostGot, usbVars>>
  BY DEF VCOM_SetLineCode, Raised
<1>2. reopened' \in 0..MaxReopens
  BY <1>1, VcomAssumption DEF VcomTypeOK, SendState, VcomAssumption
<1>3. VcomTypeOK'
  BY <1>1, <1>2 DEF VcomTypeOK, TxFlags, rxVars, usbVars
<1>4. ReceiveState'
  BY <1>1, ReceiveUntouched
<1>5. SendState'
  BY <1>1 DEF SendState
<1>6. QED
  BY <1>3, <1>4, <1>5

(* vcom_bread, but for what it does with the buffers of cdc_task *)
LEMMA BreadStep ==
  ASSUME VcomTypeOK, ReceiveState, SendState,
         BreadCount(AfterRead) \/ BreadCopy \/ BreadRelease
  PROVE  VcomTypeOK' /\ ReceiveState' /\ SendState' /\ cpc' \in Steps
<1>1. CASE BreadCount(AfterRead)
  <2>1. /\ IF rx_count # 0 THEN cnt' = 1 /\ cpc = "bread" /\ cpc' = "copy"
                           ELSE cnt' = 0 /\ cpc = "bread" /\ cpc' = AfterRead
        /\ AfterRead \in {"load", "poll"}
        /\ UNCHANGED <<rxVars, txVars, loaded, events, hostVars, usbVars>>
    BY <1>1 DEF BreadCount, Goto, AfterRead
  <2>2. VcomTypeOK'
    BY <2>1 DEF VcomTypeOK, rxVars, txVars, hostVars, usbVars
  <2>3. ReceiveState'
    BY <2>1 DEF ReceiveState, rxVars
  <2>4. SendState'
    BY <2>1 DEF SendState, txVars, hostVars
  <2>5. QED
    BY <2>1, <2>2, <2>3, <2>4 DEF Steps
<1>2. CASE BreadCopy
  <2>1. /\ cpc = "copy" /\ cpc' = "release" /\ rx_rd_count' = rx_rd_count + cnt
        /\ UNCHANGED <<rx_buff, received, rx_count, rx_flags, armed, txVars, cnt,
                       loaded, events, hostVars, usbVars>>
    BY <1>2 DEF BreadCopy, Goto
  <2>2. /\ cnt = 1 /\ rx_count \in 0..MaxTransfer
        /\ rx_rd_count \in 0..MaxTransfer
        /\ rx_rd_count < rx_count /\ MaxTransfer \in Nat
    BY <2>1, VcomAssumption DEF ReceiveState, VcomTypeOK, VcomAssumption
  <2>3. rx_rd_count' \in 0..MaxTransfer /\ rx_rd_count' <= rx_count
    BY <2>1, <2>2
  <2>4. VcomTypeOK'
    BY <2>1, <2>3 DEF VcomTypeOK, txVars, hostVars, usbVars
  <2>5. ReceiveState'
    BY <2>1, <2>2, <2>3 DEF ReceiveState
  <2>6. SendState'
    BY <2>1 DEF SendState, txVars, hostVars
  <2>7. QED
    BY <2>1, <2>4, <2>5, <2>6 DEF Steps
<1>3. CASE BreadRelease
  <2>1. /\ cpc = "release" /\ cpc' = "post"
        /\ IF rx_rd_count >= rx_count
             THEN /\ rx_flags' = rx_flags \ {"FULL"}
                  /\ rx_rd_count' = 0 /\ rx_count' = 0
             ELSE UNCHANGED <<rx_flags, rx_rd_count, rx_count>>
        /\ UNCHANGED <<rx_buff, received, armed, txVars, cnt, loaded, events,
                       hostVars, usbVars>>
    BY <1>3 DEF BreadRelease, Goto
  <2>2. 0 \in 0..MaxTransfer
    BY VcomAssumption DEF VcomAssumption
  <2>3. VcomTypeOK'
    BY <2>1, <2>2 DEF VcomTypeOK, RxFlags, txVars, hostVars, usbVars
  <2>4. ReceiveState'
    BY <2>1 DEF ReceiveState, VcomTypeOK
  <2>5. SendState'
    BY <2>1 DEF SendState, txVars, hostVars
  <2>6. QED
    BY <2>1, <2>3, <2>4, <2>5 DEF Steps
<1>4. QED
  BY <1>1, <1>2, <1>3

LEMMA WriteStep ==
  ASSUME VcomTypeOK, ReceiveState, SendState,
         WriteLoad \/ WriteRefused \/ WriteStore \/ \E p : WriteEP(p)
  PROVE  VcomTypeOK' /\ ReceiveState' /\ SendState' /\ cpc' \in Steps
<1>1. /\ UNCHANGED <<rxVars, cnt, events, hostVars, usbVars>>
      /\ cpc \in {"load", "store", "writeEP"}
      /\ cpc' \in {"poll", "store", "writeEP"}
      /\ \/ /\ cpc' = "store" /\ tx_flags' = tx_flags
            /\ "CONNECTED" \in tx_flags /\ loaded' = tx_flags \cup {"BUSY"}
         \/ cpc' # "store" /\ UNCHANGED <<tx_flags, loaded>>
         \/ /\ cpc = "store" /\ cpc' # "store"
            /\ tx_flags' = loaded /\ loaded' = {}
  BY DEF WriteLoad, WriteRefused, WriteStore, WriteEP, Goto, MayWrite, txVars
<1>2. VcomTypeOK'
  BY <1>1 DEF VcomTypeOK, TxFlags, rxVars, hostVars, usbVars
<1>3. ReceiveState'
  BY <1>1, ReceiveUntouched
<1>4. SendState'
  BY <1>1 DEF SendState, VcomTypeOK, TxFlags, hostVars
<1>5. QED
  BY <1>1, <1>2, <1>3, <1>4 DEF Steps

(* the steps of cdc_task outside the driver, vcom_init among them *)
LEMMA TaskStep ==
  ASSUME VcomTypeOK, ReceiveState, SendState,
         Create \/ HwInit \/ InitVcom \/ EnableIRQ \/ Connect \/ Connected
           \/ Allocate \/ Post \/ Poll
  PROVE  VcomTypeOK' /\ ReceiveState' /\ SendState' /\ cpc' \in Steps
<1>1. /\ UNCHANGED <<rxVars, txVars, cnt, loaded, events, hostVars>>
      /\ cpc \notin {"copy", "release", "store"}
      /\ cpc' \notin {"copy", "release", "store"} /\ cpc' \in Steps
  BY DEF Create, HwInit, InitVcom, vcom_init, EnableIRQ, Connect, Connected,
     Allocate, Post, Poll, Stay, Still, Goto, Steps, AfterRead
<1>2. /\ handlers' \in [EndpointIndices -> {NoHandler, "in", "out"}]
      /\ irq' \in BOOLEAN /\ bus' \in BOOLEAN /\ ret' \in BOOLEAN
  BY DEF VcomTypeOK, usbVars, Create, HwInit, InitVcom, vcom_init, EnableIRQ,
     Connect, Connected, Allocate, Post, Poll, Stay
<1>3. VcomTypeOK'
  BY <1>1, <1>2 DEF VcomTypeOK, rxVars, txVars, hostVars
<1>4. ReceiveState'
  BY <1>1, ReceiveUntouched
<1>5. SendState'
  BY <1>1 DEF SendState, txVars, hostVars
<1>6. QED
  BY <1>1, <1>3, <1>4, <1>5

(* Whatever happens, the control block stays as it must be. *)
LEMMA DriverStep ==
  ASSUME VcomTypeOK, ReceiveState, SendState, cpc \in Steps, [Next]_vars
  PROVE  VcomTypeOK' /\ ReceiveState' /\ SendState' /\ cpc' \in Steps
<1>1. CASE Interrupts
  <2>1. cpc' = cpc
    BY <1>1 DEF Interrupts, VCOM_bulk_in_hdlr, BulkOut, BulkOutNak,
       VCOM_SetLineCode
  <2>2. QED
    BY <1>1, <2>1, BulkInStep, BulkOutStep, BulkOutNakStep, SetLineCodeStep
       DEF Interrupts
<1>2. CASE Host
  <2>1. cpc' = cpc
    BY <1>2 DEF Host, HostWrites, HostRefused, HostReads, HostSetsLineCoding
  <2>2. QED
    BY <1>2, <2>1, HostWritesStep, HostEventStep DEF Host
<1>3. CASE cdc_task
  BY <1>3, TaskStep, BreadStep, WriteStep DEF cdc_task, Driver, Copy, Written
<1>4. CASE UNCHANGED vcomVars
  BY <1>4 DEF vcomVars, VcomTypeOK, ReceiveState, SendState, rxVars, txVars,
     hostVars, usbVars
<1>5. CASE \/ USB_receive
           \/ \E s \in Senders :
                USB_send(s) \/ \E n \in 1..MaxPackets : SendBegin(s, n)
  <2>1. UNCHANGED vcomVars
    BY <1>5 DEF USB_receive, ReceiveItem, CopyToUser, FreeItem, USB_send,
       SendBegin, TakeMutex, QueueData, TakeComplete, GiveMutex
  <2>2. QED
    BY <1>4, <2>1
<1>6. QED
  BY <1>1, <1>2, <1>3, <1>4, <1>5 DEF Next, vars

-----------------------------------------------------------------------------
(* The buffers of cdc_task and of the reader.                              *)

(* the steps that move a buffer or fill it *)
Moves == Create \/ Allocate \/ Copy \/ Post \/ ReceiveItem \/ FreeItem

(* and what the others do to the pool *)
LEMMA PoolUntouched ==
  ASSUME Lent, [Next]_vars, ~Moves
  PROVE  /\ UNCHANGED poolVars /\ rec' = rec
         /\ UNCHANGED <<rpc, got>> \/ CopyToUser
         /\ cpc' \in {"bread", "copy", "release", "post"} => rcv # None
         /\ cpc' = "create" <=> cpc = "create"
<1>1. CASE (Interrupts \/ Host) /\ Outside
  <2>1. cpc' = cpc /\ UNCHANGED <<poolVars, readerVars>>
    BY <1>1 DEF Outside, Interrupts, VCOM_bulk_in_hdlr, BulkOut, BulkOutNak,
       VCOM_SetLineCode, Host, HostWrites, HostRefused, HostReads,
       HostSetsLineCoding
  <2>2. QED
    BY <2>1 DEF Lent, readerVars
<1>2. CASE cdc_task
  <2>1. \/ HwInit \/ InitVcom \/ EnableIRQ \/ Connect \/ Connected
        \/ Written \/ Poll
        \/ Driver(BreadCount(AfterRead)) \/ Driver(BreadRelease)
        \/ Driver(WriteLoad) \/ Driver(WriteRefused) \/ Driver(WriteStore)
    BY <1>2 DEF cdc_task, Moves
  <2>2. UNCHANGED <<poolVars, readerVars>>
    BY <2>1 DEF HwInit, InitVcom, EnableIRQ, Connect, Connected, Written, Poll,
       Driver, Outside
  <2>3. /\ cpc # "create" /\ cpc' # "create" /\ cpc' # "bread"
        /\ cpc' \in {"copy", "release", "post"}
             => cpc \in {"bread", "copy", "release"}
    BY <2>1 DEF HwInit, InitVcom, vcom_init, EnableIRQ, Connect, Connected,
       Written, WriteEP, Poll, Driver, BreadCount, BreadRelease, WriteLoad,
       WriteRefused, WriteStore, Goto, AfterRead
  <2>4. QED
    BY <2>2, <2>3 DEF Lent, readerVars
<1>3. CASE CopyToUser
  BY <1>3 DEF CopyToUser, Lent, vcomVars
<1>4. CASE \E s \in Senders :
             USB_send(s) \/ \E n \in 1..MaxPackets : SendBegin(s, n)
  <2>1. cpc' = cpc /\ UNCHANGED <<poolVars, readerVars>>
    BY <1>4 DEF USB_send, SendBegin, TakeMutex, QueueData, TakeComplete,
       GiveMutex, vcomVars
  <2>2. QED
    BY <2>1 DEF Lent, readerVars
<1>5. CASE UNCHANGED vars
  BY <1>5 DEF vars, vcomVars, readerVars, Lent
<1>6. QED
  BY <1>1, <1>2, <1>3, <1>4, <1>5 DEF Next, USB_receive, Moves

LEMMA PoolStep ==
  ASSUME Pool, Lent, VcomTypeOK, ReceiveState, [Next]_vars
  PROVE  Pool' /\ Lent'
<1>1. CASE ~Moves
  <2>1. /\ UNCHANGED <<g_rxBuff, AllocQueue, ReceiveQueue, rcv, rec>>
        /\ rpc' = rpc \/ (rpc = "copy" /\ rpc' = "free")
        /\ cpc' \in {"bread", "copy", "release", "post"} => rcv # None
        /\ cpc' = "create" => cpc = "create"
    BY <1>1, PoolUntouched DEF poolVars, CopyToUser
  <2>2. QED
    BY <2>1 DEF Pool, Lent
<1>2. CASE Create
  <2>1. AllocQueue' \in Seq(Buffers)
    BY <1>2, CdcAssumption DEF Create, Buffers, CdcAssumption
  <2>2. /\ cpc' = "hwInit"
        /\ UNCHANGED <<g_rxBuff, ReceiveQueue, rcv, rec, rpc>>
    BY <1>2 DEF Create, Goto, readerVars
  <2>3. QED
    BY <2>1, <2>2 DEF Pool, Lent
<1>3. CASE Allocate
  <2>1. /\ UNCHANGED <<g_rxBuff, ReceiveQueue, rec, rpc>>
        /\ cpc' \in {"bread", "load", "poll"}
        /\ cpc' = "bread" => rcv' # None
    BY <1>3 DEF Allocate, Goto, AfterRead, readerVars
  <2>2. AllocQueue' \in Seq(Buffers) /\ rcv' \in Buffers \cup {None}
    BY <1>3, HeadTailProperties DEF Allocate, Pool
  <2>3. Pool'
    BY <2>1, <2>2 DEF Pool
  <2>4. Lent'
    BY <2>1 DEF Lent
  <2>5. QED
    BY <2>3, <2>4
<1>4. CASE Copy
  <2>1. /\ UNCHANGED <<AllocQueue, ReceiveQueue, rcv, rec, rpc>>
        /\ cpc' = "release" /\ cpc = "copy"
        /\ g_rxBuff' = [g_rxBuff EXCEPT ![rcv] = Copied]
    BY <1>4 DEF Copy, BreadCopy, Goto, readerVars
  <2>2. Copied \in Seq(0..MaxBlocks)
    <3>1. rx_buff \in [1..MaxTransfer -> 0..MaxBlocks] /\ 1 \in 1..MaxTransfer
      BY VcomAssumption DEF VcomTypeOK, VcomAssumption
    <3>2. cnt = 1
      BY <2>1 DEF ReceiveState
    <3>3. \A i \in 1..1 : rx_buff[i] \in 0..MaxBlocks
      BY <3>1
    <3>4. SubSeq(rx_buff, 1, 1) \in Seq(0..MaxBlocks)
      BY <3>3, SubSeqProperties
    <3>5. QED
      BY <3>2, <3>4 DEF Copied
  <2>3. QED
    BY <2>1, <2>2 DEF Pool, Lent
<1>5. CASE Post
  <2>1. /\ UNCHANGED <<g_rxBuff, AllocQueue, rec, rpc>>
        /\ cpc = "post" /\ cpc' \in {"load", "poll"}
        /\ \/ ReceiveQueue' = Append(ReceiveQueue, rcv) /\ rcv' = None
           \/ UNCHANGED <<ReceiveQueue, rcv>>
    BY <1>5 DEF Post, Goto, AfterRead, readerVars
  <2>2. rcv \in Buffers
    BY <2>1 DEF Pool, Lent
  <2>3. Append(ReceiveQueue, rcv) \in Seq(Buffers)
    BY <2>2, AppendProperties DEF Pool
  <2>4. ReceiveQueue' \in Seq(Buffers)
    BY <2>1, <2>3 DEF Pool
  <2>5. QED
    BY <2>1, <2>4 DEF Pool, Lent
<1>6. CASE ReceiveItem
  <2>1. /\ UNCHANGED <<cpc, g_rxBuff, AllocQueue, rcv>> /\ cpc # "create"
        /\ rpc' = "copy" /\ ReceiveQueue # <<>>
        /\ rec' = Head(ReceiveQueue) /\ ReceiveQueue' = Tail(ReceiveQueue)
    BY <1>6 DEF ReceiveItem, DelayOver, vcomVars
  <2>2. rec' \in Buffers /\ ReceiveQueue' \in Seq(Buffers)
    BY <2>1, HeadTailProperties DEF Pool
  <2>3. rec' # None
    BY <2>2, CdcAssumption DEF CdcAssumption, Buffers
  <2>4. QED
    BY <2>1, <2>2, <2>3 DEF Pool, Lent
<1>7. CASE FreeItem
  <2>1. /\ UNCHANGED <<cpc, g_rxBuff, ReceiveQueue, rcv>>
        /\ rpc = "free" /\ rpc' = "receive" /\ rec' = None
        /\ AllocQueue' = Append(AllocQueue, rec)
    BY <1>7 DEF FreeItem, vcomVars
  <2>2. rec \in Buffers /\ cpc # "create"
    BY <2>1 DEF Pool, Lent
  <2>3. AllocQueue' \in Seq(Buffers)
    BY <2>1, <2>2, AppendProperties DEF Pool
  <2>4. QED
    BY <2>1, <2>2, <2>3 DEF Pool, Lent
<1>8. QED
  BY <1>1, <1>2, <1>3, <1>4, <1>5, <1>6, <1>7 DEF Moves

-----------------------------------------------------------------------------
(* USB_send, and what cdc_task does with the data.                         *)

LEMMA SendInit == Init => Sending /\ OneSender
<1> SUFFICES ASSUME Init PROVE Sending /\ OneSender
  OBVIOUS
<1>1. NoItem \in Items /\ NoItem.dptr = <<>>
  BY DEF NoItem, Items
<1>2. Sending
  BY <1>1 DEF Init, Sending
<1>3. OneSender
  BY <1>1, CdcAssumption DEF Init, OneSender, Pending, CdcAssumption
<1>4. QED
  BY <1>2, <1>3

LEMMA MessageType ==
  ASSUME NEW s \in Senders, NEW n \in Nat, NEW packets \in 1..MaxPackets
  PROVE  Message(s, n, packets) \in Seq(Packets) /\ Message(s, n, packets) # <<>>
         /\ Len(Message(s, n, packets)) = packets
<1>1. \A i \in 1..packets : <<s, n, i>> \in Packets
  BY DEF Packets
<1>2. packets \in Nat /\ packets # 0
  BY CdcAssumption DEF CdcAssumption
<1>3. Message(s, n, packets) \in Seq(Packets)
      /\ Len(Message(s, n, packets)) = packets
  BY <1>1, <1>2 DEF Message
<1>4. QED
  BY <1>2, <1>3

LEMMA SendUntouched ==
  ASSUME Sending, OneSender, UNCHANGED sendVars,
         cpc' \in {"load", "store", "writeEP"} => Pending
  PROVE  Sending' /\ OneSender'
<1>1. UNCHANGED <<spc, data, calls, SendMutex, SendQueue, SendComplete, snd>>
      /\ Pending' = Pending
  BY DEF sendVars, Pending
<1>2. Sending'
  BY <1>1 DEF Sending
<1>3. OneSender'
  BY <1>1 DEF OneSender
<1>4. QED
  BY <1>2, <1>3

LEMMA WrittenSends ==
  ASSUME Sending, OneSender, Written
  PROVE  Sending' /\ OneSender'
<1>1. /\ cpc = "writeEP" /\ cpc' = "poll"
      /\ snd' = [snd EXCEPT !.dptr = Tail(@)]
      /\ SendComplete' = IF snd'.dptr = <<>> THEN 1 ELSE SendComplete
      /\ UNCHANGED <<spc, data, calls, SendMutex, SendQueue>>
  BY DEF Written, WriteEP, Goto
<1>2. /\ snd.dptr # <<>> /\ snd.dptr \in Seq(Packets)
      /\ snd.by \in Senders /\ spc[snd.by] = "complete"
      /\ SendQueue = <<>> /\ SendComplete = 0
  BY <1>1 DEF OneSender, Pending, Sending, Items
<1>3. snd' = [by |-> snd.by, dptr |-> Tail(snd.dptr)]
  BY <1>1 DEF Sending, Items
<1>4. Tail(snd.dptr) \in Seq(Packets)
  BY <1>2, HeadTailProperties
<1>5. Sending'
  <2>1. snd' \in Items
    BY <1>2, <1>3, <1>4 DEF Items
  <2>2. SendComplete' \in 0..1
    BY <1>1, <1>2
  <2>3. QED
    BY <1>1, <2>1, <2>2 DEF Sending
<1>6. OneSender'
  BY <1>1, <1>2, <1>3 DEF OneSender, Pending
<1>7. QED
  BY <1>5, <1>6

LEMMA PollSends ==
  ASSUME Sending, OneSender, Poll
  PROVE  Sending' /\ OneSender'
<1>1. /\ cpc' = "alloc"
      /\ UNCHANGED <<spc, data, calls, SendMutex, SendComplete, accepted>>
  BY DEF Poll, Goto
<1>2. CASE ~Pending /\ SendQueue # <<>>
  <2>1. PICK s \in Senders : /\ SendQueue = <<[by |-> s, dptr |-> data[s]]>>
                             /\ spc[s] = "complete" /\ SendComplete = 0
    BY <1>2 DEF OneSender
  <2>2. snd' = [by |-> s, dptr |-> data[s]] /\ SendQueue' = <<>>
    BY <1>2, <2>1 DEF Poll
  <2>3. Sending'
    <3>1. snd' \in Items
      BY <2>2 DEF Sending, Items
    <3>2. QED
      BY <1>1, <3>1 DEF Sending
  <2>4. OneSender'
    BY <1>1, <2>1, <2>2 DEF OneSender, Pending
  <2>5. QED
    BY <2>3, <2>4
<1>3. CASE ~(~Pending /\ SendQueue # <<>>)
  BY <1>1, <1>3, SendUntouched DEF Poll, sendVars
<1>4. QED
  BY <1>2, <1>3

LEMMA SenderSteps ==
  ASSUME Sending, OneSender, NEW s \in Senders,
         \/ USB_send(s)
         \/ \E n \in 1..MaxPackets : SendBegin(s, n)
  PROVE  Sending' /\ OneSender'
<1>0. /\ cpc' = cpc /\ snd' = snd /\ Pending' = Pending
      /\ SendMutex \in Senders \cup {None} /\ None \notin Senders
  BY CdcAssumption DEF USB_send, SendBegin, TakeMutex, QueueData, TakeComplete,
     GiveMutex, vcomVars, Pending, Sending, CdcAssumption
<1>1. CASE \E n \in 1..MaxPackets : SendBegin(s, n)
  <2>1. PICK n \in 1..MaxPackets : SendBegin(s, n)
    BY <1>1
  <2>2. /\ spc[s] = "idle" /\ spc' = [spc EXCEPT ![s] = "mutex"]
        /\ calls' = [calls EXCEPT ![s] = @ + 1]
        /\ data' = [data EXCEPT ![s] = Message(s, calls[s] + 1, n)]
        /\ UNCHANGED <<SendMutex, SendQueue, SendComplete>>
    BY <2>1 DEF SendBegin, SenderGoto, Sending
  <2>3. calls[s] + 1 \in Nat
    BY DEF Sending
  <2>4. /\ Message(s, calls[s] + 1, n) \in Seq(Packets)
        /\ Message(s, calls[s] + 1, n) # <<>>
    BY <2>3, MessageType
  <2>5. Sending'
    BY <1>0, <2>2, <2>3, <2>4 DEF Sending
  <2>6. OneSender'
    BY <1>0, <2>2, <2>4 DEF OneSender, Sending
  <2>7. QED
    BY <1>0, <2>2, <2>5, <2>6
<1>2. CASE TakeMutex(s)
  <2>1. /\ spc[s] = "mutex" /\ spc' = [spc EXCEPT ![s] = "queue"]
        /\ SendMutex = None /\ SendMutex' = s
        /\ UNCHANGED <<data, calls, SendQueue, SendComplete>>
    BY <1>2 DEF TakeMutex, SenderGoto
  <2>2. Sending'
    BY <1>0, <2>1 DEF Sending
  <2>3. OneSender'
    BY <1>0, <2>1 DEF OneSender, Sending
  <2>4. QED
    BY <1>0, <2>1, <2>2, <2>3
<1>3. CASE QueueData(s)
  <2>1. /\ spc[s] = "queue" /\ spc' = [spc EXCEPT ![s] = "complete"]
        /\ SendQueue = <<>>
        /\ SendQueue' = <<[by |-> s, dptr |-> data[s]]>>
        /\ UNCHANGED <<data, calls, SendMutex, SendComplete>>
    BY <1>3 DEF QueueData, SenderGoto
  <2>2. SendMutex = s /\ \A r \in Senders : spc[r] # "complete"
    BY <2>1 DEF OneSender
  <2>3. ~Pending /\ SendComplete = 0
    BY <2>2 DEF OneSender, Sending
  <2>4. Sending'
    BY <1>0, <2>1 DEF Sending
  <2>5. OneSender'
    BY <1>0, <2>1, <2>2, <2>3 DEF OneSender, Sending
  <2>6. QED
    BY <2>4, <2>5
<1>4. CASE TakeComplete(s)
  <2>1. /\ spc[s] = "complete" /\ spc' = [spc EXCEPT ![s] = "release"]
        /\ SendComplete = 1 /\ SendComplete' = 0
        /\ UNCHANGED <<data, calls, SendMutex, SendQueue>>
    BY <1>4 DEF TakeComplete, SenderGoto
  <2>2. ~Pending /\ SendQueue = <<>>
    BY <2>1 DEF OneSender
  <2>3. Sending'
    BY <1>0, <2>1 DEF Sending
  <2>4. OneSender'
    BY <1>0, <2>1, <2>2 DEF OneSender, Sending
  <2>5. QED
    BY <1>0, <2>1, <2>3, <2>4
<1>5. CASE GiveMutex(s)
  <2>1. /\ spc[s] = "release" /\ spc' = [spc EXCEPT ![s] = "idle"]
        /\ SendMutex' = None
        /\ UNCHANGED <<data, calls, SendQueue, SendComplete>>
    BY <1>5 DEF GiveMutex, SenderGoto
  <2>2. SendMutex = s /\ \A r \in Senders : spc[r] # "complete"
    BY <2>1 DEF OneSender
  <2>3. Sending'
    BY <1>0, <2>1 DEF Sending
  <2>4. OneSender'
    BY <1>0, <2>1, <2>2 DEF OneSender, Sending
  <2>5. QED
    BY <1>0, <2>1, <2>3, <2>4
<1>6. QED
  BY <1>1, <1>2, <1>3, <1>4, <1>5 DEF USB_send

-----------------------------------------------------------------------------
LEMMA DriverInit == Init => VcomTypeOK /\ ReceiveState /\ SendState
<1> SUFFICES ASSUME Init PROVE VcomTypeOK /\ ReceiveState /\ SendState
  OBVIOUS
<1>1. 0 \in 0..MaxBlocks /\ 0 \in 0..MaxTransfer /\ 0 \in 0..MaxReopens
  BY VcomAssumption DEF VcomAssumption
<1>2. /\ rx_buff \in [1..MaxTransfer -> 0..MaxBlocks]
      /\ handlers \in [EndpointIndices -> {NoHandler, "in", "out"}]
  BY <1>1 DEF Init, VcomInit
<1>3. /\ rx_flags \subseteq RxFlags /\ tx_flags \subseteq TxFlags
      /\ loaded \subseteq TxFlags /\ events \subseteq Events
  BY DEF Init, VcomInit
<1>4. /\ armed \in BOOLEAN /\ irq \in BOOLEAN /\ bus \in BOOLEAN
      /\ ret \in BOOLEAN
  BY Zenon DEF Init, VcomInit
<1>5. cnt \in 0..1
  BY DEF Init, VcomInit
<1>6. VcomTypeOK
  BY <1>1, <1>2, <1>3, <1>4, <1>5 DEF Init, VcomInit, VcomTypeOK
<1>7. ReceiveState /\ SendState
  BY DEF Init, VcomInit, ReceiveState, SendState
<1>8. QED
  BY <1>6, <1>7

LEMMA PortInit == Init => PortInv
<1> SUFFICES ASSUME Init PROVE PortInv
  OBVIOUS
<1>1. Pool
  BY DEF Init, Pool
<1>2. Lent /\ cpc \in Steps
  BY DEF Init, Lent, Steps
<1>3. QED
  BY <1>1, <1>2, DriverInit, SendInit DEF PortInv

LEMMA SendStep ==
  ASSUME Sending, OneSender, [Next]_vars
  PROVE  Sending' /\ OneSender'
<1>1. CASE (Interrupts \/ Host) /\ Outside
  <2>1. cpc' = cpc /\ UNCHANGED sendVars
    BY <1>1 DEF Outside, Interrupts, VCOM_bulk_in_hdlr, BulkOut, BulkOutNak,
       VCOM_SetLineCode, Host, HostWrites, HostRefused, HostReads,
       HostSetsLineCoding
  <2>2. QED
    BY <2>1, SendUntouched DEF OneSender
<1>2. CASE cdc_task /\ ~Written /\ ~Poll
  <2>1. \/ Create \/ HwInit \/ InitVcom \/ EnableIRQ \/ Connect
        \/ Connected \/ Allocate \/ Copy \/ Post
        \/ Driver(BreadCount(AfterRead)) \/ Driver(BreadRelease)
        \/ Driver(WriteLoad) \/ Driver(WriteRefused) \/ Driver(WriteStore)
    BY <1>2 DEF cdc_task
  <2>2. UNCHANGED sendVars
    BY <2>1 DEF Create, HwInit, InitVcom, EnableIRQ, Connect, Connected, Allocate,
       Copy, Post, Driver, Outside
  <2>3. cpc' \in {"load", "store", "writeEP"} =>
          Pending \/ cpc \in {"load", "store", "writeEP"}
    BY <2>1 DEF Create, HwInit, InitVcom, vcom_init, EnableIRQ, Connect,
       Connected, Allocate, Copy, BreadCopy, Post, Driver, BreadCount,
       BreadRelease, WriteLoad, WriteRefused, WriteStore, Goto, AfterRead
  <2>4. QED
    BY <2>2, <2>3, SendUntouched DEF OneSender
<1>3. CASE Written \/ Poll
  BY <1>3, WrittenSends, PollSends
<1>4. CASE USB_receive \/ UNCHANGED vars
  <2>1. cpc' = cpc /\ UNCHANGED sendVars
    BY <1>4 DEF USB_receive, ReceiveItem, CopyToUser, FreeItem, vars, vcomVars
  <2>2. QED
    BY <2>1, SendUntouched DEF OneSender
<1>5. CASE \E s \in Senders :
             USB_send(s) \/ \E n \in 1..MaxPackets : SendBegin(s, n)
  BY <1>5, SenderSteps
<1>6. QED
  BY <1>1, <1>2, <1>3, <1>4, <1>5 DEF Next

LEMMA PortStep ==
  ASSUME PortInv, [Next]_vars
  PROVE  PortInv'
<1>1. VcomTypeOK' /\ ReceiveState' /\ SendState' /\ cpc' \in Steps
  BY DriverStep DEF PortInv
<1>2. Pool' /\ Lent'
  BY PoolStep DEF PortInv
<1>3. Sending' /\ OneSender'
  BY SendStep DEF PortInv
<1>4. QED
  BY <1>1, <1>2, <1>3 DEF PortInv

LEMMA PortAlways == Spec => []PortInv
<1>1. Init => PortInv
  BY PortInit
<1>2. PortInv /\ [Next]_vars => PortInv'
  BY PortStep
<1>3. QED
  BY <1>1, <1>2, PTL DEF Spec

(* Every variable of the driver, of cdc_task and of its callers keeps its   *)
(* type whatever the interrupts, the tasks and the host do between each      *)
(* other: the counts stay within a transfer, the queues within buffers.    *)
THEOREM CdcTypeCorrect == Spec => []TypeOK
<1>1. ASSUME PortInv PROVE TypeOK
  <2>1. Len(SendQueue) <= 1
    <3>1. SendQueue = <<>> \/ \E item : SendQueue = <<item>>
      BY <1>1 DEF PortInv, OneSender
    <3>2. CASE SendQueue = <<>>
      BY <3>2
    <3>3. ASSUME NEW item, SendQueue = <<item>> PROVE Len(SendQueue) <= 1
      BY <3>3
    <3>4. QED
      BY <3>1, <3>2, <3>3
  <2>2. \A b \in Buffers : g_rxBuff[b] \in Seq(0..MaxBlocks)
    BY <1>1 DEF PortInv, Pool
  <2>3. QED
    BY <1>1, <2>1, <2>2 DEF PortInv, Pool, Sending, TypeOK, Steps
<1>2. QED
  BY <1>1, PortAlways, PTL

(* cdc_task reads a sender's data where the sender keeps it.  While some is   *)
(* left, that sender is in USB_send with the mutex, and the completion       *)
(* semaphore is not up, neither early nor from an earlier call.            *)
THEOREM CdcDataStaysValid == Spec => []DataStaysValid
<1>1. PortInv => DataStaysValid
  BY DEF PortInv, OneSender, DataStaysValid
<1>2. QED
  BY <1>1, PortAlways, PTL

-----------------------------------------------------------------------------
(* How often a buffer is in a queue.                                       *)

Places(q, b) == {i \in DOMAIN q : q[i] = b}

LEMMA PlacesFinite ==
  ASSUME NEW q \in Seq(Buffers), NEW b
  PROVE  /\ Places(q, b) \subseteq 1..Len(q) /\ IsFiniteSet(Places(q, b))
         /\ Cardinality(Places(q, b)) \in Nat
<1>1. IsFiniteSet(1..Len(q)) /\ Places(q, b) \subseteq 1..Len(q)
  <2>1. Len(q) \in Nat /\ DOMAIN q = 1..Len(q)
    BY LenProperties
  <2>2. IsFiniteSet(1..Len(q))
    BY <2>1, FS_Interval
  <2>3. QED
    BY <2>1, <2>2 DEF Places
<1>2. IsFiniteSet(Places(q, b))
  BY <1>1, FS_Subset
<1>3. QED
  BY <1>1, <1>2, FS_CardinalityType

LEMMA CountAppend ==
  ASSUME NEW q \in Seq(Buffers), NEW e \in Buffers, NEW b
  PROVE  Cardinality(Places(Append(q, e), b)) =
           Cardinality(Places(q, b)) + (IF e = b THEN 1 ELSE 0)
<1>1. /\ Len(q) \in Nat /\ DOMAIN q = 1..Len(q)
      /\ DOMAIN Append(q, e) = 1..Len(q) + 1
      /\ \A i \in 1..Len(q) : Append(q, e)[i] = q[i]
      /\ Append(q, e)[Len(q) + 1] = e
  BY AppendProperties, LenProperties
<1>2. IsFiniteSet(Places(q, b)) /\ Cardinality(Places(q, b)) \in Nat
      /\ Len(q) + 1 \notin Places(q, b)
  BY <1>1, PlacesFinite
<1>3. CASE e = b
  <2>1. Places(Append(q, e), b) = Places(q, b) \cup {Len(q) + 1}
    BY <1>1, <1>3 DEF Places
  <2>2. QED
    BY <1>2, <1>3, <2>1, FS_AddElement
<1>4. CASE e # b
  <2>1. Places(Append(q, e), b) = Places(q, b)
    BY <1>1, <1>4 DEF Places
  <2>2. QED
    BY <1>2, <1>4, <2>1
<1>5. QED
  BY <1>3, <1>4

LEMMA CountTail ==
  ASSUME NEW q \in Seq(Buffers), q # <<>>, NEW b
  PROVE  Cardinality(Places(Tail(q), b)) =
           Cardinality(Places(q, b)) - (IF Head(q) = b THEN 1 ELSE 0)
<1> DEFINE S == Places(q, b) \ {1}
           T == Places(Tail(q), b)
           f == [i \in S |-> i - 1]
<1>1. /\ Len(q) \in Nat /\ Len(q) > 0 /\ DOMAIN q = 1..Len(q)
      /\ Tail(q) \in Seq(Buffers) /\ DOMAIN Tail(q) = 1..Len(q) - 1
      /\ \A i \in 1..Len(q) - 1 : Tail(q)[i] = q[i + 1]
      /\ Head(q) = q[1]
  BY HeadTailProperties, LenProperties, EmptySeq
<1>2. IsFiniteSet(Places(q, b)) /\ Cardinality(Places(q, b)) \in Nat
  BY PlacesFinite
<1>3. S \subseteq 2..Len(q) /\ T \subseteq 1..Len(q) - 1
  BY <1>1 DEF Places
<1>4. \A i \in S : i - 1 \in T
  BY <1>1, <1>3 DEF Places
<1>5. \A j \in T : j + 1 \in S
  BY <1>1, <1>3 DEF Places
<1>6. f \in Bijection(S, T)
  <2>1. f \in [S -> T]
    BY <1>4
  <2>2. \A i, j \in S : f[i] = f[j] => i = j
    BY <1>3
  <2>3. \A j \in T : \E i \in S : f[i] = j
    <3>1. ASSUME NEW j \in T PROVE f[j + 1] = j
      BY <1>1, <1>3, <1>5
    <3>2. QED
      BY <1>5, <3>1
  <2>4. QED
    <3> HIDE DEF f, S, T
    <3>1. QED
      BY <2>1, <2>2, <2>3
         DEF Bijection, Injection, Surjection, IsInjective
<1>7. IsFiniteSet(S)
      /\ Cardinality(S) = Cardinality(Places(q, b))
                            - (IF 1 \in Places(q, b) THEN 1 ELSE 0)
  BY <1>2, FS_RemoveElement
<1>8. Cardinality(T) = Cardinality(S)
  <2> HIDE DEF f, S, T
  <2>1. ExistsBijection(S, T)
    BY <1>6 DEF ExistsBijection
  <2>2. QED
    BY <1>7, <2>1, FS_Bijection
<1>9. 1 \in Places(q, b) <=> Head(q) = b
  BY <1>1 DEF Places
<1>10. QED
  BY <1>7, <1>8, <1>9

LEMMA CountEmpty == \A b : Cardinality(Places(<<>>, b)) = 0
  BY FS_EmptySet DEF Places

LEMMA PoolConservedStep ==
  ASSUME PortInv, PoolConserved, [Next]_vars
  PROVE  PoolConserved'
<1>1. Pool /\ Lent /\ None \notin Buffers
  BY CdcAssumption DEF PortInv, CdcAssumption, Buffers
<1>2. SUFFICES ASSUME cpc' # "create", NEW b \in Buffers
               PROVE  Occurrences(b)' = 1
  BY DEF PoolConserved
<1> DEFINE Count(q) == Cardinality(Places(q, b))
           Of(x) == IF x = b THEN 1 ELSE 0
           Total(q, r, x, y) == Count(q) + Count(r) + Of(x) + Of(y)
<1>3. /\ Occurrences(b) = Total(AllocQueue, ReceiveQueue, rcv, rec)
      /\ Occurrences(b)' = Total(AllocQueue', ReceiveQueue', rcv', rec')
  BY DEF Occurrences, Places
<1>4. /\ Count(AllocQueue) \in Nat /\ Count(ReceiveQueue) \in Nat
      /\ \A x : Of(x) \in 0..1
      /\ Of(None) = 0
  BY <1>1, PlacesFinite DEF Pool
<1>5. cpc # "create" => Total(AllocQueue, ReceiveQueue, rcv, rec) = 1
  BY <1>3 DEF PoolConserved
<1> HIDE DEF Count, Of
<1>6. CASE ~Moves
  BY <1>1, <1>2, <1>3, <1>5, <1>6, PoolUntouched DEF poolVars
<1>7. CASE Create
  <2>1. /\ AllocQueue' = [c \in Buffers |-> c]
        /\ ReceiveQueue' = <<>> /\ rcv' = None /\ rec' = None
    BY <1>1, <1>7 DEF Create, Goto, Lent, readerVars
  <2>2. Places(AllocQueue', b) = {b}
    BY <2>1 DEF Places
  <2>3. Count(AllocQueue') = 1 /\ Count(<<>>) = 0
    BY <2>2, FS_Singleton, CountEmpty DEF Count
  <2>4. QED
    BY <1>3, <1>4, <2>1, <2>3
<1>8. CASE Allocate
  <2>1. cpc # "create" /\ UNCHANGED <<ReceiveQueue, rec>>
    BY <1>8 DEF Allocate, Goto, readerVars
  <2>2. CASE rcv = None /\ AllocQueue # <<>>
    <3>1. rcv' = Head(AllocQueue) /\ AllocQueue' = Tail(AllocQueue)
      BY <1>8, <2>2 DEF Allocate
    <3>2. Count(AllocQueue') = Count(AllocQueue) - Of(rcv')
      BY <1>1, <2>2, <3>1, CountTail DEF Pool, Count, Of
    <3>3. QED
      BY <1>3, <1>4, <1>5, <2>1, <2>2, <3>2
  <2>3. CASE ~(rcv = None /\ AllocQueue # <<>>)
    BY <1>3, <1>5, <1>8, <2>1, <2>3 DEF Allocate
  <2>4. QED
    BY <2>2, <2>3
<1>9. CASE Copy
  BY <1>3, <1>5, <1>9 DEF Copy, BreadCopy, Goto, readerVars
<1>10. CASE Post
  <2>1. cpc = "post" /\ UNCHANGED <<AllocQueue, rec>>
    BY <1>10 DEF Post, Goto, readerVars
  <2>2. rcv \in Buffers
    BY <1>1, <2>1 DEF Pool, Lent
  <2>3. CASE ReceiveQueue' = Append(ReceiveQueue, rcv) /\ rcv' = None
    <3>1. Count(ReceiveQueue') = Count(ReceiveQueue) + Of(rcv)
      BY <1>1, <2>2, <2>3, CountAppend DEF Pool, Count, Of
    <3>2. QED
      BY <1>3, <1>4, <1>5, <2>1, <2>3, <3>1
  <2>4. CASE UNCHANGED <<ReceiveQueue, rcv>>
    BY <1>3, <1>5, <2>1, <2>4
  <2>5. QED
    BY <1>10, <2>3, <2>4 DEF Post
<1>11. CASE ReceiveItem
  <2>1. /\ cpc # "create" /\ UNCHANGED <<AllocQueue, rcv>> /\ rec = None
        /\ ReceiveQueue # <<>>
        /\ rec' = Head(ReceiveQueue) /\ ReceiveQueue' = Tail(ReceiveQueue)
    BY <1>1, <1>11 DEF ReceiveItem, DelayOver, Lent
  <2>2. Count(ReceiveQueue') = Count(ReceiveQueue) - Of(rec')
    BY <1>1, <2>1, CountTail DEF Pool, Count, Of
  <2>3. QED
    BY <1>3, <1>4, <1>5, <2>1, <2>2
<1>12. CASE FreeItem
  <2>1. /\ cpc # "create" /\ UNCHANGED <<ReceiveQueue, rcv>>
        /\ rec \in Buffers /\ rec' = None
        /\ AllocQueue' = Append(AllocQueue, rec)
    BY <1>1, <1>12 DEF FreeItem, Pool, Lent
  <2>2. Count(AllocQueue') = Count(AllocQueue) + Of(rec)
    BY <1>1, <2>1, CountAppend DEF Pool, Count, Of
  <2>3. QED
    BY <1>3, <1>4, <1>5, <2>1, <2>2
<1>13. QED
  BY <1>6, <1>7, <1>8, <1>9, <1>10, <1>11, <1>12 DEF Moves

LEMMA PoolAlways == Spec => [](PortInv /\ PoolConserved)
<1>1. Init => PoolConserved
  BY DEF Init, PoolConserved
<1>2. PortInv /\ PoolConserved /\ [Next]_vars => PoolConserved'
  BY PoolConservedStep
<1>3. QED
  BY <1>1, <1>2, PortAlways, PTL DEF Spec

(* Every receive buffer is at any time in exactly one of AllocQueue, the      *)
(* hand of cdc_task, ReceiveQueue and the hand of the reader, however many   *)
(* there are.                                                              *)
THEOREM CdcPoolConserved == Spec => []PoolConserved
  BY PoolAlways, PTL

-----------------------------------------------------------------------------
(* What the host is told and what the driver has set up.                    *)

CommunicationAt == find_IntfDesc(USB_FsConfigDescriptor, Class.communication)
DataAt == find_IntfDesc(USB_FsConfigDescriptor, Class.data)

(* A statement about the bytes of cdc_desc.c alone, with no variable and no   *)
(* constant: the walks over them are recursive, and TLC evaluates it.       *)
DescriptorsAgree ==
  LET table == USB_FsConfigDescriptor IN
  /\ Endpoints(table, CommunicationAt) = {USB_CDC_INT_EP}
  /\ Endpoints(table, DataAt) = {USB_CDC_IN_EP, USB_CDC_OUT_EP}
  /\ ConfigurationConsistent(table) /\ StringsPresent

(* what vcom_init has done once it has returned LPC_OK *)
Configured ==
  /\ cdc_param = [cif |-> CommunicationAt, dif |-> DataAt, SetLineCode |-> TRUE]
  /\ handlers[IndexOf(USB_CDC_IN_EP)] = "in"
  /\ handlers[IndexOf(USB_CDC_OUT_EP)] = "out"

(* the order of cdc_main: vcom_init, then the interrupt, then the connection *)
Started ==
  /\ cpc = "enable" => Configured
  /\ cpc = "attach" \/ bus => Configured
  /\ cpc = "attach" \/ bus => irq

(* What a step of the loop, of the other tasks or of the host leaves alone. *)
SetUpDone ==
  /\ UNCHANGED <<handlers, cdc_param, irq, bus>>
  /\ cpc' = cpc \/ cpc' \notin {"enable", "attach"}

LEMMA StartedStep ==
  ASSUME PortInv, Started, [Next]_vars
  PROVE  Started'
<1>1. CASE SetUpDone
  BY <1>1 DEF SetUpDone, Started, Configured
<1>2. CASE InitVcom
  <2>1. /\ cpc = "vcomInit" /\ UNCHANGED <<irq, bus>>
        /\ vcom_init("enable", "connect")
    BY <1>2 DEF InitVcom
  <2>2. CASE cpc' = "enable"
    <3>1. /\ cdc_param' = [cif |-> CommunicationAt, dif |-> DataAt,
                           SetLineCode |-> TRUE]
          /\ handlers' = [handlers EXCEPT ![InIndex] = "in",
                                          ![OutIndex] = "out"]
      BY <2>1, <2>2 DEF vcom_init, CommunicationAt, DataAt
    <3>2. /\ InIndex = 3 /\ IndexOf(USB_CDC_IN_EP) = 3
          /\ OutIndex = 2 /\ IndexOf(USB_CDC_OUT_EP) = 2
          /\ 2 \in EndpointIndices /\ 3 \in EndpointIndices
      BY DEF InIndex, OutIndex, IndexOf, USB_CDC_IN_EP, USB_CDC_OUT_EP,
             EndpointIndices, USB_MAX_EP_NUM
    <3>3. handlers'[3] = "in" /\ handlers'[2] = "out"
      BY <3>1, <3>2 DEF PortInv, VcomTypeOK
    <3>4. Configured'
      BY <3>1, <3>2, <3>3 DEF Configured
    <3>5. bus' => irq'
      BY <2>1 DEF Started
    <3>6. QED
      BY <2>2, <3>4, <3>5 DEF Started
  <2>3. CASE cpc' = "connect"
    <3>1. /\ InIndex = IndexOf(USB_CDC_IN_EP) /\ InIndex # IndexOf(USB_CDC_OUT_EP)
          /\ InIndex \in EndpointIndices
      BY DEF InIndex, IndexOf, USB_CDC_IN_EP, USB_CDC_OUT_EP, EndpointIndices,
             USB_MAX_EP_NUM
    <3>2. /\ \/ UNCHANGED cdc_param
             \/ cdc_param' = [cif |-> CommunicationAt, dif |-> DataAt,
                              SetLineCode |-> TRUE]
          /\ \/ UNCHANGED handlers
             \/ handlers' = [handlers EXCEPT ![InIndex] = "in"]
      BY <2>1, <2>3 DEF vcom_init, CommunicationAt, DataAt
    <3>3. Configured => Configured'
      BY <3>1, <3>2 DEF Configured, PortInv, VcomTypeOK
    <3>4. QED
      BY <2>1, <2>3, <3>3 DEF Started
  <2>4. cpc' \in {"enable", "connect"}
    BY <2>1 DEF vcom_init
  <2>5. QED
    BY <2>2, <2>3, <2>4
<1>3. CASE EnableIRQ
  BY <1>3 DEF EnableIRQ, Goto, Started, Configured
<1>4. CASE Connect
  BY <1>4 DEF Connect, Goto, Started, Configured
<1>5. CASE HwInit
  BY <1>5, <1>1 DEF HwInit, Goto, SetUpDone
<1>6. CASE Create \/ Connected \/ Allocate \/ Copy \/ Post \/ Written \/ Poll
  BY <1>6, <1>1 DEF Create, Connected, Allocate, Copy, BreadCopy, Post, Written,
     WriteEP, Poll, Goto, Stay, AfterRead, SetUpDone, usbVars
<1>7. CASE \/ Driver(BreadCount(AfterRead)) \/ Driver(BreadRelease)
           \/ Driver(WriteLoad) \/ Driver(WriteRefused) \/ Driver(WriteStore)
  BY <1>7, <1>1 DEF Driver, BreadCount, BreadRelease, WriteLoad, WriteRefused,
     WriteStore, Goto, AfterRead, SetUpDone, usbVars
<1>8. CASE Interrupts \/ Host
  BY <1>8, <1>1 DEF Interrupts, Host, VCOM_bulk_in_hdlr, BulkOut, BulkOutNak,
     VCOM_SetLineCode, HostWrites, HostRefused, HostReads, HostSetsLineCoding,
     SetUpDone, usbVars
<1>9. CASE \/ USB_receive \/ vars' = vars
           \/ \E s \in Senders : \/ USB_send(s)
                                 \/ \E n \in 1..MaxPackets : SendBegin(s, n)
  BY <1>9, <1>1 DEF USB_receive, ReceiveItem, CopyToUser, FreeItem, USB_send,
     TakeMutex, QueueData, TakeComplete, GiveMutex, SendBegin, SetUpDone, vars,
     vcomVars, usbVars
<1>10. QED
  BY <1>2, <1>3, <1>4, <1>5, <1>6, <1>7, <1>8, <1>9 DEF Next, cdc_task

(* If the descriptors agree with each other, no order of the start-up, no     *)
(* refusal of the ROM driver and nothing a host does leads to a device that   *)
(* is connected without its interrupt, its interfaces or its handlers.      *)
THEOREM CdcConfigurationServed ==
  ASSUME DescriptorsAgree
  PROVE  Spec => []ConfigurationServed
<1>1. Init => Started
  BY DEF Init, VcomInit, Started
<1>2. PortInv /\ Started /\ [Next]_vars => Started'
  BY StartedStep
<1>3. Started => ConfigurationServed
  BY DescriptorsAgree DEF DescriptorsAgree, Started, Configured,
     ConfigurationServed
<1>4. QED
  BY <1>1, <1>2, <1>3, PortAlways, PTL DEF Spec

-----------------------------------------------------------------------------
(* Receiving.  Blocks with the reader, in ReceiveQueue, with cdc_task, and   *)
(* in the driver follow each other.                                        *)

Returned == Len(got) + (IF rpc = "copy" THEN 1 ELSE 0)
Posted == Returned + Len(ReceiveQueue)
Taken == Posted + (IF cpc \in {"release", "post"} THEN 1 ELSE 0)

(* a block is in rx_buff and has not been copied *)
Undelivered ==
  \/ "OUT" \in events /\ received # 0
  \/ rx_count # 0 /\ cpc # "release"

BlocksFollow ==
  /\ got \in Seq(Nat) /\ \A i \in 1..Len(got) : got[i] = i
  /\ rpc = "copy" => g_rxBuff[rec] = <<Len(got) + 1>>
  /\ \A i \in 1..Len(ReceiveQueue) :
       g_rxBuff[ReceiveQueue[i]] = <<Returned + i>>
  /\ cpc \in {"release", "post"} => g_rxBuff[rcv] = <<Posted + 1>>
  /\ cpc = "release" => rx_rd_count # 0
  /\ IF Undelivered THEN outSent = Taken + 1 /\ rx_buff[1] = outSent
                    ELSE outSent = Taken

BlocksStay ==
  /\ UNCHANGED <<got, rpc, rec, g_rxBuff, ReceiveQueue, rx_buff, received,
                 rx_count, rx_rd_count, outSent>>
  /\ "OUT" \in events' <=> "OUT" \in events

LEMMA BlocksUntouched ==
  ASSUME BlocksFollow, BlocksStay,
         \/ UNCHANGED <<cpc, rcv>>
         \/ cpc \notin {"release", "post"} /\ cpc' \notin {"release", "post"}
  PROVE  BlocksFollow'
<1>1. /\ Returned' = Returned /\ Posted' = Posted /\ Taken' = Taken
      /\ Undelivered' <=> Undelivered
  BY DEF Returned, Posted, Taken, Undelivered, BlocksStay
<1>2. QED
  BY <1>1 DEF BlocksFollow, BlocksStay

(* A buffer that cdc_task holds is nowhere else. *)
LEMMA HeldAlone ==
  ASSUME PortInv, PoolConserved, cpc # "create", rcv \in Buffers
  PROVE  /\ rec # rcv
         /\ \A i \in 1..Len(ReceiveQueue) : ReceiveQueue[i] # rcv
<1> DEFINE A == Cardinality(Places(AllocQueue, rcv))
           R == Cardinality(Places(ReceiveQueue, rcv))
<1>1. A \in Nat /\ R \in Nat /\ IsFiniteSet(Places(ReceiveQueue, rcv))
  BY PlacesFinite DEF PortInv, Pool
<1>2. A + R + 1 + (IF rec = rcv THEN 1 ELSE 0) = 1
  BY DEF PoolConserved, Occurrences, Places
<1>3. rec # rcv /\ R = 0
  <2> HIDE DEF A, R
  <2>1. QED
    BY <1>1, <1>2
<1>4. Places(ReceiveQueue, rcv) = {}
  BY <1>1, <1>3, FS_EmptySet
<1>5. QED
  BY <1>3, <1>4, LenProperties DEF Places, PortInv, Pool

(* No buffer is twice in ReceiveQueue. *)
LEMMA QueuedOnce ==
  ASSUME PortInv, PoolConserved, cpc # "create",
         NEW i \in 1..Len(ReceiveQueue), NEW j \in 1..Len(ReceiveQueue),
         ReceiveQueue[i] = ReceiveQueue[j]
  PROVE  i = j
<1> DEFINE b == ReceiveQueue[i]
           P == Places(ReceiveQueue, b)
<1>1. b \in Buffers /\ DOMAIN ReceiveQueue = 1..Len(ReceiveQueue)
  BY LenProperties, ElementOfSeq DEF PortInv, Pool
<1>2. /\ IsFiniteSet(P) /\ Cardinality(P) \in Nat
      /\ Cardinality(Places(AllocQueue, b)) \in Nat
  BY PlacesFinite DEF PortInv, Pool
<1>3. Cardinality(Places(AllocQueue, b)) + Cardinality(P)
        + (IF rcv = b THEN 1 ELSE 0) + (IF rec = b THEN 1 ELSE 0) = 1
  BY <1>1 DEF PoolConserved, Occurrences, Places
<1>4. i \in P /\ j \in P
  BY <1>1 DEF Places
<1>5. Cardinality(P) \in {0, 1}
  <2> HIDE DEF P, b
  <2>1. QED
    BY <1>2, <1>3
<1>6. Cardinality(P) # 0
  BY <1>2, <1>4, FS_EmptySet
<1>7. \E x : P = {x}
  BY <1>2, <1>5, <1>6, FS_Singleton
<1>8. QED
  BY <1>4, <1>7

(* The send to ReceiveQueue that does not wait never finds it full. *)
LEMMA RoomToPost ==
  ASSUME PortInv, PoolConserved, cpc # "create", rcv \in Buffers
  PROVE  Len(ReceiveQueue) < RCV_BUFFERS
<1> DEFINE D == 1..Len(ReceiveQueue)
           Others == Buffers \ {rcv}
<1>1. /\ Len(ReceiveQueue) \in Nat /\ RCV_BUFFERS \in Nat
      /\ ReceiveQueue \in [D -> Buffers]
  BY LenProperties, CdcAssumption DEF PortInv, Pool, CdcAssumption
<1>2. IsFiniteSet(Others) /\ Cardinality(Others) = RCV_BUFFERS - 1
  <2>1. IsFiniteSet(Buffers) /\ Cardinality(Buffers) = RCV_BUFFERS
    BY <1>1, CdcAssumption, FS_Interval DEF Buffers, CdcAssumption
  <2>2. QED
    BY <2>1, FS_RemoveElement
<1>3. ReceiveQueue \in Injection(D, Others)
  <2>1. ReceiveQueue \in [D -> Others]
    BY <1>1, HeldAlone
  <2>2. \A i, j \in D : ReceiveQueue[i] = ReceiveQueue[j] => i = j
    BY QueuedOnce
  <2>3. QED
    BY <1>1, <2>1, <2>2 DEF Injection, IsInjective
<1>4. Cardinality(D) <= Cardinality(Others)
  BY <1>2, <1>3, FS_Injection
<1>5. Cardinality(D) = Len(ReceiveQueue)
  BY <1>1, FS_Interval
<1>6. QED
  BY <1>1, <1>2, <1>4, <1>5

-----------------------------------------------------------------------------
LEMMA HostWritesBlock ==
  ASSUME MaxTransfer = 1, PortInv, BlocksFollow, Outside,
         NEW n \in 0..1, HostWrites(n)
  PROVE  BlocksFollow'
<1>1. /\ armed /\ received' = n /\ outSent' = outSent + n
      /\ rx_buff' = [i \in 1..1 |-> IF i <= n THEN outSent + i ELSE rx_buff[i]]
      /\ events' = events \cup {"OUT"}
      /\ UNCHANGED <<cpc, rx_count, rx_rd_count>>
      /\ UNCHANGED <<got, rpc, rec, g_rxBuff, ReceiveQueue, rcv>>
  BY DEF HostWrites, Outside, poolVars, readerVars
<1>2. "OUT" \notin events /\ rx_count = 0 /\ outSent \in Nat
  BY <1>1, VcomAssumption
     DEF PortInv, ReceiveState, VcomTypeOK, VcomAssumption
<1>3. outSent = Taken
  BY <1>2 DEF BlocksFollow, Undelivered
<1>4. Undelivered' <=> n = 1
  BY <1>1, <1>2 DEF Undelivered
<1>5. n = 1 => rx_buff'[1] = outSent'
  BY <1>1
<1>6. Returned' = Returned /\ Posted' = Posted /\ Taken' = Taken
  BY <1>1 DEF Returned, Posted, Taken
<1>7. IF Undelivered' THEN outSent' = Taken' + 1 /\ rx_buff'[1] = outSent'
                      ELSE outSent' = Taken'
  BY <1>1, <1>2, <1>3, <1>4, <1>5, <1>6
<1>8. QED
  BY <1>1, <1>6, <1>7 DEF BlocksFollow

LEMMA BulkOutBlock ==
  ASSUME PortInv, BlocksFollow, Outside, BulkOut
  PROVE  BlocksFollow'
<1>1. /\ "OUT" \in events /\ events' = events \ {"OUT"} /\ rx_count' = received
      /\ UNCHANGED <<cpc, rx_buff, received, rx_rd_count, outSent>>
      /\ UNCHANGED <<got, rpc, rec, g_rxBuff, ReceiveQueue, rcv>>
  BY DEF BulkOut, Endpoint, Raised, hostVars, Outside, poolVars, readerVars
<1>2. rx_count = 0 /\ cpc # "release"
  BY <1>1 DEF PortInv, ReceiveState
<1>3. Undelivered' <=> Undelivered
  BY <1>1, <1>2 DEF Undelivered
<1>4. Returned' = Returned /\ Posted' = Posted /\ Taken' = Taken
  BY <1>1 DEF Returned, Posted, Taken
<1>5. QED
  BY <1>1, <1>3, <1>4 DEF BlocksFollow

LEMMA CopyBlock ==
  ASSUME PortInv, PoolConserved, BlocksFollow, Copy
  PROVE  BlocksFollow'
<1>1. /\ cpc = "copy" /\ cpc' = "release" /\ rx_rd_count' = rx_rd_count + cnt
      /\ g_rxBuff' = [g_rxBuff EXCEPT ![rcv] = SubSeq(rx_buff, 1, cnt)]
      /\ UNCHANGED <<rx_buff, received, rx_count, events, outSent>>
      /\ UNCHANGED <<got, rpc, rec, ReceiveQueue, rcv>>
  BY DEF Copy, BreadCopy, Copied, Goto, hostVars, readerVars
<1>2. /\ cnt = 1 /\ rx_count # 0 /\ "OUT" \notin events /\ rx_rd_count \in Nat
      /\ rcv \in Buffers /\ g_rxBuff \in [Buffers -> Seq(0..MaxBlocks)]
      /\ ReceiveQueue \in Seq(Buffers)
  BY <1>1, VcomAssumption DEF PortInv, ReceiveState, VcomTypeOK, VcomAssumption,
     Lent, Pool
<1>3. SubSeq(rx_buff, 1, 1) = <<rx_buff[1]>>
  <2> DEFINE S == {rx_buff[1]}
             t == SubSeq(rx_buff, 1, 1)
  <2>1. t \in Seq(S) /\ Len(t) = 1
    BY SubSeqProperties
  <2>2. t[1] = rx_buff[1]
    BY <2>1
  <2>3. <<rx_buff[1]>> \in Seq(S) /\ Len(<<rx_buff[1]>>) = 1
    OBVIOUS
  <2>4. \A i \in 1..Len(t) : t[i] = <<rx_buff[1]>>[i]
    BY <2>1, <2>2
  <2>5. QED
    BY <2>1, <2>3, <2>4, SeqEqual
<1>4. /\ Undelivered /\ Taken = Posted
      /\ rx_buff[1] = Posted + 1 /\ outSent = Posted + 1
  <2>1. Undelivered
    BY <1>1, <1>2 DEF Undelivered
  <2>2. Taken = Posted
    <3>1. Posted \in Nat
      BY <1>2, LenProperties DEF Posted, Returned, BlocksFollow
    <3>2. QED
      BY <1>1, <3>1 DEF Taken
  <2>3. QED
    BY <2>1, <2>2 DEF BlocksFollow
<1>5. g_rxBuff' = [g_rxBuff EXCEPT ![rcv] = <<Posted + 1>>]
  BY <1>1, <1>2, <1>3, <1>4
<1>6. /\ Returned' = Returned /\ Posted' = Posted /\ Taken' = Posted + 1
      /\ ~Undelivered'
  BY <1>1, <1>2 DEF Returned, Posted, Taken, Undelivered
<1>7. /\ rec # rcv /\ \A i \in 1..Len(ReceiveQueue) : ReceiveQueue[i] # rcv
      /\ \A i \in 1..Len(ReceiveQueue) : ReceiveQueue[i] \in Buffers
  BY <1>1, <1>2, HeldAlone, ElementOfSeq
<1>8. rpc = "copy" => rec \in Buffers
  BY DEF PortInv, Pool, Lent
<1>9. /\ rpc = "copy" => g_rxBuff'[rec] = g_rxBuff[rec]
      /\ \A i \in 1..Len(ReceiveQueue) :
           g_rxBuff'[ReceiveQueue[i]] = g_rxBuff[ReceiveQueue[i]]
      /\ g_rxBuff'[rcv] = <<Posted + 1>>
  BY <1>2, <1>5, <1>7, <1>8
<1>10. rx_rd_count' # 0
  BY <1>1, <1>2
<1>11. QED
  BY <1>1, <1>4, <1>6, <1>9, <1>10 DEF BlocksFollow

LEMMA ReleaseBlock ==
  ASSUME MaxTransfer = 1, PortInv, BlocksFollow, Driver(BreadRelease)
  PROVE  BlocksFollow'
<1>1. /\ cpc = "release" /\ cpc' = "post"
      /\ IF rx_rd_count >= rx_count
           THEN rx_count' = 0
           ELSE UNCHANGED rx_count
      /\ UNCHANGED <<rx_buff, received, events, outSent>>
      /\ UNCHANGED <<got, rpc, rec, g_rxBuff, ReceiveQueue, rcv>>
  BY DEF Driver, BreadRelease, Goto, hostVars, Outside, poolVars, readerVars
<1>2. rx_count' = 0
  <2>1. rx_rd_count # 0 /\ rx_rd_count \in 0..1 /\ rx_count \in 0..1
    BY <1>1 DEF PortInv, VcomTypeOK, BlocksFollow
  <2>2. QED
    BY <1>1, <2>1
<1>3. /\ Returned' = Returned /\ Posted' = Posted /\ Taken' = Taken
      /\ Undelivered' <=> Undelivered
  BY <1>1, <1>2 DEF Returned, Posted, Taken, Undelivered
<1>4. QED
  BY <1>1, <1>3 DEF BlocksFollow

LEMMA PostBlock ==
  ASSUME PortInv, PoolConserved, BlocksFollow, Post
  PROVE  BlocksFollow'
<1>1. /\ cpc = "post" /\ cpc' \in {"load", "poll"}
      /\ UNCHANGED <<rx_buff, received, rx_count, rx_rd_count, events, outSent>>
      /\ UNCHANGED <<got, rpc, rec, g_rxBuff>>
  BY DEF Post, Goto, AfterRead, Stay, Still, rxVars, hostVars, readerVars
<1>2. rcv \in Buffers /\ ReceiveQueue \in Seq(Buffers)
  BY <1>1 DEF PortInv, Pool, Lent
<1>3. ReceiveQueue' = Append(ReceiveQueue, rcv)
  BY <1>1, <1>2, RoomToPost DEF Post
<1>4. /\ Len(ReceiveQueue) \in Nat /\ Len(ReceiveQueue') = Len(ReceiveQueue) + 1
      /\ \A i \in 1..Len(ReceiveQueue) : ReceiveQueue'[i] = ReceiveQueue[i]
      /\ ReceiveQueue'[Len(ReceiveQueue) + 1] = rcv
  BY <1>2, <1>3, LenProperties, AppendProperties
<1>5. Returned \in Nat
  BY LenProperties DEF Returned, BlocksFollow
<1>6. /\ Returned' = Returned /\ Posted' = Posted + 1 /\ Taken' = Taken
      /\ Undelivered' <=> Undelivered
  <2>1. Returned' = Returned /\ (Undelivered' <=> Undelivered)
    BY <1>1 DEF Returned, Undelivered
  <2>2. Posted' = Posted + 1 /\ Posted \in Nat
    BY <1>4, <1>5, <2>1 DEF Posted
  <2>3. QED
    BY <1>1, <2>1, <2>2 DEF Taken
<1>7. ASSUME NEW i \in 1..Len(ReceiveQueue')
      PROVE  g_rxBuff[ReceiveQueue'[i]] = <<Returned + i>>
  <2>1. CASE i = Len(ReceiveQueue) + 1
    BY <1>1, <1>4, <1>5, <2>1 DEF BlocksFollow, Posted
  <2>2. CASE i \in 1..Len(ReceiveQueue)
    BY <1>4, <2>2 DEF BlocksFollow
  <2>3. QED
    BY <1>4, <2>1, <2>2
<1>8. QED
  BY <1>1, <1>6, <1>7 DEF BlocksFollow

LEMMA ReceiveItemBlock ==
  ASSUME PortInv, BlocksFollow, ReceiveItem
  PROVE  BlocksFollow'
<1>1. /\ rpc = "receive" /\ rpc' = "copy" /\ ReceiveQueue # <<>>
      /\ rec' = Head(ReceiveQueue) /\ ReceiveQueue' = Tail(ReceiveQueue)
      /\ UNCHANGED <<cpc, rx_buff, received, rx_count, rx_rd_count, events,
                     outSent, got, g_rxBuff, rcv>>
  BY DEF ReceiveItem, vcomVars, rxVars, hostVars
<1>2. /\ ReceiveQueue \in Seq(Buffers) /\ Len(ReceiveQueue) \in Nat \ {0}
      /\ Len(ReceiveQueue') = Len(ReceiveQueue) - 1
      /\ \A i \in 1..Len(ReceiveQueue') : ReceiveQueue'[i] = ReceiveQueue[i + 1]
      /\ Head(ReceiveQueue) = ReceiveQueue[1]
  BY <1>1, HeadTailProperties, EmptySeq DEF PortInv, Pool
<1>3. Len(got) \in Nat
  BY LenProperties DEF BlocksFollow
<1>4. /\ Returned = Len(got) /\ Returned' = Len(got) + 1
      /\ Posted' = Posted /\ Taken' = Taken
      /\ Undelivered' <=> Undelivered
  BY <1>1, <1>2, <1>3 DEF Returned, Posted, Taken, Undelivered
<1>5. g_rxBuff[rec'] = <<Len(got) + 1>>
  BY <1>1, <1>2, <1>4 DEF BlocksFollow
<1>6. ASSUME NEW i \in 1..Len(ReceiveQueue')
      PROVE  g_rxBuff[ReceiveQueue'[i]] = <<Returned' + i>>
  <2>1. i + 1 \in 1..Len(ReceiveQueue)
    BY <1>2
  <2>2. g_rxBuff[ReceiveQueue[i + 1]] = <<Returned + (i + 1)>>
    BY <2>1 DEF BlocksFollow
  <2>3. Returned + (i + 1) = Returned' + i
    BY <1>3, <1>4
  <2>4. QED
    BY <1>2, <2>2, <2>3
<1>7. QED
  BY <1>1, <1>4, <1>5, <1>6 DEF BlocksFollow

LEMMA CopyToUserBlock ==
  ASSUME PortInv, BlocksFollow, CopyToUser
  PROVE  BlocksFollow'
<1>1. /\ rpc = "copy" /\ rpc' = "free" /\ got' = got \o g_rxBuff[rec]
      /\ UNCHANGED <<cpc, rx_buff, received, rx_count, rx_rd_count, events,
                     outSent, g_rxBuff, rcv, rec, ReceiveQueue>>
  BY DEF CopyToUser, vcomVars, rxVars, hostVars, poolVars
<1>2. got \in Seq(Nat) /\ Len(got) \in Nat
  BY LenProperties DEF BlocksFollow
<1>3. /\ got' \in Seq(Nat) /\ Len(got') = Len(got) + 1
      /\ \A i \in 1..Len(got) : got'[i] = got[i]
      /\ got'[Len(got) + 1] = Len(got) + 1
  <2>1. got' = got \o <<Len(got) + 1>>
    BY <1>1 DEF BlocksFollow
  <2>2. <<Len(got) + 1>> \in Seq(Nat) /\ Len(<<Len(got) + 1>>) = 1
    BY <1>2
  <2>3. <<Len(got) + 1>>[1] = Len(got) + 1
    OBVIOUS
  <2>4. QED
    BY <1>2, <2>1, <2>2, <2>3, ConcatProperties
<1>4. /\ Returned' = Returned /\ Posted' = Posted /\ Taken' = Taken
      /\ Undelivered' <=> Undelivered
  BY <1>1, <1>2, <1>3 DEF Returned, Posted, Taken, Undelivered
<1>5. \A i \in 1..Len(got') : got'[i] = i
  BY <1>2, <1>3 DEF BlocksFollow
<1>6. QED
  BY <1>1, <1>3, <1>4, <1>5 DEF BlocksFollow

LEMMA FreeItemBlock ==
  ASSUME BlocksFollow, FreeItem
  PROVE  BlocksFollow'
<1>1. /\ rpc = "free" /\ rpc' = "receive"
      /\ UNCHANGED <<cpc, rx_buff, received, rx_count, rx_rd_count, events,
                     outSent, g_rxBuff, rcv, got, ReceiveQueue>>
  BY DEF FreeItem, vcomVars, rxVars, hostVars
<1>2. /\ Returned' = Returned /\ Posted' = Posted /\ Taken' = Taken
      /\ Undelivered' <=> Undelivered
  BY <1>1 DEF Returned, Posted, Taken, Undelivered
<1>3. QED
  BY <1>1, <1>2 DEF BlocksFollow

LEMMA BlocksStep ==
  ASSUME MaxTransfer = 1, PortInv, PoolConserved, BlocksFollow, [Next]_vars
  PROVE  BlocksFollow'
<1>1. CASE (Interrupts \/ Host) /\ Outside
  <2>1. CASE BulkOut
    BY <1>1, <2>1, BulkOutBlock
  <2>2. CASE \E n \in 0..MaxTransfer : HostWrites(n)
    BY <1>1, <2>2, HostWritesBlock
  <2>3. CASE \/ VCOM_bulk_in_hdlr \/ BulkOutNak \/ VCOM_SetLineCode
             \/ HostRefused \/ HostReads \/ HostSetsLineCoding
    <3>1. BlocksStay /\ UNCHANGED <<cpc, rcv>>
      BY <1>1, <2>3 DEF BlocksStay, VCOM_bulk_in_hdlr, BulkOutNak,
         VCOM_SetLineCode, HostRefused, HostReads, HostSetsLineCoding, Endpoint,
         Raised, rxVars, hostVars, Outside, poolVars, readerVars
    <3>2. QED
      BY <3>1, BlocksUntouched
  <2>4. QED
    BY <1>1, <2>1, <2>2, <2>3 DEF Interrupts, Host
<1>2. CASE cdc_task
  <2>1. CASE Copy \/ Post \/ Driver(BreadRelease)
    BY <2>1, CopyBlock, PostBlock, ReleaseBlock
  <2>2. CASE \/ Create \/ HwInit \/ InitVcom \/ EnableIRQ \/ Connect \/ Connected
             \/ Allocate \/ Written \/ Poll
             \/ Driver(BreadCount(AfterRead))
             \/ Driver(WriteLoad) \/ Driver(WriteRefused) \/ Driver(WriteStore)
    <3>1. BlocksStay
      BY <2>2 DEF BlocksStay, Create, HwInit, InitVcom, EnableIRQ, Connect,
         Connected, Allocate, Written, WriteEP, Poll, Driver, BreadCount,
         WriteLoad, WriteRefused, WriteStore, Stay, Still, rxVars, hostVars,
         Outside, poolVars, readerVars
    <3>2. cpc \notin {"release", "post"} /\ cpc' \notin {"release", "post"}
      BY <2>2 DEF Create, HwInit, InitVcom, vcom_init, EnableIRQ, Connect,
         Connected, Allocate, Written, WriteEP, Poll, Driver, BreadCount,
         WriteLoad, WriteRefused, WriteStore, Goto, AfterRead
    <3>3. QED
      BY <3>1, <3>2, BlocksUntouched
  <2>3. QED
    BY <1>2, <2>1, <2>2 DEF cdc_task
<1>3. CASE USB_receive
  BY <1>3, ReceiveItemBlock, CopyToUserBlock, FreeItemBlock DEF USB_receive
<1>4. CASE \/ UNCHANGED vars
           \/ \E s \in Senders :
                USB_send(s) \/ \E n \in 1..MaxPackets : SendBegin(s, n)
  <2>1. UNCHANGED <<vcomVars, poolVars, readerVars>>
    BY <1>4 DEF USB_send, SendBegin, TakeMutex, QueueData, TakeComplete,
       GiveMutex, vars
  <2>2. BlocksStay /\ UNCHANGED <<cpc, rcv>>
    BY <2>1 DEF BlocksStay, vcomVars, rxVars, hostVars, poolVars, readerVars
  <2>3. QED
    BY <2>2, BlocksUntouched
<1>5. QED
  BY <1>1, <1>2, <1>3, <1>4 DEF Next

LEMMA BlocksInit == Init => BlocksFollow
<1> SUFFICES ASSUME Init PROVE BlocksFollow
  OBVIOUS
<1>1. /\ got = <<>> /\ ReceiveQueue = <<>> /\ rpc = "receive" /\ cpc = "create"
      /\ events = {} /\ rx_count = 0 /\ outSent = 0
  BY DEF Init, VcomInit
<1>2. Returned = 0 /\ Posted = 0 /\ Taken = 0 /\ ~Undelivered
  BY <1>1 DEF Returned, Posted, Taken, Undelivered
<1>3. QED
  BY <1>1, <1>2 DEF BlocksFollow

(* USB_receive returns every block the host sends, once and in order, for    *)
(* any number of blocks and buffers, when no transfer is longer than one     *)
(* receive buffer (with longer ones it does not).                          *)
THEOREM CdcReceivedInOrder ==
  ASSUME MaxTransfer = 1 PROVE Spec => []ReceivedInOrder
<1>1. Init => BlocksFollow
  BY BlocksInit
<1>2. PortInv /\ PoolConserved /\ BlocksFollow /\ [Next]_vars => BlocksFollow'
  BY BlocksStep
<1>3. BlocksFollow => ReceivedInOrder
  BY DEF BlocksFollow, ReceivedInOrder
<1>4. QED
  BY <1>1, <1>2, <1>3, PoolAlways, PTL DEF Spec

-----------------------------------------------------------------------------
(* Sending.                                                                *)

(* s is t with some of its elements left out, f says where the others are. *)
Embeds(s, t, f) ==
  /\ f \in [1..Len(s) -> 1..Len(t)]
  /\ \A i \in 1..Len(s) : s[i] = t[f[i]]
  /\ \A i, j \in 1..Len(s) : i < j => f[i] < f[j]

Embedded(s, t) == \E f \in [1..Len(s) -> 1..Len(t)] : Embeds(s, t, f)

LEMMA EmbeddedAppend ==
  ASSUME NEW s \in Seq(Packets), NEW t \in Seq(Packets), NEW u \in Seq(Packets),
         Embedded(s, t)
  PROVE  Embedded(s \o u, t \o u)
<1>1. PICK f \in [1..Len(s) -> 1..Len(t)] : Embeds(s, t, f)
  BY DEF Embedded
<1> DEFINE n == Len(s)
           m == Len(t)
           g == [i \in 1..Len(s \o u) |-> IF i <= n THEN f[i] ELSE i - n + m]
<1>2. /\ n \in Nat /\ m \in Nat /\ Len(u) \in Nat
      /\ Len(s \o u) = n + Len(u) /\ Len(t \o u) = m + Len(u)
      /\ \A i \in 1..Len(s \o u) : (s \o u)[i] = IF i <= n THEN s[i] ELSE u[i - n]
      /\ \A i \in 1..Len(t \o u) : (t \o u)[i] = IF i <= m THEN t[i] ELSE u[i - m]
  BY LenProperties, ConcatProperties
<1>3. /\ \A i \in 1..n : f[i] \in 1..m /\ s[i] = t[f[i]]
      /\ \A i, j \in 1..n : i < j => f[i] < f[j]
  BY <1>1 DEF Embeds
<1> HIDE DEF n, m
<1>4. ASSUME NEW i \in 1..Len(s \o u)
      PROVE  g[i] \in 1..Len(t \o u) /\ (s \o u)[i] = (t \o u)[g[i]]
  <2>1. CASE i <= n
    <3>1. i \in 1..n /\ g[i] = f[i]
      BY <1>2, <2>1
    <3>2. QED
      BY <1>2, <1>3, <2>1, <3>1
  <2>2. CASE i > n
    <3>1. g[i] = i - n + m /\ i \in Nat /\ g[i] > m /\ g[i] - m = i - n
      BY <1>2, <2>2
    <3>2. QED
      BY <1>2, <2>2, <3>1
  <2>3. i <= n \/ i > n
    BY <1>2
  <2>4. QED
    BY <2>1, <2>2, <2>3
<1>5. ASSUME NEW i \in 1..Len(s \o u), NEW j \in 1..Len(s \o u), i < j
      PROVE  g[i] < g[j]
  <2>1. CASE j <= n
    <3>1. i \in 1..n /\ j \in 1..n /\ g[i] = f[i] /\ g[j] = f[j]
      BY <1>2, <1>5, <2>1
    <3>2. QED
      BY <1>3, <1>5, <3>1
  <2>2. CASE i > n
    <3>1. g[i] = i - n + m /\ g[j] = j - n + m /\ i \in Nat /\ j \in Nat
      BY <1>2, <1>5, <2>2
    <3>2. QED
      BY <1>2, <1>5, <3>1
  <2>3. CASE i <= n /\ j > n
    <3>1. i \in 1..n /\ f[i] \in 1..m /\ g[i] = f[i] /\ g[j] = j - n + m
      BY <1>2, <1>3, <2>3
    <3>2. QED
      BY <1>2, <2>3, <3>1
  <2>4. QED
    BY <1>2, <2>1, <2>2, <2>3
<1>6. g \in [1..Len(s \o u) -> 1..Len(t \o u)]
  BY <1>4
<1>7. QED
  <2> HIDE DEF g
  <2>1. QED
    BY <1>4, <1>5, <1>6 DEF Embedded, Embeds

LEMMA EmbeddedDrop ==
  ASSUME NEW a \in Seq(Packets), NEW b \in Seq(Packets), NEW c \in Seq(Packets),
         NEW t \in Seq(Packets), Embedded((a \o b) \o c, t)
  PROVE  Embedded(a \o c, t)
<1> DEFINE s == (a \o b) \o c
           n == Len(a)
           k == Len(b)
           Skip(i) == IF i <= n THEN i ELSE i + k
<1>1. PICK f \in [1..Len(s) -> 1..Len(t)] : Embeds(s, t, f)
  BY DEF Embedded
<1> DEFINE g == [i \in 1..Len(a \o c) |-> f[Skip(i)]]
<1>2. /\ n \in Nat /\ k \in Nat /\ Len(c) \in Nat
      /\ a \o b \in Seq(Packets) /\ Len(a \o b) = n + k
      /\ \A i \in 1..n : (a \o b)[i] = a[i]
      /\ Len(a \o c) = n + Len(c) /\ Len(s) = n + k + Len(c)
      /\ \A i \in 1..Len(a \o c) : (a \o c)[i] = IF i <= n THEN a[i] ELSE c[i - n]
  BY LenProperties, ConcatProperties
<1>3. \A i \in 1..Len(s) :
        s[i] = IF i <= n + k THEN (a \o b)[i] ELSE c[i - (n + k)]
  BY <1>2, ConcatProperties
<1>4. /\ \A i \in 1..Len(s) : f[i] \in 1..Len(t) /\ s[i] = t[f[i]]
      /\ \A i, j \in 1..Len(s) : i < j => f[i] < f[j]
  BY <1>1 DEF Embeds
<1> HIDE DEF n, k, s
<1>5. ASSUME NEW i \in 1..Len(a \o c)
      PROVE  Skip(i) \in 1..Len(s) /\ (a \o c)[i] = s[Skip(i)]
  <2>1. CASE i <= n
    BY <1>2, <1>3, <2>1
  <2>2. CASE i > n
    <3>1. /\ Skip(i) = i + k /\ i + k > n + k /\ i + k - (n + k) = i - n
          /\ i + k \in 1..Len(s)
      BY <1>2, <2>2
    <3>2. QED
      BY <1>2, <1>3, <2>2, <3>1
  <2>3. i <= n \/ i > n
    BY <1>2
  <2>4. QED
    BY <2>1, <2>2, <2>3
<1>6. ASSUME NEW i \in 1..Len(a \o c), NEW j \in 1..Len(a \o c), i < j
      PROVE  Skip(i) < Skip(j)
  BY <1>2, <1>6
<1>7. /\ g \in [1..Len(a \o c) -> 1..Len(t)]
      /\ \A i \in 1..Len(a \o c) : (a \o c)[i] = t[g[i]]
      /\ \A i, j \in 1..Len(a \o c) : i < j => g[i] < g[j]
  <2> HIDE DEF Skip
  <2>1. QED
    BY <1>4, <1>5, <1>6
<1>8. QED
  <2> HIDE DEF g
  <2>1. QED
    BY <1>7 DEF Embedded, Embeds

-----------------------------------------------------------------------------
(* Every packet accepted is another one: it has its sender, the call and its *)
(* number in the data of that call.                                        *)

CallsDistinct ==
  /\ accepted \in Seq(Packets)
  /\ \A i, j \in 1..Len(accepted) : accepted[i] = accepted[j] => i = j
  /\ \A i \in 1..Len(accepted), s \in Senders :
       accepted[i][1] = s =>
         /\ accepted[i][2] <= calls[s]
         /\ spc[s] \in {"mutex", "queue"} => accepted[i][2] < calls[s]
  /\ \A s \in Senders : spc[s] \in {"mutex", "queue"} =>
       \E n \in 1..MaxPackets : data[s] = Message(s, calls[s], n)

LEMMA CallsInit == Init => CallsDistinct
<1> SUFFICES ASSUME Init PROVE CallsDistinct
  OBVIOUS
<1>1. accepted = <<>> /\ \A s \in Senders : spc[s] = "idle"
  BY DEF Init
<1>2. QED
  BY <1>1 DEF CallsDistinct

LEMMA CallsStep ==
  ASSUME PortInv, CallsDistinct, [Next]_vars
  PROVE  CallsDistinct'
<1>1. CASE UNCHANGED <<accepted, calls, spc, data>>
  BY <1>1 DEF CallsDistinct
<1>2. ASSUME NEW s \in Senders, NEW n \in 1..MaxPackets, SendBegin(s, n)
      PROVE  CallsDistinct'
  <2>1. /\ spc[s] = "idle" /\ spc' = [spc EXCEPT ![s] = "mutex"]
        /\ calls' = [calls EXCEPT ![s] = calls[s] + 1]
        /\ data' = [data EXCEPT ![s] = Message(s, calls'[s], n)]
        /\ UNCHANGED accepted
    BY <1>2 DEF SendBegin, SenderGoto
  <2>2. /\ calls \in [Senders -> Nat] /\ accepted \in Seq(Packets)
        /\ spc \in [Senders ->
                      {"idle", "mutex", "queue", "complete", "release"}]
        /\ data \in [Senders -> Seq(Packets)]
    BY DEF PortInv, Sending, CallsDistinct
  <2>3. \A i \in 1..Len(accepted) : accepted[i] \in Packets
                                    /\ accepted[i][2] \in Nat
    <3>1. \A i \in 1..Len(accepted) : accepted[i] \in Packets
      BY <2>2, ElementOfSeq
    <3>2. QED
      BY <3>1 DEF Packets
  <2>4. \A i \in 1..Len(accepted), r \in Senders :
          accepted[i][1] = r =>
            /\ accepted[i][2] <= calls'[r]
            /\ spc'[r] \in {"mutex", "queue"} => accepted[i][2] < calls'[r]
    <3>1. ASSUME NEW i \in 1..Len(accepted), accepted[i][1] = s
          PROVE  accepted[i][2] < calls'[s]
      <4>1. accepted[i][2] <= calls[s]
        BY <3>1 DEF CallsDistinct
      <4>2. calls'[s] = calls[s] + 1 /\ calls[s] \in Nat
        BY <2>1, <2>2
      <4>3. QED
        BY <2>3, <4>1, <4>2
    <3>2. ASSUME NEW i \in 1..Len(accepted), NEW r \in Senders, r # s
          PROVE  calls'[r] = calls[r] /\ spc'[r] = spc[r]
      BY <2>1, <2>2, <3>2
    <3>3. \A i \in 1..Len(accepted) : calls'[s] \in Nat /\ accepted[i][2] \in Nat
      BY <2>1, <2>2, <2>3
    <3>4. QED
      BY <3>1, <3>2, <3>3 DEF CallsDistinct
  <2>5. \A r \in Senders : spc'[r] \in {"mutex", "queue"} =>
          \E k \in 1..MaxPackets : data'[r] = Message(r, calls'[r], k)
    BY <2>1, <2>2 DEF CallsDistinct
  <2>6. QED
    BY <2>1, <2>2, <2>4, <2>5 DEF CallsDistinct
<1>3. ASSUME NEW s \in Senders, QueueData(s)
      PROVE  CallsDistinct'
  <2>1. /\ spc[s] = "queue" /\ spc' = [spc EXCEPT ![s] = "complete"]
        /\ accepted' = accepted \o data[s]
        /\ UNCHANGED <<data, calls>>
    BY <1>3 DEF QueueData, SenderGoto
  <2>2. /\ calls \in [Senders -> Nat] /\ accepted \in Seq(Packets)
        /\ spc \in [Senders ->
                      {"idle", "mutex", "queue", "complete", "release"}]
        /\ Len(accepted) \in Nat
    BY LenProperties DEF PortInv, Sending, CallsDistinct
  <2>3. PICK n \in 1..MaxPackets : data[s] = Message(s, calls[s], n)
    BY <2>1 DEF CallsDistinct
  <2>4. /\ data[s] \in Seq(Packets) /\ Len(data[s]) = n /\ n \in Nat
        /\ \A i \in 1..n : data[s][i] = <<s, calls[s], i>>
    <3>1. calls[s] \in Nat /\ n \in Nat
      BY <2>2, CdcAssumption DEF CdcAssumption
    <3>2. data[s] \in Seq(Packets) /\ Len(data[s]) = n
      BY <2>3, <3>1, MessageType
    <3>3. \A i \in 1..n : data[s][i] = <<s, calls[s], i>>
      BY <2>3 DEF Message
    <3>4. QED
      BY <3>1, <3>2, <3>3
  <2> DEFINE m == Len(accepted)
  <2>5. /\ accepted' \in Seq(Packets) /\ Len(accepted') = m + n
        /\ \A i \in 1..m : accepted'[i] = accepted[i]
        /\ \A i \in m + 1..m + n : accepted'[i] = <<s, calls[s], i - m>>
    <3>1. \A i \in 1..Len(accepted') : accepted'[i] =
            IF i <= Len(accepted) THEN accepted[i] ELSE data[s][i - Len(accepted)]
      BY <2>1, <2>2, <2>4, ConcatProperties
    <3>2. accepted' \in Seq(Packets) /\ Len(accepted') = m + n
      BY <2>1, <2>2, <2>4, ConcatProperties
    <3>3. m \in Nat
      BY <2>2
    <3>4. ASSUME NEW i \in 1..m PROVE accepted'[i] = accepted[i]
      BY <2>4, <3>1, <3>2, <3>3
    <3>5. ASSUME NEW i \in m + 1..m + n
          PROVE  accepted'[i] = <<s, calls[s], i - m>>
      <4>1. i \in 1..Len(accepted') /\ ~(i <= m) /\ i - m \in 1..n
        BY <2>4, <3>2, <3>3
      <4>2. QED
        BY <2>4, <3>1, <4>1
    <3>6. QED
      BY <3>2, <3>4, <3>5
  <2>6. \A i \in 1..m : accepted[i][2] \in Nat
    <3>1. \A i \in 1..Len(accepted) : accepted[i] \in Packets
      BY <2>2, ElementOfSeq
    <3>2. QED
      BY <3>1 DEF Packets
  <2>7. \A i \in 1..m : accepted[i][1] = s => accepted[i][2] < calls[s]
    BY <2>1 DEF CallsDistinct
  <2>8. \A i \in 1..m : \A k : accepted[i] # <<s, calls[s], k>>
    BY <2>2, <2>6, <2>7
  <2> HIDE DEF m
  <2>9. \A i, j \in 1..m : accepted[i] = accepted[j] => i = j
    BY DEF CallsDistinct, m
  <2>10. ASSUME NEW i \in 1..Len(accepted'), NEW j \in 1..Len(accepted'),
                accepted'[i] = accepted'[j]
         PROVE  i = j
    <3>1. m \in Nat
      BY <2>2 DEF m
    <3>2. i \in 1..m \/ i \in m + 1..m + n
      BY <2>4, <2>5, <3>1
    <3>3. j \in 1..m \/ j \in m + 1..m + n
      BY <2>4, <2>5, <3>1
    <3>4. CASE i \in m + 1..m + n /\ j \in m + 1..m + n
      <4>1. <<s, calls[s], i - m>> = <<s, calls[s], j - m>>
        BY <2>5, <2>10, <3>4
      <4>2. QED
        BY <3>1, <3>4, <4>1
    <3>5. QED
      BY <2>5, <2>8, <2>9, <2>10, <3>2, <3>3, <3>4
  <2>11. ASSUME NEW i \in 1..Len(accepted'), NEW r \in Senders,
                accepted'[i][1] = r
         PROVE  /\ accepted'[i][2] <= calls[r]
                /\ spc'[r] \in {"mutex", "queue"} => accepted'[i][2] < calls[r]
    <3>1. i \in 1..m \/ i \in m + 1..m + n
      BY <2>2, <2>4, <2>5 DEF m
    <3>2. CASE i \in 1..m
      <4>1. /\ accepted[i][1] = r /\ accepted[i][2] <= calls[r]
            /\ spc[r] \in {"mutex", "queue"} => accepted[i][2] < calls[r]
        BY <2>5, <2>11, <3>2 DEF CallsDistinct, m
      <4>2. spc'[r] \in {"mutex", "queue"} => spc[r] \in {"mutex", "queue"}
        BY <2>1, <2>2
      <4>3. QED
        BY <2>5, <3>2, <4>1, <4>2
    <3>3. CASE i \in m + 1..m + n
      <4>1. r = s /\ accepted'[i][2] = calls[s]
        BY <2>5, <2>11, <3>3
      <4>2. spc'[s] = "complete" /\ calls[s] \in Nat
        BY <2>1, <2>2
      <4>3. QED
        BY <4>1, <4>2
    <3>4. QED
      BY <3>1, <3>2, <3>3
  <2>12. \A r \in Senders : spc'[r] \in {"mutex", "queue"} =>
           \E k \in 1..MaxPackets : data[r] = Message(r, calls[r], k)
    BY <2>1, <2>2 DEF CallsDistinct
  <2>13. QED
    BY <2>1, <2>5, <2>10, <2>11, <2>12 DEF CallsDistinct
<1>4. ASSUME NEW s \in Senders, TakeMutex(s) \/ TakeComplete(s) \/ GiveMutex(s)
      PROVE  CallsDistinct'
  <2>1. /\ UNCHANGED <<accepted, calls, data>>
        /\ \A r \in Senders : spc'[r] \in {"mutex", "queue"}
                                => spc[r] \in {"mutex", "queue"}
    BY <1>4 DEF TakeMutex, TakeComplete, GiveMutex, SenderGoto, PortInv, Sending
  <2>2. QED
    BY <2>1 DEF CallsDistinct
<1>5. CASE \/ (Interrupts \/ Host) /\ Outside
           \/ USB_receive
           \/ UNCHANGED vars
  <2>1. UNCHANGED <<accepted, calls, spc, data>>
    BY <1>5 DEF Outside, USB_receive, ReceiveItem, CopyToUser, FreeItem, sendVars,
       vars
  <2>2. QED
    BY <1>1, <2>1
<1>6. CASE cdc_task
  <2>1. UNCHANGED <<accepted, calls, spc, data>>
    BY <1>6 DEF cdc_task, Create, HwInit, InitVcom, EnableIRQ, Connect, Connected,
       Allocate, Copy, Post, Written, Poll, Driver, Outside, sendVars
  <2>2. QED
    BY <1>1, <2>1
<1>7. QED
  BY <1>2, <1>3, <1>4, <1>5, <1>6 DEF Next, USB_send

-----------------------------------------------------------------------------
(* The packets accepted are on their way in that order: with the host, in     *)
(* the endpoint, with cdc_task and in SendQueue.                           *)

Waiting == IF SendQueue = <<>> THEN <<>> ELSE Head(SendQueue).dptr
Pipe == Stream \o Waiting
Lost == Len(accepted) - Len(Pipe)

Flow ==
  /\ hostGot \in Seq(Packets) /\ inEp \in Seq(Packets) /\ Len(inEp) <= 1
  /\ Embedded(Pipe, accepted)

LEMMA PipeType ==
  ASSUME PortInv, Flow
  PROVE  /\ snd.dptr \in Seq(Packets) /\ Waiting \in Seq(Packets)
         /\ Stream \in Seq(Packets) /\ Pipe \in Seq(Packets)
         /\ Len(Stream) \in Nat
         /\ Len(Pipe) = Len(Stream) + Len(Waiting)
         /\ Len(Pipe) = Len(hostGot) + Len(inEp) + Len(snd.dptr) + Len(Waiting)
<1>1. hostGot \in Seq(Packets) /\ inEp \in Seq(Packets)
  BY DEF Flow
<1>2. snd.dptr \in Seq(Packets)
  BY DEF PortInv, Sending, Items
<1>3. Waiting \in Seq(Packets)
  <2>1. CASE SendQueue = <<>>
    BY <2>1 DEF Waiting
  <2>2. CASE SendQueue # <<>>
    <3>1. PICK s \in Senders : SendQueue = <<[by |-> s, dptr |-> data[s]]>>
      BY <2>2 DEF PortInv, OneSender
    <3>2. Waiting = data[s]
      BY <2>2, <3>1 DEF Waiting
    <3>3. QED
      BY <3>2 DEF PortInv, Sending
  <2>3. QED
    BY <2>1, <2>2
<1>4. hostGot \o inEp \in Seq(Packets)
      /\ Len(hostGot \o inEp) = Len(hostGot) + Len(inEp)
  BY <1>1, ConcatProperties
<1>5. Stream \in Seq(Packets)
      /\ Len(Stream) = Len(hostGot) + Len(inEp) + Len(snd.dptr)
  BY <1>2, <1>4, ConcatProperties DEF Stream
<1>6. Pipe \in Seq(Packets) /\ Len(Pipe) = Len(Stream) + Len(Waiting)
  BY <1>3, <1>5, ConcatProperties DEF Pipe
<1>7. QED
  BY <1>2, <1>3, <1>5, <1>6, LenProperties

LEMMA FlowInit == Init => Flow
<1> SUFFICES ASSUME Init PROVE Flow
  OBVIOUS
<1>1. Pipe = <<>>
  <2>1. hostGot = <<>> /\ inEp = <<>> /\ snd.dptr = <<>> /\ Waiting = <<>>
    BY DEF Init, VcomInit, NoItem, Waiting
  <2>2. QED
    BY <2>1 DEF Pipe, Stream
<1>2. Embedded(<<>>, <<>>)
  <2> DEFINE f == [i \in 1..0 |-> i]
  <2>1. Len(<<>>) = 0 /\ f \in [1..0 -> 1..0]
    OBVIOUS
  <2> HIDE DEF f
  <2>2. Embeds(<<>>, <<>>, f)
    BY <2>1 DEF Embeds
  <2>3. QED
    BY <2>1, <2>2 DEF Embedded
<1>3. accepted = <<>> /\ hostGot = <<>> /\ inEp = <<>>
  BY DEF Init, VcomInit
<1>4. Embedded(Pipe, accepted)
  BY <1>1, <1>2, <1>3
<1>5. QED
  BY <1>3, <1>4 DEF Flow

LEMMA FlowUntouched ==
  ASSUME Flow, UNCHANGED <<accepted, hostGot, inEp, snd, SendQueue>>
  PROVE  Flow' /\ Lost' = Lost
<1>1. Stream' = Stream /\ Waiting' = Waiting /\ Pipe' = Pipe
  BY DEF Stream, Waiting, Pipe
<1>2. QED
  BY <1>1 DEF Flow, Lost

LEMMA HostReadsFlow ==
  ASSUME PortInv, Flow, HostReads, Outside
  PROVE  Flow' /\ Lost' = Lost
<1>1. /\ hostGot' = hostGot \o inEp /\ inEp' = <<>>
      /\ UNCHANGED <<accepted, snd, SendQueue>>
  BY DEF HostReads, Outside, sendVars
<1>2. hostGot' \in Seq(Packets) /\ hostGot' \o <<>> = hostGot'
  BY <1>1, ConcatProperties, ConcatEmptySeq DEF Flow
<1>3. Stream' = Stream /\ Waiting' = Waiting
  BY <1>1, <1>2 DEF Stream, Waiting
<1>4. Pipe' = Pipe
  BY <1>3 DEF Pipe
<1>5. QED
  BY <1>1, <1>2, <1>4 DEF Flow, Lost

(* A packet that is still in the endpoint is overwritten. *)
LEMMA WrittenFlow ==
  ASSUME PortInv, Flow, accepted \in Seq(Packets), Written
  PROVE  Flow' /\ Lost' = Lost + Len(inEp)
<1> DEFINE d == snd.dptr
<1>1. /\ cpc = "writeEP" /\ inEp' = <<Head(d)>>
      /\ snd' = [snd EXCEPT !.dptr = Tail(d)]
      /\ UNCHANGED <<accepted, hostGot, SendQueue>>
  BY DEF Written, WriteEP, Goto, hostVars
<1>2. /\ d \in Seq(Packets) /\ Waiting \in Seq(Packets)
      /\ hostGot \in Seq(Packets) /\ inEp \in Seq(Packets)
      /\ d # <<>>
  BY <1>1, PipeType DEF Flow, PortInv, OneSender, Pending
<1>3. snd'.dptr = Tail(d) /\ Waiting' = Waiting
  BY <1>1 DEF PortInv, Sending, Items, Waiting
<1> DEFINE p == <<Head(d)>>
           rest == Tail(d)
<1>4. p \in Seq(Packets) /\ rest \in Seq(Packets) /\ Len(p) = 1 /\ p # <<>>
  BY <1>2, HeadTailProperties
<1>5. p \o rest = d
  <2>1. /\ p \o rest \in Seq(Packets) /\ Len(p \o rest) = Len(d)
        /\ \A i \in 1..Len(d) :
             (p \o rest)[i] = IF i <= 1 THEN p[i] ELSE rest[i - 1]
        /\ Len(d) \in Nat
    BY <1>2, <1>4, ConcatProperties, HeadTailProperties, LenProperties
  <2>2. ASSUME NEW i \in 1..Len(d) PROVE (p \o rest)[i] = d[i]
    <3>1. CASE i = 1
      BY <2>1, <3>1
    <3>2. CASE i > 1
      <4>1. i - 1 \in 1..Len(rest) /\ i - 1 + 1 = i
        BY <1>2, <2>1, <3>2, HeadTailProperties
      <4>2. rest[i - 1] = d[i]
        BY <1>2, <4>1, HeadTailProperties
      <4>3. QED
        BY <2>1, <3>2, <4>2
    <3>3. QED
      BY <2>1, <3>1, <3>2
  <2>3. QED
    BY <1>2, <2>1, <2>2, SeqEqual
<1> HIDE DEF d, p, rest
<1>6. Pipe = (hostGot \o inEp) \o (d \o Waiting)
  <2>1. hostGot \o inEp \in Seq(Packets)
    BY <1>2, ConcatProperties
  <2>2. Pipe = ((hostGot \o inEp) \o d) \o Waiting
    BY DEF Pipe, Stream, d
  <2>3. d \in Seq(Packets) /\ Waiting \in Seq(Packets)
    BY <1>2
  <2> HIDE DEF d
  <2>4. ((hostGot \o inEp) \o d) \o Waiting = (hostGot \o inEp) \o (d \o Waiting)
    BY ONLY <2>1, <2>3, ConcatAssociative
  <2>5. QED
    BY ONLY <2>2, <2>4
<1>7. Pipe' = hostGot \o (d \o Waiting)
  <2>1. Pipe' = ((hostGot \o p) \o rest) \o Waiting
    BY <1>1, <1>3 DEF Pipe, Stream, p, rest
  <2>2. (hostGot \o p) \o rest = hostGot \o d
    <3>1. /\ hostGot \in Seq(Packets) /\ p \in Seq(Packets)
          /\ rest \in Seq(Packets)
      BY <1>2, <1>4
    <3>2. (hostGot \o p) \o rest = hostGot \o (p \o rest)
      BY <3>1, ConcatAssociative
    <3>3. QED
      BY <1>5, <3>2
  <2>3. (hostGot \o d) \o Waiting = hostGot \o (d \o Waiting)
    BY <1>2, ConcatAssociative
  <2>4. QED
    BY <2>1, <2>2, <2>3
<1>8. d \o Waiting \in Seq(Packets)
  BY <1>2, ConcatProperties
<1>9. Embedded(Pipe', accepted)
  BY <1>2, <1>6, <1>7, <1>8, EmbeddedDrop DEF Flow
<1>10. Lost' = Lost + Len(inEp)
  <2>1. /\ Len(Pipe) = Len(hostGot) + Len(inEp) + Len(d \o Waiting)
        /\ Len(Pipe') = Len(hostGot) + Len(d \o Waiting)
        /\ Len(hostGot) \in Nat /\ Len(inEp) \in Nat /\ Len(d \o Waiting) \in Nat
    <3>1. hostGot \o inEp \in Seq(Packets)
          /\ Len(hostGot \o inEp) = Len(hostGot) + Len(inEp)
      BY <1>2, ConcatProperties
    <3>2. QED
      BY <1>2, <1>6, <1>7, <1>8, <3>1, ConcatProperties, LenProperties
  <2>2. Len(accepted) \in Nat
    BY LenProperties
  <2>3. Lost = Len(accepted) - Len(Pipe) /\ Lost' = Len(accepted) - Len(Pipe')
    BY <1>1 DEF Lost
  <2>4. QED
    BY <2>1, <2>2, <2>3
<1>11. QED
  BY <1>1, <1>2, <1>4, <1>9, <1>10 DEF Flow, p

LEMMA PollFlow ==
  ASSUME PortInv, Flow, Poll
  PROVE  Flow' /\ Lost' = Lost
<1>1. UNCHANGED <<accepted, hostGot, inEp>>
  BY DEF Poll, Stay, Still, txVars, hostVars
<1>2. CASE ~Pending /\ SendQueue # <<>>
  <2>1. snd' = Head(SendQueue) /\ SendQueue' = <<>> /\ snd.dptr = <<>>
    BY <1>2 DEF Poll, Pending
  <2>2. Waiting = snd'.dptr /\ Waiting' = <<>> /\ Waiting \in Seq(Packets)
        /\ hostGot \o inEp \in Seq(Packets)
    BY <1>2, <2>1, PipeType, ConcatProperties DEF Waiting, Flow
  <2>3. Pipe' = Pipe
    <3>1. Pipe = ((hostGot \o inEp) \o <<>>) \o Waiting
      BY <2>1 DEF Pipe, Stream
    <3>2. Pipe' = ((hostGot \o inEp) \o Waiting) \o <<>>
      BY <1>1, <2>2 DEF Pipe, Stream
    <3>3. (hostGot \o inEp) \o Waiting \in Seq(Packets)
      BY <2>2, ConcatProperties
    <3>4. QED
      BY <2>2, <3>1, <3>2, <3>3, ConcatEmptySeq
  <2>4. QED
    BY <1>1, <2>3 DEF Flow, Lost
<1>3. CASE ~(~Pending /\ SendQueue # <<>>)
  BY <1>1, <1>3, FlowUntouched DEF Poll
<1>4. QED
  BY <1>2, <1>3

LEMMA QueueDataFlow ==
  ASSUME PortInv, Flow, accepted \in Seq(Packets), NEW s \in Senders, QueueData(s)
  PROVE  Flow' /\ Lost' = Lost
<1>1. /\ SendQueue = <<>> /\ SendQueue' = <<[by |-> s, dptr |-> data[s]]>>
      /\ accepted' = accepted \o data[s]
      /\ UNCHANGED <<hostGot, inEp, snd>>
  BY DEF QueueData, vcomVars, txVars, hostVars
<1>2. data[s] \in Seq(Packets) /\ Stream \in Seq(Packets) /\ Pipe \in Seq(Packets)
  BY PipeType DEF PortInv, Sending
<1>3. Waiting = <<>> /\ Waiting' = data[s] /\ Stream' = Stream
  BY <1>1 DEF Waiting, Stream
<1>4. Pipe = Stream
  BY <1>2, <1>3, ConcatEmptySeq DEF Pipe
<1>5. Pipe' = Pipe \o data[s]
  BY <1>3, <1>4 DEF Pipe
<1>6. Embedded(Pipe', accepted')
  BY <1>1, <1>2, <1>5, EmbeddedAppend DEF Flow
<1>7. Lost' = Lost
  <2>1. /\ Len(Pipe') = Len(Pipe) + Len(data[s])
        /\ Len(accepted') = Len(accepted) + Len(data[s])
        /\ Len(Pipe) \in Nat /\ Len(data[s]) \in Nat /\ Len(accepted) \in Nat
    BY <1>1, <1>2, <1>5, ConcatProperties, LenProperties
  <2>2. QED
    BY <2>1 DEF Lost
<1>8. QED
  BY <1>1, <1>6, <1>7 DEF Flow

-----------------------------------------------------------------------------
(* How many packets can be lost.  One token stands for the room of one        *)
(* packet in the endpoint: it is where the packet is, or the event that the   *)
(* host has taken it, or BUSY being clear, or vcom_write having found it so.  *)
(* Setting the line coding anew may make a second one; only then is a packet *)
(* overwritten.                                                            *)

Of(condition) == IF condition THEN 1 ELSE 0

ReadEvent == Of("IN" \in events)
InEndpoint == Of(inEp # <<>>)
NotBusy == Of("BUSY" \notin tx_flags /\ cpc # "store")
Writing == Of(cpc \in {"store", "writeEP"})
Tokens == ReadEvent + InEndpoint + NotBusy + Writing

Budget == Tokens >= 1 /\ Lost + Tokens <= 1 + reopened

LEMMA TokensType ==
  /\ ReadEvent \in {0, 1} /\ InEndpoint \in {0, 1}
  /\ NotBusy \in {0, 1} /\ Writing \in {0, 1}
  /\ ReadEvent' \in {0, 1} /\ InEndpoint' \in {0, 1}
  /\ NotBusy' \in {0, 1} /\ Writing' \in {0, 1}
BY DEF ReadEvent, InEndpoint, NotBusy, Writing, Of

LEMMA ZeroOrOne == \A n \in Nat : n <= 1 => n = 0 \/ n = 1
OBVIOUS

(* what clearing BUSY does to the sum, alone and when "IN" is used up by it *)
LEMMA OneMore ==
  ASSUME NEW a \in {0, 1}, NEW b \in {0, 1}, NEW c \in {0, 1}, NEW d \in {0, 1}
  PROVE  /\ a + b + 0 + d \in Nat /\ a + b + c + d \in Nat
         /\ a + b + c + d >= a + b + 0 + d
         /\ a + b + c + d <= a + b + 0 + d + 1
         /\ 1 + b + c + d \in Nat /\ 0 + b + 1 + d \in Nat
         /\ 0 + b + c + d \in Nat /\ 0 + b + c + d <= 1 + b + c + d
         /\ 0 + b + 1 + d >= 1 /\ 0 + b + 1 + d <= 1 + b + c + d
         /\ d = 1 => 0 + b + c + d >= 1
OBVIOUS

LEMMA LostType ==
  ASSUME PortInv, CallsDistinct, Flow
  PROVE  Lost \in Int /\ reopened \in Nat
<1>1. Len(Pipe) \in Nat /\ Len(accepted) \in Nat
  BY PipeType, LenProperties DEF CallsDistinct
<1>2. QED
  BY <1>1, VcomAssumption DEF Lost, PortInv, VcomTypeOK, VcomAssumption

LEMMA BudgetUntouched ==
  ASSUME Budget, Lost' = Lost, UNCHANGED <<tx_flags, inEp, reopened>>,
         "IN" \in events' <=> "IN" \in events,
         \/ UNCHANGED cpc
         \/ cpc \notin {"store", "writeEP"} /\ cpc' \notin {"store", "writeEP"}
  PROVE  Budget'
<1>1. ReadEvent' = ReadEvent /\ InEndpoint' = InEndpoint
  BY DEF ReadEvent, InEndpoint
<1>2. NotBusy' = NotBusy /\ Writing' = Writing
  BY DEF NotBusy, Writing
<1>3. Tokens' = Tokens
  BY <1>1, <1>2 DEF Tokens
<1>4. QED
  BY <1>3 DEF Budget

LEMMA HostReadsBudget ==
  ASSUME PortInv, CallsDistinct, Flow, Budget, HostReads, Outside
  PROVE  Budget'
<1>1. /\ inEp # <<>> /\ inEp' = <<>> /\ events' = events \cup {"IN"}
      /\ UNCHANGED <<cpc, tx_flags, reopened>>
  BY DEF HostReads
<1>2. ReadEvent' = 1 /\ InEndpoint = 1 /\ InEndpoint' = 0
  BY <1>1 DEF ReadEvent, InEndpoint, Of
<1>3. NotBusy' = NotBusy /\ Writing' = Writing
  BY <1>1 DEF NotBusy, Writing
<1>4. Lost' = Lost /\ Lost \in Int /\ reopened \in Nat
  BY HostReadsFlow, LostType
<1>5. QED
  BY <1>1, <1>2, <1>3, <1>4, TokensType DEF Budget, Tokens

LEMMA BulkInBudget ==
  ASSUME PortInv, CallsDistinct, Flow, Budget, Lost' = Lost,
         VCOM_bulk_in_hdlr
  PROVE  Budget'
<1>1. /\ "IN" \in events /\ events' = events \ {"IN"}
      /\ tx_flags' = tx_flags \ {"BUSY"}
      /\ UNCHANGED <<cpc, inEp, reopened>>
  BY DEF VCOM_bulk_in_hdlr, Endpoint, Raised, hostVars
<1>2. ReadEvent = 1 /\ ReadEvent' = 0
  BY <1>1 DEF ReadEvent, Of
<1>3. InEndpoint' = InEndpoint /\ Writing' = Writing
  BY <1>1 DEF InEndpoint, Writing
<1>4. NotBusy' = 1 \/ (Writing' = 1 /\ NotBusy = 0 /\ NotBusy' = 0)
  <2>1. CASE cpc = "store"
    BY <1>1, <2>1 DEF NotBusy, Writing, Of
  <2>2. CASE cpc # "store"
    <3>1. "BUSY" \notin tx_flags' /\ cpc' # "store"
      BY <1>1, <2>2
    <3>2. QED
      BY <3>1 DEF NotBusy, Of
  <2>3. QED
    BY <2>1, <2>2
<1>5. Tokens' \in Nat /\ Tokens \in Nat /\ Tokens' >= 1 /\ Tokens' <= Tokens
  <2>1. Tokens = 1 + InEndpoint + NotBusy + Writing
        /\ Tokens' = 0 + InEndpoint + NotBusy' + Writing'
    BY <1>2, <1>3 DEF Tokens
  <2>2. Writing' = Writing
    BY <1>3
  <2>3. QED
    BY <1>4, <2>1, <2>2, TokensType, OneMore
<1>6. QED
  BY <1>1, <1>5, LostType DEF Budget

LEMMA SetLineCodeBudget ==
  ASSUME PortInv, CallsDistinct, Flow, Budget, Lost' = Lost,
         VCOM_SetLineCode
  PROVE  Budget'
<1>1. /\ "LINE" \in events /\ events' = events \ {"LINE"}
      /\ tx_flags' = {"CONNECTED"}
      /\ reopened' = IF "CONNECTED" \in tx_flags THEN reopened + 1 ELSE reopened
      /\ UNCHANGED <<cpc, inEp>>
  BY DEF VCOM_SetLineCode, Raised
<1>2. ReadEvent' = ReadEvent /\ InEndpoint' = InEndpoint /\ Writing' = Writing
  BY <1>1 DEF ReadEvent, InEndpoint, Writing
<1>3. CASE "BUSY" \in tx_flags
  <2>1. reopened' = reopened + 1
    BY <1>1, <1>3 DEF PortInv, SendState
  <2>2. NotBusy = 0
    BY <1>3 DEF NotBusy, Of
  <2>3. Tokens = ReadEvent + InEndpoint + 0 + Writing
        /\ Tokens' = ReadEvent + InEndpoint + NotBusy' + Writing
    BY <1>2, <2>2 DEF Tokens
  <2>4. Tokens' \in Nat /\ Tokens \in Nat /\ Tokens' >= Tokens
        /\ Tokens' <= Tokens + 1
    BY <2>3, TokensType, OneMore
  <2>5. QED
    BY <2>1, <2>4, LostType DEF Budget
<1>4. CASE "BUSY" \notin tx_flags
  <2>1. NotBusy' = NotBusy
    BY <1>1, <1>4 DEF NotBusy
  <2>2. reopened' = reopened \/ reopened' = reopened + 1
    BY <1>1
  <2>3. Tokens' = Tokens /\ Tokens \in Nat
    BY <1>2, <2>1, TokensType DEF Tokens
  <2>4. QED
    BY <2>2, <2>3, LostType DEF Budget
<1>5. QED
  BY <1>3, <1>4

LEMMA WriteBudget ==
  ASSUME PortInv, CallsDistinct, Flow, Budget, Lost' = Lost,
         WriteLoad \/ WriteStore
  PROVE  Budget'
<1>1. UNCHANGED <<inEp, events, reopened>>
  BY DEF WriteLoad, WriteStore, txVars, hostVars
<1>2. ReadEvent' = ReadEvent /\ InEndpoint' = InEndpoint
  BY <1>1 DEF ReadEvent, InEndpoint
<1>3. CASE WriteLoad
  <2>1. /\ "BUSY" \notin tx_flags /\ cpc = "load" /\ cpc' = "store"
    BY <1>3 DEF WriteLoad, MayWrite, Goto
  <2>2. NotBusy = 1 /\ NotBusy' = 0 /\ Writing = 0 /\ Writing' = 1
    BY <2>1 DEF NotBusy, Writing, Of
  <2>3. QED
    BY <1>1, <1>2, <2>2, TokensType DEF Budget, Tokens
<1>4. CASE WriteStore
  <2>1. /\ cpc = "store" /\ cpc' = "writeEP" /\ "BUSY" \in tx_flags'
    BY <1>4 DEF WriteStore, Goto, PortInv, SendState
  <2>2. NotBusy = 0 /\ NotBusy' = 0 /\ Writing = 1 /\ Writing' = 1
    BY <2>1 DEF NotBusy, Writing, Of
  <2>3. QED
    BY <1>1, <1>2, <2>2, TokensType DEF Budget, Tokens
<1>5. QED
  BY <1>3, <1>4

LEMMA WrittenBudget ==
  ASSUME PortInv, CallsDistinct, Flow, Budget, Written
  PROVE  Budget'
<1>1. /\ cpc = "writeEP" /\ cpc' = "poll" /\ inEp' = <<Head(snd.dptr)>>
      /\ UNCHANGED <<tx_flags, events, reopened>>
  BY DEF Written, WriteEP, Goto, hostVars
<1>2. ReadEvent' = ReadEvent /\ NotBusy' = NotBusy
  BY <1>1 DEF ReadEvent, NotBusy
<1>3. Writing = 1 /\ Writing' = 0
  BY <1>1 DEF Writing, Of
<1>4. InEndpoint' = 1
  <2>1. inEp' # <<>>
    BY <1>1
  <2>2. QED
    BY <2>1 DEF InEndpoint, Of
<1>5. InEndpoint = Len(inEp)
  <2>1. inEp \in Seq(Packets) /\ Len(inEp) \in Nat /\ Len(inEp) <= 1
    BY LenProperties DEF Flow
  <2>2. inEp = <<>> <=> Len(inEp) = 0
    BY <2>1, EmptySeq
  <2>3. CASE Len(inEp) = 0
    BY <2>2, <2>3 DEF InEndpoint, Of
  <2>4. CASE Len(inEp) = 1
    BY <2>2, <2>4 DEF InEndpoint, Of
  <2>5. Len(inEp) = 0 \/ Len(inEp) = 1
    BY <2>1, ZeroOrOne
  <2>6. QED
    BY <2>3, <2>4, <2>5
<1>6. Lost' = Lost + Len(inEp)
  BY WrittenFlow DEF CallsDistinct
<1>7. QED
  BY <1>1, <1>2, <1>3, <1>4, <1>5, <1>6, TokensType, LostType DEF Budget, Tokens

(* The other steps leave the packets and the tokens where they are. *)
LEMMA PacketsStep ==
  ASSUME PortInv, CallsDistinct, Flow, Budget, [Next]_vars
  PROVE  Flow' /\ Budget'
<1>1. ASSUME UNCHANGED <<accepted, hostGot, inEp, snd, SendQueue, tx_flags,
                         reopened>>,
             "IN" \in events' <=> "IN" \in events,
             \/ UNCHANGED cpc
             \/ /\ cpc \notin {"store", "writeEP"}
                /\ cpc' \notin {"store", "writeEP"}
      PROVE  Flow' /\ Budget'
  BY <1>1, FlowUntouched, BudgetUntouched
<1>2. CASE (Interrupts \/ Host) /\ Outside
  <2>1. CASE HostReads
    BY <1>2, <2>1, HostReadsFlow, HostReadsBudget
  <2>2. CASE VCOM_bulk_in_hdlr \/ VCOM_SetLineCode
    <3>1. UNCHANGED <<accepted, hostGot, inEp, snd, SendQueue>>
      BY <1>2, <2>2 DEF VCOM_bulk_in_hdlr, VCOM_SetLineCode, Outside, sendVars,
         hostVars
    <3>2. QED
      BY <2>2, <3>1, FlowUntouched, BulkInBudget, SetLineCodeBudget
  <2>3. CASE \/ BulkOut \/ BulkOutNak \/ HostRefused \/ HostSetsLineCoding
             \/ \E n \in 0..MaxTransfer : HostWrites(n)
    <3>1. /\ UNCHANGED <<accepted, hostGot, inEp, snd, SendQueue, tx_flags,
                         reopened, cpc>>
          /\ "IN" \in events' <=> "IN" \in events
      BY <1>2, <2>3 DEF BulkOut, BulkOutNak, HostRefused, HostSetsLineCoding,
         HostWrites, Endpoint, Raised, Outside, sendVars, txVars, hostVars
    <3>2. QED
      BY <1>1, <3>1
  <2>4. QED
    BY <1>2, <2>1, <2>2, <2>3 DEF Interrupts, Host
<1>3. CASE cdc_task
  <2>1. CASE Written
    BY <2>1, WrittenFlow, WrittenBudget DEF CallsDistinct
  <2>2. CASE Poll
    <3>1. /\ cpc = "poll" /\ cpc' = "alloc"
          /\ UNCHANGED <<tx_flags, inEp, reopened, events>>
      BY <2>2 DEF Poll, Goto, Stay, Still, txVars, hostVars
    <3>2. QED
      BY <2>2, <3>1, PollFlow, BudgetUntouched
  <2>3. CASE Driver(WriteLoad) \/ Driver(WriteStore)
    <3>1. UNCHANGED <<accepted, hostGot, inEp, snd, SendQueue>>
      BY <2>3 DEF Driver, WriteLoad, WriteStore, Outside, sendVars, txVars,
         hostVars
    <3>2. QED
      BY <2>3, <3>1, FlowUntouched, WriteBudget DEF Driver
  <2>4. CASE \/ Create \/ HwInit \/ InitVcom \/ EnableIRQ \/ Connect \/ Connected
             \/ Allocate \/ Copy \/ Post
             \/ Driver(BreadCount(AfterRead)) \/ Driver(BreadRelease)
             \/ Driver(WriteRefused)
    <3>1. UNCHANGED <<accepted, hostGot, inEp, snd, SendQueue, tx_flags,
                      reopened, events>>
      BY <2>4 DEF Create, HwInit, InitVcom, EnableIRQ, Connect, Connected,
         Allocate, Copy, BreadCopy, Post, Driver, BreadCount, BreadRelease,
         WriteRefused, Stay, Still, Outside, sendVars, txVars, hostVars
    <3>2. cpc \notin {"store", "writeEP"} /\ cpc' \notin {"store", "writeEP"}
      BY <2>4 DEF Create, HwInit, InitVcom, vcom_init, EnableIRQ, Connect,
         Connected, Allocate, Copy, BreadCopy, Post, Driver, BreadCount,
         BreadRelease, WriteRefused, Goto, AfterRead
    <3>3. QED
      BY <1>1, <3>1, <3>2
  <2>5. QED
    BY <1>3, <2>1, <2>2, <2>3, <2>4 DEF cdc_task
<1>4. ASSUME NEW s \in Senders, QueueData(s)
      PROVE  Flow' /\ Budget'
  <2>1. UNCHANGED <<cpc, tx_flags, inEp, reopened, events>>
    BY <1>4 DEF QueueData, vcomVars, txVars, hostVars
  <2>2. QED
    BY <1>4, <2>1, QueueDataFlow, BudgetUntouched DEF CallsDistinct
<1>5. CASE \/ USB_receive \/ UNCHANGED vars
           \/ \E s \in Senders :
                \/ TakeMutex(s) \/ TakeComplete(s) \/ GiveMutex(s)
                \/ \E n \in 1..MaxPackets : SendBegin(s, n)
  <2>1. UNCHANGED <<accepted, hostGot, inEp, snd, SendQueue, tx_flags, reopened,
                    events, cpc>>
    BY <1>5 DEF USB_receive, ReceiveItem, CopyToUser, FreeItem, TakeMutex,
       TakeComplete, GiveMutex, SendBegin, vcomVars, txVars, hostVars, sendVars,
       vars
  <2>2. QED
    BY <1>1, <2>1
<1>6. QED
  BY <1>2, <1>3, <1>4, <1>5 DEF Next, USB_send

LEMMA PacketsInit == Init => CallsDistinct /\ Flow /\ Budget
<1> SUFFICES ASSUME Init PROVE Budget
  BY CallsInit, FlowInit
<1>1. /\ events = {} /\ inEp = <<>> /\ tx_flags = {} /\ cpc = "create"
      /\ reopened = 0
  BY DEF Init, VcomInit
<1>2. ReadEvent = 0 /\ InEndpoint = 0 /\ NotBusy = 1 /\ Writing = 0
  BY <1>1 DEF ReadEvent, InEndpoint, NotBusy, Writing, Of
<1>3. Lost = 0
  <2>1. accepted = <<>> /\ hostGot = <<>> /\ snd.dptr = <<>> /\ Waiting = <<>>
    BY DEF Init, VcomInit, NoItem, Waiting
  <2>2. Pipe = <<>>
    BY <1>1, <2>1 DEF Pipe, Stream
  <2>3. QED
    BY <2>1, <2>2 DEF Lost
<1>4. QED
  BY <1>1, <1>2, <1>3 DEF Budget, Tokens

-----------------------------------------------------------------------------
LEMMA PacketsInOrder ==
  ASSUME PortInv, CallsDistinct, Flow, Budget
  PROVE  SentInOrder
<1> DEFINE place(p) == CHOOSE i \in DOMAIN accepted : accepted[i] = p
<1>1. /\ accepted \in Seq(Packets) /\ DOMAIN accepted = 1..Len(accepted)
      /\ Stream \in Seq(Packets) /\ DOMAIN Stream = 1..Len(Stream)
      /\ Waiting \in Seq(Packets) /\ Pipe \in Seq(Packets)
      /\ Len(Stream) \in Nat /\ Len(Waiting) \in Nat
      /\ Len(Pipe) = Len(Stream) + Len(Waiting)
  BY PipeType, LenProperties DEF CallsDistinct
<1>2. \A i \in 1..Len(Stream) : i \in 1..Len(Pipe) /\ Pipe[i] = Stream[i]
  BY <1>1, ConcatProperties DEF Pipe
<1>3. PICK f \in [1..Len(Pipe) -> 1..Len(accepted)] : Embeds(Pipe, accepted, f)
  BY DEF Flow, Embedded
<1>4. /\ \A i \in 1..Len(Pipe) : f[i] \in 1..Len(accepted)
                                 /\ Pipe[i] = accepted[f[i]]
      /\ \A i, j \in 1..Len(Pipe) : i < j => f[i] < f[j]
  BY <1>3 DEF Embeds
<1>5. ASSUME NEW i \in DOMAIN Stream
      PROVE  /\ f[i] \in DOMAIN accepted /\ Stream[i] = accepted[f[i]]
             /\ place(Stream[i]) = f[i]
  <2>1. f[i] \in DOMAIN accepted /\ Stream[i] = accepted[f[i]]
    BY <1>1, <1>2, <1>4
  <2>2. \A j \in DOMAIN accepted : accepted[j] = Stream[i] => j = f[i]
    BY <1>1, <2>1 DEF CallsDistinct
  <2>3. QED
    BY <2>1, <2>2
<1>6. ASSUME NEW i \in DOMAIN Stream, NEW j \in DOMAIN Stream, i < j
      PROVE  place(Stream[i]) < place(Stream[j])
  <2>1. f[i] < f[j]
    BY <1>1, <1>2, <1>4, <1>6
  <2>2. QED
    BY <1>5, <2>1
<1>7. ASSUME spc = [s \in Senders |-> "idle"]
      PROVE  Len(accepted) - Len(Stream) <= reopened
  <2>1. SendQueue = <<>>
    BY <1>7 DEF PortInv, OneSender
  <2>2. Len(Waiting) = 0
    BY <2>1 DEF Waiting
  <2>3. Lost = Len(accepted) - Len(Stream)
    BY <1>1, <2>2 DEF Lost
  <2>4. Tokens \in Nat
    BY TokensType DEF Tokens
  <2>5. QED
    BY <2>3, <2>4, LostType, <1>1 DEF Budget
<1>8. QED
  BY <1>5, <1>6, <1>7 DEF SentInOrder

(* The host gets the packets of the calls of USB_send in the order of the     *)
(* calls, none twice, and no more of them are overwritten in the endpoint     *)
(* than VCOM_SetLineCode has cleared BUSY under, for any number of senders,    *)
(* calls and packets.                                                      *)
THEOREM CdcSentInOrder == Spec => []SentInOrder
<1>1. Init => CallsDistinct /\ Flow /\ Budget
  BY PacketsInit
<1>2. PortInv /\ CallsDistinct /\ Flow /\ Budget /\ [Next]_vars
        => (CallsDistinct /\ Flow /\ Budget)'
  BY CallsStep, PacketsStep
<1>3. PortInv /\ CallsDistinct /\ Flow /\ Budget => SentInOrder
  BY PacketsInOrder
<1>4. QED
  BY <1>1, <1>2, <1>3, PortAlways, PTL DEF Spec

=============================================================================

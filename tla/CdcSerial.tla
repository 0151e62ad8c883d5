----------------------------- MODULE CdcSerial -----------------------------
(***************************************************************************)
(* The serial port as the other tasks see it (cdc_main.c): USB_send,       *)
(* USB_receive, and cdc_task between them and the driver of module Vcom.   *)
(* A fixed pool of receive buffers goes round: AllocQueue, cdc_task,       *)
(* ReceiveQueue, the reader, AllocQueue.  A sender keeps its data and       *)
(* waits until cdc_task has written all of it.  cdc_task creates all of     *)
(* this and starts the USB before its loop.                                *)
(***************************************************************************)
EXTENDS Vcom

CONSTANTS
  RCV_BUFFERS,  \* rows of g_rxBuff
  Senders,      \* tasks that call USB_send
  MaxSends,     \* bound on the calls of each
  MaxPackets,   \* packets of the longest data sent
  None

ASSUME CdcAssumption ==
  /\ RCV_BUFFERS \in Nat \ {0}
  /\ MaxSends \in Nat /\ MaxPackets \in Nat \ {0}
  /\ None \notin Senders \cup (1..RCV_BUFFERS)

Buffers == 1..RCV_BUFFERS

VARIABLES
  g_rxBuff,     \* the blocks in each buffer
  AllocQueue, ReceiveQueue,
  rcv,          \* the buffer cdc_task holds
  rpc, rec,     \* where the reader is in USB_receive, and its buffer
  got,          \* history: blocks returned by USB_receive
  spc,          \* where each sender is in USB_send
  data,         \* what each sender sends: packets
  calls,        \* history: calls of USB_send of each sender
  SendMutex, SendQueue, SendComplete,
  snd,          \* what cdc_task has still to write, and for whom
  accepted      \* history: packets queued, in the order of the calls

poolVars == <<g_rxBuff, AllocQueue, ReceiveQueue, rcv>>
readerVars == <<rpc, rec, got>>
sendVars == <<spc, data, calls, SendMutex, SendQueue, SendComplete, snd,
              accepted>>
vars == <<vcomVars, poolVars, readerVars, sendVars>>

NoItem == [by |-> None, dptr |-> <<>>]

(* What a sender sends in its n-th call: one packet or more. *)
Message(s, n, packets) == [i \in 1..packets |-> <<s, n, i>>]

TypeOK ==
  /\ VcomTypeOK
  /\ cpc \in {"create", "hwInit", "vcomInit", "enable", "attach", "connect",
              "alloc", "bread", "copy", "release", "post", "load", "store",
              "writeEP", "poll"}
  /\ \A b \in Buffers : g_rxBuff[b] \in Seq(0..MaxBlocks)
  /\ AllocQueue \in Seq(Buffers) /\ ReceiveQueue \in Seq(Buffers)
  /\ rcv \in Buffers \cup {None} /\ rec \in Buffers \cup {None}
  /\ rpc \in {"receive", "copy", "free"}
  /\ spc \in [Senders -> {"idle", "mutex", "queue", "complete", "release"}]
  /\ SendMutex \in Senders \cup {None}
  /\ Len(SendQueue) <= 1
  /\ SendComplete \in 0..1

Init ==
  /\ VcomInit /\ cpc = "create"
  /\ g_rxBuff = [b \in Buffers |-> <<>>]
  /\ AllocQueue = <<>> /\ ReceiveQueue = <<>> /\ rcv = None
  /\ rpc = "receive" /\ rec = None /\ got = <<>>
  /\ spc = [s \in Senders |-> "idle"]
  /\ data = [s \in Senders |-> <<>>]
  /\ calls = [s \in Senders |-> 0]
  /\ SendMutex = None /\ SendQueue = <<>> /\ SendComplete = 0
  /\ snd = NoItem /\ accepted = <<>>

Outside == UNCHANGED <<poolVars, readerVars, sendVars>>

-----------------------------------------------------------------------------
(* cdc_task: how it starts.                                                *)

Still == UNCHANGED <<rxVars, txVars, cnt, loaded, events, hostVars>>
Stay == Still /\ UNCHANGED usbVars

(* the queues and semaphores, and all buffers into AllocQueue *)
Create ==
  /\ Goto("create", "hwInit")
  /\ AllocQueue' = [b \in Buffers |-> b]
  /\ Stay /\ UNCHANGED <<g_rxBuff, ReceiveQueue, rcv, readerVars, sendVars>>

(* hw->Init; whatever its result, the task goes on to wait for the host *)
HwInit ==
  /\ \/ Goto("hwInit", "vcomInit") /\ UNCHANGED ret
     \/ Goto("hwInit", "connect") /\ ret' = FALSE
  /\ Still /\ Outside /\ UNCHANGED <<handlers, cdc_param, irq, bus>>

InitVcom ==
  /\ cpc = "vcomInit" /\ vcom_init("enable", "connect")
  /\ Still /\ Outside /\ UNCHANGED <<irq, bus>>

EnableIRQ ==
  /\ Goto("enable", "attach") /\ irq' = TRUE
  /\ Still /\ Outside /\ UNCHANGED <<handlers, cdc_param, bus, ret>>

Connect ==
  /\ Goto("attach", "connect") /\ bus' = TRUE
  /\ Still /\ Outside /\ UNCHANGED <<handlers, cdc_param, irq, ret>>

(* vParserTask and vStepperTask begin with vTaskDelay(10), which outlasts    *)
(* the creation of the queues.                                             *)
DelayOver == cpc # "create"

-----------------------------------------------------------------------------
(* cdc_task: its loop.                                                     *)

Driver(step) == step /\ Outside

Pending == snd.dptr # <<>>
AfterRead == IF Pending THEN "load" ELSE "poll"

vcom_connected == "CONNECTED" \in tx_flags

Connected == Goto("connect", "alloc") /\ vcom_connected /\ Stay /\ Outside

(* try to allocate a receive buffer if there is none, and read into it *)
Allocate ==
  /\ IF rcv = None /\ AllocQueue # <<>>
       THEN rcv' = Head(AllocQueue) /\ AllocQueue' = Tail(AllocQueue)
       ELSE UNCHANGED <<rcv, AllocQueue>>
  /\ Goto("alloc", IF rcv' = None THEN AfterRead ELSE "bread")
  /\ Stay /\ UNCHANGED <<g_rxBuff, ReceiveQueue, readerVars, sendVars>>

Copy ==
  /\ BreadCopy
  /\ g_rxBuff' = [g_rxBuff EXCEPT ![rcv] = Copied]
  /\ UNCHANGED <<AllocQueue, ReceiveQueue, rcv, readerVars, sendVars>>

(* Mutation: the buffer is kept after it was sent on. *)
PostKeeps ==
  /\ Goto("post", AfterRead)
  /\ ReceiveQueue' = Append(ReceiveQueue, rcv)
  /\ Stay /\ UNCHANGED <<g_rxBuff, AllocQueue, rcv, readerVars, sendVars>>

(* xQueueSend(ReceiveQueue, &rcv, 0); the buffer is kept if that fails *)
Post ==
  /\ Goto("post", AfterRead)
  /\ IF Len(ReceiveQueue) < RCV_BUFFERS
       THEN ReceiveQueue' = Append(ReceiveQueue, rcv) /\ rcv' = None
       ELSE UNCHANGED <<ReceiveQueue, rcv>>
  /\ Stay /\ UNCHANGED <<g_rxBuff, AllocQueue, readerVars, sendVars>>

(* Mutation: completion is told after the first packet. *)
WrittenEarly ==
  /\ WriteEP(Head(snd.dptr))
  /\ snd' = [snd EXCEPT !.dptr = Tail(@)]
  /\ SendComplete' = 1
  /\ UNCHANGED <<poolVars, readerVars, spc, data, calls, SendMutex, SendQueue,
                 accepted>>

(* the rest of vcom_write, and what cdc_task does with its result *)
Written ==
  /\ WriteEP(Head(snd.dptr))
  /\ snd' = [snd EXCEPT !.dptr = Tail(@)]
  /\ SendComplete' = IF snd'.dptr = <<>> THEN 1 ELSE SendComplete
  /\ UNCHANGED <<poolVars, readerVars, spc, data, calls, SendMutex, SendQueue,
                 accepted>>

(* take the next item if nothing is left of the last one *)
Poll ==
  /\ Goto("poll", "alloc")
  /\ IF ~Pending /\ SendQueue # <<>>
       THEN snd' = Head(SendQueue) /\ SendQueue' = <<>>
       ELSE UNCHANGED <<snd, SendQueue>>
  /\ Stay /\ UNCHANGED <<poolVars, readerVars, spc, data, calls, SendMutex,
                         SendComplete, accepted>>

cdc_task ==
  \/ Create \/ HwInit \/ InitVcom \/ EnableIRQ \/ Connect
  \/ Connected \/ Allocate \/ Copy \/ Post \/ Written \/ Poll
  \/ Driver(BreadCount(AfterRead)) \/ Driver(BreadRelease)
  \/ Driver(WriteLoad) \/ Driver(WriteRefused) \/ Driver(WriteStore)

-----------------------------------------------------------------------------
(* USB_receive: the loop of the one task that calls it.                    *)

ReceiveItem ==
  /\ DelayOver /\ rpc = "receive" /\ ReceiveQueue # <<>>
  /\ rec' = Head(ReceiveQueue) /\ ReceiveQueue' = Tail(ReceiveQueue)
  /\ rpc' = "copy"
  /\ UNCHANGED <<vcomVars, g_rxBuff, AllocQueue, rcv, got, sendVars>>

(* The caller's buffer is no shorter than RCV_BUFSIZE. *)
CopyToUser ==
  /\ rpc = "copy" /\ rpc' = "free"
  /\ got' = got \o g_rxBuff[rec]
  /\ UNCHANGED <<vcomVars, poolVars, rec, sendVars>>

FreeItem ==
  /\ rpc = "free" /\ rpc' = "receive"
  /\ Len(AllocQueue) < RCV_BUFFERS
  /\ AllocQueue' = Append(AllocQueue, rec)
  /\ rec' = None
  /\ UNCHANGED <<vcomVars, g_rxBuff, ReceiveQueue, rcv, got, sendVars>>

USB_receive == ReceiveItem \/ CopyToUser \/ FreeItem

-----------------------------------------------------------------------------
(* USB_send                                                                *)

SenderGoto(s, from, to) == spc[s] = from /\ spc' = [spc EXCEPT ![s] = to]

SendBegin(s, packets) ==
  /\ SenderGoto(s, "idle", "mutex")
  /\ DelayOver /\ calls[s] < MaxSends
  /\ calls' = [calls EXCEPT ![s] = @ + 1]
  /\ data' = [data EXCEPT ![s] = Message(s, calls'[s], packets)]
  /\ UNCHANGED <<vcomVars, poolVars, readerVars, SendMutex, SendQueue,
                 SendComplete, snd, accepted>>

TakeMutex(s) ==
  /\ SenderGoto(s, "mutex", "queue")
  /\ SendMutex = None /\ SendMutex' = s
  /\ UNCHANGED <<vcomVars, poolVars, readerVars, data, calls, SendQueue,
                 SendComplete, snd, accepted>>

QueueData(s) ==
  /\ SenderGoto(s, "queue", "complete")
  /\ SendQueue = <<>>
  /\ SendQueue' = <<[by |-> s, dptr |-> data[s]]>>
  /\ accepted' = accepted \o data[s]
  /\ UNCHANGED <<vcomVars, poolVars, readerVars, data, calls, SendMutex,
                 SendComplete, snd>>

TakeComplete(s) ==
  /\ SenderGoto(s, "complete", "release")
  /\ SendComplete = 1 /\ SendComplete' = 0
  /\ UNCHANGED <<vcomVars, poolVars, readerVars, data, calls, SendMutex,
                 SendQueue, snd, accepted>>

GiveMutex(s) ==
  /\ SenderGoto(s, "release", "idle")
  /\ SendMutex' = None
  /\ UNCHANGED <<vcomVars, poolVars, readerVars, data, calls, SendQueue,
                 SendComplete, snd, accepted>>

USB_send(s) ==
  TakeMutex(s) \/ QueueData(s) \/ TakeComplete(s) \/ GiveMutex(s)

-----------------------------------------------------------------------------
Interrupts ==
  \/ VCOM_bulk_in_hdlr \/ BulkOut \/ BulkOutNak \/ VCOM_SetLineCode

Host ==
  \/ \E n \in 0..MaxTransfer : HostWrites(n)
  \/ HostRefused \/ HostReads \/ HostSetsLineCoding

Next ==
  \/ Interrupts /\ Outside
  \/ Host /\ Outside
  \/ cdc_task
  \/ USB_receive
  \/ \E s \in Senders : USB_send(s) \/ \E n \in 1..MaxPackets : SendBegin(s, n)

(* Interrupts are served and tasks that can run do; the host opens the port, *)
(* reads what comes and sends what it has.                                 *)
Fairness ==
  /\ WF_vars(VCOM_bulk_in_hdlr /\ Outside) /\ WF_vars(BulkOut /\ Outside)
  /\ WF_vars(BulkOutNak /\ Outside) /\ WF_vars(VCOM_SetLineCode /\ Outside)
  /\ WF_vars((\E n \in 1..MaxTransfer : HostWrites(n)) /\ Outside)
  /\ WF_vars(HostRefused /\ Outside) /\ WF_vars(HostReads /\ Outside)
  /\ WF_vars(HostSetsLineCoding /\ Outside)
  /\ WF_vars(cdc_task) /\ WF_vars(USB_receive)
  /\ \A s \in Senders : WF_vars(QueueData(s) \/ TakeComplete(s) \/ GiveMutex(s))
                        /\ SF_vars(TakeMutex(s))

Spec == Init /\ [][Next]_vars /\ Fairness

-----------------------------------------------------------------------------
(* Properties.                                                             *)

(* USB_receive returns the host's blocks in order, each once.               *)
ReceivedInOrder == \A i \in 1..Len(got) : got[i] = i

(* Packets on their way to the host, in the order they get there.           *)
Stream == hostGot \o inEp \o snd.dptr

(* The host gets the data of the calls of USB_send in order, no packet       *)
(* twice.  A packet is lost, overwritten in the endpoint, only when          *)
(* VCOM_SetLineCode has cleared BUSY under it, and then only one.           *)
SentInOrder ==
  LET place(p) == CHOOSE i \in DOMAIN accepted : accepted[i] = p
  IN  /\ \A i \in DOMAIN Stream :
           \E j \in DOMAIN accepted : Stream[i] = accepted[j]
      /\ \A i, j \in DOMAIN Stream : i < j => place(Stream[i]) < place(Stream[j])
      /\ spc = [s \in Senders |-> "idle"] =>
           Len(accepted) - Len(Stream) <= reopened

Occurrences(b) ==
  Cardinality({i \in DOMAIN AllocQueue : AllocQueue[i] = b})
    + Cardinality({i \in DOMAIN ReceiveQueue : ReceiveQueue[i] = b})
    + (IF rcv = b THEN 1 ELSE 0) + (IF rec = b THEN 1 ELSE 0)

(* Every receive buffer is in one place: never lost, never lent twice.      *)
PoolConserved == cpc # "create" => \A b \in Buffers : Occurrences(b) = 1

(* While cdc_task has data of a sender to write, that sender is still        *)
(* waiting in USB_send with the data, and the semaphore is not up early.     *)
DataStaysValid ==
  Pending => spc[snd.by] = "complete" /\ SendMutex = snd.by /\ SendComplete = 0

(* Before a host can use the device, both interfaces it is told of are the   *)
(* right ones, each bulk endpoint of the data interface has the handler of   *)
(* its direction, and the descriptors agree with each other.               *)
ConfigurationServed ==
  bus => LET table == USB_FsConfigDescriptor IN
         /\ irq /\ cdc_param.SetLineCode
         /\ Endpoints(table, cdc_param.cif) = {USB_CDC_INT_EP}
         /\ Endpoints(table, cdc_param.dif) = {USB_CDC_IN_EP, USB_CDC_OUT_EP}
         /\ handlers[IndexOf(USB_CDC_IN_EP)] = "in"
         /\ handlers[IndexOf(USB_CDC_OUT_EP)] = "out"
         /\ ConfigurationConsistent(table) /\ StringsPresent

(* All the host sends is received, without the pool or the flags getting     *)
(* stuck; the host need not do more than try again.  (If the ROM driver      *)
(* refuses to start nothing is ever received; nor does anything say so.)    *)
AllReceived == <>~ret \/ (<>[](Len(got) = outSent) /\ <>(outSent = MaxBlocks))

(* Every call of USB_send returns, unless the driver did not start.          *)
SendReturns == \A s \in Senders : spc[s] # "idle" ~> spc[s] = "idle" \/ ~ret

=============================================================================

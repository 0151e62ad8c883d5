-------------------------------- MODULE Vcom --------------------------------
(***************************************************************************)
(* The virtual COM port driver (cdc_vcom.c): its control block g_vCOM, the *)
(* endpoint handlers that run at interrupt level, and vcom_bread and       *)
(* vcom_write, which cdc_task calls.  Both sides test and change rx_flags,  *)
(* tx_flags and rx_count; only part of that is in critical sections.        *)
(*                                                                         *)
(* A block stands for up to RCV_BUFSIZE bytes, what one receive buffer of   *)
(* cdc_task and one bulk packet hold.  Blocks of the host are numbered.     *)
(***************************************************************************)
EXTENDS Desc

CONSTANTS
  MaxBlocks,      \* bound on the blocks the host sends
  MaxTransfer,    \* blocks of the longest transfer of the host
  MaxReopens      \* bound on the host's setting the line coding once more

ASSUME VcomAssumption ==
  /\ MaxBlocks \in Nat /\ MaxTransfer \in Nat \ {0} /\ MaxReopens \in Nat

VARIABLES
  cpc,          \* where cdc_task stands, inside the driver or out of it
  rx_buff,      \* the blocks in the buffer; 0 where none was yet
  rx_count, rx_rd_count, rx_flags, tx_flags,
  cnt,          \* local to vcom_bread: blocks copied
  loaded,       \* local to vcom_write: tx_flags as it will store it
  armed,        \* the OUT endpoint has a buffer
  received,     \* blocks of the last transfer into that buffer
  inEp,         \* packets in the IN endpoint
  events,       \* events raised by the endpoints, not yet handled
  outSent,      \* blocks the host has sent
  hostGot,      \* packets the host has got
  reopened,     \* history: settings of the line coding after the first
  handlers,     \* the handler registered for each endpoint index
  cdc_param,    \* what cdc->init was given
  irq, bus,     \* USB0_IRQn is enabled; the device is connected
  ret           \* FALSE when the ROM driver has refused to start

rxVars   == <<rx_buff, received, rx_count, rx_rd_count, rx_flags, armed>>
txVars   == <<tx_flags, inEp>>
hostVars == <<outSent, hostGot, reopened>>
usbVars  == <<handlers, cdc_param, irq, bus, ret>>
vcomVars == <<cpc, rxVars, txVars, cnt, loaded, events, hostVars, usbVars>>

Events == {"OUT", "OUT_NAK", "IN", "LINE"}
RxFlags == {"FULL", "QUEUED"}
TxFlags == {"CONNECTED", "BUSY"}
NoHandler == "none"
EndpointIndices == 0..2 * USB_MAX_EP_NUM - 1

VcomTypeOK ==
  /\ rx_buff \in [1..MaxTransfer -> 0..MaxBlocks]
  /\ received \in 0..MaxTransfer
  /\ rx_count \in 0..MaxTransfer
  /\ rx_rd_count \in 0..MaxTransfer
  /\ rx_flags \subseteq RxFlags /\ tx_flags \subseteq TxFlags
  /\ cnt \in 0..1 /\ loaded \subseteq TxFlags
  /\ armed \in BOOLEAN
  /\ events \subseteq Events
  /\ outSent \in 0..MaxBlocks
  /\ reopened \in 0..MaxReopens
  /\ handlers \in [EndpointIndices -> {NoHandler, "in", "out"}]
  /\ irq \in BOOLEAN /\ bus \in BOOLEAN /\ ret \in BOOLEAN

VcomInit ==
  /\ rx_buff = [i \in 1..MaxTransfer |-> 0] /\ received = 0
  /\ rx_count = 0 /\ rx_rd_count = 0
  /\ rx_flags = {} /\ tx_flags = {}
  /\ cnt = 0 /\ loaded = {}
  /\ armed = FALSE /\ inEp = <<>> /\ events = {}
  /\ outSent = 0 /\ hostGot = <<>> /\ reopened = 0
  /\ handlers = [i \in EndpointIndices |-> NoHandler]
  /\ cdc_param = [cif |-> NoInterface, dif |-> NoInterface, SetLineCode |-> FALSE]
  /\ irq = FALSE /\ bus = FALSE /\ ret = TRUE

-----------------------------------------------------------------------------
(* vcom_init.  The ROM driver may refuse each of its three calls.  What was  *)
(* set by then stays, and is never used, since the interrupt stays off.     *)

(* Mutation: the direction is left out. *)
InIndexNoDirection == 2 * (USB_CDC_IN_EP % 16)

InIndex == 2 * (USB_CDC_IN_EP % 16) + 1
OutIndex == 2 * (USB_CDC_OUT_EP % 16)

vcom_init(done, failed) ==
  \/ /\ cpc' = failed /\ ret' = FALSE   \* cdc->init is refused
     /\ UNCHANGED <<cdc_param, handlers>>
  \/ /\ cdc_param' = [
          cif |-> find_IntfDesc(USB_FsConfigDescriptor, Class.communication),
          dif |-> find_IntfDesc(USB_FsConfigDescriptor, Class.data),
          SetLineCode |-> TRUE]
     /\ \/ /\ cpc' = failed /\ ret' = FALSE   \* the IN handler is refused
           /\ UNCHANGED handlers
        \/ /\ cpc' = failed /\ ret' = FALSE   \* the OUT handler is refused
           /\ handlers' = [handlers EXCEPT ![InIndex] = "in"]
        \/ /\ cpc' = done
           /\ handlers' = [handlers EXCEPT ![InIndex] = "in", ![OutIndex] = "out"]
           /\ UNCHANGED ret

-----------------------------------------------------------------------------
(* The host and the endpoints.                                             *)

(* A transfer goes into the buffer the endpoint was given.  An empty one    *)
(* may follow another one, to end it.                                      *)
HostWrites(n) ==
  /\ armed /\ outSent + n <= MaxBlocks
  /\ n = 0 => received # 0
  /\ rx_buff' = [i \in 1..MaxTransfer |->
                   IF i <= n THEN outSent + i ELSE rx_buff[i]]
  /\ received' = n
  /\ outSent' = outSent + n
  /\ armed' = FALSE
  /\ events' = events \cup {"OUT"}
  /\ UNCHANGED <<cpc, rx_count, rx_rd_count, rx_flags, txVars, cnt, loaded,
                 hostGot, reopened, usbVars>>

(* without a buffer the host is refused and tries again *)
HostRefused ==
  /\ bus /\ ~armed /\ outSent < MaxBlocks
  /\ events' = events \cup {"OUT_NAK"}
  /\ UNCHANGED <<cpc, rxVars, txVars, cnt, loaded, hostVars, usbVars>>

HostReads ==
  /\ inEp # <<>>
  /\ hostGot' = hostGot \o inEp
  /\ inEp' = <<>>
  /\ events' = events \cup {"IN"}
  /\ UNCHANGED <<cpc, rxVars, tx_flags, cnt, loaded, outSent, reopened, usbVars>>

HostSetsLineCoding ==
  /\ bus /\ ("CONNECTED" \in tx_flags => reopened < MaxReopens)
  /\ events' = events \cup {"LINE"}
  /\ UNCHANGED <<cpc, rxVars, txVars, cnt, loaded, hostVars, usbVars>>

-----------------------------------------------------------------------------
(* Interrupt level.  Each event is handled in one piece; xCDCEventSemaphore, *)
(* which USB_IRQHandler gives, is taken by nobody.                         *)

(* the index that the ROM driver looks the handler of an address up with    *)
IndexOf(address) == 2 * (address % 16) + (IF address >= 128 THEN 1 ELSE 0)

Raised(e) == irq /\ e \in events /\ events' = events \ {e}
Endpoint(address, e, handler) == handlers[IndexOf(address)] = handler /\ Raised(e)

(* Mutation: the end of a transfer is not noticed. *)
BulkInIgnored ==
  /\ Endpoint(USB_CDC_IN_EP, "IN", "in")
  /\ UNCHANGED <<cpc, rxVars, txVars, cnt, loaded, hostVars, usbVars>>

VCOM_bulk_in_hdlr ==
  /\ Endpoint(USB_CDC_IN_EP, "IN", "in")
  /\ tx_flags' = tx_flags \ {"BUSY"}
  /\ UNCHANGED <<cpc, rxVars, inEp, cnt, loaded, hostVars, usbVars>>

(* USB_EVT_OUT: ReadEP says how much has come.  Nobody calls vcom_read_req,  *)
(* so that DB_QUEUED, the other reason for a buffer, is never set.         *)
BulkOut ==
  /\ Endpoint(USB_CDC_OUT_EP, "OUT", "out")
  /\ rx_count' = received
  /\ rx_flags' = IF "QUEUED" \notin rx_flags THEN rx_flags
                 ELSE (rx_flags \ {"QUEUED"})
                        \cup IF rx_count' # 0 THEN {"FULL"} ELSE {}
  /\ UNCHANGED <<cpc, rx_buff, received, rx_rd_count, armed, txVars, cnt, loaded,
                 hostVars, usbVars>>

(* Mutation: a full buffer is given to the endpoint. *)
BulkOutNakFull ==
  /\ Endpoint(USB_CDC_OUT_EP, "OUT_NAK", "out")
  /\ IF "QUEUED" \notin rx_flags
       THEN armed' = TRUE /\ rx_flags' = rx_flags \cup {"QUEUED"}
       ELSE UNCHANGED <<armed, rx_flags>>
  /\ UNCHANGED <<cpc, rx_buff, received, rx_count, rx_rd_count, txVars, cnt,
                 loaded, hostVars, usbVars>>

(* USB_EVT_OUT_NAK: give the endpoint the buffer, if that is free *)
BulkOutNak ==
  /\ Endpoint(USB_CDC_OUT_EP, "OUT_NAK", "out")
  /\ IF rx_flags \cap {"FULL", "QUEUED"} = {}
       THEN armed' = TRUE /\ rx_flags' = rx_flags \cup {"QUEUED"}
       ELSE UNCHANGED <<armed, rx_flags>>
  /\ UNCHANGED <<cpc, rx_buff, received, rx_count, rx_rd_count, txVars, cnt,
                 loaded, hostVars, usbVars>>

VCOM_SetLineCode ==
  /\ cdc_param.SetLineCode /\ Raised("LINE")
  /\ tx_flags' = {"CONNECTED"}
  /\ reopened' = IF "CONNECTED" \in tx_flags THEN reopened + 1 ELSE reopened
  /\ UNCHANGED <<cpc, rxVars, inEp, cnt, loaded, outSent, hostGot, usbVars>>

-----------------------------------------------------------------------------
(* vcom_bread(pBuf, RCV_BUFSIZE) and vcom_write, one action per access to   *)
(* what the handlers share.  A critical section is one action.             *)

Goto(from, to) == cpc = from /\ cpc' = to

(* if (rx_count): the smaller of rx_count and one buffer *)
BreadCount(after) ==
  /\ IF rx_count # 0 THEN cnt' = 1 /\ Goto("bread", "copy")
                     ELSE cnt' = 0 /\ Goto("bread", after)
  /\ UNCHANGED <<rxVars, txVars, loaded, events, hostVars, usbVars>>

(* always from the start of rx_buff *)
Copied == SubSeq(rx_buff, 1, cnt)

BreadCopy ==
  /\ Goto("copy", "release")
  /\ rx_rd_count' = rx_rd_count + cnt
  /\ UNCHANGED <<rx_buff, received, rx_count, rx_flags, armed, txVars, cnt,
                 loaded, events, hostVars, usbVars>>

(* Mutations: FULL stays; rx_rd_count stays. *)
BreadKeepsFull ==
  /\ Goto("release", "post")
  /\ IF rx_rd_count >= rx_count
       THEN rx_rd_count' = 0 /\ rx_count' = 0
       ELSE UNCHANGED <<rx_rd_count, rx_count>>
  /\ UNCHANGED <<rx_flags, rx_buff, received, armed, txVars, cnt, loaded, events,
                 hostVars, usbVars>>

BreadKeepsCount ==
  /\ Goto("release", "post")
  /\ IF rx_rd_count >= rx_count
       THEN rx_flags' = rx_flags \ {"FULL"} /\ rx_count' = 0
       ELSE UNCHANGED <<rx_flags, rx_count>>
  /\ UNCHANGED <<rx_rd_count, rx_buff, received, armed, txVars, cnt, loaded,
                 events, hostVars, usbVars>>

BreadRelease ==
  /\ Goto("release", "post")
  /\ IF rx_rd_count >= rx_count
       THEN /\ rx_flags' = rx_flags \ {"FULL"}
            /\ rx_rd_count' = 0 /\ rx_count' = 0
       ELSE UNCHANGED <<rx_flags, rx_rd_count, rx_count>>
  /\ UNCHANGED <<rx_buff, received, armed, txVars, cnt, loaded, events, hostVars,
                 usbVars>>

(* Mutation: BUSY is not tested. *)
MayWriteBusy == "CONNECTED" \in tx_flags

MayWrite == "CONNECTED" \in tx_flags /\ "BUSY" \notin tx_flags

(* tx_flags |= BUSY, outside the critical section: load, then store *)
WriteLoad ==
  /\ MayWrite /\ Goto("load", "store")
  /\ loaded' = tx_flags \cup {"BUSY"}
  /\ UNCHANGED <<rxVars, txVars, cnt, events, hostVars, usbVars>>

WriteRefused ==
  /\ ~MayWrite /\ Goto("load", "poll")
  /\ UNCHANGED <<rxVars, txVars, cnt, loaded, events, hostVars, usbVars>>

WriteStore ==
  /\ Goto("store", "writeEP")
  /\ tx_flags' = loaded /\ loaded' = {}
  /\ UNCHANGED <<rxVars, inEp, cnt, events, hostVars, usbVars>>

(* USBD_API->hw->WriteEP takes one packet *)
WriteEP(packet) ==
  /\ Goto("writeEP", "poll")
  /\ inEp' = <<packet>>
  /\ UNCHANGED <<rxVars, tx_flags, cnt, loaded, events, hostVars, usbVars>>

=============================================================================

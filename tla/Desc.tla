-------------------------------- MODULE Desc --------------------------------
(***************************************************************************)
(* The USB descriptors (cdc_desc.c), byte by byte where a length, a type,   *)
(* a number or an address is looked at, and the walk over them             *)
(* (find_IntfDesc).  A table is indexed from 0, as the code does.          *)
(***************************************************************************)
EXTENDS Integers, Sequences, FiniteSets

(* the endpoint addresses of app_usbd_cfg.h: 128 is the direction IN *)
USB_CDC_IN_EP == 129
USB_CDC_OUT_EP == 1
USB_CDC_INT_EP == 130
USB_MAX_EP_NUM == 5

(* sizes, types and classes of the USB standard *)
Size == [device |-> 18, config |-> 9, association |-> 8, interface |-> 9,
         endpoint |-> 7]
Type == [device |-> 1, config |-> 2, string |-> 3, interface |-> 4,
         endpoint |-> 5, association |-> 11, CS_INTERFACE |-> 36]
Class == [communication |-> 2, data |-> 10]

WBVAL(n) == <<n % 256, n \div 256>>

EndpointDesc(address, attributes, size, interval) ==
  <<Size.endpoint, Type.endpoint, address, attributes>>
    \o WBVAL(size) \o <<interval>>

USB_DeviceDescriptor ==
  <<Size.device, Type.device>> \o WBVAL(512) \o <<239, 2, 1, 64>>
    \o WBVAL(8137) \o WBVAL(131) \o WBVAL(256)
    \o <<1, 2, 3, 1>>   \* three strings, bNumConfigurations

USB_FsConfigDescriptor ==
  <<Size.config, Type.config>>
    \o WBVAL(Size.config + Size.association + Size.interface + 19
               + Size.endpoint + Size.interface + 2 * Size.endpoint)
    \o <<2, 1, 0, 192, 250>>
    \o <<Size.association, Type.association, 0, 2, Class.communication, 2, 0, 4>>
    \o <<Size.interface, Type.interface, 0, 0, 1, Class.communication, 2, 0, 4>>
    \o <<5, Type.CS_INTERFACE, 0>> \o WBVAL(272)
    \o <<5, Type.CS_INTERFACE, 1, 1, 1>>
    \o <<4, Type.CS_INTERFACE, 2, 2>>
    \o <<5, Type.CS_INTERFACE, 6, 0, 1>>
    \o EndpointDesc(USB_CDC_INT_EP, 3, 16, 2)
    \o <<Size.interface, Type.interface, 1, 0, 2, Class.data, 0, 0, 4>>
    \o EndpointDesc(USB_CDC_OUT_EP, 2, 64, 0)
    \o EndpointDesc(USB_CDC_IN_EP, 2, 64, 0)
    \o <<0>>

(* a string of n characters under the length its descriptor states *)
StringDesc(bLength, n) == <<bLength, Type.string>> \o [i \in 1..2 * n |-> 0]

(* LANGID, manufacturer, product, serial number, interface *)
USB_StringDescriptor ==
  StringDesc(4, 1) \o StringDesc(3 * 2 + 2, 3) \o StringDesc(9 * 2 + 2, 9)
    \o StringDesc(6 * 2 + 2, 6) \o StringDesc(4 * 2 + 2, 4)

-----------------------------------------------------------------------------
(* Byte number i of a table.  What lies behind its end is not the program's. *)
Byte(table, i) == table[i + 1]

IsInterface(table, p, class) ==
  Byte(table, p + 1) = Type.interface /\ Byte(table, p + 5) = class

NoInterface == Len(USB_FsConfigDescriptor)

(* from one descriptor to the next until the class is found or a length is 0 *)
find_IntfDesc(table, class) ==
  LET from[p \in Nat] ==
        IF Byte(table, p) = 0 THEN NoInterface
        ELSE IF IsInterface(table, p, class) THEN p
        ELSE from[p + Byte(table, p)]
  IN  from[0]

-----------------------------------------------------------------------------
(* What a host makes of a table: the places where a descriptor begins.      *)
Starts(table, end) ==
  LET from[p \in Nat] ==
        IF p >= end THEN {} ELSE {p} \cup from[p + Byte(table, p)]
  IN  from[0]

wTotalLength(table) == Byte(table, 2) + 256 * Byte(table, 3)

(* the endpoint addresses of the interface at p: up to the next interface *)
Endpoints(table, p) ==
  LET starts == Starts(table, wTotalLength(table))
      ofType(t) == {q \in starts : q > p /\ Byte(table, q + 1) = t}
  IN  {Byte(table, q + 2) : q \in {r \in ofType(Type.endpoint) :
                                     ~ \E i \in ofType(Type.interface) : i < r}}

(* The configuration announces its own length, interfaces and endpoints.    *)
ConfigurationConsistent(table) ==
  LET starts == Starts(table, wTotalLength(table))
      interfaces == {p \in starts : Byte(table, p + 1) = Type.interface}
  IN  /\ \A p \in starts : p + Byte(table, p) <= wTotalLength(table)
      /\ wTotalLength(table) = Len(table) - 1 /\ table[Len(table)] = 0
      /\ Byte(table, 4) = Cardinality(interfaces)
      /\ \A p \in interfaces :
           Byte(table, p + 4) = Cardinality(Endpoints(table, p))

(* Every string that a descriptor names by its number is in the table.      *)
StringsPresent ==
  LET strings == Starts(USB_StringDescriptor, Len(USB_StringDescriptor))
      config == USB_FsConfigDescriptor
      named == {Byte(USB_DeviceDescriptor, i) : i \in 14..16}
        \cup {Byte(config, p + 8) : p \in
               {q \in Starts(config, wTotalLength(config)) :
                  Byte(config, q + 1) = Type.interface}}
  IN  /\ \A p \in strings : Byte(USB_StringDescriptor, p + 1) = Type.string
      /\ \A n \in named : n < Cardinality(strings)

=============================================================================

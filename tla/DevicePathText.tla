--------------------------- MODULE DevicePathText ---------------------------
(***************************************************************************)
(* What DevicePathToStr (lib/dpath.c) writes for one node: the structures  *)
(* of inc/efidevp.h as the compiler lays them out (nothing packs them), a  *)
(* node as UnpackDevicePath leaves it, and the _DevPath functions on it.   *)
(*                                                                         *)
(* A node is its own bytes, at some address of the pool, padded to         *)
(* MIN_ALIGNMENT_SIZE and followed by the bytes `after'.  A text is a sequence: the word the node *)
(* is called, then the values shown, each as the bytes converted, without  *)
(* the punctuation.                                                        *)
(***************************************************************************)
LOCAL INSTANCE Integers
LOCAL INSTANCE Sequences
LOCAL INSTANCE SequencesExt

-----------------------------------------------------------------------------
(* The structures: fields as <<name, alignment, size>>. *)

U8(f) == <<f, 1, 1>>
U16(f) == <<f, 2, 2>>
U32(f) == <<f, 4, 4>>
U64(f) == <<f, 8, 8>>
Array(f, n) == <<f, 1, n>>
EFI_GUID(f) == <<f, 4, 16>>
EFI_IPv4_ADDRESS(f) == Array(f, 4)
EFI_IPv6_ADDRESS(f) == Array(f, 16)
EFI_MAC_ADDRESS(f) == Array(f, 32)

Header == <<U8("Type"), U8("SubType"), Array("Length", 2)>>

PCI_DEVICE_PATH == Header \o <<U8("Function"), U8("Device")>>
PCCARD_DEVICE_PATH == Header \o <<U8("FunctionNumber")>>
MEMMAP_DEVICE_PATH == Header \o <<U32("MemoryType"), U64("StartingAddress"), U64("EndingAddress")>>
VENDOR_DEVICE_PATH == Header \o <<EFI_GUID("Guid")>>
UNKNOWN_DEVICE_VENDOR_DEVICE_PATH == VENDOR_DEVICE_PATH \o <<U8("LegacyDriveLetter")>>
CONTROLLER_DEVICE_PATH == Header \o <<U32("Controller")>>
ACPI_HID_DEVICE_PATH == Header \o <<U32("HID"), U32("UID")>>
ATAPI_DEVICE_PATH == Header \o <<U8("PrimarySecondary"), U8("SlaveMaster"), U16("Lun")>>
SCSI_DEVICE_PATH == Header \o <<U16("Pun"), U16("Lun")>>
FIBRECHANNEL_DEVICE_PATH == Header \o <<U32("Reserved"), U64("WWN"), U64("Lun")>>
F1394_DEVICE_PATH == Header \o <<U32("Reserved"), U64("Guid")>>
USB_DEVICE_PATH == Header \o <<U8("Port"), U8("Endpoint")>>
SATA_DEVICE_PATH == Header \o <<U16("HBAPortNumber"), U16("PortMultiplierPortNumber"), U16("Lun")>>
I2O_DEVICE_PATH == Header \o <<U32("Tid")>>
MAC_ADDR_DEVICE_PATH == Header \o <<EFI_MAC_ADDRESS("MacAddress"), U8("IfType")>>
IPv4_DEVICE_PATH ==
  Header \o <<EFI_IPv4_ADDRESS("LocalIpAddress"), EFI_IPv4_ADDRESS("RemoteIpAddress"),
              U16("LocalPort"), U16("RemotePort"), U16("Protocol"), U8("StaticIpAddress"),
              EFI_IPv4_ADDRESS("GatewayIpAddress"), EFI_IPv4_ADDRESS("SubnetMask")>>
IPv6_DEVICE_PATH ==
  Header \o <<EFI_IPv6_ADDRESS("LocalIpAddress"), EFI_IPv6_ADDRESS("RemoteIpAddress"),
              U16("LocalPort"), U16("RemotePort"), U16("Protocol"), U8("IPAddressOrigin"),
              U8("PrefixLength"), EFI_IPv6_ADDRESS("GatewayIpAddress")>>
INFINIBAND_DEVICE_PATH ==
  Header \o <<U32("ResourceFlags"), Array("PortGid", 16), U64("ServiceId"), U64("TargetPortId"), U64("DeviceId")>>
UART_DEVICE_PATH ==
  Header \o <<U32("Reserved"), U64("BaudRate"), U8("DataBits"), U8("Parity"), U8("StopBits")>>
HARDDRIVE_DEVICE_PATH ==
  Header \o <<U32("PartitionNumber"), U64("PartitionStart"), U64("PartitionSize"),
              Array("Signature", 16), U8("MBRType"), U8("SignatureType")>>
CDROM_DEVICE_PATH == Header \o <<U32("BootEntry"), U64("PartitionStart"), U64("PartitionSize")>>
MEDIA_PROTOCOL_DEVICE_PATH == Header \o <<EFI_GUID("Protocol")>>
BBS_BBS_DEVICE_PATH == Header \o <<U16("DeviceType"), U16("StatusFlag"), U8("String")>>

RoundUp(n, a) == ((n + a - 1) \div a) * a

\* The offsets the compiler gives the fields, in order, and the size it gives
\* the structure.
Laid(struct) ==
  FoldLeft(LAMBDA acc, f:
             LET at == RoundUp(acc.size, f[2])
             IN  [offsets |-> Append(acc.offsets, at), size |-> at + f[3],
                  align |-> IF f[2] > acc.align THEN f[2] ELSE acc.align],
           [offsets |-> <<>>, size |-> 0, align |-> 1], struct)
SizeOf(struct) == RoundUp(Laid(struct).size, Laid(struct).align)

-----------------------------------------------------------------------------
(* Nodes. *)

\* The node of an unpacked path: `own' bytes of its own, the length rounded
\* up, the type marked with EFI_DP_TYPE_UNPACKED.  minAlign is
\* MIN_ALIGNMENT_SIZE, which is also the size of a variable argument.
Unpacked(bytes, minAlign, address, after) ==
  LET len == RoundUp(Len(bytes), minAlign)
  IN  [address |-> address, own |-> Len(bytes), len |-> len, minAlign |-> minAlign, type |-> bytes[1], sub |-> bytes[2],
       memory |-> bytes \o [k \in 1..(len - Len(bytes)) |-> 0] \o after]

At(n, offset, count) == SubSeq(n.memory, offset + 1, offset + count)
Field(n, struct, name) ==
  LET k == SelectInSeq(struct, LAMBDA f: f[1] = name)
  IN  At(n, Laid(struct).offsets[k], struct[k][3])
NotNull(bytes) == \E k \in DOMAIN bytes : bytes[k] # 0

\* A string in memory, up to its terminator or the end of what is known.
StringFrom(n, offset, width) ==
  LET chars == [k \in 1..((Len(n.memory) - offset) \div width) |-> At(n, offset + (k - 1) * width, width)]
      end == SelectInSeq(chars, LAMBDA c: ~NotNull(c))
  IN  IF end = 0 THEN chars ELSE SubSeq(chars, 1, end - 1)

HARDWARE_DEVICE_PATH == 1
ACPI_DEVICE_PATH == 2
MESSAGING_DEVICE_PATH == 3
MEDIA_DEVICE_PATH == 4
BBS_DEVICE_PATH == 5
END_DEVICE_PATH_TYPE == 127

-----------------------------------------------------------------------------
(* The texts. *)

_DevPathPci(n) ==
  LET S == PCI_DEVICE_PATH IN <<"Pci", Field(n, S, "Device"), Field(n, S, "Function")>>
_DevPathPccard(n) == <<"Pccard", Field(n, PCCARD_DEVICE_PATH, "FunctionNumber")>>

\* %x takes 32 bits of a 64-bit argument: its low half where arguments are 64
\* bits wide, and the two halves of StartingAddress one after the other where
\* they are 32.
_DevPathMemMap(n) ==
  LET S == MEMMAP_DEVICE_PATH
      start == Field(n, S, "StartingAddress")
  IN  <<"MemMap", Field(n, S, "MemoryType"), SubSeq(start, 1, 4),
        IF n.minAlign = 8 THEN SubSeq(Field(n, S, "EndingAddress"), 1, 4) ELSE SubSeq(start, 5, 8)>>
_DevPathController(n) == <<"Ctrl", Field(n, CONTROLLER_DEVICE_PATH, "Controller")>>

\* The vendor's type, its GUID, and the drive letter of an unknown device.
UnknownDevice == <<197, 250, 49, 207, 78, 194, 210, 17, 133, 243, 0, 160, 201, 62, 201, 59>>
_DevPathVendor(n) ==
  LET guid == Field(n, VENDOR_DEVICE_PATH, "Guid")
      type == CASE n.type = HARDWARE_DEVICE_PATH -> "VenHw" [] n.type = MESSAGING_DEVICE_PATH -> "VenMsg"
                [] n.type = MEDIA_DEVICE_PATH -> "VenMedia" [] OTHER -> "Ven?"
  IN  <<type, guid>> \o IF guid = UnknownDevice
                          THEN <<Field(n, UNKNOWN_DEVICE_VENDOR_DEVICE_PATH, "LegacyDriveLetter")>> ELSE <<>>

\* PNP names are compared with the low half of the HID, their number is the
\* high half.
PnpName(num) ==
  CASE num = <<1, 3>> -> "Keyboard" [] num = <<1, 4>> -> "ParallelPort" [] num = <<1, 5>> -> "Serial"
    [] num = <<4, 6>> -> "Floppy" [] num = <<3, 10>> -> "PciRoot" [] num = <<8, 10>> -> "PcieRoot"
    [] OTHER -> "Acpi(PNP"
_DevPathAcpi(n) ==
  LET hid == Field(n, ACPI_HID_DEVICE_PATH, "HID")
      uid == Field(n, ACPI_HID_DEVICE_PATH, "UID")
      ifUid == IF NotNull(uid) THEN <<uid>> ELSE <<>>
      num == SubSeq(hid, 3, 4)
  IN  IF SubSeq(hid, 1, 2) # <<208, 65>> THEN <<"Acpi(0x", hid>> \o ifUid
      ELSE IF PnpName(num) = "Acpi(PNP" THEN <<"Acpi(PNP", num>> \o ifUid
      ELSE <<PnpName(num), uid>>

_DevPathAtapi(n) ==
  <<"Ata", IF NotNull(Field(n, ATAPI_DEVICE_PATH, "PrimarySecondary")) THEN "Secondary" ELSE "Primary",
    IF NotNull(Field(n, ATAPI_DEVICE_PATH, "SlaveMaster")) THEN "Slave" ELSE "Master">>
_DevPathScsi(n) == <<"Scsi", Field(n, SCSI_DEVICE_PATH, "Pun"), Field(n, SCSI_DEVICE_PATH, "Lun")>>

\* It is the type that is compared with MSG_FIBRECHANNEL_DP; both are 3.
_DevPathFibre(n) ==
  <<IF n.type = 3 THEN "Fibre" ELSE "FibreEx",
    Field(n, FIBRECHANNEL_DEVICE_PATH, "WWN"), Field(n, FIBRECHANNEL_DEVICE_PATH, "Lun")>>
_DevPath1394(n) == <<"I1394", Field(n, F1394_DEVICE_PATH, "Guid")>>
_DevPathUsb(n) == <<"Usb", Field(n, USB_DEVICE_PATH, "Port"), Field(n, USB_DEVICE_PATH, "Endpoint")>>
_DevPathI2O(n) == <<"I2O", Field(n, I2O_DEVICE_PATH, "Tid")>>

\* Six bytes of Ethernet; otherwise as many as the length, now rounded up,
\* leaves beside the header and IfType.
_DevPathMacAddr(n) ==
  LET if == Field(n, MAC_ADDR_DEVICE_PATH, "IfType")
      size == IF if \in {<<0>>, <<1>>} THEN 6 ELSE n.len - 4 - 1
  IN  <<"Mac", At(n, 4, size)>> \o IF if # <<0>> THEN <<if>> ELSE <<>>

CatPrintNetworkProtocol(p) ==
  CASE p = <<6, 0>> -> <<"TCP">> [] p = <<17, 0>> -> <<"UDP">> [] OTHER -> p

\* Mutant: version 1 nodes are taken for version 2.
IPv4AnyVersion(n) ==
  LET S == IPv4_DEVICE_PATH
      gateway == Field(n, S, "GatewayIpAddress")
      mask == Field(n, S, "SubnetMask")
  IN  <<"IPv4", Field(n, S, "RemoteIpAddress"), CatPrintNetworkProtocol(Field(n, S, "Protocol")),
        IF NotNull(Field(n, S, "StaticIpAddress")) THEN "Static" ELSE "DHCP",
        Field(n, S, "LocalIpAddress"), gateway, mask>>

\* Version 2 nodes are told by their length, which must be the size of the
\* structure after it has been rounded up.
_DevPathIPv4(n) ==
  LET S == IPv4_DEVICE_PATH
      version2 == n.len = SizeOf(S)
      gateway == Field(n, S, "GatewayIpAddress")
      mask == Field(n, S, "SubnetMask")
      routed == version2 /\ (NotNull(gateway) \/ NotNull(mask))
  IN  <<"IPv4", Field(n, S, "RemoteIpAddress"), CatPrintNetworkProtocol(Field(n, S, "Protocol")),
        IF NotNull(Field(n, S, "StaticIpAddress")) THEN "Static" ELSE "DHCP">>
      \o (IF NotNull(Field(n, S, "LocalIpAddress")) \/ routed THEN <<Field(n, S, "LocalIpAddress")>> ELSE <<>>)
      \o (IF routed THEN <<gateway>> ELSE <<>>)
      \o (IF routed /\ NotNull(mask) THEN <<mask>> ELSE <<>>)

\* The address of PrefixLength is shown, not the prefix length: %d takes its
\* low 32 bits.
PrefixLengthAt == Laid(IPv6_DEVICE_PATH).offsets[SelectInSeq(IPv6_DEVICE_PATH, LAMBDA f: f[1] = "PrefixLength")]
_DevPathIPv6(n) ==
  LET S == IPv6_DEVICE_PATH
      origin == Field(n, S, "IPAddressOrigin")
  IN  <<"IPv6", Field(n, S, "RemoteIpAddress"), CatPrintNetworkProtocol(Field(n, S, "Protocol")),
        IF origin = <<0>> THEN "Static" ELSE IF origin = <<1>> THEN "Stateless" ELSE "Stateful",
        Field(n, S, "LocalIpAddress")>>
      \o IF n.len = SizeOf(S) THEN <<Field(n, S, "GatewayIpAddress"), n.address + PrefixLengthAt>> ELSE <<>>

_DevPathUri(n) == <<"Uri", StringFrom(n, 4, 1)>>
_DevPathInfiniBand(n) ==
  LET S == INFINIBAND_DEVICE_PATH
  IN  <<"Infiniband", Field(n, S, "ResourceFlags"), Field(n, S, "PortGid"), Field(n, S, "ServiceId"),
        Field(n, S, "TargetPortId"), Field(n, S, "DeviceId")>>

\* Zero is the default of each value.
OneOf(b, words) == IF b[1] \in DOMAIN words THEN words[b[1]] ELSE "x"
_DevPathUart(n) ==
  LET S == UART_DEVICE_PATH
      orDefault(f) == IF NotNull(Field(n, S, f)) THEN Field(n, S, f) ELSE <<>>
      parity == <<"N", "E", "O", "M", "S">>
      stop == <<"1", "1.5", "2">>
      shown(f, words) == IF NotNull(Field(n, S, f)) THEN OneOf(Field(n, S, f), words) ELSE "D"
  IN  <<"Uart", orDefault("BaudRate"), orDefault("DataBits"), shown("Parity", parity), shown("StopBits", stop)>>
_DevPathSata(n) ==
  LET S == SATA_DEVICE_PATH
  IN  <<"Sata", Field(n, S, "HBAPortNumber"), Field(n, S, "PortMultiplierPortNumber"), Field(n, S, "Lun")>>

_DevPathHardDrive(n) ==
  LET S == HARDDRIVE_DEVICE_PATH
      type == Field(n, S, "SignatureType")
  IN  <<"HD", Field(n, S, "PartitionNumber"),
        CASE type = <<1>> -> <<"MBR", SubSeq(Field(n, S, "Signature"), 1, 4)>>
          [] type = <<2>> -> <<"GPT", Field(n, S, "Signature")>>
          [] OTHER -> <<"?", type>>>>
_DevPathCDROM(n) == <<"CDROM", Field(n, CDROM_DEVICE_PATH, "BootEntry")>>
_DevPathFilePath(n) == StringFrom(n, 4, 2)
_DevPathMediaProtocol(n) == <<Field(n, MEDIA_PROTOCOL_DEVICE_PATH, "Protocol")>>
_DevPathBssBss(n) ==
  LET type == Field(n, BBS_BBS_DEVICE_PATH, "DeviceType")
      names == <<"Floppy", "Harddrive", "CDROM", "PCMCIA", "Usb", "Net">>
  IN  <<"Bss", IF type[2] = 0 /\ type[1] \in DOMAIN names THEN names[type[1]] ELSE "?", StringFrom(n, 8, 1)>>
_DevPathEndInstance(n) == <<",">>

\* The type is shown with its EFI_DP_TYPE_UNPACKED bit, so no kind of node is
\* recognised; as many bytes are shown as the node has with its header, from
\* behind the header on.
_DevPathNodeUnknown(n) == <<"Path", 128 + n.type, n.sub, At(n, 4, n.len)>>

-----------------------------------------------------------------------------
\* DevPathTable with DevicePathToStr's the search in it.
DumpNode(n) ==
  LET t == n.type
      s == n.sub
  IN CASE t = HARDWARE_DEVICE_PATH /\ s = 1 -> _DevPathPci(n)
       [] t = HARDWARE_DEVICE_PATH /\ s = 2 -> _DevPathPccard(n)
       [] t = HARDWARE_DEVICE_PATH /\ s = 3 -> _DevPathMemMap(n)
       [] t = HARDWARE_DEVICE_PATH /\ s = 4 -> _DevPathVendor(n)
       [] t = HARDWARE_DEVICE_PATH /\ s = 5 -> _DevPathController(n)
       [] t = ACPI_DEVICE_PATH /\ s = 1 -> _DevPathAcpi(n)
       [] t = MESSAGING_DEVICE_PATH /\ s = 1 -> _DevPathAtapi(n)
       [] t = MESSAGING_DEVICE_PATH /\ s = 2 -> _DevPathScsi(n)
       [] t = MESSAGING_DEVICE_PATH /\ s = 3 -> _DevPathFibre(n)
       [] t = MESSAGING_DEVICE_PATH /\ s = 4 -> _DevPath1394(n)
       [] t = MESSAGING_DEVICE_PATH /\ s = 5 -> _DevPathUsb(n)
       [] t = MESSAGING_DEVICE_PATH /\ s = 6 -> _DevPathI2O(n)
       [] t = MESSAGING_DEVICE_PATH /\ s = 9 -> _DevPathInfiniBand(n)
       [] t = MESSAGING_DEVICE_PATH /\ s = 10 -> _DevPathVendor(n)
       [] t = MESSAGING_DEVICE_PATH /\ s = 11 -> _DevPathMacAddr(n)
       [] t = MESSAGING_DEVICE_PATH /\ s = 12 -> _DevPathIPv4(n)
       [] t = MESSAGING_DEVICE_PATH /\ s = 13 -> _DevPathIPv6(n)
       [] t = MESSAGING_DEVICE_PATH /\ s = 14 -> _DevPathUart(n)
       [] t = MESSAGING_DEVICE_PATH /\ s = 18 -> _DevPathSata(n)
       [] t = MESSAGING_DEVICE_PATH /\ s = 24 -> _DevPathUri(n)
       [] t = MEDIA_DEVICE_PATH /\ s = 1 -> _DevPathHardDrive(n)
       [] t = MEDIA_DEVICE_PATH /\ s = 2 -> _DevPathCDROM(n)
       [] t = MEDIA_DEVICE_PATH /\ s = 3 -> _DevPathVendor(n)
       [] t = MEDIA_DEVICE_PATH /\ s = 4 -> _DevPathFilePath(n)
       [] t = MEDIA_DEVICE_PATH /\ s = 5 -> _DevPathMediaProtocol(n)
       [] t = BBS_DEVICE_PATH /\ s = 1 -> _DevPathBssBss(n)
       [] t = END_DEVICE_PATH_TYPE /\ s = 1 -> _DevPathEndInstance(n)
       [] OTHER -> _DevPathNodeUnknown(n)

=============================================================================

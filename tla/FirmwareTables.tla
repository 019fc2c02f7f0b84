--------------------------- MODULE FirmwareTables ---------------------------
(***************************************************************************)
(* The library's tables, and what it reads from those of others: GUIDs and *)
(* their names (data.c, guid.c), status codes and their texts (efierr.h,   *)
(* error.c), box-drawing characters (eficon.h, boxdraw.c), the dump of     *)
(* memory (print.c), the partition table of a disk and the user-interface  *)
(* strings (misc.c), the SMBIOS records (smbios.c), the SAL system table   *)
(* of ia64 (salpal.c), and the CRC32 of the firmware's own tables (crc.c), *)
(* which are sequences of bytes.  A GUID is four 32-bit words, as          *)
(* RtCompareGuid reads it.                                                 *)
(***************************************************************************)
EXTENDS Strings, TLC

CONSTANTS
  LbaBits,          \* width of a block number in a partition record
  MinMbrDeviceSize, \* MIN_MBR_DEVICE_SIZE
  MbrErrataPad      \* MBR_ERRATA_PAD

-----------------------------------------------------------------------------
GuidValues == [
   gEfiGlobalVariableGuid |-> <<<<\h8BE4, \hDF61>>, <<\h11D2, \h93CA>>, <<\hE000, \h0DAA>>, <<\h8C2B, \h0398>>>>,
   gZeroGuid |-> <<<<\h0000, \h0000>>, <<\h0000, \h0000>>, <<\h0000, \h0000>>, <<\h0000, \h0000>>>>,
   gEfiDevicePathProtocolGuid |-> <<<<\h0957, \h6E91>>, <<\h11D2, \h6D3F>>, <<\hA000, \h398E>>, <<\h3B72, \h69C9>>>>,
   gEfiDevicePathToTextProtocolGuid |-> <<<<\h8B84, \h3E20>>, <<\h4852, \h8132>>, <<\h1A55, \hCC90>>, <<\h1C7F, \h4A4E>>>>,
   gEfiDevicePathFromTextProtocolGuid |-> <<<<\h05C9, \h9A21>>, <<\h4AD2, \hC70F>>, <<\hDF35, \h5F8A>>, <<\h1EF5, \h4333>>>>,
   gEfiDevicePathUtilitiesProtocolGuid |-> <<<<\h0379, \hBE4E>>, <<\h437D, \hD706>>, <<\hB8ED, \h37B0>>, <<\hA472, \hB72F>>>>,
   gEfiLoadedImageProtocolGuid |-> <<<<\h5B1B, \h31A1>>, <<\h11D2, \h9562>>, <<\hA000, \h3F8E>>, <<\h3B72, \h69C9>>>>,
   gEfiSimpleTextInProtocolGuid |-> <<<<\h3874, \h77C1>>, <<\h11D2, \h69C7>>, <<\hA000, \h398E>>, <<\h3B72, \h69C9>>>>,
   gEfiSimpleTextOutProtocolGuid |-> <<<<\h3874, \h77C2>>, <<\h11D2, \h69C7>>, <<\hA000, \h398E>>, <<\h3B72, \h69C9>>>>,
   gEfiBlockIoProtocolGuid |-> <<<<\h964E, \h5B21>>, <<\h11D2, \h6459>>, <<\hA000, \h398E>>, <<\h3B72, \h69C9>>>>,
   gEfiBlockIo2ProtocolGuid |-> <<<<\hA77B, \h2472>>, <<\h4E9F, \hE282>>, <<\hC0C2, \h45A2>>, <<\hC1BC, \h7BE2>>>>,
   gEfiDiskIoProtocolGuid |-> <<<<\hCE34, \h5171>>, <<\h11D2, \hBA0B>>, <<\hA000, \h4F8E>>, <<\h3B72, \h69C9>>>>,
   gEfiDiskIo2ProtocolGuid |-> <<<<\h151C, \h8EAE>>, <<\h472C, \h7F2C>>, <<\h2898, \h549E>>, <<\h886A, \h4F19>>>>,
   gEfiDxeServicesTableGuid |-> <<<<\h05AD, \h34BA>>, <<\h4214, \h6F02>>, <<\hA04D, \h2E95>>, <<\hB92B, \h8E39>>>>,
   gEfiSimpleFileSystemProtocolGuid |-> <<<<\h964E, \h5B22>>, <<\h11D2, \h6459>>, <<\hA000, \h398E>>, <<\h3B72, \h69C9>>>>,
   gEfiLoadedImageDevicePathProtocolGuid |-> <<<<\hBC62, \h157E>>, <<\h4FEC, \h3E33>>, <<\h3B2D, \h2099>>, <<\hDF50, \hD736>>>>,
   gEfiLoadFileProtocolGuid |-> <<<<\h56EC, \h3091>>, <<\h11D2, \h954C>>, <<\hA000, \h3F8E>>, <<\h3B72, \h69C9>>>>,
   gEfiLoadFile2ProtocolGuid |-> <<<<\h4006, \hC0C1>>, <<\h403E, \hFCB3>>, <<\h6C4A, \h6D99>>, <<\h6DE0, \h2487>>>>,
   gEfiDeviceIoProtocolGuid |-> <<<<\hAF6A, \hC311>>, <<\h11D2, \h84C3>>, <<\hA000, \h3C8E>>, <<\h3B72, \h69C9>>>>,
   gEfiUnicodeCollationProtocolGuid |-> <<<<\h1D85, \hCD7F>>, <<\h11D2, \hF43D>>, <<\h9000, \h0C9A>>, <<\h4DC1, \h3F27>>>>,
   gEfiSerialIoProtocolGuid |-> <<<<\hBB25, \hCF6F>>, <<\h11D2, \hF1D4>>, <<\h9000, \h0C9A>>, <<\hFDC1, \h3F27>>>>,
   gEfiSimpleNetworkProtocolGuid |-> <<<<\hA198, \h32B9>>, <<\h11D3, \hAC25>>, <<\h9000, \h2D9A>>, <<\h4DC1, \h3F27>>>>,
   gEfiPxeBaseCodeProtocolGuid |-> <<<<\h03C4, \hE603>>, <<\h11D3, \hAC28>>, <<\h9000, \h2D9A>>, <<\h4DC1, \h3F27>>>>,
   gEfiPxeBaseCodeCallbackProtocolGuid |-> <<<<\h245D, \hCA21>>, <<\h11D3, \hFB7B>>, <<\hA000, \h018F>>, <<\h3B72, \h69C9>>>>,
   gEfiNetworkInterfaceIdentifierProtocolGuid |-> <<<<\hE185, \h41CD>>, <<\h4F73, \hF755>>, <<\h3C64, \h8D92>>, <<\h29B2, \h798A>>>>,
   gEFiUiInterfaceProtocolGuid |-> <<<<\h32DD, \h7981>>, <<\h11D4, \h2D27>>, <<\h8000, \h8BBC>>, <<\h8188, \h3CC7>>>>,
   gEfiPciIoProtocolGuid |-> <<<<\h4CF5, \hB200>>, <<\h4CA5, \h68B8>>, <<\h3EB2, \hEC9E>>, <<\h9A02, \h503F>>>>,
   gEfiPciRootBridgeIoProtocolGuid |-> <<<<\h2F70, \h7EBB>>, <<\h11D4, \h4A1A>>, <<\h9000, \h389A>>, <<\h4DC1, \h3F27>>>>,
   gEfiDriverBindingProtocolGuid |-> <<<<\h18A0, \h31AB>>, <<\h4D1A, \hB443>>, <<\h090C, \hC0A5>>, <<\h719F, \h1E26>>>>,
   gEfiComponentNameProtocolGuid |-> <<<<\h107A, \h772C>>, <<\h11D4, \hD5E1>>, <<\h9000, \h469A>>, <<\h4DC1, \h3F27>>>>,
   gEfiComponentName2ProtocolGuid |-> <<<<\h6A7A, \h5CFF>>, <<\h4F70, \hE8D9>>, <<\hAB75, \hDABA>>, <<\h14CE, \h2530>>>>,
   gEfiHashProtocolGuid |-> <<<<\hC518, \h4932>>, <<\h46DB, \hDBA5>>, <<\h0BCC, \hBAA5>>, <<\h3514, \h9CDA>>>>,
   gEfiPlatformDriverOverrideProtocolGuid |-> <<<<\h6B30, \hC738>>, <<\h11D4, \hA391>>, <<\h9000, \h3B9A>>, <<\h4DC1, \h3F27>>>>,
   gEfiBusSpecificDriverOverrideProtocolGuid |-> <<<<\h3BC1, \hB285>>, <<\h4A82, \h8A15>>, <<\h7D4D, \hBFAA>>, <<\h6532, \hFB13>>>>,
   gEfiDriverFamilyOverrideProtocolGuid |-> <<<<\hB1EE, \h129E>>, <<\h4181, \hDA36>>, <<\hA404, \hF891>>, <<\hA766, \h3792>>>>,
   gEfiEbcProtocolGuid |-> <<<<\h13AC, \h6DD1>>, <<\h11D4, \h73D0>>, <<\hAA00, \h6BB0>>, <<\hE76D, \hBD00>>>>,
   gEfiFileInfoGuid |-> <<<<\h0957, \h6E92>>, <<\h11D2, \h6D3F>>, <<\hA000, \h398E>>, <<\h3B72, \h69C9>>>>,
   gEfiFileSystemInfoGuid |-> <<<<\h0957, \h6E93>>, <<\h11D2, \h6D3F>>, <<\hA000, \h398E>>, <<\h3B72, \h69C9>>>>,
   gEfiFileSystemVolumeLabelInfoIdGuid |-> <<<<\hDB47, \hD7D3>>, <<\h11D3, \hFE81>>, <<\h9000, \h359A>>, <<\h4DC1, \h3F27>>>>,
   gEfiMpServicesProtocolGuid |-> <<<<\h3FDD, \hA605>>, <<\h4F46, \hA76E>>, <<\hF412, \h29AD>>, <<\h083D, \h1B53>>>>,
   InternalShellProtocol |-> <<<<\hD65A, \h6B8C>>, <<\h4DF0, \h71E5>>, <<\hD2F0, \h09A9>>, <<\hA95A, \h2B99>>>>,
   VariableStoreProtocol |-> <<<<\hF088, \hCD91>>, <<\h11D2, \hA046>>, <<\hA000, \h428E>>, <<\h3B72, \h69C9>>>>,
   LegacyBootProtocol |-> <<<<\h376E, \h5EB2>>, <<\h11D3, \h30E4>>, <<\h8000, \hE5BA>>, <<\h8188, \h3CC7>>>>,
   VgaClassProtocol |-> <<<<\h0E3D, \h6310>>, <<\h11D3, \h6FE4>>, <<\h8000, \h81BB>>, <<\h8188, \h3CC7>>>>,
   TextOutSpliterProtocol |-> <<<<\h56D8, \h30A0>>, <<\h11D3, \h7E7A>>, <<\hA000, \hA0BB>>, <<\h3B72, \h69C9>>>>,
   ErrorOutSpliterProtocol |-> <<<<\hF0BA, \h9039>>, <<\h425E, \h68F1>>, <<\hAAD9, \h7FAA>>, <<\hA182, \h1BF9>>>>,
   TextInSpliterProtocol |-> <<<<\hF9A3, \hC550>>, <<\h11D3, \h7FB5>>, <<\hA000, \hA0BB>>, <<\h3B72, \h69C9>>>>,
   gEfiGraphicsOutputProtocolGuid |-> <<<<\h9042, \hA9DE>>, <<\h4A38, \h23DC>>, <<\hDE7A, \hFB96>>, <<\h6A51, \h80D0>>>>,
   gEfiEdidDiscoveredProtocolGuid |-> <<<<\h1C0C, \h34F6>>, <<\h41FA, \hD380>>, <<\hD08A, \h49A0>>, <<\hAA66, \h1A6C>>>>,
   gEfiEdidActiveProtocolGuid |-> <<<<\hBD8C, \h1056>>, <<\h44EC, \h9F36>>, <<\h33A6, \hA892>>, <<\h8679, \h817F>>>>,
   gEfiEdidOverrideProtocolGuid |-> <<<<\h48EC, \hB431>>, <<\h45C0, \hFB72>>, <<\h58F4, \h22A9>>, <<\hD50B, \h04FE>>>>,
   AdapterDebugProtocol |-> <<<<\h82F8, \h6881>>, <<\h11D4, \h282B>>, <<\h8000, \h7DBC>>, <<\h8188, \h3CC7>>>>,
   gEfiPcAnsiGuid |-> <<<<\hE0C1, \h4753>>, <<\h11D2, \hF9BE>>, <<\h9000, \h0C9A>>, <<\h4DC1, \h3F27>>>>,
   gEfiVT100Guid |-> <<<<\hDFA6, \h6065>>, <<\h11D3, \hB419>>, <<\h9000, \h2D9A>>, <<\h4DC1, \h3F27>>>>,
   gEfiVT100PlusGuid |-> <<<<\h7BAE, \hC70B>>, <<\h4C76, \h57E0>>, <<\h9E2F, \h878E>>, <<\h4383, \h0828>>>>,
   gEfiVTUTF8Guid |-> <<<<\hAD15, \hA0D6>>, <<\h4ACF, \h8BEC>>, <<\h1DD0, \h73A0>>, <<\h882D, \h7EE7>>>>,
   EfiPartTypeSystemPartitionGuid |-> <<<<\hC12A, \h7328>>, <<\h11D2, \hF81F>>, <<\hA000, \h4BBA>>, <<\h3BC9, \h3EC9>>>>,
   EfiPartTypeLegacyMbrGuid |-> <<<<\h024D, \hEE41>>, <<\h11D3, \h33E7>>, <<\h0800, \h699D>>, <<\h9FF3, \h81C7>>>>,
   UnknownDevice |-> <<<<\hCF31, \hFAC5>>, <<\h11D2, \hC24E>>, <<\hA000, \hF385>>, <<\h3BC9, \h3EC9>>>>,
   MpsTableGuid |-> <<<<\hEB9D, \h2D2F>>, <<\h11D3, \h2D88>>, <<\h9000, \h169A>>, <<\h4DC1, \h3F27>>>>,
   AcpiTableGuid |-> <<<<\hEB9D, \h2D30>>, <<\h11D3, \h2D88>>, <<\h9000, \h169A>>, <<\h4DC1, \h3F27>>>>,
   gEfiSmbiosTableGuid |-> <<<<\hEB9D, \h2D31>>, <<\h11D3, \h2D88>>, <<\h9000, \h169A>>, <<\h4DC1, \h3F27>>>>,
   gEfiSmbios3TableGuid |-> <<<<\hF2FD, \h1544>>, <<\h4A2C, \h9794>>, <<\hBBE5, \h2E99>>, <<\h94E3, \h20CF>>>>,
   SalSystemTableGuid |-> <<<<\hEB9D, \h2D32>>, <<\h11D3, \h2D88>>, <<\h9000, \h169A>>, <<\h4DC1, \h3F27>>>>,
   EfiDtbTableGuid |-> <<<<\hB1B6, \h21D5>>, <<\h41A5, \hF19C>>, <<\h15D9, \h0B83>>, <<\hE0AA, \h692C>>>>,
   Ip4ServiceBindingProtocol |-> <<<<\hC517, \h11E7>>, <<\h404A, \hB4BF>>, <<\h040A, \hB8BF>>, <<\hE4FF, \hF18E>>>>,
   Ip4Protocol |-> <<<<\h41D9, \h4CD2>>, <<\h455A, \h35B6>>, <<\hE5D4, \h5882>>, <<\hDDAA, \h3413>>>>,
   Udp4ServiceBindingProtocol |-> <<<<\h83F0, \h1464>>, <<\h45E5, \h99BD>>, <<\h63AF, \h83B3>>, <<\hE6E9, \hD805>>>>,
   Udp4Protocol |-> <<<<\h3AD9, \hDF29>>, <<\h478D, \h4501>>, <<\h7F7F, \hF8B1>>, <<\hF350, \h0EE7>>>>,
   Tcp4ServiceBindingProtocol |-> <<<<\h0072, \h0665>>, <<\h4A99, \h67EB>>, <<\hC3D3, \hF7BA>>, <<\hC97C, \h1C3A>>>>,
   Tcp4Protocol |-> <<<<\h6553, \h0BC7>>, <<\h410F, \hA359>>, <<\hAD5A, \h10B0>>, <<\h622B, \hECC7>>>>,
   SimplePointerProtocol |-> <<<<\h3187, \h8C87>>, <<\h11D5, \h0B75>>, <<\h9000, \h4F9A>>, <<\h4DC1, \h3F27>>>>,
   AbsolutePointerProtocol |-> <<<<\h8D59, \hD32B>>, <<\h4AE9, \hC655>>, <<\h59F2, \h159B>>, <<\h432A, \h9904>>>>,
   gEfiDebugImageInfoTableGuid |-> <<<<\h4915, \h2E77>>, <<\h4764, \h1ADA>>, <<\hFE7A, \hA2B7>>, <<\h8B5E, \hD9FE>>>>,
   gEfiDebugSupportProtocolGuid |-> <<<<\h2755, \h590C>>, <<\h42FA, \h6F3C>>, <<\hBAA3, \hA49E>>, <<\h25DA, \h3C54>>>>,
   SimpleTextInputExProtocol |-> <<<<\hDD9E, \h7534>>, <<\h4698, \h7762>>, <<\h85F5, \h148C>>, <<\hAA25, \hA617>>>>,
   ShellProtocolGuid |-> <<<<\h6302, \hD008>>, <<\h4F30, \h7F9B>>, <<\hC960, \hAC87>>, <<\h4EDA, \hF5FE>>>>,
   ShellParametersProtocolGuid |-> <<<<\h752F, \h3136>>, <<\h4FDC, \h4E16>>, <<\hF4E5, \h2AA2>>, <<\hCAF4, \h1268>>>>,
   ShellDynamicCommandProtocolGuid |-> <<<<\h3C72, \h00E9>>, <<\h4EA4, \h005F>>, <<\hDFA3, \hDE87>>, <<\hC327, \h8AAC>>>>]

\* The GUIDs guid.c defines for itself.
ShellGuidValues == [
   ShellInterfaceProtocol |-> <<<<\h47C7, \hB223>>, <<\h11D2, \hC42A>>, <<\hA000, \h578E>>, <<\h3B72, \h69C9>>>>,
   SEnvId |-> <<<<\h47C7, \hB224>>, <<\h11D2, \hC42A>>, <<\hA000, \h578E>>, <<\h3B72, \h69C9>>>>,
   SMapId |-> <<<<\h47C7, \hB225>>, <<\h11D2, \hC42A>>, <<\hA000, \h578E>>, <<\h3B72, \h69C9>>>>,
   SProtId |-> <<<<\h47C7, \hB226>>, <<\h11D2, \hC42A>>, <<\hA000, \h578E>>, <<\h3B72, \h69C9>>>>,
   SAliasId |-> <<<<\h47C7, \hB227>>, <<\h11D2, \hC42A>>, <<\hA000, \h578E>>, <<\h3B72, \h69C9>>>>]

\* <<variable, name>>, in the order of the search.
KnownGuids == <<
   <<"gZeroGuid", "NullGuid">>,
   <<"gEfiGlobalVariableGuid", "EfiVar">>,
   <<"VariableStoreProtocol", "VarStore">>,
   <<"gEfiDevicePathProtocolGuid", "DevPath">>,
   <<"gEfiLoadedImageProtocolGuid", "LdImg">>,
   <<"gEfiSimpleTextInProtocolGuid", "TxtIn">>,
   <<"gEfiSimpleTextOutProtocolGuid", "TxtOut">>,
   <<"gEfiBlockIoProtocolGuid", "BlkIo">>,
   <<"gEfiBlockIo2ProtocolGuid", "BlkIo2">>,
   <<"gEfiDiskIoProtocolGuid", "DskIo">>,
   <<"gEfiDiskIo2ProtocolGuid", "DskIo2">>,
   <<"gEfiSimpleFileSystemProtocolGuid", "Fs">>,
   <<"gEfiLoadFileProtocolGuid", "LdFile">>,
   <<"gEfiDeviceIoProtocolGuid", "DevIo">>,
   <<"gEfiComponentNameProtocolGuid", "CName">>,
   <<"gEfiComponentName2ProtocolGuid", "CName2">>,
   <<"gEfiMpServicesProtocolGuid", "Mp">>,
   <<"gEfiFileInfoGuid", "FileInfo">>,
   <<"gEfiFileSystemInfoGuid", "FsInfo">>,
   <<"gEfiFileSystemVolumeLabelInfoIdGuid", "FsVolInfo">>,
   <<"gEfiUnicodeCollationProtocolGuid", "Unicode">>,
   <<"LegacyBootProtocol", "LegacyBoot">>,
   <<"gEfiSerialIoProtocolGuid", "SerIo">>,
   <<"VgaClassProtocol", "VgaClass">>,
   <<"gEfiSimpleNetworkProtocolGuid", "Net">>,
   <<"gEfiNetworkInterfaceIdentifierProtocolGuid", "Nii">>,
   <<"gEfiPxeBaseCodeProtocolGuid", "Pxe">>,
   <<"gEfiPxeBaseCodeCallbackProtocolGuid", "PxeCb">>,
   <<"TextOutSpliterProtocol", "TxtOutSplit">>,
   <<"ErrorOutSpliterProtocol", "ErrOutSplit">>,
   <<"TextInSpliterProtocol", "TxtInSplit">>,
   <<"gEfiPcAnsiGuid", "PcAnsi">>,
   <<"gEfiVT100Guid", "Vt100">>,
   <<"gEfiVT100PlusGuid", "Vt100Plus">>,
   <<"gEfiVTUTF8Guid", "VtUtf8">>,
   <<"UnknownDevice", "UnknownDev">>,
   <<"EfiPartTypeSystemPartitionGuid", "ESP">>,
   <<"EfiPartTypeLegacyMbrGuid", "GPT MBR">>,
   <<"ShellInterfaceProtocol", "ShellInt">>,
   <<"SEnvId", "SEnv">>,
   <<"SProtId", "ShellProtId">>,
   <<"SMapId", "ShellDevPathMap">>,
   <<"SAliasId", "ShellAlias">>>>

GuidOf(variable) ==
  IF variable \in DOMAIN GuidValues THEN GuidValues[variable] ELSE ShellGuidValues[variable]

\* The first GUID of the list that compares equal gives the name; any other
\* is dumped digit by digit.
GuidToString(guid) ==
  LET at == SelectInSeq(KnownGuids, LAMBDA k: RtCompareGuid(guid, GuidOf(k[1])))
  IN IF at = 0 THEN <<"dump", guid>> ELSE <<"name", KnownGuids[at][2]>>

\* ST->ConfigurationTable: <<vendor GUID, table>>.
LibGetSystemConfigurationTable(guid, tables) ==
  LET at == SelectInSeq(tables, LAMBDA e: RtCompareGuid(guid, e[1]))
  IN IF at = 0 THEN [status |-> "EFI_NOT_FOUND"] ELSE [status |-> "EFI_SUCCESS", table |-> tables[at][2]]

-----------------------------------------------------------------------------
\* EFIERR(a) sets the top bit, EFIWARN(a) does not.
EfiErr == [
   EFI_LOAD_ERROR |-> 1, EFI_INVALID_PARAMETER |-> 2, EFI_UNSUPPORTED |-> 3,
   EFI_BAD_BUFFER_SIZE |-> 4, EFI_BUFFER_TOO_SMALL |-> 5, EFI_NOT_READY |-> 6,
   EFI_DEVICE_ERROR |-> 7, EFI_WRITE_PROTECTED |-> 8, EFI_OUT_OF_RESOURCES |-> 9,
   EFI_VOLUME_CORRUPTED |-> 10, EFI_VOLUME_FULL |-> 11, EFI_NO_MEDIA |-> 12,
   EFI_MEDIA_CHANGED |-> 13, EFI_NOT_FOUND |-> 14, EFI_ACCESS_DENIED |-> 15,
   EFI_NO_RESPONSE |-> 16, EFI_NO_MAPPING |-> 17, EFI_TIMEOUT |-> 18,
   EFI_NOT_STARTED |-> 19, EFI_ALREADY_STARTED |-> 20, EFI_ABORTED |-> 21,
   EFI_ICMP_ERROR |-> 22, EFI_TFTP_ERROR |-> 23, EFI_PROTOCOL_ERROR |-> 24,
   EFI_INCOMPATIBLE_VERSION |-> 25, EFI_SECURITY_VIOLATION |-> 26, EFI_CRC_ERROR |-> 27,
   EFI_END_OF_MEDIA |-> 28, EFI_END_OF_FILE |-> 31, EFI_INVALID_LANGUAGE |-> 32,
   EFI_COMPROMISED_DATA |-> 33, EFI_IP_ADDRESS_CONFLICT |-> 34, EFI_HTTP_ERROR |-> 35]

EfiWarn == [
   EFI_SUCCESS |-> 0, EFI_WARN_UNKOWN_GLYPH |-> 1, EFI_WARN_UNKNOWN_GLYPH |-> 1,
   EFI_WARN_DELETE_FAILURE |-> 2, EFI_WARN_WRITE_FAILURE |-> 3, EFI_WARN_BUFFER_TOO_SMALL |-> 4,
   EFI_WARN_STALE_DATA |-> 5, EFI_WARN_FILE_SYSTEM |-> 6, EFI_WARN_RESET_REQUIRED |-> 7]

StatusCode(name) ==
  IF name \in DOMAIN EfiErr THEN <<"EFIERR", EfiErr[name]>> ELSE <<"EFIWARN", EfiWarn[name]>>

ErrorCodeTable == <<
   <<"EFI_SUCCESS", "Success">>, <<"EFI_LOAD_ERROR", "Load Error">>,
   <<"EFI_INVALID_PARAMETER", "Invalid Parameter">>, <<"EFI_UNSUPPORTED", "Unsupported">>,
   <<"EFI_BAD_BUFFER_SIZE", "Bad Buffer Size">>, <<"EFI_BUFFER_TOO_SMALL", "Buffer Too Small">>,
   <<"EFI_NOT_READY", "Not Ready">>, <<"EFI_DEVICE_ERROR", "Device Error">>,
   <<"EFI_WRITE_PROTECTED", "Write Protected">>, <<"EFI_OUT_OF_RESOURCES", "Out of Resources">>,
   <<"EFI_VOLUME_CORRUPTED", "Volume Corrupt">>, <<"EFI_VOLUME_FULL", "Volume Full">>,
   <<"EFI_NO_MEDIA", "No Media">>, <<"EFI_MEDIA_CHANGED", "Media changed">>,
   <<"EFI_NOT_FOUND", "Not Found">>, <<"EFI_ACCESS_DENIED", "Access Denied">>,
   <<"EFI_NO_RESPONSE", "No Response">>, <<"EFI_NO_MAPPING", "No mapping">>,
   <<"EFI_TIMEOUT", "Time out">>, <<"EFI_NOT_STARTED", "Not started">>,
   <<"EFI_ALREADY_STARTED", "Already started">>, <<"EFI_ABORTED", "Aborted">>,
   <<"EFI_ICMP_ERROR", "ICMP Error">>, <<"EFI_TFTP_ERROR", "TFTP Error">>,
   <<"EFI_PROTOCOL_ERROR", "Protocol Error">>, <<"EFI_INCOMPATIBLE_VERSION", "Incompatible Version">>,
   <<"EFI_SECURITY_VIOLATION", "Security Policy Violation">>, <<"EFI_CRC_ERROR", "CRC Error">>,
   <<"EFI_END_OF_MEDIA", "End of Media">>, <<"EFI_END_OF_FILE", "End of File">>,
   <<"EFI_INVALID_LANGUAGE", "Invalid Languages">>, <<"EFI_COMPROMISED_DATA", "Compromised Data">>,
   <<"EFI_IP_ADDRESS_CONFLICT", "IP Address Conflict">>, <<"EFI_HTTP_ERROR", "HTTP Error">>,
   <<"EFI_WARN_UNKNOWN_GLYPH", "Warning Unknown Glyph">>, <<"EFI_WARN_DELETE_FAILURE", "Warning Delete Failure">>,
   <<"EFI_WARN_WRITE_FAILURE", "Warning Write Failure">>, <<"EFI_WARN_BUFFER_TOO_SMALL", "Warning Buffer Too Small">>,
   <<"EFI_WARN_STALE_DATA", "Warning Stale Data">>, <<"EFI_WARN_FILE_SYSTEM", "Warning File System">>,
   <<"EFI_WARN_RESET_REQUIRED", "Warning Reset Required">>>>

StatusToString(status) ==
  LET at == SelectInSeq(ErrorCodeTable, LAMBDA e: StatusCode(e[1]) = status)
  IN IF at = 0 THEN <<"dump", status>> ELSE <<"text", ErrorCodeTable[at][2]>>

-----------------------------------------------------------------------------
TextGraphics == [
   ARROW_UP |-> \h2191, ARROW_DOWN |-> \h2193,
   BOXDRAW_HORIZONTAL |-> \h2500, BOXDRAW_VERTICAL |-> \h2502,
   BOXDRAW_DOWN_RIGHT |-> \h250C, BOXDRAW_DOWN_LEFT |-> \h2510,
   BOXDRAW_UP_RIGHT |-> \h2514, BOXDRAW_UP_LEFT |-> \h2518,
   BOXDRAW_VERTICAL_RIGHT |-> \h251C, BOXDRAW_VERTICAL_LEFT |-> \h2524,
   BOXDRAW_DOWN_HORIZONTAL |-> \h252C, BOXDRAW_UP_HORIZONTAL |-> \h2534,
   BOXDRAW_VERTICAL_HORIZONTAL |-> \h253C, BOXDRAW_DOUBLE_HORIZONTAL |-> \h2550,
   BOXDRAW_DOUBLE_VERTICAL |-> \h2551, BOXDRAW_DOWN_RIGHT_DOUBLE |-> \h2552,
   BOXDRAW_DOWN_DOUBLE_RIGHT |-> \h2553, BOXDRAW_DOUBLE_DOWN_RIGHT |-> \h2554,
   BOXDRAW_DOWN_LEFT_DOUBLE |-> \h2555, BOXDRAW_DOWN_DOUBLE_LEFT |-> \h2556,
   BOXDRAW_DOUBLE_DOWN_LEFT |-> \h2557, BOXDRAW_UP_RIGHT_DOUBLE |-> \h2558,
   BOXDRAW_UP_DOUBLE_RIGHT |-> \h2559, BOXDRAW_DOUBLE_UP_RIGHT |-> \h255A,
   BOXDRAW_UP_LEFT_DOUBLE |-> \h255B, BOXDRAW_UP_DOUBLE_LEFT |-> \h255C,
   BOXDRAW_DOUBLE_UP_LEFT |-> \h255D, BOXDRAW_VERTICAL_RIGHT_DOUBLE |-> \h255E,
   BOXDRAW_VERTICAL_DOUBLE_RIGHT |-> \h255F, BOXDRAW_DOUBLE_VERTICAL_RIGHT |-> \h2560,
   BOXDRAW_VERTICAL_LEFT_DOUBLE |-> \h2561, BOXDRAW_VERTICAL_DOUBLE_LEFT |-> \h2562,
   BOXDRAW_DOUBLE_VERTICAL_LEFT |-> \h2563, BOXDRAW_DOWN_HORIZONTAL_DOUBLE |-> \h2564,
   BOXDRAW_DOWN_DOUBLE_HORIZONTAL |-> \h2565, BOXDRAW_DOUBLE_DOWN_HORIZONTAL |-> \h2566,
   BOXDRAW_UP_HORIZONTAL_DOUBLE |-> \h2567, BOXDRAW_UP_DOUBLE_HORIZONTAL |-> \h2568,
   BOXDRAW_DOUBLE_UP_HORIZONTAL |-> \h2569, BOXDRAW_VERTICAL_HORIZONTAL_DOUBLE |-> \h256A,
   BOXDRAW_VERTICAL_DOUBLE_HORIZONTAL |-> \h256B, BOXDRAW_DOUBLE_VERTICAL_HORIZONTAL |-> \h256C,
   BLOCKELEMENT_FULL_BLOCK |-> \h2588, BLOCKELEMENT_LIGHT_SHADE |-> \h2591,
   GEOMETRICSHAPE_UP_TRIANGLE |-> \h25B2, GEOMETRICSHAPE_RIGHT_TRIANGLE |-> \h25BA,
   GEOMETRICSHAPE_DOWN_TRIANGLE |-> \h25BC, GEOMETRICSHAPE_LEFT_TRIANGLE |-> \h25C4]

\* <<Unicode, PcAnsi, Ascii>>.
UnicodeToPcAnsiOrAscii == <<
   <<"BOXDRAW_HORIZONTAL", \hC4, 45>>, <<"BOXDRAW_VERTICAL", \hB3, 124>>,
   <<"BOXDRAW_DOWN_RIGHT", \hDA, 47>>, <<"BOXDRAW_DOWN_LEFT", \hBF, 92>>,
   <<"BOXDRAW_UP_RIGHT", \hC0, 92>>, <<"BOXDRAW_UP_LEFT", \hD9, 47>>,
   <<"BOXDRAW_VERTICAL_RIGHT", \hC3, 124>>, <<"BOXDRAW_VERTICAL_LEFT", \hB4, 124>>,
   <<"BOXDRAW_DOWN_HORIZONTAL", \hC2, 43>>, <<"BOXDRAW_UP_HORIZONTAL", \hC1, 43>>,
   <<"BOXDRAW_VERTICAL_HORIZONTAL", \hC5, 43>>, <<"BOXDRAW_DOUBLE_HORIZONTAL", \hCD, 45>>,
   <<"BOXDRAW_DOUBLE_VERTICAL", \hBA, 124>>, <<"BOXDRAW_DOWN_RIGHT_DOUBLE", \hD5, 47>>,
   <<"BOXDRAW_DOWN_DOUBLE_RIGHT", \hD6, 47>>, <<"BOXDRAW_DOUBLE_DOWN_RIGHT", \hC9, 47>>,
   <<"BOXDRAW_DOWN_LEFT_DOUBLE", \hB8, 92>>, <<"BOXDRAW_DOWN_DOUBLE_LEFT", \hB7, 92>>,
   <<"BOXDRAW_DOUBLE_DOWN_LEFT", \hBB, 92>>, <<"BOXDRAW_UP_RIGHT_DOUBLE", \hD4, 92>>,
   <<"BOXDRAW_UP_DOUBLE_RIGHT", \hD3, 92>>, <<"BOXDRAW_DOUBLE_UP_RIGHT", \hC8, 92>>,
   <<"BOXDRAW_UP_LEFT_DOUBLE", \hBE, 47>>, <<"BOXDRAW_UP_DOUBLE_LEFT", \hBD, 47>>,
   <<"BOXDRAW_DOUBLE_UP_LEFT", \hBC, 47>>, <<"BOXDRAW_VERTICAL_RIGHT_DOUBLE", \hC6, 124>>,
   <<"BOXDRAW_VERTICAL_DOUBLE_RIGHT", \hC7, 124>>, <<"BOXDRAW_DOUBLE_VERTICAL_RIGHT", \hCC, 124>>,
   <<"BOXDRAW_VERTICAL_LEFT_DOUBLE", \hB5, 124>>, <<"BOXDRAW_VERTICAL_DOUBLE_LEFT", \hB6, 124>>,
   <<"BOXDRAW_DOUBLE_VERTICAL_LEFT", \hB9, 124>>, <<"BOXDRAW_DOWN_HORIZONTAL_DOUBLE", \hD1, 43>>,
   <<"BOXDRAW_DOWN_DOUBLE_HORIZONTAL", \hD2, 43>>, <<"BOXDRAW_DOUBLE_DOWN_HORIZONTAL", \hCB, 43>>,
   <<"BOXDRAW_UP_HORIZONTAL_DOUBLE", \hCF, 43>>, <<"BOXDRAW_UP_DOUBLE_HORIZONTAL", \hD0, 43>>,
   <<"BOXDRAW_DOUBLE_UP_HORIZONTAL", \hCA, 43>>, <<"BOXDRAW_VERTICAL_HORIZONTAL_DOUBLE", \hD8, 43>>,
   <<"BOXDRAW_VERTICAL_DOUBLE_HORIZONTAL", \hD7, 43>>, <<"BOXDRAW_DOUBLE_VERTICAL_HORIZONTAL", \hCE, 43>>,
   <<"BLOCKELEMENT_FULL_BLOCK", \hDB, 42>>, <<"BLOCKELEMENT_LIGHT_SHADE", \hB0, 43>>,
   <<"GEOMETRICSHAPE_UP_TRIANGLE", \h1E, 94>>, <<"GEOMETRICSHAPE_RIGHT_TRIANGLE", \h10, 62>>,
   <<"GEOMETRICSHAPE_DOWN_TRIANGLE", \h1F, 118>>, <<"GEOMETRICSHAPE_LEFT_TRIANGLE", \h11, 60>>,
   <<"ARROW_UP", \h18, 94>>, <<"ARROW_DOWN", \h19, 118>>>>

\* Only the pages 0x25xx and 0x21xx are looked up.
LibIsValidTextGraphics(graphic) ==
  LET at == SelectInSeq(UnicodeToPcAnsiOrAscii, LAMBDA e: TextGraphics[e[1]] = graphic)
  IN IF graphic \div 256 \notin {\h25, \h21} \/ at = 0 THEN [valid |-> FALSE]
     ELSE [valid |-> TRUE, PcAnsi |-> UnicodeToPcAnsiOrAscii[at][2], Ascii |-> UnicodeToPcAnsiOrAscii[at][3]]
IsValidAscii(c) == c >= 32 /\ c <= 127

-----------------------------------------------------------------------------
(* DumpHex: rows of sixteen bytes on the console, with a pause for a key   *)
(* after each screen.  The dump is the sequence of what is printed: a row  *)
(* is its offset, its nibbles and its characters.                          *)

RowBytes == 16
Pause == [kind |-> "Press Enter to continue"]

\* A byte outside of ' '..'z' is shown as a dot.
Dot == 46
Visible(c) == IF c < 32 \/ c > 122 THEN Dot ELSE c

Row(offset, bytes) ==
  [kind |-> "row", offset |-> offset,
   Val |-> [i \in DOMAIN bytes |-> <<bytes[i] \div 16, bytes[i] % 16, IF i = 8 THEN "-" ELSE " ">>],
   Str |-> [i \in DOMAIN bytes |-> Visible(bytes[i])]]

\* rows is the number of lines of the console's mode.  ScreenSize is a UINTN of
\* bits bits: for a console of one line it wraps, for one of two there is no
\* pause, as for a console that is redirected.
DumpHex(offset, data, rows, bits) ==
  LET screenSize == (rows - 2) % 2^bits
      count == (Len(data) + RowBytes - 1) \div RowBytes
      Shown(k) == SubSeq(data, RowBytes * (k - 1) + 1, IF k = count THEN Len(data) ELSE RowBytes * k)
  IN  FlattenSeq([k \in 1..count |->
        <<Row((offset + RowBytes * (k - 1)) % 2^bits, Shown(k))>>
          \o IF screenSize # 0 /\ k % screenSize = 0 THEN <<Pause>> ELSE <<>>])


-----------------------------------------------------------------------------
DecimaltoBCD(v) == RtDecimaltoBCD(v)
BCDtoDecimal(b) == RtBCDtoDecimal(b)

-----------------------------------------------------------------------------
\* A partition record is [OSIndicator, StartingLBA, SizeInLBA]; the record
\* counts when its indicator and its size are not 0.
Used(p) == p.OSIndicator # 0 /\ p.SizeInLBA # 0
EndingLBA(p) == (p.StartingLBA + p.SizeInLBA - 1) % 2^LbaBits

\* Mutant: regions are not compared with the size of the disk.
BeyondNever(p, lastBlock) == FALSE

\* LastBlock has 64 bits: adding the pad to it does not wrap.
BeyondDevice(p, lastBlock) ==
  /\ EndingLBA(p) > lastBlock
  /\ \/ lastBlock < MinMbrDeviceSize
     \/ EndingLBA(p) > lastBlock + MbrErrataPad

\* The start or the end of the later record lies inside of the earlier one.
Collides(p, q) ==
  \/ q.StartingLBA >= p.StartingLBA /\ q.StartingLBA <= EndingLBA(p)
  \/ EndingLBA(q) >= p.StartingLBA /\ EndingLBA(q) <= EndingLBA(p)

ValidMBR(mbr, lastBlock) ==
  LET used == {i \in DOMAIN mbr.Partition: Used(mbr.Partition[i])}
  IN /\ mbr.Signature = \hAA55
     /\ used # {}
     /\ \A i \in used:
          /\ ~BeyondDevice(mbr.Partition[i], lastBlock)
          /\ \A j \in used: j > i => ~Collides(mbr.Partition[i], mbr.Partition[j])

-----------------------------------------------------------------------------
\* Ui->Entry: <<language, string>>; a language of "NULL" ends each of the
\* sections.  The skip stops on the NULL of a section and steps over it; the
\* search does not step on from an entry in another language.
RECURSIVE SkipStrings(_, _, _)
SkipStrings(entries, at, sections) ==
  IF sections = 0 THEN at
  ELSE SkipStrings(entries, at + SelectInSeq(From(entries, at), LAMBDA e: e[1] = "NULL"), sections - 1)

LibGetUiString(handle, stringType, language, pathOnMismatch) ==
  LET mismatch == IF pathOnMismatch THEN <<"path", handle.path>> ELSE <<"NULL">>
      at == SkipStrings(handle.entries, 1, stringType)
  IN IF handle.entries = <<>> THEN mismatch
     ELSE IF handle.entries[at][1] = "NULL" THEN mismatch
     ELSE IF handle.entries[at][1] = language THEN <<"string", handle.entries[at][2]>>
     ELSE <<"hangs">>

-----------------------------------------------------------------------------
\* SMBIOS: m is the memory, a record starts with its type and the length of
\* its formatted part; its strings follow, each ended by a 0, and one more 0
\* ends the record.  raw is the union SMBIOS_STRUCTURE_POINTER.
SmbiosType(m, raw) == m[raw]
SmbiosLength(m, raw) == m[raw + 1]
SerialNumberAt == 7
UuidAt == 8
UuidBytes == 16
SkipAll == 65535
NullPointer == 0

\* The 0 that ends the string at s, by way of RtStrLen.
EndOf(m, s) == s + RtStrLen(m, s)

\* The loop from `index` on: <<string, raw afterwards>>.
RECURSIVE SmbiosStringFrom(_, _, _, _, _)
SmbiosStringFrom(m, raw, s, index, number) ==
  IF index > number THEN <<NullPointer, raw>>
  ELSE IF index = number THEN <<s, raw>>
  ELSE LET next == EndOf(m, s) + 1
       IN IF m[next] = 0 THEN <<NullPointer, next + 1>>
          ELSE SmbiosStringFrom(m, raw, next, index + 1, number)
LibGetSmbiosString(m, raw, number) ==
  SmbiosStringFrom(m, raw, raw + SmbiosLength(m, raw), 1, number)

\* Index counts rounds up to TableLength.  A system record too short for the
\* two fields is met again in every round that is left.
RECURSIVE SmbiosFrom(_, _, _, _, _)
SmbiosFrom(m, raw, end, index, tableLength) ==
  IF index >= tableLength THEN [found |-> FALSE]
  ELSE IF SmbiosType(m, raw) = 1 /\ SmbiosLength(m, raw) >= 25
  THEN [found |-> TRUE,
        guid |-> SubSeq(m, raw + UuidAt, raw + UuidAt + UuidBytes - 1),
        serial |-> LibGetSmbiosString(m, raw, m[raw + SerialNumberAt])[1]]
  ELSE IF SmbiosType(m, raw) = 1
  THEN SmbiosFrom(m, raw, end, index + 1, tableLength)
  ELSE LET next == LibGetSmbiosString(m, raw, SkipAll)[2]
       IN IF next >= end THEN [found |-> FALSE]
          ELSE SmbiosFrom(m, next, end, index + 1, tableLength)

\* EFI_SUCCESS with nothing written where no record is found.
LibGetSmbiosSystemGuidAndSerialNumber(tables) ==
  LET st == LibGetSystemConfigurationTable(GuidValues["gEfiSmbiosTableGuid"], tables)
  IN IF st.status # "EFI_SUCCESS" THEN [status |-> "EFI_NOT_FOUND", found |-> FALSE]
     ELSE LET t == st.table
          IN [status |-> "EFI_SUCCESS"]
             @@ SmbiosFrom(t.memory, t.address, t.address + t.length, 0, t.length)

-----------------------------------------------------------------------------
\* What the readers have to give, for the properties.
BlocksOf(p) == p.StartingLBA..(p.StartingLBA + p.SizeInLBA - 1)
Wraps(p) == p.StartingLBA + p.SizeInLBA > 2^LbaBits

\* The bytes of a record [type, formatted part behind its first two bytes,
\* strings], and of a table of them.
RecordBytes(r) ==
  <<r.type, Len(r.formatted) + 2>> \o r.formatted
    \o (IF r.strings = <<>> THEN <<0>> ELSE FlattenSeq([i \in DOMAIN r.strings |-> Append(r.strings[i], 0)]))
    \o <<0>>
TableBytes(records) == FlattenSeq([i \in DOMAIN records |-> RecordBytes(records[i])])

-----------------------------------------------------------------------------
(* The firmware of ia64 under EFI: the SAL system table and the calls of   *)
(* SAL and PAL (lib/ia64/salpal.c, inc/ia64/salproc.h).                    *)
(*                                                                         *)
(* A table is [count, entries, behind]: EntryCount, its entries in memory  *)
(* order, the first of them Entry0, and what the memory behind them looks  *)
(* like, an entry too.                                                     *)

SAL_ST_ENTRY_POINT == 0
SAL_ST_MEMORY_DESCRIPTOR == 1
SAL_ST_PLATFORM_FEATURES == 2
SAL_ST_TR_USAGE == 3
SAL_ST_PTC == 4
SAL_ST_AP_WAKEUP == 5
SAL_SAPIC_IPI_BLOCK == 2
SAL_IO_PORT_MAPPING == 3

\* The packed structures: bytes of each field, from Type on.
SAL_ST_ENTRY_POINT_DESCRIPTOR == <<1, 7, 8, 8, 8, 2 * 8>>
SAL_ST_MEMORY_DESCRIPTOR_ENTRY == <<1, 1, 1, 1, 1, 1, 2, 8, 4, 4, 8>>
SAL_ST_MEMORY_DECRIPTOR == <<1, 1, 14>>
SAL_ST_TR_DECRIPTOR == <<1, 1, 1, 5, 8, 8, 8>>
SAL_ST_CACHE_COHERENCE_DECRIPTOR == <<1, 3, 4, 8>>
SAL_ST_AP_WAKEUP_DECRIPTOR == <<1, 1, 6, 8>>
SalStructs == <<SAL_ST_ENTRY_POINT_DESCRIPTOR, SAL_ST_MEMORY_DESCRIPTOR_ENTRY, SAL_ST_MEMORY_DECRIPTOR,
                SAL_ST_TR_DECRIPTOR, SAL_ST_CACHE_COHERENCE_DECRIPTOR, SAL_ST_AP_WAKEUP_DECRIPTOR>>
PackedSize(type) == FoldLeft(LAMBDA n, f: n + f, 0, SalStructs[type + 1])

\* Where entry k starts, from Entry0 on, and the entry at an offset.  An
\* offset that is no entry's is behind the table.
OffsetOf(entries, k) == FoldLeft(LAMBDA n, e: n + PackedSize(e.type), 0, SubSeq(entries, 1, k - 1))
EntryAt(table, offset) ==
  LET k == SelectInSeq([j \in DOMAIN table.entries |-> OffsetOf(table.entries, j)], LAMBDA o: o = offset)
  IN  IF k = 0 THEN table.behind ELSE table.entries[k]

-----------------------------------------------------------------------------
NullProc == [entry |-> "NULL", gp |-> "NULL"]
SalTable(tables) == LibGetSystemConfigurationTable(GuidValues["SalSystemTableGuid"], tables)

\* GlobalSalProc and GlobalPalProc, NULL unless the table starts with an entry
\* point.
LibInitSalAndPalProc(tables) ==
  LET found == SalTable(tables)
      entry0 == found.table.entries[1]
  IN  IF found.status # "EFI_SUCCESS" \/ entry0.type # SAL_ST_ENTRY_POINT
      THEN [sal |-> NullProc, pal |-> NullProc]
      ELSE [sal |-> [entry |-> entry0.sal, gp |-> entry0.gp], pal |-> [entry |-> entry0.pal, gp |-> entry0.gp]]

\* The memory descriptors behind Entry0, as long as they last; EntryCount is
\* not looked at.
RECURSIVE MemoryOfType(_, _, _)
MemoryOfType(table, memoryType, offset) ==
  LET e == EntryAt(table, offset)
  IN  IF e.type # SAL_ST_MEMORY_DESCRIPTOR THEN <<"EFI_UNSUPPORTED">>
      ELSE IF e.memoryType = memoryType THEN <<"EFI_SUCCESS", e.address>>
      ELSE IF e = table.behind THEN <<"beyond">>
      ELSE MemoryOfType(table, memoryType, offset + PackedSize(SAL_ST_MEMORY_DESCRIPTOR))
SalMemory(tables, memoryType) ==
  LET found == SalTable(tables)
  IN  IF found.status # "EFI_SUCCESS" \/ found.table.entries[1].type # SAL_ST_ENTRY_POINT
      THEN <<"EFI_UNSUPPORTED">>
      ELSE MemoryOfType(found.table, memoryType, PackedSize(SAL_ST_ENTRY_POINT))
LibGetSalIoPortMapping(tables) == SalMemory(tables, SAL_IO_PORT_MAPPING)
LibGetSalIpiBlock(tables) == SalMemory(tables, SAL_SAPIC_IPI_BLOCK)

\* Mutant: a translation register descriptor is taken for 16 bytes.
ShortTrStep(type) == CASE type = SAL_ST_ENTRY_POINT -> 48 [] type = SAL_ST_MEMORY_DESCRIPTOR -> 32 [] OTHER -> 16

\* The bytes LibSearchSalSystemTable passes for an entry.
StepOver(type) ==
  CASE type = SAL_ST_ENTRY_POINT -> 48 [] type \in {SAL_ST_MEMORY_DESCRIPTOR, SAL_ST_TR_USAGE} -> 32
    [] type \in {SAL_ST_PLATFORM_FEATURES, SAL_ST_PTC, SAL_ST_AP_WAKEUP} -> 16
    [] OTHER -> 0

RECURSIVE SearchFrom(_, _, _, _)
SearchFrom(table, type, offset, count) ==
  LET e == EntryAt(table, offset)
  IN  IF count = table.count THEN <<"NULL">>
      ELSE IF e.type = type THEN <<"entry", e>>
      ELSE SearchFrom(table, type, offset + StepOver(e.type), count + 1)
LibSearchSalSystemTable(tables, type) ==
  LET found == SalTable(tables)
  IN  IF found.status # "EFI_SUCCESS" THEN <<"NULL">> ELSE SearchFrom(found.table, type, 0, 0)

LibGetSalWakeupVector(tables) ==
  LET e == LibSearchSalSystemTable(tables, SAL_ST_AP_WAKEUP)
  IN  IF e[1] = "NULL" THEN <<"EFI_UNSUPPORTED", -1>> ELSE <<"EFI_SUCCESS", e[2].vector>>

\* Without an entry point the calls fail with -3 in p0.  The index tells which
\* of PAL's two conventions a function has; 255 is taken for a stacked one.
LibSalProc(procs) == IF procs.sal = NullProc THEN "error" ELSE "SAL"
LibPalProc(procs, index) ==
  IF procs.pal = NullProc THEN "error"
  ELSE IF index \in 255..511 \union 768..1023 THEN "MakeStackedPALCall" ELSE "MakeStaticPALCall"

-----------------------------------------------------------------------------
(* The CRC32 of a table: its header keeps HeaderSize in bytes 12..15 and   *)
(* CRC32 in bytes 16..19 (EFI_TABLE_HEADER), low byte first.               *)

CRCTable == <<
   <<\h0000, \h0000>>, <<\h7707, \h3096>>, <<\hEE0E, \h612C>>, <<\h9909, \h51BA>>,
   <<\h076D, \hC419>>, <<\h706A, \hF48F>>, <<\hE963, \hA535>>, <<\h9E64, \h95A3>>,
   <<\h0EDB, \h8832>>, <<\h79DC, \hB8A4>>, <<\hE0D5, \hE91E>>, <<\h97D2, \hD988>>,
   <<\h09B6, \h4C2B>>, <<\h7EB1, \h7CBD>>, <<\hE7B8, \h2D07>>, <<\h90BF, \h1D91>>,
   <<\h1DB7, \h1064>>, <<\h6AB0, \h20F2>>, <<\hF3B9, \h7148>>, <<\h84BE, \h41DE>>,
   <<\h1ADA, \hD47D>>, <<\h6DDD, \hE4EB>>, <<\hF4D4, \hB551>>, <<\h83D3, \h85C7>>,
   <<\h136C, \h9856>>, <<\h646B, \hA8C0>>, <<\hFD62, \hF97A>>, <<\h8A65, \hC9EC>>,
   <<\h1401, \h5C4F>>, <<\h6306, \h6CD9>>, <<\hFA0F, \h3D63>>, <<\h8D08, \h0DF5>>,
   <<\h3B6E, \h20C8>>, <<\h4C69, \h105E>>, <<\hD560, \h41E4>>, <<\hA267, \h7172>>,
   <<\h3C03, \hE4D1>>, <<\h4B04, \hD447>>, <<\hD20D, \h85FD>>, <<\hA50A, \hB56B>>,
   <<\h35B5, \hA8FA>>, <<\h42B2, \h986C>>, <<\hDBBB, \hC9D6>>, <<\hACBC, \hF940>>,
   <<\h32D8, \h6CE3>>, <<\h45DF, \h5C75>>, <<\hDCD6, \h0DCF>>, <<\hABD1, \h3D59>>,
   <<\h26D9, \h30AC>>, <<\h51DE, \h003A>>, <<\hC8D7, \h5180>>, <<\hBFD0, \h6116>>,
   <<\h21B4, \hF4B5>>, <<\h56B3, \hC423>>, <<\hCFBA, \h9599>>, <<\hB8BD, \hA50F>>,
   <<\h2802, \hB89E>>, <<\h5F05, \h8808>>, <<\hC60C, \hD9B2>>, <<\hB10B, \hE924>>,
   <<\h2F6F, \h7C87>>, <<\h5868, \h4C11>>, <<\hC161, \h1DAB>>, <<\hB666, \h2D3D>>,
   <<\h76DC, \h4190>>, <<\h01DB, \h7106>>, <<\h98D2, \h20BC>>, <<\hEFD5, \h102A>>,
   <<\h71B1, \h8589>>, <<\h06B6, \hB51F>>, <<\h9FBF, \hE4A5>>, <<\hE8B8, \hD433>>,
   <<\h7807, \hC9A2>>, <<\h0F00, \hF934>>, <<\h9609, \hA88E>>, <<\hE10E, \h9818>>,
   <<\h7F6A, \h0DBB>>, <<\h086D, \h3D2D>>, <<\h9164, \h6C97>>, <<\hE663, \h5C01>>,
   <<\h6B6B, \h51F4>>, <<\h1C6C, \h6162>>, <<\h8565, \h30D8>>, <<\hF262, \h004E>>,
   <<\h6C06, \h95ED>>, <<\h1B01, \hA57B>>, <<\h8208, \hF4C1>>, <<\hF50F, \hC457>>,
   <<\h65B0, \hD9C6>>, <<\h12B7, \hE950>>, <<\h8BBE, \hB8EA>>, <<\hFCB9, \h887C>>,
   <<\h62DD, \h1DDF>>, <<\h15DA, \h2D49>>, <<\h8CD3, \h7CF3>>, <<\hFBD4, \h4C65>>,
   <<\h4DB2, \h6158>>, <<\h3AB5, \h51CE>>, <<\hA3BC, \h0074>>, <<\hD4BB, \h30E2>>,
   <<\h4ADF, \hA541>>, <<\h3DD8, \h95D7>>, <<\hA4D1, \hC46D>>, <<\hD3D6, \hF4FB>>,
   <<\h4369, \hE96A>>, <<\h346E, \hD9FC>>, <<\hAD67, \h8846>>, <<\hDA60, \hB8D0>>,
   <<\h4404, \h2D73>>, <<\h3303, \h1DE5>>, <<\hAA0A, \h4C5F>>, <<\hDD0D, \h7CC9>>,
   <<\h5005, \h713C>>, <<\h2702, \h41AA>>, <<\hBE0B, \h1010>>, <<\hC90C, \h2086>>,
   <<\h5768, \hB525>>, <<\h206F, \h85B3>>, <<\hB966, \hD409>>, <<\hCE61, \hE49F>>,
   <<\h5EDE, \hF90E>>, <<\h29D9, \hC998>>, <<\hB0D0, \h9822>>, <<\hC7D7, \hA8B4>>,
   <<\h59B3, \h3D17>>, <<\h2EB4, \h0D81>>, <<\hB7BD, \h5C3B>>, <<\hC0BA, \h6CAD>>,
   <<\hEDB8, \h8320>>, <<\h9ABF, \hB3B6>>, <<\h03B6, \hE20C>>, <<\h74B1, \hD29A>>,
   <<\hEAD5, \h4739>>, <<\h9DD2, \h77AF>>, <<\h04DB, \h2615>>, <<\h73DC, \h1683>>,
   <<\hE363, \h0B12>>, <<\h9464, \h3B84>>, <<\h0D6D, \h6A3E>>, <<\h7A6A, \h5AA8>>,
   <<\hE40E, \hCF0B>>, <<\h9309, \hFF9D>>, <<\h0A00, \hAE27>>, <<\h7D07, \h9EB1>>,
   <<\hF00F, \h9344>>, <<\h8708, \hA3D2>>, <<\h1E01, \hF268>>, <<\h6906, \hC2FE>>,
   <<\hF762, \h575D>>, <<\h8065, \h67CB>>, <<\h196C, \h3671>>, <<\h6E6B, \h06E7>>,
   <<\hFED4, \h1B76>>, <<\h89D3, \h2BE0>>, <<\h10DA, \h7A5A>>, <<\h67DD, \h4ACC>>,
   <<\hF9B9, \hDF6F>>, <<\h8EBE, \hEFF9>>, <<\h17B7, \hBE43>>, <<\h60B0, \h8ED5>>,
   <<\hD6D6, \hA3E8>>, <<\hA1D1, \h937E>>, <<\h38D8, \hC2C4>>, <<\h4FDF, \hF252>>,
   <<\hD1BB, \h67F1>>, <<\hA6BC, \h5767>>, <<\h3FB5, \h06DD>>, <<\h48B2, \h364B>>,
   <<\hD80D, \h2BDA>>, <<\hAF0A, \h1B4C>>, <<\h3603, \h4AF6>>, <<\h4104, \h7A60>>,
   <<\hDF60, \hEFC3>>, <<\hA867, \hDF55>>, <<\h316E, \h8EEF>>, <<\h4669, \hBE79>>,
   <<\hCB61, \hB38C>>, <<\hBC66, \h831A>>, <<\h256F, \hD2A0>>, <<\h5268, \hE236>>,
   <<\hCC0C, \h7795>>, <<\hBB0B, \h4703>>, <<\h2202, \h16B9>>, <<\h5505, \h262F>>,
   <<\hC5BA, \h3BBE>>, <<\hB2BD, \h0B28>>, <<\h2BB4, \h5A92>>, <<\h5CB3, \h6A04>>,
   <<\hC2D7, \hFFA7>>, <<\hB5D0, \hCF31>>, <<\h2CD9, \h9E8B>>, <<\h5BDE, \hAE1D>>,
   <<\h9B64, \hC2B0>>, <<\hEC63, \hF226>>, <<\h756A, \hA39C>>, <<\h026D, \h930A>>,
   <<\h9C09, \h06A9>>, <<\hEB0E, \h363F>>, <<\h7207, \h6785>>, <<\h0500, \h5713>>,
   <<\h95BF, \h4A82>>, <<\hE2B8, \h7A14>>, <<\h7BB1, \h2BAE>>, <<\h0CB6, \h1B38>>,
   <<\h92D2, \h8E9B>>, <<\hE5D5, \hBE0D>>, <<\h7CDC, \hEFB7>>, <<\h0BDB, \hDF21>>,
   <<\h86D3, \hD2D4>>, <<\hF1D4, \hE242>>, <<\h68DD, \hB3F8>>, <<\h1FDA, \h836E>>,
   <<\h81BE, \h16CD>>, <<\hF6B9, \h265B>>, <<\h6FB0, \h77E1>>, <<\h18B7, \h4777>>,
   <<\h8808, \h5AE6>>, <<\hFF0F, \h6A70>>, <<\h6606, \h3BCA>>, <<\h1101, \h0B5C>>,
   <<\h8F65, \h9EFF>>, <<\hF862, \hAE69>>, <<\h616B, \hFFD3>>, <<\h166C, \hCF45>>,
   <<\hA00A, \hE278>>, <<\hD70D, \hD2EE>>, <<\h4E04, \h8354>>, <<\h3903, \hB3C2>>,
   <<\hA767, \h2661>>, <<\hD060, \h16F7>>, <<\h4969, \h474D>>, <<\h3E6E, \h77DB>>,
   <<\hAED1, \h6A4A>>, <<\hD9D6, \h5ADC>>, <<\h40DF, \h0B66>>, <<\h37D8, \h3BF0>>,
   <<\hA9BC, \hAE53>>, <<\hDEBB, \h9EC5>>, <<\h47B2, \hCF7F>>, <<\h30B5, \hFFE9>>,
   <<\hBDBD, \hF21C>>, <<\hCABA, \hC28A>>, <<\h53B3, \h9330>>, <<\h24B4, \hA3A6>>,
   <<\hBAD0, \h3605>>, <<\hCDD7, \h0693>>, <<\h54DE, \h5729>>, <<\h23D9, \h67BF>>,
   <<\hB366, \h7A2E>>, <<\hC461, \h4AB8>>, <<\h5D68, \h1B02>>, <<\h2A6F, \h2B94>>,
   <<\hB40B, \hBE37>>, <<\hC30C, \h8EA1>>, <<\h5A05, \hDF1B>>, <<\h2D02, \hEF8D>> >>

\* Crc is a UINTN whose upper half, where it has one, stays 0.
CalculateCrc(bytes, size) ==
  XorWord(AllOnes,
          FoldLeft(LAMBDA crc, b: XorWord(Shr(crc, 8), CRCTable[((crc[2] % 256) ^^ b) + 1]),
                   AllOnes, SubSeq(bytes, 1, size)))

\* EFI_TABLE_HEADER.
HeaderBytes == 24
SizeAt == 13
CrcAt == 17
HeaderSize(table) == FoldRight(LAMBDA b, n: 256 * n + b, SubSeq(table, SizeAt, SizeAt + 3), 0)
StoredCrc(table) == WordAt(table, CrcAt)
WithCrc(table, crc) ==
  [i \in DOMAIN table |-> IF i \in CrcAt..(CrcAt + 3) THEN BytesOf(crc)[i - CrcAt + 1] ELSE table[i]]

\* Mutant: the old checksum is summed up with the table.
SetCrcUncleared(size, table) == WithCrc(table, CalculateCrc(table, size))

SetCrcAltSize(size, table) ==
  LET cleared == WithCrc(table, Zero) IN WithCrc(cleared, CalculateCrc(cleared, size))
SetCrc(table) == SetCrcAltSize(HeaderSize(table), table)

\* The stored value is taken out for the computation and put back.
CheckCrcAltSize(maxSize, size, table) ==
  IF size = 0 \/ (maxSize # 0 /\ size > maxSize) THEN [ok |-> FALSE, table |-> table]
  ELSE LET cleared == WithCrc(table, Zero)
           crc == CalculateCrc(cleared, size)
       IN [ok |-> StoredCrc(table) = crc, table |-> WithCrc(cleared, StoredCrc(table))]
CheckCrc(maxSize, table) == CheckCrcAltSize(maxSize, HeaderSize(table), table)

-----------------------------------------------------------------------------
\* What the checksum has to be, for the properties: the division of the bits
\* by the reflected polynomial 0xEDB88320.
Polynomial == <<\hEDB8, \h8320>>
RECURSIVE Reduced(_, _)
Reduced(w, bits) ==
  IF bits = 0 THEN w
  ELSE Reduced(IF w[2] % 2 = 1 THEN XorWord(Shr(w, 1), Polynomial) ELSE Shr(w, 1), bits - 1)

=============================================================================

---------------------------- MODULE MC_HushCodec ----------------------------
(***************************************************************************)
(* Small inputs for HushCodec.  Codes are kept below 2^31, the largest     *)
(* integer TLC represents; the codecs only move their bytes.               *)
(***************************************************************************)
EXTENDS HushCodec

\* 0x2BCD0123: the challenge with its top bit cleared.
MC_Challenge == 734855459
\* 0x5EADBEEF: four distinct non-zero bytes.
MC_ProxCodes == {1588444911}
\* A key id with two distinct non-zero bytes (0x0102).
MC_KeyIds == {258}
MC_Keys == {1, 2}
\* A key of kAlarmHush_MinKeySize bytes and a short one.
MC_KeySizes == {16, 8}
MC_Results == {0, 1}
\* Up to kMaxNumAlarmConditions conditions, and one more.
MC_CondLists == {<<>>, <<17>>, <<17, 52, 17>>, <<17, 52, 17, 52>>}
\* A buffer too small for any message, and one large enough.
MC_BufSizes == {4, 64}
\* A length beyond the capacity, and a truncated list.
MC_RawResponses == {<<0, 9>>, <<1, 2, 17>>}
=============================================================================

------------------------------ MODULE HushCodec ------------------------------
(***************************************************************************)
(* The hush message codecs of WeaveAlarm.cpp over byte sequences:          *)
(* AlarmHushRequest (sign, pack, parse), AlarmHushSignature::operator==,   *)
(* and AlarmHushResponse (init, pack, parse).  A remote builds and signs a *)
(* request as MockAlarmRemote::HushAlarm does, the originator builds a     *)
(* response as SendHushResponse does, and each side parses a prefix of     *)
(* what the other packed, or a packet from another node (RawResponses).    *)
(***************************************************************************)
EXTENDS AlarmMessage, Integers, Sequences

CONSTANTS Challenge,     \* the hush challenge code, 0xABCD0123
          ProxCodes,     \* proximity verification codes a remote signs
          KeyIds,        \* key ids a request is signed under
          Keys,          \* hush keys, each named by a number
          KeySizes,      \* the aKeySize a caller passes to sign
          Results,       \* hush result codes
          CondLists,     \* condition lists the originator reports
          BufSizes,      \* AvailableDataLength of a fresh packet buffer
          RawResponses   \* packets another node sends as a hush response

MaxUint31 == 2147483647
ASSUME /\ ProxCodes \subseteq 0..MaxUint31 /\ KeyIds \subseteq 0..65535
       /\ Results \subseteq Byte /\ CondLists \subseteq Seq(Byte)

VARIABLES req,        \* the AlarmHushRequest the remote built
          reqWith,    \* the code, key id, key and key size it was signed with
          reqPkt,     \* the bytes of the last request packed
          packedWith, \* reqWith of the request reqPkt was packed from
          rxReqLen,   \* how many bytes of reqPkt the originator got
          rxReq,      \* the request HandleHushRequest parsed
          rxReqErr,   \* what AlarmHushRequest::parse returned
          resp,       \* the AlarmHushResponse the originator built
          respPkt,    \* the bytes of the last response packed
          packedResp, \* the response respPkt was packed from
          rxLen,      \* how many bytes of respPkt the remote got, or -1 for a raw packet
          rxResp,     \* the response HandleHushResponse parsed
          rxRespErr   \* what AlarmHushResponse::parse returned

vars == <<req, reqWith, reqPkt, packedWith, rxReqLen, rxReq, rxReqErr,
          resp, respPkt, packedResp, rxLen, rxResp, rxRespErr>>

\* Sizes from WeaveAlarm.h.
kDigestLength == 20
kAlarmHush_MinKeySize == 16
kPayloadSizeWithoutConditions == 2
kHushRequestSize == 4 + 2 + kDigestLength
kAlarmUpdateStatus_Success == 0

\* LittleEndian::Write and Read of an n-byte integer.
LE(x, n) == [k \in 1..n |-> (x \div 2^(8 * (k - 1))) % 256]
ReadLE(s, at, n) == LET RECURSIVE Acc(_)
                        Acc(k) == IF k = 0 THEN 0 ELSE s[at + k - 1] * 2^(8 * (k - 1)) + Acc(k - 1)
                    IN  Acc(n)

(* HMAC-SHA1 over the challenge and the proximity code with a key: a       *)
(* 20-byte digest determined by its inputs.                                *)
HmacSha1(key, ch, p) == [i \in 1..kDigestLength |-> (key * 7 + (ch % 256) * 13 + (p % 256) * 3 + i) % 256]

\* AlarmHushSignature: the constructor leaves it unsigned.
NoSignature == [signed |-> FALSE, keyId |-> 0, hash |-> [i \in 1..kDigestLength |-> 0]]
NewRequest == [prox |-> 0, sig |-> NoSignature]

\* AlarmHushSignature::operator==: both signed, same key id, same digest.
SignatureEquals(a, b) == a.signed /\ b.signed /\ a.keyId = b.keyId /\ a.hash = b.hash

\* AlarmHushRequest::sign: a key shorter than kAlarmHush_MinKeySize is refused.
Sign(r, ch, keyId, key, keySize) ==
    IF keySize < kAlarmHush_MinKeySize THEN [err |-> "INVALID_ARGUMENT", req |-> r]
    ELSE [err |-> "ok",
          req |-> [r EXCEPT !.sig = [signed |-> TRUE, keyId |-> keyId,
                                     hash |-> HmacSha1(key, ch, r.prox)]]]

\* Mutant: the key id written most significant byte first.
PackRequest_KeyIdBE(r, avail) ==
    IF avail < kHushRequestSize THEN [err |-> "BUFFER_TOO_SMALL"]
    ELSE IF ~r.sig.signed THEN [err |-> "INCORRECT_STATE"]
    ELSE [err |-> "ok", bytes |-> LE(r.prox, 4) \o <<r.sig.keyId \div 256, r.sig.keyId % 256>>
                                  \o r.sig.hash]

\* AlarmHushRequest::pack: code, key id, digest.
PackRequest(r, avail) ==
    IF avail < kHushRequestSize THEN [err |-> "BUFFER_TOO_SMALL"]
    ELSE IF ~r.sig.signed THEN [err |-> "INCORRECT_STATE"]
    ELSE [err |-> "ok", bytes |-> LE(r.prox, 4) \o LE(r.sig.keyId, 2) \o r.sig.hash]

\* AlarmHushRequest::parse: the result is written only when the whole
\* request is there, and is then signed.
ParseRequest(s, r) ==
    IF Len(s) < kHushRequestSize THEN [err |-> "MESSAGE_INCOMPLETE", res |-> r]
    ELSE [err |-> "ok",
          res |-> [prox |-> ReadLE(s, 1, 4),
                   sig |-> [signed |-> TRUE, keyId |-> ReadLE(s, 5, 2),
                            hash |-> SubSeq(s, 7, 6 + kDigestLength)]]]

\* AlarmHushResponse's constructor.
NewResponse == [result |-> kAlarmUpdateStatus_Success, len |-> 0, conds |-> [i \in Slots |-> 0]]
RespConds(r) == [k \in 1..r.len |-> r.conds[k - 1]]

\* Mutant: init without its capacity check.
InitResponse_NoCheck(r, res, c) ==
    [err |-> "ok",
     resp |-> [result |-> res, len |-> Len(c),
               conds |-> [i \in Slots |-> IF i < Len(c) THEN c[i + 1] ELSE r.conds[i]]]]

\* AlarmHushResponse::init with the conditions c.
InitResponse(r, res, c) ==
    IF Len(c) > kMaxNumAlarmConditions THEN [err |-> "BUFFER_TOO_SMALL", resp |-> r]
    ELSE [err |-> "ok",
          resp |-> [result |-> res, len |-> Len(c),
                    conds |-> [i \in Slots |-> IF i < Len(c) THEN c[i + 1] ELSE r.conds[i]]]]

\* AlarmHushResponse::pack: the buffer is checked before the length.
PackResponse(r, avail) ==
    IF avail < kPayloadSizeWithoutConditions + r.len THEN [err |-> "BUFFER_TOO_SMALL"]
    ELSE IF r.len > kMaxNumAlarmConditions THEN [err |-> "INCORRECT_STATE"]
    ELSE [err |-> "ok", bytes |-> <<r.result, r.len>> \o RespConds(r)]

\* Mutant: a response listing kMaxNumAlarmConditions conditions is refused.
ParseResponse_FullRefused(s, r) ==
    LET n  == s[2]
        r1 == [r EXCEPT !.result = s[1], !.len = n]
    IN  IF Len(s) < kPayloadSizeWithoutConditions THEN [err |-> "MESSAGE_INCOMPLETE", res |-> r]
        ELSE IF n >= kMaxNumAlarmConditions THEN [err |-> "INVALID_MESSAGE_LENGTH", res |-> r1]
        ELSE IF Len(s) < kPayloadSizeWithoutConditions + n
        THEN [err |-> "MESSAGE_INCOMPLETE", res |-> r1]
        ELSE [err |-> "ok",
              res |-> [r1 EXCEPT !.conds = [i \in Slots |-> IF i < n THEN s[3 + i] ELSE @[i]]]]

(* AlarmHushResponse::parse: result and length are written as they are    *)
(* read, before the length is checked against the capacity and the data.  *)
ParseResponse(s, r) ==
    LET n  == s[2]
        r1 == [r EXCEPT !.result = s[1], !.len = n]
    IN  IF Len(s) < kPayloadSizeWithoutConditions THEN [err |-> "MESSAGE_INCOMPLETE", res |-> r]
        ELSE IF n > kMaxNumAlarmConditions THEN [err |-> "INVALID_MESSAGE_LENGTH", res |-> r1]
        ELSE IF Len(s) < kPayloadSizeWithoutConditions + n
        THEN [err |-> "MESSAGE_INCOMPLETE", res |-> r1]
        ELSE [err |-> "ok",
              res |-> [r1 EXCEPT !.conds = [i \in Slots |-> IF i < n THEN s[3 + i] ELSE @[i]]]]

-----------------------------------------------------------------------------
(* Actions.                                                                *)

NoInputs == [prox |-> 0, keyId |-> 0, key |-> 0, size |-> 0]

Init ==
    /\ req = NewRequest /\ reqWith = NoInputs
    /\ reqPkt = <<>> /\ packedWith = NoInputs
    /\ rxReqLen = 0 /\ rxReq = NewRequest /\ rxReqErr = "none"
    /\ resp = NewResponse /\ respPkt = <<>> /\ packedResp = NewResponse
    /\ rxLen = 0 /\ rxResp = NewResponse /\ rxRespErr = "none"

ReqVars == <<req, reqWith, reqPkt, packedWith, rxReqLen, rxReq, rxReqErr>>
RespVars == <<resp, respPkt, packedResp, rxLen, rxResp, rxRespErr>>

\* MockAlarmRemote::HushAlarm builds a request with code p and signs it.
BuildRequest(p, kid, key, size) ==
    /\ req' = Sign([NewRequest EXCEPT !.prox = p], Challenge, kid, key, size).req
    /\ reqWith' = [prox |-> p, keyId |-> kid, key |-> key, size |-> size]
    /\ UNCHANGED <<reqPkt, packedWith, rxReqLen, rxReq, rxReqErr>> /\ UNCHANGED RespVars

\* ... and packs it into a fresh buffer (nothing is sent if pack fails).
SendRequest(avail) ==
    LET p == PackRequest(req, avail)
    IN  /\ reqPkt' = IF p.err = "ok" THEN p.bytes ELSE <<>>
        /\ packedWith' = reqWith
        /\ rxReqLen' = 0 /\ rxReq' = NewRequest /\ rxReqErr' = "none"
        /\ UNCHANGED <<req, reqWith>> /\ UNCHANGED RespVars

\* HandleHushRequest parses the first k bytes into a fresh request.
ReceiveRequest(k) ==
    LET p == ParseRequest(SubSeq(reqPkt, 1, k), NewRequest)
    IN  /\ rxReqLen' = k /\ rxReq' = p.res /\ rxReqErr' = p.err
        /\ UNCHANGED <<req, reqWith, reqPkt, packedWith>> /\ UNCHANGED RespVars

\* SendHushResponse initialises a fresh response with result res and the
\* conditions c ...
BuildResponse(res, c) ==
    /\ resp' = InitResponse(NewResponse, res, c).resp
    /\ UNCHANGED <<respPkt, packedResp, rxLen, rxResp, rxRespErr>> /\ UNCHANGED ReqVars

\* ... and packs it into a fresh buffer.
SendResponse(avail) ==
    LET p == PackResponse(resp, avail)
    IN  /\ respPkt' = IF p.err = "ok" THEN p.bytes ELSE <<>>
        /\ packedResp' = resp
        /\ rxLen' = 0 /\ rxResp' = NewResponse /\ rxRespErr' = "none"
        /\ UNCHANGED resp /\ UNCHANGED ReqVars

\* MockAlarmRemote::HandleHushResponse parses the first k bytes ...
ReceiveResponse(k) ==
    LET p == ParseResponse(SubSeq(respPkt, 1, k), NewResponse)
    IN  /\ rxLen' = k /\ rxResp' = p.res /\ rxRespErr' = p.err
        /\ UNCHANGED <<resp, respPkt, packedResp>> /\ UNCHANGED ReqVars

\* ... or a packet another node sent on the exchange.
ReceiveRawResponse(s) ==
    LET p == ParseResponse(s, NewResponse)
    IN  /\ rxLen' = -1 /\ rxResp' = p.res /\ rxRespErr' = p.err
        /\ UNCHANGED <<resp, respPkt, packedResp>> /\ UNCHANGED ReqVars

\* The request codec: the remote builds, the originator parses.
RequestNext ==
    \/ \E p \in ProxCodes, i \in KeyIds, k \in Keys, z \in KeySizes : BuildRequest(p, i, k, z)
    \/ \E b \in BufSizes : SendRequest(b)
    \/ \E k \in 0..Len(reqPkt) : ReceiveRequest(k)

\* The response codec: the originator builds, the remote parses.
ResponseNext ==
    \/ \E r \in Results, c \in CondLists : BuildResponse(r, c)
    \/ \E b \in BufSizes : SendResponse(b)
    \/ \E k \in 0..Len(respPkt) : ReceiveResponse(k)
    \/ \E s \in RawResponses : ReceiveRawResponse(s)

Next == RequestNext \/ ResponseNext

Spec == Init /\ [][Next]_vars
-----------------------------------------------------------------------------
(* Properties.                                                             *)

Request == [prox : 0..MaxUint31,
            sig : [signed : BOOLEAN, keyId : 0..65535, hash : [1..kDigestLength -> Byte]]]
Response == [result : Byte, len : 0..kMaxNumAlarmConditions, conds : [Slots -> Byte]]

TypeOK ==
    /\ req \in Request /\ rxReq \in Request
    /\ resp \in Response /\ packedResp \in Response
    /\ reqPkt \in Seq(Byte) /\ respPkt \in Seq(Byte)
    /\ rxRespErr \in {"none", "ok", "MESSAGE_INCOMPLETE", "INVALID_MESSAGE_LENGTH"}

(* Spec 8 item 3 and the check of MockAlarmOriginator::OnHushRequest: a    *)
(* request parses only when all of it arrived, and then carries the packed *)
(* proximity code and a signature equal (operator==) to the originator's   *)
(* own challenge signed with the same code, key id and key.                *)
RequestRoundTrip ==
    rxReqErr # "none" =>
        /\ (rxReqErr = "ok") <=> (rxReqLen = kHushRequestSize)
        /\ rxReqErr = "ok" =>
             LET w == packedWith
                 challenge == Sign([NewRequest EXCEPT !.prox = w.prox], Challenge, w.keyId, w.key, w.size)
             IN  /\ rxReq.prox = w.prox
                 /\ SignatureEquals(rxReq.sig, challenge.req.sig)

(* Spec 4.2 (AlarmHushResponse::pack, parse): parsing a prefix of a packed *)
(* response fails exactly when conditions are missing, and otherwise gives *)
(* back the result and every condition listed.                             *)
ResponseRoundTrip ==
    (rxRespErr # "none" /\ rxLen >= 0) =>
        /\ (rxRespErr = "ok") <=> (rxLen >= kPayloadSizeWithoutConditions + packedResp.len)
        /\ rxRespErr = "ok" =>
             rxResp.result = packedResp.result /\ RespConds(rxResp) = RespConds(packedResp)
====

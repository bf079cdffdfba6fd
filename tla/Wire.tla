-------------------------------- MODULE Wire --------------------------------
(***************************************************************************)
(* A message on its way: the sender marshals it, the transport may cut the *)
(* bytes short or a newer sender may have added fields, and the receiver   *)
(* unmarshals them field by field; a message of the Msg service then goes  *)
(* through UnpackInterfaces, GetSigners and the message server's own       *)
(* unpacking, and any message may be marshalled again, as the keeper does  *)
(* when it stores what it received.                                        *)
(*                                                                         *)
(* An embedded message is its encoding: merging into it appends bytes, and *)
(* its own Unmarshal refuses the byte Corrupt.  The last byte of an Any's  *)
(* encoding is the type it holds (0 stands for no type URL).  Bytes fields *)
(* that are nil and that are empty are one.                                *)
(***************************************************************************)
EXTENDS TxMessages, LightClientMessages

CONSTANTS
    Kinds,               \* the messages sent
    RawKinds,            \* the messages whose decoder gets arbitrary bytes
    Batches(_),          \* the messages of a kind a buffer may be made of
    RawBuffers,          \* the arbitrary buffers
    UnknownFields,       \* encodings of fields no decoder knows
    MaxCut               \* buffers are cut short up to here, and by one byte

VARIABLES
    kind,       \* the type of the message
    sent,       \* the messages marshalled into the buffer, if any
    intact,     \* whether the buffer arrived whole
    data,       \* dAtA
    index,      \* iNdEx
    message,    \* m, as far as Unmarshal has filled it
    cached,     \* the Any fields whose cached value is set
    offset,     \* iNdEx of skipTx, from the start of the field it skips
    depth,      \* its depth: the groups it is in
    iterations, \* how often the loops of Unmarshal and skipTx ran (a history variable)
    round,      \* 2 once the received message was marshalled again
    status      \* where the message is

skipVars == <<offset, depth>>
vars == <<kind, sent, intact, data, index, message, skipVars, iterations, cached, round, status>>

Corrupt           == 255
NoType            == 0
ClientStateAny    == 1
ConsensusStateAny == 2

Structs == [t \in DOMAIN TxStructs \cup DOMAIN LightClientStructs |->
              IF t \in DOMAIN TxStructs THEN TxStructs[t] ELSE LightClientStructs[t]]
Cases   == [t \in DOMAIN Structs |->
              IF t \in DOMAIN TxCases THEN TxCases[t] ELSE LightClientCases[t]]

Zero(t) == [f \in DOMAIN Structs[t] |->
              IF Structs[t][f] \in {"int32", "uint32"} THEN 0 ELSE <<>>]

\* The values of a field, with slices of at most n bytes.
Byte == 0..255

Slices(n) == {b \in Seq(Byte) : Len(b) <= n}

FieldValues(type, n) ==
    CASE type \in {"string", "bytes", "message"} -> Slices(n)
      [] type = "pointer"                        -> {p \in Seq(Slices(n)) : Len(p) <= 1}
      [] type = "repeated"                       -> Seq(Slices(n))
      [] type = "int32"                          -> -Pow2[HalfBits - 1]..(Pow2[HalfBits - 1] - 1)
      [] type = "uint32"                         -> 0..(Pow2[HalfBits] - 1)

IsMessage(t, m, n) ==
    /\ m = [f \in DOMAIN Structs[t] |-> m[f]]
    /\ \A f \in DOMAIN Structs[t] : m[f] \in FieldValues(Structs[t][f], n)

\* Does the field's own Unmarshal take the bytes?
Decodes(b) == \A i \in DOMAIN b : b[i] # Corrupt

\* Every embedded message of m is one that its own Unmarshal takes.
Decodable(t, m) ==
    \A n \in DOMAIN Cases[t] :
        LET v == m[Cases[t][n][2]] IN
        /\ Cases[t][n][1] = "merge" => Decodes(v)
        /\ Cases[t][n][1] \in {"allocate", "appendMessage"} => \A i \in DOMAIN v : Decodes(v[i])

FieldNumber(tag) == Signed(tag \div 8, HalfBits)

\* What is sent are messages that fit into memory: the length of a slice is an int.  A
\* newer sender's fields are encodings of fields that no message has.
ASSUME WireAssumption ==
    /\ Kinds \subseteq DOMAIN Structs /\ RawKinds \subseteq DOMAIN Structs
    /\ RawBuffers \subseteq Seq(Byte) /\ UnknownFields \subseteq Seq(Byte)
    /\ MaxCut \in Nat
    /\ \A t \in Kinds : \A batch \in Batches(t) :
          /\ Len(batch) \in Nat /\ batch = [i \in 1..Len(batch) |-> batch[i]]
          /\ \A i \in DOMAIN batch : IsMessage(t, batch[i], MaxInt) /\ Decodable(t, batch[i])
    /\ \A u \in UnknownFields :
          LET tag == ReadVarint(u, 0) IN
          /\ Skips(u) /\ FieldNumber(tag.val) > 0
          /\ \A t \in Kinds : FieldNumber(tag.val) \notin DOMAIN Cases[t]

-----------------------------------------------------------------------------
(* Marshal: a buffer of Size() bytes is filled from its end, and the first *)
(* n bytes are returned, n being the number of bytes written.              *)

Written(t, m) == IF t \in DOMAIN TxStructs THEN MarshalTx(t, m) ELSE MarshalLightClient(t, m)
Size(t, m)    == IF t \in DOMAIN TxStructs THEN SizeTx(t, m) ELSE SizeLightClient(t, m)

Fits(t, m) == Len(Written(t, m)) <= Size(t, m)

Marshal(t, m) ==
    LET w   == Written(t, m)
        gap == [i \in 1..(Size(t, m) - Len(w)) |-> 0]
    IN  SubSeq(gap \o w, 1, Len(w))

MarshalBatch ==
    /\ status = "sending"
    /\ IF \A i \in DOMAIN sent : Fits(kind, sent[i])
       THEN /\ data' = FlattenSeq([i \in DOMAIN sent |-> Marshal(kind, sent[i])])
            /\ status' = "sent"
       ELSE status' = "panic" /\ UNCHANGED data
    /\ UNCHANGED <<kind, sent, intact, index, message, skipVars, iterations, cached, round>>

Receive(d) ==
    /\ data' = d
    /\ status' = "decoding"
    /\ UNCHANGED <<kind, sent, index, message, skipVars, iterations, cached, round>>

Deliver == status = "sent" /\ Receive(data) /\ UNCHANGED intact

Cut ==
    /\ status = "sent" /\ Len(sent) = 1
    /\ \E n \in 0..(Len(data) - 1) :
          (n <= MaxCut \/ n = Len(data) - 1) /\ Receive(SubSeq(data, 1, n))
    /\ intact' = FALSE

Extend ==
    /\ status = "sent" /\ Len(sent) = 1
    /\ \E u \in UnknownFields : Receive(u \o data) \/ Receive(data \o u)
    /\ UNCHANGED intact

-----------------------------------------------------------------------------
(* Unmarshal: one step for each field of the buffer. *)

\* What a case of the switch does to the field with the value b.
Store(how, old, b) ==
    CASE how = "set"                          -> b
      [] how = "merge"                        -> old \o b
      [] how = "allocate"                     -> <<IF old = <<>> THEN b ELSE old[1] \o b>>
      [] how \in {"append", "appendMessage"}  -> Append(old, b)

\* The slice dAtA[i:j] panics unless it is within the buffer.
Sliceable(d, i, j) == 0 <= i /\ i <= j /\ j <= Len(d)

Refuse(s) == status' = s /\ UNCHANGED <<index, message>>

ReadDelimited(how, field, at) ==
    LET r     == ReadLength(data, at)
        value == SubSeq(data, r.next + 1, r.val)
    IN  IF r.err # "none" \/ r.val > Len(data)
        THEN Refuse("malformed")
        ELSE IF ~Sliceable(data, r.next, r.val)
        THEN Refuse("panic")
        ELSE IF how \in {"merge", "allocate", "appendMessage"} /\ ~Decodes(value)
        THEN Refuse("malformed")
        ELSE /\ message' = [message EXCEPT ![field] = Store(how, @, value)]
             /\ index' = r.val
             /\ UNCHANGED status

ReadNumber(field, at) ==
    LET r == ReadVarint(data, at)
        v == IF Structs[kind][field] = "int32" THEN Signed(r.val, HalfBits)
                                               ELSE r.val % Pow2[HalfBits]
    IN  IF r.err # "none"
        THEN Refuse("malformed")
        ELSE /\ message' = [message EXCEPT ![field] = v]
             /\ index' = r.next
             /\ UNCHANGED status

\* A field number the switch does not know: skipTx is called on the rest of the buffer,
\* from the field's tag on.
SkipUnknown ==
    /\ status' = "skipping" /\ offset' = 0 /\ depth' = 0
    /\ UNCHANGED <<index, message>>

UnmarshalField ==
    /\ status = "decoding" /\ index < Len(data)
    /\ LET tag      == ReadVarint(data, index)
           fieldNum == FieldNumber(tag.val)
           wireType == tag.val % 8
           case     == Cases[kind][fieldNum]
       IN  IF tag.err # "none" \/ wireType = 4 \/ fieldNum <= 0
           THEN Refuse("malformed") /\ UNCHANGED skipVars
           ELSE IF fieldNum \notin DOMAIN Cases[kind]
           THEN SkipUnknown
           ELSE IF wireType # (IF case[1] = "varint" THEN 0 ELSE 2)
           THEN Refuse("malformed") /\ UNCHANGED skipVars
           ELSE IF case[1] = "varint"
           THEN ReadNumber(case[2], tag.next) /\ UNCHANGED skipVars
           ELSE ReadDelimited(case[1], case[2], tag.next) /\ UNCHANGED skipVars
    /\ iterations' = iterations + 1
    /\ UNCHANGED <<kind, sent, intact, data, cached, round>>

\* What Unmarshal does with the n bytes that skipTx returns, if it forgets to add them.
SkippedStays(n) == status' = "decoding" /\ UNCHANGED index

Skipped(n) ==
    LET post == Advance(index, n)
    IN  IF post.err # "none" \/ post.val > Len(data)
        THEN status' = "malformed" /\ UNCHANGED index
        ELSE status' = "decoding" /\ index' = post.val

\* One run of skipTx's loop.
SkipField ==
    /\ status = "skipping" /\ index + offset < Len(data)
    /\ LET run == SkipOnce(SubSeq(data, index + 1, Len(data)), offset, depth)
       IN  IF run.err # "none"
           THEN status' = "malformed" /\ UNCHANGED <<index, skipVars>>
           ELSE /\ offset' = run.next /\ depth' = run.val
                /\ IF run.val = 0 THEN Skipped(run.next) ELSE UNCHANGED <<index, status>>
    /\ iterations' = iterations + 1
    /\ UNCHANGED <<kind, sent, intact, data, message, cached, round>>

\* The buffer ends within a group, or within the field before.
SkipEnd ==
    /\ status = "skipping" /\ index + offset >= Len(data)
    /\ status' = "malformed"
    /\ UNCHANGED <<kind, sent, intact, data, index, message, skipVars, iterations, cached, round>>

UnmarshalEnd ==
    /\ status = "decoding" /\ index >= Len(data)
    /\ status' = IF index > Len(data) THEN "malformed" ELSE "decoded"
    /\ UNCHANGED <<kind, sent, intact, data, index, message, skipVars, iterations, cached, round>>

-----------------------------------------------------------------------------
(* What happens to a decoded message. *)

\* UnpackInterfaces of each message: the Any fields it unpacks, in its order,
\* and the interface it unpacks them as.
UnpackMsgProxyClientState ==
    <<<<"ClientState", ClientStateAny>>, <<"ConsensusState", ConsensusStateAny>>>>

\* An UnpackInterfaces that forgets the proxy's client state.
UnpackMsgProxyConnectionOpenTryTwo ==
    <<<<"DownstreamClientState", ClientStateAny>>,
      <<"DownstreamConsensusState", ConsensusStateAny>>>>

UnpackMsgProxyConnectionOpenTry ==
    <<<<"DownstreamClientState", ClientStateAny>>,
      <<"DownstreamConsensusState", ConsensusStateAny>>,
      <<"ProxyClientState", ClientStateAny>>>>

UnpackMsgProxyConnectionOpenAck ==
    <<<<"DownstreamClientState", ClientStateAny>>,
      <<"DownstreamConsensusState", ConsensusStateAny>>,
      <<"ProxyClientState", ClientStateAny>>>>

UnpackMultivClientState   == <<<<"UnderlyingClientState", ClientStateAny>>>>
UnpackProxyClientState    == <<<<"ProxyClientState", ClientStateAny>>>>
UnpackProxyConsensusState == <<<<"ProxyConsensusState", ConsensusStateAny>>>>

Unpacks(t) ==
    CASE t = "MsgProxyClientState"        -> UnpackMsgProxyClientState
      [] t = "MsgProxyConnectionOpenTry"  -> UnpackMsgProxyConnectionOpenTry
      [] t = "MsgProxyConnectionOpenAck"  -> UnpackMsgProxyConnectionOpenAck
      [] t = "MultivClientState"          -> UnpackMultivClientState
      [] t = "ProxyClientState"           -> UnpackProxyClientState
      [] t = "ProxyConsensusState"        -> UnpackProxyConsensusState
      [] OTHER                            -> <<>>

\* What the message server's handler, or the accessor of a light client's
\* state, reads from the cached values.
ServerReads(t) ==
    CASE t = "MsgProxyClientState"   -> {"ClientState", "ConsensusState"}
      [] t \in {"MsgProxyConnectionOpenTry", "MsgProxyConnectionOpenAck"} ->
            {"DownstreamClientState", "DownstreamConsensusState", "ProxyClientState"}
      [] t = "MultivClientState"     -> {"UnderlyingClientState"}
      [] t = "ProxyClientState"      -> {"ProxyClientState"}
      [] t = "ProxyConsensusState"   -> {"ProxyConsensusState"}
      [] OTHER                       -> {}

\* The SDK's UnpackAny: nothing to do for a nil Any or one without type, an
\* error for a type that is not registered for the interface.
TypeOf(p)  == IF p = <<>> \/ p = <<<<>>>> THEN NoType ELSE Last(p[1])

UnpackInterfaces ==
    /\ status = "decoded" /\ round = 1
    /\ LET us == Unpacks(kind)
           ok == \A i \in DOMAIN us : TypeOf(message[us[i][1]]) \in {NoType, us[i][2]}
       IN  /\ status' = IF ok THEN "unpacked" ELSE "refused"
           /\ cached' = IF ok THEN {us[i][1] : i \in {j \in DOMAIN us :
                                        TypeOf(message[us[j][1]]) # NoType}}
                              ELSE {}
    /\ UNCHANGED <<kind, sent, intact, data, index, message, skipVars, iterations, round>>

\* ValidateBasic accepts everything; GetSigners panics on a signer that is no
\* address, which fails the transaction.  Light client states have neither.
GetSigners ==
    /\ status = "unpacked"
    /\ status' = IF "Signer" \in DOMAIN message /\ message.Signer = <<>>
                 THEN "refused" ELSE "authorized"
    /\ UNCHANGED <<kind, sent, intact, data, index, message, skipVars, iterations, cached, round>>

\* The handler unpacks what it reads before it calls the keeper.
Serve ==
    /\ status = "authorized"
    /\ status' = IF ServerReads(kind) \subseteq cached THEN "served" ELSE "unserved"
    /\ UNCHANGED <<kind, sent, intact, data, index, message, skipVars, iterations, cached, round>>

MarshalAgain ==
    /\ status = "decoded" /\ round = 1
    /\ IF Fits(kind, message)
       THEN data' = Marshal(kind, message) /\ status' = "decoding"
       ELSE status' = "panic" /\ UNCHANGED data
    /\ sent' = <<message>> /\ intact' = TRUE /\ round' = 2
    /\ index' = 0 /\ iterations' = 0 /\ message' = Zero(kind)
    /\ UNCHANGED <<kind, cached, skipVars>>

-----------------------------------------------------------------------------

WireInit ==
    /\ index = 0 /\ offset = 0 /\ depth = 0 /\ iterations = 0 /\ cached = {} /\ round = 1 /\ intact = TRUE
    /\ \/ /\ kind \in Kinds /\ sent \in Batches(kind)
          /\ data = <<>> /\ status = "sending"
       \/ /\ kind \in RawKinds /\ sent = <<>>
          /\ data \in RawBuffers /\ status = "decoding"
    /\ message = Zero(kind)

WireNext ==
    \/ MarshalBatch \/ Deliver \/ Cut \/ Extend
    \/ UnmarshalField \/ UnmarshalEnd \/ SkipField \/ SkipEnd
    \/ UnpackInterfaces \/ GetSigners \/ Serve \/ MarshalAgain

WireSpec == WireInit /\ [][WireNext]_vars

-----------------------------------------------------------------------------
(* Properties. *)

\* What the encodings of the messages a and b, one after the other, mean: the
\* later value of a string, of bytes and of a number counts if it was written
\* at all, embedded messages and pointers are merged, and repeated fields are
\* joined.
MergeField(type, a, b) ==
    CASE type \in {"string", "bytes"}     -> IF b = <<>> THEN a ELSE b
      [] type \in {"int32", "uint32"}     -> IF b = 0 THEN a ELSE b
      [] type \in {"message", "repeated"} -> a \o b
      [] type = "pointer"                 -> IF b = <<>> THEN a ELSE <<FlattenSeq(a \o b)>>

Merge(t, a, b) == [f \in DOMAIN Structs[t] |-> MergeField(Structs[t][f], a[f], b[f])]

\* The meaning of the first n messages of a batch.
Merged(t, batch) ==
    LET merged[n \in 0..Len(batch)] ==
            IF n = 0 THEN Zero(t) ELSE Merge(t, merged[n - 1], batch[n])
    IN  merged

Meaning == Merged(kind, sent)[Len(sent)]

\* No buffer makes a codec panic: Size() is never less than what
\* MarshalToSizedBuffer writes into the buffer of that size, and no length
\* that Unmarshal reads (negative, overflowing or beyond the end) takes a
\* slice out of the buffer's bounds.
NeverPanics == status # "panic"

\* A buffer that arrives whole, with or without fields of a newer sender, is
\* accepted and means what was marshalled into it: Marshal, Size and Unmarshal
\* of every message agree on tags, order, widths and the treatment of absent
\* fields.  In round 2 this says that what Unmarshal accepted, from any bytes,
\* survives being stored and read again.
DecodedAsSent ==
    sent # <<>> /\ intact =>
        /\ status # "malformed"
        /\ status \in {"decoded", "unpacked", "authorized", "served"} => message = Meaning

\* A buffer that was cut short is refused, or loses whole fields: no field is
\* ever decoded to a value that was not sent (a repeated field may lose its
\* last elements).
CutLosesWholeFields ==
    ~intact /\ status = "decoded" =>
        \A f \in DOMAIN message :
            \/ message[f] \in {Zero(kind)[f], sent[1][f]}
            \/ Structs[kind][f] = "repeated" /\ IsPrefix(message[f], sent[1][f])

\* The handler can only miss an interface value that the sender left out:
\* UnpackInterfaces caches every Any that the message server and the light
\* clients read, so that none of them fails on a value that was there.
HandlerReadsUnpacked ==
    status = "unserved" =>
        \E f \in ServerReads(kind) : TypeOf(message[f]) = NoType

\* Unmarshal ends, whatever the buffer holds: every run of its loop and of skipTx's
\* consumes at least one byte, and no byte is read by more than one run of each, although
\* an unknown field is skipped from its start again and groups nest.
DecodeEnds == iterations <= 2 * Len(data)

=============================================================================

----------------------------- MODULE TxMessages -----------------------------
(***************************************************************************)
(* The messages of the proxy module's Msg service (tx.pb.go).  Of each:    *)
(* the struct, with the Go type of every field; what MarshalToSizedBuffer  *)
(* writes, with the tag bytes it writes; what Size() adds up, with the     *)
(* width it gives a tag; and the cases of Unmarshal's switch by field      *)
(* number, with what a case does to the field: it sets a string or bytes   *)
(* field, merges into an embedded message, allocates a nil pointer and     *)
(* merges, appends an element, or reads a varint.  The four are written    *)
(* down independently, as the generated functions are.                     *)
(***************************************************************************)
EXTENDS Protobuf

MsgProxyClientState ==
    [UpstreamClientId |-> "string", UpstreamPrefix |-> "message",
     CounterpartyClientId |-> "string", ClientState |-> "pointer",
     ConsensusState |-> "pointer", ProofClient |-> "bytes",
     ProofConsensus |-> "bytes", ProofHeight |-> "message",
     ConsensusHeight |-> "message", Signer |-> "string"]

MarshalMsgProxyClientState(m) ==
    Bytes(<<10>>, m.UpstreamClientId) \o Embedded(<<18>>, m.UpstreamPrefix) \o
    Bytes(<<26>>, m.CounterpartyClientId) \o Pointer(<<34>>, m.ClientState) \o
    Pointer(<<42>>, m.ConsensusState) \o Bytes(<<50>>, m.ProofClient) \o
    Bytes(<<58>>, m.ProofConsensus) \o Embedded(<<66>>, m.ProofHeight) \o
    Embedded(<<74>>, m.ConsensusHeight) \o Bytes(<<82>>, m.Signer)

SizeMsgProxyClientState(m) ==
    BytesSize(1, m.UpstreamClientId) + EmbeddedSize(1, m.UpstreamPrefix) +
    BytesSize(1, m.CounterpartyClientId) + PointerSize(1, m.ClientState) +
    PointerSize(1, m.ConsensusState) + BytesSize(1, m.ProofClient) +
    BytesSize(1, m.ProofConsensus) + EmbeddedSize(1, m.ProofHeight) +
    EmbeddedSize(1, m.ConsensusHeight) + BytesSize(1, m.Signer)

UnmarshalMsgProxyClientState ==
    <<<<"set", "UpstreamClientId">>, <<"merge", "UpstreamPrefix">>,
      <<"set", "CounterpartyClientId">>, <<"allocate", "ClientState">>,
      <<"allocate", "ConsensusState">>, <<"set", "ProofClient">>,
      <<"set", "ProofConsensus">>, <<"merge", "ProofHeight">>,
      <<"merge", "ConsensusHeight">>, <<"set", "Signer">>>>

MsgProxyConnectionOpenTry ==
    [ConnectionId |-> "string", UpstreamPrefix |-> "message",
     Connection |-> "message", DownstreamClientState |-> "pointer",
     DownstreamConsensusState |-> "pointer", ProxyClientState |-> "pointer",
     ProofInit |-> "bytes", ProofClient |-> "bytes",
     ProofConsensus |-> "bytes", ProofHeight |-> "message",
     ConsensusHeight |-> "message", ProofProxyClient |-> "bytes",
     ProofProxyConsensus |-> "bytes", ProofProxyHeight |-> "message",
     ProxyConsensusHeight |-> "message", Signer |-> "string"]

MarshalMsgProxyConnectionOpenTry(m) ==
    Bytes(<<10>>, m.ConnectionId) \o Embedded(<<18>>, m.UpstreamPrefix) \o
    Embedded(<<26>>, m.Connection) \o
    Pointer(<<34>>, m.DownstreamClientState) \o
    Pointer(<<42>>, m.DownstreamConsensusState) \o
    Pointer(<<50>>, m.ProxyClientState) \o Bytes(<<58>>, m.ProofInit) \o
    Bytes(<<66>>, m.ProofClient) \o Bytes(<<74>>, m.ProofConsensus) \o
    Embedded(<<82>>, m.ProofHeight) \o Embedded(<<90>>, m.ConsensusHeight) \o
    Bytes(<<98>>, m.ProofProxyClient) \o
    Bytes(<<106>>, m.ProofProxyConsensus) \o
    Embedded(<<114>>, m.ProofProxyHeight) \o
    Embedded(<<122>>, m.ProxyConsensusHeight) \o Bytes(<<130, 1>>, m.Signer)

\* A Size that counts one byte for the two-byte tag of field 16.
SizeMsgProxyConnectionOpenTryShort(m) ==
    BytesSize(1, m.ConnectionId) + EmbeddedSize(1, m.UpstreamPrefix) +
    EmbeddedSize(1, m.Connection) + PointerSize(1, m.DownstreamClientState) +
    PointerSize(1, m.DownstreamConsensusState) +
    PointerSize(1, m.ProxyClientState) + BytesSize(1, m.ProofInit) +
    BytesSize(1, m.ProofClient) + BytesSize(1, m.ProofConsensus) +
    EmbeddedSize(1, m.ProofHeight) + EmbeddedSize(1, m.ConsensusHeight) +
    BytesSize(1, m.ProofProxyClient) + BytesSize(1, m.ProofProxyConsensus) +
    EmbeddedSize(1, m.ProofProxyHeight) +
    EmbeddedSize(1, m.ProxyConsensusHeight) + BytesSize(1, m.Signer)

SizeMsgProxyConnectionOpenTry(m) ==
    BytesSize(1, m.ConnectionId) + EmbeddedSize(1, m.UpstreamPrefix) +
    EmbeddedSize(1, m.Connection) + PointerSize(1, m.DownstreamClientState) +
    PointerSize(1, m.DownstreamConsensusState) +
    PointerSize(1, m.ProxyClientState) + BytesSize(1, m.ProofInit) +
    BytesSize(1, m.ProofClient) + BytesSize(1, m.ProofConsensus) +
    EmbeddedSize(1, m.ProofHeight) + EmbeddedSize(1, m.ConsensusHeight) +
    BytesSize(1, m.ProofProxyClient) + BytesSize(1, m.ProofProxyConsensus) +
    EmbeddedSize(1, m.ProofProxyHeight) +
    EmbeddedSize(1, m.ProxyConsensusHeight) + BytesSize(2, m.Signer)

UnmarshalMsgProxyConnectionOpenTry ==
    <<<<"set", "ConnectionId">>, <<"merge", "UpstreamPrefix">>,
      <<"merge", "Connection">>, <<"allocate", "DownstreamClientState">>,
      <<"allocate", "DownstreamConsensusState">>,
      <<"allocate", "ProxyClientState">>, <<"set", "ProofInit">>,
      <<"set", "ProofClient">>, <<"set", "ProofConsensus">>,
      <<"merge", "ProofHeight">>, <<"merge", "ConsensusHeight">>,
      <<"set", "ProofProxyClient">>, <<"set", "ProofProxyConsensus">>,
      <<"merge", "ProofProxyHeight">>, <<"merge", "ProxyConsensusHeight">>,
      <<"set", "Signer">>>>

MsgProxyConnectionOpenAck ==
    [ConnectionId |-> "string", UpstreamPrefix |-> "message",
     Connection |-> "message", DownstreamClientState |-> "pointer",
     DownstreamConsensusState |-> "pointer", ProxyClientState |-> "pointer",
     ProofTry |-> "bytes", ProofClient |-> "bytes",
     ProofConsensus |-> "bytes", ProofHeight |-> "message",
     ConsensusHeight |-> "message", ProofProxyClient |-> "bytes",
     ProofProxyConsensus |-> "bytes", ProofProxyHeight |-> "message",
     ProxyConsensusHeight |-> "message", Signer |-> "string"]

MarshalMsgProxyConnectionOpenAck(m) ==
    Bytes(<<10>>, m.ConnectionId) \o Embedded(<<18>>, m.UpstreamPrefix) \o
    Embedded(<<26>>, m.Connection) \o
    Pointer(<<34>>, m.DownstreamClientState) \o
    Pointer(<<42>>, m.DownstreamConsensusState) \o
    Pointer(<<50>>, m.ProxyClientState) \o Bytes(<<58>>, m.ProofTry) \o
    Bytes(<<66>>, m.ProofClient) \o Bytes(<<74>>, m.ProofConsensus) \o
    Embedded(<<82>>, m.ProofHeight) \o Embedded(<<90>>, m.ConsensusHeight) \o
    Bytes(<<98>>, m.ProofProxyClient) \o
    Bytes(<<106>>, m.ProofProxyConsensus) \o
    Embedded(<<114>>, m.ProofProxyHeight) \o
    Embedded(<<122>>, m.ProxyConsensusHeight) \o Bytes(<<130, 1>>, m.Signer)

SizeMsgProxyConnectionOpenAck(m) ==
    BytesSize(1, m.ConnectionId) + EmbeddedSize(1, m.UpstreamPrefix) +
    EmbeddedSize(1, m.Connection) + PointerSize(1, m.DownstreamClientState) +
    PointerSize(1, m.DownstreamConsensusState) +
    PointerSize(1, m.ProxyClientState) + BytesSize(1, m.ProofTry) +
    BytesSize(1, m.ProofClient) + BytesSize(1, m.ProofConsensus) +
    EmbeddedSize(1, m.ProofHeight) + EmbeddedSize(1, m.ConsensusHeight) +
    BytesSize(1, m.ProofProxyClient) + BytesSize(1, m.ProofProxyConsensus) +
    EmbeddedSize(1, m.ProofProxyHeight) +
    EmbeddedSize(1, m.ProxyConsensusHeight) + BytesSize(2, m.Signer)

UnmarshalMsgProxyConnectionOpenAck ==
    <<<<"set", "ConnectionId">>, <<"merge", "UpstreamPrefix">>,
      <<"merge", "Connection">>, <<"allocate", "DownstreamClientState">>,
      <<"allocate", "DownstreamConsensusState">>,
      <<"allocate", "ProxyClientState">>, <<"set", "ProofTry">>,
      <<"set", "ProofClient">>, <<"set", "ProofConsensus">>,
      <<"merge", "ProofHeight">>, <<"merge", "ConsensusHeight">>,
      <<"set", "ProofProxyClient">>, <<"set", "ProofProxyConsensus">>,
      <<"merge", "ProofProxyHeight">>, <<"merge", "ProxyConsensusHeight">>,
      <<"set", "Signer">>>>

MsgProxyConnectionOpenConfirm ==
    [ConnectionId |-> "string", UpstreamClientId |-> "string",
     UpstreamPrefix |-> "message", CounterpartyConnectionId |-> "string",
     ProofAck |-> "bytes", ProofHeight |-> "message", Signer |-> "string"]

MarshalMsgProxyConnectionOpenConfirm(m) ==
    Bytes(<<10>>, m.ConnectionId) \o Bytes(<<18>>, m.UpstreamClientId) \o
    Embedded(<<26>>, m.UpstreamPrefix) \o
    Bytes(<<34>>, m.CounterpartyConnectionId) \o Bytes(<<42>>, m.ProofAck) \o
    Embedded(<<50>>, m.ProofHeight) \o Bytes(<<58>>, m.Signer)

SizeMsgProxyConnectionOpenConfirm(m) ==
    BytesSize(1, m.ConnectionId) + BytesSize(1, m.UpstreamClientId) +
    EmbeddedSize(1, m.UpstreamPrefix) +
    BytesSize(1, m.CounterpartyConnectionId) + BytesSize(1, m.ProofAck) +
    EmbeddedSize(1, m.ProofHeight) + BytesSize(1, m.Signer)

UnmarshalMsgProxyConnectionOpenConfirm ==
    <<<<"set", "ConnectionId">>, <<"set", "UpstreamClientId">>,
      <<"merge", "UpstreamPrefix">>, <<"set", "CounterpartyConnectionId">>,
      <<"set", "ProofAck">>, <<"merge", "ProofHeight">>, <<"set", "Signer">>>>

MsgProxyConnectionOpenFinalize ==
    [ConnectionId |-> "string", UpstreamClientId |-> "string",
     UpstreamPrefix |-> "message", ProofConfirm |-> "bytes",
     ProofHeight |-> "message", Signer |-> "string"]

MarshalMsgProxyConnectionOpenFinalize(m) ==
    Bytes(<<10>>, m.ConnectionId) \o Bytes(<<18>>, m.UpstreamClientId) \o
    Embedded(<<26>>, m.UpstreamPrefix) \o Bytes(<<34>>, m.ProofConfirm) \o
    Embedded(<<42>>, m.ProofHeight) \o Bytes(<<50>>, m.Signer)

SizeMsgProxyConnectionOpenFinalize(m) ==
    BytesSize(1, m.ConnectionId) + BytesSize(1, m.UpstreamClientId) +
    EmbeddedSize(1, m.UpstreamPrefix) + BytesSize(1, m.ProofConfirm) +
    EmbeddedSize(1, m.ProofHeight) + BytesSize(1, m.Signer)

UnmarshalMsgProxyConnectionOpenFinalize ==
    <<<<"set", "ConnectionId">>, <<"set", "UpstreamClientId">>,
      <<"merge", "UpstreamPrefix">>, <<"set", "ProofConfirm">>,
      <<"merge", "ProofHeight">>, <<"set", "Signer">>>>

MsgProxyChannelOpenTry ==
    [UpstreamClientId |-> "string", UpstreamPrefix |-> "message",
     Order |-> "int32", ConnectionHops |-> "repeated", PortId |-> "string",
     ChannelId |-> "string", DownstreamPortId |-> "string",
     Version |-> "string", ProofInit |-> "bytes", ProofHeight |-> "message",
     Signer |-> "string"]

MarshalMsgProxyChannelOpenTry(m) ==
    Bytes(<<10>>, m.UpstreamClientId) \o Embedded(<<18>>, m.UpstreamPrefix) \o
    Varint(<<24>>, m.Order) \o Repeated(<<34>>, m.ConnectionHops) \o
    Bytes(<<42>>, m.PortId) \o Bytes(<<50>>, m.ChannelId) \o
    Bytes(<<58>>, m.DownstreamPortId) \o Bytes(<<66>>, m.Version) \o
    Bytes(<<74>>, m.ProofInit) \o Embedded(<<82>>, m.ProofHeight) \o
    Bytes(<<90>>, m.Signer)

SizeMsgProxyChannelOpenTry(m) ==
    BytesSize(1, m.UpstreamClientId) + EmbeddedSize(1, m.UpstreamPrefix) +
    VarintSize(1, m.Order) + RepeatedSize(1, m.ConnectionHops) +
    BytesSize(1, m.PortId) + BytesSize(1, m.ChannelId) +
    BytesSize(1, m.DownstreamPortId) + BytesSize(1, m.Version) +
    BytesSize(1, m.ProofInit) + EmbeddedSize(1, m.ProofHeight) +
    BytesSize(1, m.Signer)

\* A decoder that keeps one connection hop and merges the others into it.
UnmarshalMsgProxyChannelOpenTryOneHop ==
    <<<<"set", "UpstreamClientId">>, <<"merge", "UpstreamPrefix">>,
      <<"varint", "Order">>, <<"allocate", "ConnectionHops">>,
      <<"set", "PortId">>, <<"set", "ChannelId">>,
      <<"set", "DownstreamPortId">>, <<"set", "Version">>,
      <<"set", "ProofInit">>, <<"merge", "ProofHeight">>, <<"set", "Signer">>>>

UnmarshalMsgProxyChannelOpenTry ==
    <<<<"set", "UpstreamClientId">>, <<"merge", "UpstreamPrefix">>,
      <<"varint", "Order">>, <<"append", "ConnectionHops">>,
      <<"set", "PortId">>, <<"set", "ChannelId">>,
      <<"set", "DownstreamPortId">>, <<"set", "Version">>,
      <<"set", "ProofInit">>, <<"merge", "ProofHeight">>, <<"set", "Signer">>>>

MsgProxyChannelOpenAck ==
    [UpstreamClientId |-> "string", UpstreamPrefix |-> "message",
     Order |-> "int32", ConnectionHops |-> "repeated", PortId |-> "string",
     ChannelId |-> "string", DownstreamPortId |-> "string",
     DownstreamChannelId |-> "string", Version |-> "string",
     ProofTry |-> "bytes", ProofHeight |-> "message", Signer |-> "string"]

MarshalMsgProxyChannelOpenAck(m) ==
    Bytes(<<10>>, m.UpstreamClientId) \o Embedded(<<18>>, m.UpstreamPrefix) \o
    Varint(<<24>>, m.Order) \o Repeated(<<34>>, m.ConnectionHops) \o
    Bytes(<<42>>, m.PortId) \o Bytes(<<50>>, m.ChannelId) \o
    Bytes(<<58>>, m.DownstreamPortId) \o
    Bytes(<<66>>, m.DownstreamChannelId) \o Bytes(<<74>>, m.Version) \o
    Bytes(<<82>>, m.ProofTry) \o Embedded(<<90>>, m.ProofHeight) \o
    Bytes(<<98>>, m.Signer)

SizeMsgProxyChannelOpenAck(m) ==
    BytesSize(1, m.UpstreamClientId) + EmbeddedSize(1, m.UpstreamPrefix) +
    VarintSize(1, m.Order) + RepeatedSize(1, m.ConnectionHops) +
    BytesSize(1, m.PortId) + BytesSize(1, m.ChannelId) +
    BytesSize(1, m.DownstreamPortId) + BytesSize(1, m.DownstreamChannelId) +
    BytesSize(1, m.Version) + BytesSize(1, m.ProofTry) +
    EmbeddedSize(1, m.ProofHeight) + BytesSize(1, m.Signer)

UnmarshalMsgProxyChannelOpenAck ==
    <<<<"set", "UpstreamClientId">>, <<"merge", "UpstreamPrefix">>,
      <<"varint", "Order">>, <<"append", "ConnectionHops">>,
      <<"set", "PortId">>, <<"set", "ChannelId">>,
      <<"set", "DownstreamPortId">>, <<"set", "DownstreamChannelId">>,
      <<"set", "Version">>, <<"set", "ProofTry">>, <<"merge", "ProofHeight">>,
      <<"set", "Signer">>>>

MsgProxyChannelOpenConfirm ==
    [UpstreamClientId |-> "string", UpstreamPrefix |-> "message",
     PortId |-> "string", ChannelId |-> "string",
     DownstreamChannelId |-> "string", ProofAck |-> "bytes",
     ProofHeight |-> "message", Signer |-> "string"]

MarshalMsgProxyChannelOpenConfirm(m) ==
    Bytes(<<10>>, m.UpstreamClientId) \o Embedded(<<18>>, m.UpstreamPrefix) \o
    Bytes(<<26>>, m.PortId) \o Bytes(<<34>>, m.ChannelId) \o
    Bytes(<<42>>, m.DownstreamChannelId) \o Bytes(<<50>>, m.ProofAck) \o
    Embedded(<<58>>, m.ProofHeight) \o Bytes(<<66>>, m.Signer)

SizeMsgProxyChannelOpenConfirm(m) ==
    BytesSize(1, m.UpstreamClientId) + EmbeddedSize(1, m.UpstreamPrefix) +
    BytesSize(1, m.PortId) + BytesSize(1, m.ChannelId) +
    BytesSize(1, m.DownstreamChannelId) + BytesSize(1, m.ProofAck) +
    EmbeddedSize(1, m.ProofHeight) + BytesSize(1, m.Signer)

UnmarshalMsgProxyChannelOpenConfirm ==
    <<<<"set", "UpstreamClientId">>, <<"merge", "UpstreamPrefix">>,
      <<"set", "PortId">>, <<"set", "ChannelId">>,
      <<"set", "DownstreamChannelId">>, <<"set", "ProofAck">>,
      <<"merge", "ProofHeight">>, <<"set", "Signer">>>>

MsgProxyChannelOpenFinalize ==
    [UpstreamClientId |-> "string", UpstreamPrefix |-> "message",
     PortId |-> "string", ChannelId |-> "string", ProofConfirm |-> "bytes",
     ProofHeight |-> "message", Signer |-> "string"]

MarshalMsgProxyChannelOpenFinalize(m) ==
    Bytes(<<10>>, m.UpstreamClientId) \o Embedded(<<18>>, m.UpstreamPrefix) \o
    Bytes(<<26>>, m.PortId) \o Bytes(<<34>>, m.ChannelId) \o
    Bytes(<<42>>, m.ProofConfirm) \o Embedded(<<50>>, m.ProofHeight) \o
    Bytes(<<58>>, m.Signer)

SizeMsgProxyChannelOpenFinalize(m) ==
    BytesSize(1, m.UpstreamClientId) + EmbeddedSize(1, m.UpstreamPrefix) +
    BytesSize(1, m.PortId) + BytesSize(1, m.ChannelId) +
    BytesSize(1, m.ProofConfirm) + EmbeddedSize(1, m.ProofHeight) +
    BytesSize(1, m.Signer)

UnmarshalMsgProxyChannelOpenFinalize ==
    <<<<"set", "UpstreamClientId">>, <<"merge", "UpstreamPrefix">>,
      <<"set", "PortId">>, <<"set", "ChannelId">>, <<"set", "ProofConfirm">>,
      <<"merge", "ProofHeight">>, <<"set", "Signer">>>>

MsgProxyRecvPacket ==
    [UpstreamClientId |-> "string", UpstreamPrefix |-> "message",
     Packet |-> "message", Proof |-> "bytes", ProofHeight |-> "message",
     Signer |-> "string"]

MarshalMsgProxyRecvPacket(m) ==
    Bytes(<<10>>, m.UpstreamClientId) \o Embedded(<<18>>, m.UpstreamPrefix) \o
    Embedded(<<26>>, m.Packet) \o Bytes(<<34>>, m.Proof) \o
    Embedded(<<42>>, m.ProofHeight) \o Bytes(<<50>>, m.Signer)

SizeMsgProxyRecvPacket(m) ==
    BytesSize(1, m.UpstreamClientId) + EmbeddedSize(1, m.UpstreamPrefix) +
    EmbeddedSize(1, m.Packet) + BytesSize(1, m.Proof) +
    EmbeddedSize(1, m.ProofHeight) + BytesSize(1, m.Signer)

UnmarshalMsgProxyRecvPacket ==
    <<<<"set", "UpstreamClientId">>, <<"merge", "UpstreamPrefix">>,
      <<"merge", "Packet">>, <<"set", "Proof">>, <<"merge", "ProofHeight">>,
      <<"set", "Signer">>>>

MsgProxyAcknowledgePacket ==
    [UpstreamClientId |-> "string", UpstreamPrefix |-> "message",
     Packet |-> "message", Acknowledgement |-> "bytes", Proof |-> "bytes",
     ProofHeight |-> "message", Signer |-> "string"]

MarshalMsgProxyAcknowledgePacket(m) ==
    Bytes(<<10>>, m.UpstreamClientId) \o Embedded(<<18>>, m.UpstreamPrefix) \o
    Embedded(<<26>>, m.Packet) \o Bytes(<<34>>, m.Acknowledgement) \o
    Bytes(<<42>>, m.Proof) \o Embedded(<<50>>, m.ProofHeight) \o
    Bytes(<<58>>, m.Signer)

SizeMsgProxyAcknowledgePacket(m) ==
    BytesSize(1, m.UpstreamClientId) + EmbeddedSize(1, m.UpstreamPrefix) +
    EmbeddedSize(1, m.Packet) + BytesSize(1, m.Acknowledgement) +
    BytesSize(1, m.Proof) + EmbeddedSize(1, m.ProofHeight) +
    BytesSize(1, m.Signer)

UnmarshalMsgProxyAcknowledgePacket ==
    <<<<"set", "UpstreamClientId">>, <<"merge", "UpstreamPrefix">>,
      <<"merge", "Packet">>, <<"set", "Acknowledgement">>, <<"set", "Proof">>,
      <<"merge", "ProofHeight">>, <<"set", "Signer">>>>

-----------------------------------------------------------------------------
(* The same by the name of the message. *)

MarshalTx(t, m) ==
    CASE t = "MsgProxyClientState" -> MarshalMsgProxyClientState(m)
      [] t = "MsgProxyConnectionOpenTry" -> MarshalMsgProxyConnectionOpenTry(m)
      [] t = "MsgProxyConnectionOpenAck" -> MarshalMsgProxyConnectionOpenAck(m)
      [] t = "MsgProxyConnectionOpenConfirm" -> MarshalMsgProxyConnectionOpenConfirm(m)
      [] t = "MsgProxyConnectionOpenFinalize" -> MarshalMsgProxyConnectionOpenFinalize(m)
      [] t = "MsgProxyChannelOpenTry" -> MarshalMsgProxyChannelOpenTry(m)
      [] t = "MsgProxyChannelOpenAck" -> MarshalMsgProxyChannelOpenAck(m)
      [] t = "MsgProxyChannelOpenConfirm" -> MarshalMsgProxyChannelOpenConfirm(m)
      [] t = "MsgProxyChannelOpenFinalize" -> MarshalMsgProxyChannelOpenFinalize(m)
      [] t = "MsgProxyRecvPacket" -> MarshalMsgProxyRecvPacket(m)
      [] t = "MsgProxyAcknowledgePacket" -> MarshalMsgProxyAcknowledgePacket(m)

SizeTx(t, m) ==
    CASE t = "MsgProxyClientState" -> SizeMsgProxyClientState(m)
      [] t = "MsgProxyConnectionOpenTry" -> SizeMsgProxyConnectionOpenTry(m)
      [] t = "MsgProxyConnectionOpenAck" -> SizeMsgProxyConnectionOpenAck(m)
      [] t = "MsgProxyConnectionOpenConfirm" -> SizeMsgProxyConnectionOpenConfirm(m)
      [] t = "MsgProxyConnectionOpenFinalize" -> SizeMsgProxyConnectionOpenFinalize(m)
      [] t = "MsgProxyChannelOpenTry" -> SizeMsgProxyChannelOpenTry(m)
      [] t = "MsgProxyChannelOpenAck" -> SizeMsgProxyChannelOpenAck(m)
      [] t = "MsgProxyChannelOpenConfirm" -> SizeMsgProxyChannelOpenConfirm(m)
      [] t = "MsgProxyChannelOpenFinalize" -> SizeMsgProxyChannelOpenFinalize(m)
      [] t = "MsgProxyRecvPacket" -> SizeMsgProxyRecvPacket(m)
      [] t = "MsgProxyAcknowledgePacket" -> SizeMsgProxyAcknowledgePacket(m)

TxStructs ==
    [MsgProxyClientState |-> MsgProxyClientState,
     MsgProxyConnectionOpenTry |-> MsgProxyConnectionOpenTry,
     MsgProxyConnectionOpenAck |-> MsgProxyConnectionOpenAck,
     MsgProxyConnectionOpenConfirm |-> MsgProxyConnectionOpenConfirm,
     MsgProxyConnectionOpenFinalize |-> MsgProxyConnectionOpenFinalize,
     MsgProxyChannelOpenTry |-> MsgProxyChannelOpenTry,
     MsgProxyChannelOpenAck |-> MsgProxyChannelOpenAck,
     MsgProxyChannelOpenConfirm |-> MsgProxyChannelOpenConfirm,
     MsgProxyChannelOpenFinalize |-> MsgProxyChannelOpenFinalize,
     MsgProxyRecvPacket |-> MsgProxyRecvPacket,
     MsgProxyAcknowledgePacket |-> MsgProxyAcknowledgePacket]

TxCases ==
    [MsgProxyClientState |-> UnmarshalMsgProxyClientState,
     MsgProxyConnectionOpenTry |-> UnmarshalMsgProxyConnectionOpenTry,
     MsgProxyConnectionOpenAck |-> UnmarshalMsgProxyConnectionOpenAck,
     MsgProxyConnectionOpenConfirm |-> UnmarshalMsgProxyConnectionOpenConfirm,
     MsgProxyConnectionOpenFinalize |-> UnmarshalMsgProxyConnectionOpenFinalize,
     MsgProxyChannelOpenTry |-> UnmarshalMsgProxyChannelOpenTry,
     MsgProxyChannelOpenAck |-> UnmarshalMsgProxyChannelOpenAck,
     MsgProxyChannelOpenConfirm |-> UnmarshalMsgProxyChannelOpenConfirm,
     MsgProxyChannelOpenFinalize |-> UnmarshalMsgProxyChannelOpenFinalize,
     MsgProxyRecvPacket |-> UnmarshalMsgProxyRecvPacket,
     MsgProxyAcknowledgePacket |-> UnmarshalMsgProxyAcknowledgePacket]

=============================================================================

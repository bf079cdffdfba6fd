------------------------ MODULE LightClientMessages ------------------------
(***************************************************************************)
(* The messages of the two light clients: the state and the proofs of      *)
(* xx-multiv (multiv.pb.go) and the state and the consensus state of       *)
(* xx-proxy (proxy.pb.go), written down as TxMessages writes down the      *)
(* messages of the Msg service.                                            *)
(***************************************************************************)
EXTENDS Protobuf

MultivClientState ==
    [UnderlyingClientState |-> "pointer", Depth |-> "uint32"]

MarshalMultivClientState(m) ==
    Pointer(<<10>>, m.UnderlyingClientState) \o Varint(<<16>>, m.Depth)

SizeMultivClientState(m) ==
    PointerSize(1, m.UnderlyingClientState) + VarintSize(1, m.Depth)

UnmarshalMultivClientState ==
    <<<<"allocate", "UnderlyingClientState">>, <<"varint", "Depth">>>>

MultiProof ==
    [Head |-> "message", Branches |-> "repeated", Leaf |-> "message"]

MarshalMultiProof(m) ==
    Embedded(<<10>>, m.Head) \o Repeated(<<18>>, m.Branches) \o
    Embedded(<<26>>, m.Leaf)

SizeMultiProof(m) ==
    EmbeddedSize(1, m.Head) + RepeatedSize(1, m.Branches) +
    EmbeddedSize(1, m.Leaf)

UnmarshalMultiProof ==
    <<<<"merge", "Head">>, <<"appendMessage", "Branches">>, <<"merge", "Leaf">>>>

Proof ==
    [ClientProof |-> "bytes", ClientState |-> "pointer",
     ConsensusProof |-> "bytes", ConsensusState |-> "pointer",
     ProofHeight |-> "message", ConsensusHeight |-> "message"]

MarshalProof(m) ==
    Bytes(<<10>>, m.ClientProof) \o Pointer(<<18>>, m.ClientState) \o
    Bytes(<<26>>, m.ConsensusProof) \o Pointer(<<34>>, m.ConsensusState) \o
    Embedded(<<42>>, m.ProofHeight) \o Embedded(<<50>>, m.ConsensusHeight)

SizeProof(m) ==
    BytesSize(1, m.ClientProof) + PointerSize(1, m.ClientState) +
    BytesSize(1, m.ConsensusProof) + PointerSize(1, m.ConsensusState) +
    EmbeddedSize(1, m.ProofHeight) + EmbeddedSize(1, m.ConsensusHeight)

UnmarshalProof ==
    <<<<"set", "ClientProof">>, <<"allocate", "ClientState">>,
      <<"set", "ConsensusProof">>, <<"allocate", "ConsensusState">>,
      <<"merge", "ProofHeight">>, <<"merge", "ConsensusHeight">>>>

LeafProof ==
    [Proof |-> "bytes", ProofHeight |-> "message"]

MarshalLeafProof(m) ==
    Bytes(<<10>>, m.Proof) \o Embedded(<<18>>, m.ProofHeight)

SizeLeafProof(m) ==
    BytesSize(1, m.Proof) + EmbeddedSize(1, m.ProofHeight)

UnmarshalLeafProof ==
    <<<<"set", "Proof">>, <<"merge", "ProofHeight">>>>

ProxyClientState ==
    [ProxyClientState |-> "pointer", UpstreamClientId |-> "string",
     ProxyPrefix |-> "pointer", IbcPrefix |-> "pointer"]

MarshalProxyClientState(m) ==
    Pointer(<<10>>, m.ProxyClientState) \o
    Bytes(<<18>>, m.UpstreamClientId) \o Pointer(<<26>>, m.ProxyPrefix) \o
    Pointer(<<34>>, m.IbcPrefix)

SizeProxyClientState(m) ==
    PointerSize(1, m.ProxyClientState) + BytesSize(1, m.UpstreamClientId) +
    PointerSize(1, m.ProxyPrefix) + PointerSize(1, m.IbcPrefix)

UnmarshalProxyClientState ==
    <<<<"allocate", "ProxyClientState">>, <<"set", "UpstreamClientId">>,
      <<"allocate", "ProxyPrefix">>, <<"allocate", "IbcPrefix">>>>

ProxyConsensusState ==
    [ProxyConsensusState |-> "pointer"]

MarshalProxyConsensusState(m) ==
    Pointer(<<10>>, m.ProxyConsensusState)

SizeProxyConsensusState(m) ==
    PointerSize(1, m.ProxyConsensusState)

UnmarshalProxyConsensusState ==
    <<<<"allocate", "ProxyConsensusState">>>>

-----------------------------------------------------------------------------
(* The same by the name of the message. *)

MarshalLightClient(t, m) ==
    CASE t = "MultivClientState" -> MarshalMultivClientState(m)
      [] t = "MultiProof" -> MarshalMultiProof(m)
      [] t = "Proof" -> MarshalProof(m)
      [] t = "LeafProof" -> MarshalLeafProof(m)
      [] t = "ProxyClientState" -> MarshalProxyClientState(m)
      [] t = "ProxyConsensusState" -> MarshalProxyConsensusState(m)

SizeLightClient(t, m) ==
    CASE t = "MultivClientState" -> SizeMultivClientState(m)
      [] t = "MultiProof" -> SizeMultiProof(m)
      [] t = "Proof" -> SizeProof(m)
      [] t = "LeafProof" -> SizeLeafProof(m)
      [] t = "ProxyClientState" -> SizeProxyClientState(m)
      [] t = "ProxyConsensusState" -> SizeProxyConsensusState(m)

LightClientStructs ==
    [MultivClientState |-> MultivClientState,
     MultiProof |-> MultiProof,
     Proof |-> Proof,
     LeafProof |-> LeafProof,
     ProxyClientState |-> ProxyClientState,
     ProxyConsensusState |-> ProxyConsensusState]

LightClientCases ==
    [MultivClientState |-> UnmarshalMultivClientState,
     MultiProof |-> UnmarshalMultiProof,
     Proof |-> UnmarshalProof,
     LeafProof |-> UnmarshalLeafProof,
     ProxyClientState |-> UnmarshalProxyClientState,
     ProxyConsensusState |-> UnmarshalProxyConsensusState]

=============================================================================

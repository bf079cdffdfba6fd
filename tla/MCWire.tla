------------------------------- MODULE MCWire -------------------------------
(***************************************************************************)
(* The instance of Wire for TLC: every message of the three generated      *)
(* files, with values that tell its fields apart.                          *)
(***************************************************************************)
EXTENDS Wire

MCKinds == DOMAIN Structs

\* A long value has a length of two varint bytes.
Long == [i \in 1..128 |-> 9]

Values(type) ==
    CASE type \in {"string", "bytes"} -> {<<7>>, Long}
      [] type = "message"  -> {<<7>>, Long}
      [] type = "pointer"  -> {<<<<>>>>, <<<<ClientStateAny>>>>, <<<<ConsensusStateAny>>>>}
      [] type = "repeated" -> {<<<<7>>>>, <<<<>>, <<8>>>>}
      [] type = "int32"    -> {1, 2^(HalfBits - 1) - 1, -1}
      [] type = "uint32"   -> {1, 2^HalfBits - 1}

\* Field number n of a full message holds n where it can.
FullValue(type, n) ==
    CASE type \in {"string", "bytes", "message"} -> <<n>>
      [] type = "pointer"  -> <<<<n, IF n = 5 THEN ConsensusStateAny ELSE ClientStateAny>>>>
      [] type = "repeated" -> <<<<n>>, <<>>>>
      [] OTHER             -> n

Full(t) ==
    [f \in DOMAIN Structs[t] |->
        FullValue(Structs[t][f], CHOOSE n \in DOMAIN Cases[t] : Cases[t][n][2] = f)]

Singles(t) ==
    UNION {{[Zero(t) EXCEPT ![f] = v] : v \in Values(Structs[t][f])} : f \in DOMAIN Structs[t]}

AllBut(t) == {[Full(t) EXCEPT ![f] = Zero(t)[f]] : f \in DOMAIN Structs[t]}

MCBatches(t) ==
    {<<m>> : m \in {Zero(t), Full(t)} \cup Singles(t) \cup AllBut(t)}
    \cup {<<Full(t), m>> : m \in {Full(t)} \cup Singles(t)}
    \cup {<<m, Full(t)>> : m \in Singles(t)}

MCRawKinds == {"MsgProxyChannelOpenTry", "ProxyClientState", "MultivClientState"}

\* All short buffers of tags of fields 1 to 4 with several wire types, the
\* start and the end of a group, an illegal wire type and lengths at the
\* limits; fields whose length or number takes all bits of a word; and groups
\* that the buffer's end leaves open, after a field or within one.
MCRawBuffers ==
    BoundedSeq({0, 1, 2, 9, 10, 11, 12, 15, 16, 24, 34, 127, 128, 255}, 3)
    \cup {<<tag>> \o s : tag \in {10, 18, 24}, s \in [1..3 -> {1, 127, 128, 255}]}
    \cup {<<251, 7>> \o s : s \in {<<>>, <<8, 1>>, <<251, 7>>, <<251, 7, 252, 7>>, <<249, 7, 1>>}}

\* Field 127 as a varint, 64 and 32 bits, bytes, and a group in a group.
MCUnknownFields ==
    {<<248, 7, 150, 1>>,
     <<249, 7, 1, 2, 3, 4, 5, 6, 7, 8>>,
     <<253, 7, 1, 2, 3, 4>>,
     <<250, 7, 2, 10, 255>>,
     <<251, 7, 251, 7, 8, 1, 252, 7, 18, 1, 0, 252, 7>>}

=============================================================================

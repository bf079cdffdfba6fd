------------------------------ MODULE Protobuf ------------------------------
(***************************************************************************)
(* The helpers every generated codec of the repository shares: varints,    *)
(* the pieces MarshalToSizedBuffer and Size are put together from, and the *)
(* skipping of fields a message does not know (tx.pb.go, multiv.pb.go and  *)
(* the two proxy.pb.go hold a copy each).  Bytes and the 7-bit groups of a *)
(* varint are the real ones; the widths of Go's uint64 / int and of int32  *)
(* are parameters, so that overflow is within reach of short buffers.      *)
(***************************************************************************)
EXTENDS Integers, Sequences, SequencesExt, FiniteSetsExt

CONSTANTS
    WordBits,   \* the width of uint64 and int: 64 in the build
    HalfBits    \* the width of int32 and uint32: 32 in the build

\* As 64 does, WordBits leaves one bit for the last group of a varint.  An int32 holds
\* every field number: there are at most 16 fields.
ASSUME WidthAssumption ==
    WordBits \in Nat /\ WordBits > 1 /\ WordBits % 7 = 1 /\ HalfBits \in 6..WordBits

\* The groups a varint may have before `shift >= 64` ends the loop.
Groups == (WordBits + 6) \div 7

\* The powers of two, as far as a varint reaches.
Pow2[n \in 0..(7 * Groups)] == IF n = 0 THEN 1 ELSE 2 * Pow2[n - 1]

\* The largest int.
MaxInt == Pow2[WordBits - 1] - 1

Signed(v, bits) ==
    LET u == v % Pow2[bits] IN IF u >= Pow2[bits - 1] THEN u - Pow2[bits] ELSE u

\* The sum of a sequence of numbers.
Total(s) ==
    LET sum[i \in 0..Len(s)] == IF i = 0 THEN 0 ELSE sum[i - 1] + s[i] IN sum[Len(s)]

-----------------------------------------------------------------------------
(* Writing. *)

\* sovTx: the length of v's varint.
Sov(v) == CHOOSE n \in 1..Groups : v < Pow2[7 * n] /\ (n > 1 => v >= Pow2[7 * (n - 1)])

EncodeVarint(v) ==
    [i \in 1..Sov(v) |->
        ((v \div Pow2[7 * (i - 1)]) % 128) + (IF i < Sov(v) THEN 128 ELSE 0)]

\* A length-delimited field.  An embedded message is written always, a string
\* or bytes field unless it is empty, a pointer unless it is nil (a pointer is
\* a sequence of at most one value), a repeated field once per element and a
\* varint, widened to uint64 with its sign, unless it is 0.
Embedded(tag, b) == tag \o EncodeVarint(Len(b)) \o b
Bytes(tag, b)    == IF b = <<>> THEN <<>> ELSE Embedded(tag, b)
Repeated(tag, s) == FlattenSeq([i \in DOMAIN s |-> Embedded(tag, s[i])])
Pointer(tag, p)  == IF p = <<>> THEN <<>> ELSE Embedded(tag, p[1])
Varint(tag, v)   == IF v = 0 THEN <<>> ELSE tag \o EncodeVarint(v % Pow2[WordBits])

\* Their lengths, as Size() adds them up; w is the number of bytes of the tag.
EmbeddedSize(w, b) == w + Len(b) + Sov(Len(b))
BytesSize(w, b)    == IF b = <<>> THEN 0 ELSE EmbeddedSize(w, b)
RepeatedSize(w, s) == Total([i \in DOMAIN s |-> EmbeddedSize(w, s[i])])
PointerSize(w, p)  == IF p = <<>> THEN 0 ELSE EmbeddedSize(w, p[1])
VarintSize(w, v)   == IF v = 0 THEN 0 ELSE w + Sov(v % Pow2[WordBits])

-----------------------------------------------------------------------------
(* Reading.  A step that reads returns the value, where it stopped (iNdEx, *)
(* from 0), and the error it returns early with.                           *)

Read(v, next) == [err |-> "none", val |-> v, next |-> next]
Fail(e)       == [err |-> e, val |-> 0, next |-> 0]

\* The value of the n groups after i.
GroupsValue(d, i, n) ==
    Total([j \in 1..n |-> (d[i + j] % 128) * Pow2[7 * (j - 1)]]) % Pow2[WordBits]

\* A varint that the end of the buffer may end, too.
ReadVarintAtEnd(d, i) ==
    LET ends == {j \in 1..Groups : i + j <= Len(d) /\ (d[i + j] < 128 \/ i + j = Len(d))}
        n    == Min(ends)
    IN  IF ends # {}
        THEN Read(GroupsValue(d, i, n), i + n)
        ELSE Fail(IF i + Groups <= Len(d) THEN "overflow" ELSE "eof")

ReadVarint(d, i) ==
    LET ends == {j \in 1..Groups : i + j <= Len(d) /\ d[i + j] < 128}
        n    == Min(ends)
    IN  IF ends # {}
        THEN Read(GroupsValue(d, i, n), i + n)
        ELSE Fail(IF i + Groups <= Len(d) THEN "overflow" ELSE "eof")

\* iNdEx += n, refused when it overflows.
Advance(i, n) ==
    LET post == Signed(i + n, WordBits)
    IN  IF post < 0 THEN Fail("length") ELSE Read(post, post)

\* The length of a length-delimited value at i, and where the value ends.
ReadLength(d, i) ==
    LET r    == ReadVarint(d, i)
        len  == Signed(r.val, WordBits)
        post == Advance(r.next, len)
    IN  IF r.err # "none"
        THEN r
        ELSE IF len < 0 \/ post.err # "none"
        THEN Fail("length")
        ELSE Read(post.val, r.next)

\* skipTx / skipMultiv / skipProxy, one run of the loop: what follows a tag of wire type
\* wt, and the index after it.  A group's fields are skipped one by one, counted by depth.
SkipValue(d, i, wt, depth) ==
    CASE wt = 0 -> ReadVarint(d, i)
      [] wt = 1 -> Advance(i, 8)
      [] wt = 2 -> LET r == ReadLength(d, i)
                  IN  IF r.err # "none" THEN r ELSE Read(r.val, r.val)
      [] wt = 3 -> Read(0, i)
      [] wt = 4 -> IF depth = 0 THEN Fail("endgroup") ELSE Read(0, i)
      [] wt = 5 -> Advance(i, 4)
      [] OTHER  -> Fail("wiretype")

\* The whole run, from the tag on: the depth and the index after it.
SkipOnce(d, i, depth) ==
    LET tag   == ReadVarint(d, i)
        wt    == tag.val % 8
        value == SkipValue(d, tag.next, wt, depth)
        left  == depth + (IF wt = 3 THEN 1 ELSE IF wt = 4 THEN -1 ELSE 0)
    IN  IF tag.err # "none" THEN tag
        ELSE IF value.err # "none" THEN value
        ELSE Read(left, value.next)

\* The runs of the loop on d, as far as they go.
SkipRuns(d) ==
    LET run[n \in 0..Len(d)] ==
            IF n = 0 THEN Read(0, 0)
            ELSE IF run[n - 1].err # "none" THEN run[n - 1]
            ELSE SkipOnce(d, run[n - 1].next, run[n - 1].val)
    IN  run

\* skipTx skips exactly d.
Skips(d) ==
    \E n \in 1..Len(d) :
        /\ SkipRuns(d)[n] = Read(0, Len(d))
        /\ \A i \in 1..(n - 1) : SkipRuns(d)[i].err = "none" /\ SkipRuns(d)[i].val # 0

=============================================================================

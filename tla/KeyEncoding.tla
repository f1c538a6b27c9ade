------------------------------ MODULE KeyEncoding ------------------------------
(***************************************************************************)
(* The unified keyspace (crates/aresadb-core/src/keys.rs): the encoding of *)
(* structured keys, its decoder and the scan prefixes.  A key is its kind  *)
(* and its segments; bytes are naturals, and the letters of the prefixes   *)
(* keep their ASCII codes so that keys compare as in the store.            *)
(***************************************************************************)
EXTENDS Integers, Sequences, SequencesExt, FiniteSetsExt

CONSTANTS
    SampleKeys,     \* the keys two writers choose from
    SampleBytes     \* byte strings handed to decode

VARIABLES
    keys,           \* the keys written so far, at most two
    raw             \* <<>>, or a byte string in a singleton

keyVars == <<keys, raw>>

KeyInit == keys = <<>> /\ raw = <<>>

NUL == 0
TERMINATOR == 1
ESCAPE == 255

(* Kind -> its prefix; slash is 47. *)
Prefix == [Metadata |-> <<47, 109, 47>>, Node |-> <<47, 110, 47>>,
           NodeIndex |-> <<47, 105, 47>>, Edge |-> <<47, 101, 47>>,
           EdgeFrom |-> <<47, 101, 102, 47>>, EdgeTo |-> <<47, 101, 116, 47>>,
           PropertyIndex |-> <<47, 112, 47>>, FulltextIndex |-> <<47, 102, 116, 47>>,
           VectorIndex |-> <<47, 118, 47>>, Schema |-> <<47, 115, 47>>,
           Transaction |-> <<47, 120, 47>>]

Kinds == DOMAIN Prefix

(* How many segments precede the last one. *)
Heads(k) == CASE k \in {"EdgeFrom", "EdgeTo"} -> 1
                 [] k = "VectorIndex" -> 2
                 [] k \in {"PropertyIndex", "FulltextIndex"} -> 3
                 [] OTHER -> 0

Bytes == 0 .. 255

(* A key of a kind has as many segments as the kind says. *)
ASSUME KeyConstants ==
    /\ \A k \in SampleKeys : /\ k \in [kind : Kinds, segs : Seq(Seq(Bytes))]
                             /\ Len(k.segs) = Heads(k.kind) + 1
    /\ SampleBytes \subseteq Seq(Bytes)

(* A mutant: a null byte in a segment goes out as it is. *)
Escape_Raw(segment) == segment

Escape(segment) ==
    FlattenSeq([i \in DOMAIN segment |->
                  IF segment[i] = NUL THEN <<NUL, ESCAPE>> ELSE <<segment[i]>>])

Terminated(segments) ==
    FlattenSeq([i \in DOMAIN segments |-> Escape(segments[i]) \o <<NUL, TERMINATOR>>])

(* write_single is the case of no head. *)
Encode(key) == Prefix[key.kind] \o Terminated(Front(key.segs)) \o Last(key.segs)

(* The scan prefix of the keys of a kind that begin with the given segments. *)
ScanPrefix(k, head) == Prefix[k] \o Terminated(head)

(* prefix_successor: the bytes 255 at the end go, the one before them grows;
   empty means no upper bound. *)
PrefixSuccessor(bytes) ==
    LET keep == {i \in DOMAIN bytes : bytes[i] # 255}
    IN IF keep = {} THEN <<>>
       ELSE LET i == Max(keep) IN Append(SubSeq(bytes, 1, i - 1), bytes[i] + 1)

(* split_segments: one byte at a time; mode "nul" is a pending null byte, and
   the bytes after the n-th terminator are the tail. *)
Split(segs, current, tail, mode) ==
    [segs |-> segs, current |-> current, tail |-> tail, mode |-> mode]

SplitByte(n, s, b) ==
    IF s.mode = "bad" \/ Len(s.segs) = n THEN [s EXCEPT !.tail = Append(@, b)]
    ELSE IF s.mode = "text" /\ b = NUL THEN [s EXCEPT !.mode = "nul"]
    ELSE IF s.mode = "text" THEN [s EXCEPT !.current = Append(@, b)]
    ELSE IF b = ESCAPE THEN Split(s.segs, Append(s.current, NUL), s.tail, "text")
    ELSE IF b = TERMINATOR THEN Split(Append(s.segs, s.current), <<>>, s.tail, "text")
    ELSE [s EXCEPT !.mode = "bad"]

SplitSegments(body, n) ==
    LET end == FoldLeft(LAMBDA s, b : SplitByte(n, s, b), Split(<<>>, <<>>, <<>>, "text"), body)
    IN IF end.mode = "bad" \/ Len(end.segs) < n THEN {} ELSE {Append(end.segs, end.tail)}

(* The decoded key in a singleton, or the empty set for a DecodeError. *)
Decode(bytes) ==
    UNION {{[kind |-> k, segs |-> segs] :
              segs \in SplitSegments(SubSeq(bytes, Len(Prefix[k]) + 1, Len(bytes)), Heads(k))} :
             k \in {x \in Kinds : IsPrefix(Prefix[x], bytes)}}

-------------------------------------------------------------------------------
WriteKey ==
    /\ Len(keys) < 2 /\ raw = <<>>
    /\ \E k \in SampleKeys : keys' = Append(keys, k)
    /\ UNCHANGED raw

ReadBytes ==
    /\ keys = <<>> /\ raw = <<>>
    /\ raw' \in {<<b>> : b \in SampleBytes}
    /\ UNCHANGED keys

KeySteps == WriteKey \/ ReadBytes

KeySpec == KeyInit /\ [][KeySteps]_keyVars

-------------------------------------------------------------------------------
(* The order of byte strings, and of keys segment by segment. *)
BytesBelow(s, t) ==
    \/ IsStrictPrefix(s, t)
    \/ \E i \in DOMAIN s \cap DOMAIN t :
          s[i] < t[i] /\ \A j \in 1 .. i - 1 : s[j] = t[j]

(* KeyRange::prefix and KeyRange::contains. *)
UnderPrefix(p, bytes) ==
    /\ ~BytesBelow(bytes, p)
    /\ PrefixSuccessor(p) = <<>> \/ BytesBelow(bytes, PrefixSuccessor(p))

SegmentsBelow(s, t) ==
    \E i \in DOMAIN s : BytesBelow(s[i], t[i]) /\ \A j \in 1 .. i - 1 : s[j] = t[j]

(* The bytes a neighbour of a prefix may end in. *)
NearBytes == {0, 1, 2, 254, 255}

(* What range sharding rests on.  A key decodes to itself and no other key has
   its bytes; decode takes only bytes that encode gives; keys of a kind are
   ordered as their segments are, and kinds do not interleave; and a scan
   prefix covers the keys that have its segments and no neighbour's; for the
   byte strings in raw, KeyRange::prefix is the strings it begins. *)
KeysExact ==
    /\ \A i \in DOMAIN keys : Decode(Encode(keys[i])) = {keys[i]}
    /\ \A i \in DOMAIN raw : \A k \in Decode(raw[i]) : Encode(k) = raw[i]
    /\ \A i \in DOMAIN raw : \A n \in 0 .. Len(raw[i]) : \A b \in NearBytes :
          LET p == SubSeq(raw[i], 1, n) IN
          /\ UnderPrefix(p, raw[i])
          /\ UnderPrefix(p, SubSeq(raw[i], 1, n - 1) \o <<b>>) = (n = 0 \/ b = raw[i][n])
    /\ Len(keys) = 2 =>
          LET k == keys[1] l == keys[2] IN
          IF k.kind # l.kind
          THEN BytesBelow(Encode(k), Encode(l)) = BytesBelow(Prefix[k.kind], Prefix[l.kind])
          ELSE /\ BytesBelow(Encode(k), Encode(l)) = SegmentsBelow(k.segs, l.segs)
               /\ \A n \in 0 .. Heads(k.kind) :
                     UnderPrefix(ScanPrefix(k.kind, SubSeq(k.segs, 1, n)), Encode(l))
                        = (SubSeq(l.segs, 1, n) = SubSeq(k.segs, 1, n))
================================================================================

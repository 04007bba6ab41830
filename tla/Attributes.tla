----------------------------- MODULE Attributes -----------------------------
(***************************************************************************)
(* The values of an UPDATE and their encoding (packet.cpp, nlri.cpp):      *)
(* prefixes, path attributes, and the AS numbers in an AS_PATH, as         *)
(* sequences of bytes.  An attribute keeps the width it has for AS numbers *)
(* in four_byte_asn, which its constructor leaves uninitialised when the   *)
(* length has two bytes.                                                   *)
(***************************************************************************)
EXTENDS Integers, Sequences, SequencesExt, FiniteSetsExt

Byte == 0..255

\* The flags of an attribute that were read or set, by their bit.
FlagBit == [optional |-> 128, transitive |-> 64, partial |-> 32, extended_length |-> 16]
Flag    == DOMAIN FlagBit

PATH_ATTRIBUTE == [ORIGIN |-> 1, AS_PATH |-> 2, NEXT_HOP |-> 3,
                   MULTI_EXIT_DISC |-> 4, LOCAL_PREF |-> 5]
AS_SEQUENCE == 2

path_attr_t == [flags : SUBSET Flag, type : Byte, bytes : Seq(Byte), four_byte_asn : BOOLEAN]
NLRI        == [nlri_len : Byte, data : Seq(Byte)]

-----------------------------------------------------------------------------
\* Numbers in network order; a value that does not fit is cut.

\* A variant: the higher bits are kept.
Be16Uncut(v) == <<v \div 256, v % 256>>

Be16(v) == <<(v \div 256) % 256, v % 256>>
Be32(v) == Be16(v \div 65536) \o Be16(v % 65536)
AsBytes(v, four) == IF four THEN Be32(v) ELSE Be16(v)

Number(bytes) ==
  LET value[i \in 0..Len(bytes)] == IF i = 0 THEN 0 ELSE 256 * value[i-1] + bytes[i]
  IN value[Len(bytes)]

\* n numbers of w bytes each, from position i of bytes on.
Numbers(bytes, i, n, w) ==
  [k \in 1..n |-> Number(SubSeq(bytes, i + w * (k - 1), i + w * k - 1))]

-----------------------------------------------------------------------------
\* Prefixes.

\* A variant: a part of a byte is not counted.
WholeBytesOf(bits) == bits \div 8

BytesOf(bits) == (bits + 7) \div 8

Serialize(prefix) == <<prefix.nlri_len>> \o prefix.data

-----------------------------------------------------------------------------
\* Path attributes.

FlagByte(flags) ==
  LET bit(f) == IF f \in flags THEN FlagBit[f] ELSE 0
  IN bit("optional") + bit("transitive") + bit("partial") + bit("extended_length")

to_bytes(a) ==
  <<FlagByte(a.flags), a.type>>
  \o (IF "extended_length" \in a.flags THEN Be16(Len(a.bytes)) ELSE <<Len(a.bytes) % 256>>)
  \o a.bytes

FlagsOf(byte) == {f \in Flag : (byte \div FlagBit[f]) % 2 = 1}

\* operator==: the width of the AS numbers is not compared.
SameAttribute(a, b) == a.flags = b.flags /\ a.type = b.type /\ a.bytes = b.bytes

get_u32(a) == Number(SubSeq(a.bytes, 1, 4))

\* The AS numbers of all segments, read in the width the attribute has; a
\* segment that is cut short ends the list.
parse_as_path(a) ==
  LET w == IF a.four_byte_asn THEN 4 ELSE 2
      last == Len(a.bytes)
      from[i \in 1..(last + 1)] ==
        IF i + 1 > last THEN <<>>
        ELSE IF i + 1 + w * a.bytes[i + 1] > last THEN <<>>
        ELSE Numbers(a.bytes, i + 2, a.bytes[i + 1], w) \o from[i + 2 + w * a.bytes[i + 1]]
  IN from[1]

\* One AS_SEQUENCE, in the width the attribute has.
make_as_path(a, path) ==
  [a EXCEPT !.type = PATH_ATTRIBUTE.AS_PATH,
            !.flags = @ \cup {"transitive", "extended_length"},
            !.bytes = <<AS_SEQUENCE, Len(path) % 256>>
              \o FlattenSeq([k \in 1..Len(path) |-> AsBytes(path[k], a.four_byte_asn)])]

make_local_pref(a, value) ==
  [a EXCEPT !.type = PATH_ATTRIBUTE.LOCAL_PREF, !.bytes = Be32(value)]

make_origin(a, o) ==
  [a EXCEPT !.type = PATH_ATTRIBUTE.ORIGIN, !.flags = @ \cup {"transitive"}, !.bytes = <<o>>]

make_nexthop(a, address) ==
  [a EXCEPT !.type = PATH_ATTRIBUTE.NEXT_HOP, !.bytes = address]

\* The attributes of a list that have a type, by their positions.
OfType(attrs, type) == {i \in 1..Len(attrs) : attrs[i].type = type}

-----------------------------------------------------------------------------
\* The body of an UPDATE: three fields, of which the last has no length.

Counted(bytes) == Be16(Len(bytes)) \o bytes

PrefixBytes(list) == FlattenSeq([k \in 1..Len(list) |-> Serialize(list[k])])
PathBytes(attrs)  == FlattenSeq([k \in 1..Len(attrs) |-> to_bytes(attrs[k])])

UpdateBody(withdrawn, attrs, routes) ==
  Counted(PrefixBytes(withdrawn)) \o Counted(PathBytes(attrs)) \o PrefixBytes(routes)
=============================================================================

------------------------------- MODULE Update -------------------------------
(***************************************************************************)
(* bgp_packet::process_update (packet.cpp): the three loops over the body  *)
(* of an UPDATE, one round per action, in the 16-bit arithmetic of the     *)
(* code.  An error in a prefix returns three empty lists; an attribute is  *)
(* not checked against what is left of its field.                          *)
(*                                                                         *)
(* The bodies are those whose length fields are right.  The lengths of the *)
(* prefixes inside the fields may be wrong.                                *)
(***************************************************************************)
EXTENDS Attributes

CONSTANT JunkWidth    \* what four_byte_asn holds where nobody sets it
ASSUME WidthAssumption == JunkWidth \subseteq BOOLEAN

VARIABLES
  body,        \* the message after its header
  wide,        \* the argument four_byte_asn
  phase,       \* the loop process_update is in, or how it ended
  offset, len, \* its variables; both are uint16_t
  withdrawn, paths, routes    \* the lists it has filled

result == <<withdrawn, paths, routes>>
update == <<body, wide, phase, offset, len, withdrawn, paths, routes>>

\* A byte of the message.  After it the buffer goes on with bytes of other
\* messages, here zeros; LenIsWhatIsLeft says that none of them is read.
At(o)       == IF o < Len(body) THEN body[o + 1] ELSE 0
Slice(o, n) == [k \in 1..n |-> At(o + k - 1)]
U16At(o)    == 256 * At(o) + At(o + 1)

\* What a variable of 16 bits holds of a number.
uint16_t(v) == v % 65536

\* process_update is called with a message.
ProcessUpdate(b, w) ==
  /\ body = b /\ wide = w
  /\ phase = "withdrawn"
  /\ len = 256 * b[1] + b[2]
  /\ offset = 2
  /\ withdrawn = <<>> /\ paths = <<>> /\ routes = <<>>

\* The same, after another message.
ProcessNext(b, w) ==
  /\ body' = b /\ wide' = w
  /\ phase' = "withdrawn"
  /\ len' = 256 * b[1] + b[2]
  /\ offset' = 2
  /\ withdrawn' = <<>> /\ paths' = <<>> /\ routes' = <<>>

-----------------------------------------------------------------------------
\* The loops over prefixes.

PrefixFails == offset >= Len(body) \/ BytesOf(At(offset)) > len - 1

PrefixHere ==
  [nlri_len |-> At(offset), data |-> Slice(offset + 1, BytesOf(At(offset)))]

PassPrefix ==
  LET size == 1 + Len(PrefixHere.data)
  IN len' = uint16_t(len - size) /\ offset' = uint16_t(offset + size)

ReadWithdrawn ==
  /\ phase = "withdrawn" /\ len > 0 /\ ~PrefixFails
  /\ withdrawn' = Append(withdrawn, PrefixHere)
  /\ PassPrefix
  /\ UNCHANGED <<body, wide, phase, paths, routes>>

ReadRoute ==
  /\ phase = "routes" /\ len > 0 /\ ~PrefixFails
  /\ routes' = Append(routes, PrefixHere)
  /\ PassPrefix
  /\ UNCHANGED <<body, wide, phase, withdrawn, paths>>

\* Variants: the error is logged and the loop goes on; what was read before
\* the error is returned.
PrefixErrorLogged ==
  /\ phase \in {"withdrawn", "routes"} /\ len > 0 /\ PrefixFails
  /\ UNCHANGED update

PrefixErrorKeeps ==
  /\ phase \in {"withdrawn", "routes"} /\ len > 0 /\ PrefixFails
  /\ phase' = "done"
  /\ UNCHANGED <<body, wide, offset, len, withdrawn, paths, routes>>

PrefixError ==
  /\ phase \in {"withdrawn", "routes"} /\ len > 0 /\ PrefixFails
  /\ phase' = "error"
  /\ withdrawn' = <<>> /\ paths' = <<>> /\ routes' = <<>>
  /\ UNCHANGED <<body, wide, offset, len>>

-----------------------------------------------------------------------------
\* The loop over attributes.

\* The end of the withdrawn prefixes, and the length of the next field.
StartAttributes ==
  /\ phase = "withdrawn" /\ len = 0
  /\ phase' = "attributes"
  /\ len' = U16At(offset)
  /\ offset' = uint16_t(offset + 2)
  /\ UNCHANGED <<body, wide, withdrawn, paths, routes>>

\* A variant: a length of two bytes is taken for one.
ShortHeaderSize(flags) == 3

HeaderSize(flags) == IF "extended_length" \in flags THEN 4 ELSE 3

\* The two constructors of path_attr_t.
ReadAttribute ==
  /\ phase = "attributes" /\ len > 0
  /\ LET flags == FlagsOf(At(offset))
         data  == offset + HeaderSize(flags)
         count == IF "extended_length" \in flags THEN U16At(offset + 2) ELSE At(offset + 2)
         size  == HeaderSize(flags) + count
     IN /\ \E w \in IF "extended_length" \in flags THEN JunkWidth ELSE {wide} :
             paths' = Append(paths, [flags |-> flags, type |-> At(offset + 1),
                                     bytes |-> Slice(data, count),
                                     four_byte_asn |-> w])
        /\ len' = uint16_t(len - size)
        /\ offset' = uint16_t(offset + size)
  /\ UNCHANGED <<body, wide, phase, withdrawn, routes>>

\* The rest of the body are the routes.
StartRoutes ==
  /\ phase = "attributes" /\ len = 0
  /\ phase' = "routes"
  /\ len' = uint16_t(Len(body) - offset)
  /\ UNCHANGED <<body, wide, offset, withdrawn, paths, routes>>

Return ==
  /\ phase = "routes" /\ len = 0
  /\ phase' = "done"
  /\ UNCHANGED <<body, wide, offset, len, withdrawn, paths, routes>>

ParseStep ==
  \/ ReadWithdrawn \/ StartAttributes \/ ReadAttribute
  \/ StartRoutes \/ ReadRoute \/ PrefixError \/ Return

-----------------------------------------------------------------------------
\* Properties

\* offset and len move together: what len counts is what is left of the
\* field that is being read, so no loop leaves its field and no subtraction
\* goes below zero (the loops of process_update subtract without looking).
FieldEnd ==
  LET attrs == 2 + U16At(0)
  IN CASE phase = "withdrawn"           -> attrs
       [] phase = "attributes"          -> attrs + 2 + U16At(attrs)
       [] phase \in {"routes", "done"}  -> Len(body)
LenIsWhatIsLeft ==
  phase \in {"withdrawn", "attributes", "routes", "done"} => offset + len = FieldEnd

\* A message is taken as a whole or not at all, wherever the error is: after
\* an error nothing is left of it, not even what the earlier fields had, and
\* what is returned without an error accounts for every byte of the message.
WholeOrNothing ==
  /\ phase = "error" => result = <<<<>>, <<>>, <<>>>>
  /\ phase = "done" => UpdateBody(withdrawn, paths, routes) = body
=============================================================================

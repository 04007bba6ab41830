-------------------------------- MODULE Open --------------------------------
(***************************************************************************)
(* The OPEN message and its capabilities: what tx_open writes (fsm.cpp)    *)
(* and what parse_capabilites and rx_open make of one (packet.cpp,         *)
(* fsm.cpp), as sequences of bytes after the header.                       *)
(***************************************************************************)
EXTENDS Attributes

CAP == 2
BGP_CAP_CODE == [MPBGP |-> 1, ROUTE_REFRESH |-> 2, FOUR_OCT_AS |-> 65, FQDN |-> 73]

Cap(code, data) == [code |-> code, data |-> data]

\* The capabilities place_connection puts into the OPEN, in the order of the
\* set they are in; a host name is its length and its bytes.
OwnCaps(my_as, host, domain) ==
  <<Cap(BGP_CAP_CODE.MPBGP, Be16(1) \o <<0, 1>>),
    Cap(BGP_CAP_CODE.ROUTE_REFRESH, <<>>),
    Cap(BGP_CAP_CODE.FOUR_OCT_AS, Be32(my_as)),
    Cap(BGP_CAP_CODE.FQDN, <<Len(host)>> \o host \o <<Len(domain)>> \o domain)>>

\* A variant: the length is set before there is any data.
CapBytesEmpty(cap) == <<cap.code, 0>> \o cap.data

CapBytes(cap) == <<cap.code, Len(cap.data)>> \o cap.data

\* toBytes: every capability in an optional parameter of its own.
toBytes(cap) == <<CAP, 2 + Len(cap.data)>> \o CapBytes(cap)

\* tx_open: version, AS, hold time, identifier, and the parameters.  The AS
\* is cut to 16 bits.
OpenWith(my_as, hold_time, router_id, params) ==
  <<4>> \o Be16(my_as % 65536) \o Be16(hold_time) \o router_id \o <<Len(params)>> \o params

tx_open(my_as, hold_time, router_id, caps) ==
  OpenWith(my_as, hold_time, router_id,
           FlattenSeq([k \in 1..Len(caps) |-> toBytes(caps[k])]))

OpenAs(open)     == Number(SubSeq(open, 2, 3))
OpenParams(open) == SubSeq(open, 11, 10 + open[10])

\* A round of parse_capabilites: the first capability of a parameter that
\* has any.
ParamRound(params, r) ==
  LET i == r.offset + 1
  IN IF i > Len(params) THEN r
     ELSE [offset |-> r.offset + params[i + 1] + 2,
           caps   |-> IF params[i] = CAP
                        THEN Append(r.caps, Cap(params[i + 2],
                                                SubSeq(params, i + 4, i + 3 + params[i + 3])))
                        ELSE r.caps]

parse_capabilites(open) ==
  LET params == OpenParams(open)
      round[k \in 0..Len(params)] ==
        IF k = 0 THEN [offset |-> 0, caps |-> <<>>] ELSE ParamRound(params, round[k-1])
  IN round[Len(params)].caps

\* rx_open refuses an OPEN by its 16-bit AS.  The configured AS is read from
\* the file as a number of 16 bits as well; a larger one throws.
Configured(remote_as) == remote_as < 65536
Accepts(open, remote_as) == OpenAs(open) = remote_as

\* What rx_update and tx_update take for the width of the AS numbers.
FourByteAsn(open) == \E i \in 1..Len(parse_capabilites(open)) :
                       parse_capabilites(open)[i].code = BGP_CAP_CODE.FOUR_OCT_AS
=============================================================================

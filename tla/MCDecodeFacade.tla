---------------------------- MODULE MCDecodeFacade ----------------------------
(* Constants for DecodeFacade: an angle, a byte, a nested set, the targets, *)
(* and packets that are rejected at every place.                            *)
EXTENDS DecodeFacade

MCKeys == {<<6>>, <<34>>, <<58>>, <<48, 1>>, NumTargets, Targets}
MCWanted == <<1, 2>>

Element(tag, wire) == [tag |-> tag, wire |-> wire, inner |-> << >>]
Inner(tag, wire) == [tag |-> tag, wire |-> wire]
Nested(tag, inner) == [tag |-> tag, wire |-> << >>, inner |-> inner]
Packet(keyAt, elements) == [keyAt |-> keyAt, elements |-> elements]
Checksum == Element(1, MCWanted)

MCPackets == {
  Packet(0, <<Element(6, <<3>>), Element(34, <<7>>), Checksum>>),
  Packet(0, <<Element(6, <<128, 0>>), Nested(48, <<Inner(1, <<2>>)>>), Checksum>>),
  Packet(5, <<Element(34, <<255>>), Element(58, <<1, 0>>), Element(66, <<9>>), Checksum>>),
  Packet(0, <<Element(34, <<1>>), Element(34, <<2>>)>>),
  Packet(5, <<Nested(74, <<Inner(6, <<5>>), Inner(101, <<8, 9>>)>>), Checksum>>),
  Packet(5, <<Nested(74, <<Inner(101, <<8, 9, 7>>)>>), Checksum>>),
  Packet(0, <<Element(34, <<9>>), Element(1, <<2, 1>>)>>),
  Packet(0, <<Element(58, <<4>>), Element(6, <<1, 2, 3>>), Checksum>>),
  Packet(5, <<Nested(48, <<Inner(1, <<6, 6>>)>>), Element(34, <<5>>)>>),
  Packet(1, <<Element(6, <<4>>)>>)}

==============================================================================

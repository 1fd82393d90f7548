--------------------------- MODULE MCPacketWriter ---------------------------
(***************************************************************************)
(* Small instances of PacketWriter: a ring of three slots, a size_t that   *)
(* wraps after two rounds as the real one does after 2^64 \div 32, and a  *)
(* send buffer that takes less than a full ring.                           *)
(***************************************************************************)
EXTENDS PacketWriter

MCCache       == 3
MCSizeModulus == 2 * MCCache
MCSndBuf      == MCCache - 1
=============================================================================

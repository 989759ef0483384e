---------------------------- MODULE MCAlgorithms -----------------------------
(* Inputs for Algorithms: up to three files of one to four bytes, blocks   *)
(* of two bytes, up to two messages after the handshake.                   *)
EXTENDS Algorithms

Lists(S, n) == UNION {[1 .. k -> S] : k \in 1 .. n}

MCFileLens == Lists(1 .. 4, 3)
MCBufferLens == Lists(1 .. 3, 3)

MCPeerFields == <<0, 7, 9>>
MCMessages ==
  {KeepAlive, Extension}
  \cup {Message(t, <<>>, <<>>) : t \in {"Choke", "Unchoke", "Interested", "NotInterested"}}
  \cup {Message("Have", <<16909060>>, <<>>), Message("Bitfield", <<>>, <<6, 0>>),
        Message("Request", <<1, 2, 256>>, <<>>), Message("Cancel", <<1, 2, 3>>, <<>>),
        Message("Block", <<1, 0>>, <<4, 0, 5>>)}
MCStreams == {<<>>} \cup Lists(MCMessages, 2)
=============================================================================

--------------------------- MODULE MCPeerExchange ---------------------------
(* An instance of PeerExchange for TLC: files of three and four bytes, shared *)
(* in chunks of two bytes, which fit a frame, or four, which do not.       *)
EXTENDS PeerExchange

CONSTANTS a, b

MCContent == {<<a, b, b>>, <<b, b, b, a>>}

MCForeign == {ManifestOf(<<b>>, 2)}
=============================================================================

------------------------------ MODULE MCPeerWire ------------------------------
(* PeerWire on short files, for TLC.  A full chunk is two units longer than  *)
(* the buffer of three, as its frame is longer than the bufio.Writer.        *)
EXTENDS PeerWire
MCLarge == {<<5, 5, 2>>}
MCBoth == {<<5, 5, 2>>, <<3>>}
==============================================================================

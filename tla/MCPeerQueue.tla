---------------------------- MODULE MCPeerQueue ----------------------------
EXTENDS PeerQueue
=============================================================================

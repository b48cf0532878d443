----------------------------- MODULE MCSinkPool -----------------------------
(* Small instances of SinkPool for TLC.                                      *)
EXTENDS SinkPool, TLC

CONSTANTS p1, p2, c1, c2

\* The server's event loop and the websocket log sink use a buffered channel,
\* the websocket event sink an unbuffered one (listeners.go:91-93).
MCPushers   == {p1, p2}
MCOnePusher == {p1}
MCChans     == {c1, c2}
MCMixedCap  == (c1 :> 2) @@ (c2 :> 0)
MCZeroCap   == [c \in Chans |-> 0]
MCOneCap    == [c \in Chans |-> 1]
=============================================================================

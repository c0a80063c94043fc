--------------------------- MODULE BridgeConnection ---------------------------
(***************************************************************************)
(* The bridge's WebSocket (packages/extension/src/connection.ts), as       *)
(* operators on a link                                                     *)
(*   [sock : {"open", "dead", "none"}, buffer, up, down : sequences].      *)
(* up and down are the messages under way to and from the server.  A       *)
(* "dead" socket still looks open to the bridge: what it sends there is    *)
(* lost.  Without a socket it goes to a ring buffer.                       *)
(***************************************************************************)
EXTENDS Integers, Sequences

CONSTANT BufferCap      \* maxBufferSize

NewLink == [sock |-> "open", buffer |-> <<>>, up |-> <<>>, down |-> <<>>]

\* The newest messages the buffer has room for.
Ring(buffer) ==
  IF Len(buffer) > BufferCap THEN SubSeq(buffer, Len(buffer) - BufferCap + 1, Len(buffer))
                             ELSE buffer

Sent(link, messages) ==
  CASE link.sock = "open" -> [link EXCEPT !.up = @ \o messages]
    [] link.sock = "dead" -> link
    [] link.sock = "none" -> [link EXCEPT !.buffer = Ring(@ \o messages)]

\* The peer or the network is gone, before the bridge notices.
Lost(link) == [link EXCEPT !.sock = "dead", !.up = <<>>, !.down = <<>>]

\* handleDisconnect: on close, on error, or from the watchdog.
Closed(link) == [link EXCEPT !.sock = "none"]

\* onopen of a new socket: what onReconnect sends, then the buffer.
Opened(link, replay) ==
  [link EXCEPT !.sock = "open", !.buffer = <<>>, !.up = replay \o link.buffer]
=============================================================================

------------------------------ MODULE WsClient ------------------------------
(***************************************************************************)
(* The websocket client (internal/transport/ws/client.go): one read loop   *)
(* per connection, which pumps frames into a bounded channel until the     *)
(* client is closed or the connection fails.  A client serves one          *)
(* connection and is not used again; sock[c] is the c-th of a charger.     *)
(*                                                                         *)
(* The wire and the library's Read and Write are external: a Write blocks  *)
(* while WireCap frames are on their way, and on a broken connection it    *)
(* either fails or loses the frame.                                        *)
(***************************************************************************)
EXTENDS Frame

CONSTANTS
  InCap,     \* capacity of the inbound channel (64 in the code)
  WireCap,   \* bound: frames on their way in one direction
  MaxConn    \* bound: connections in a charger's life

ASSUME CapacityAssumption ==
  InCap \in Nat \ {0} /\ WireCap \in Nat \ {0} /\ MaxConn \in Nat \ {0}

VARIABLE sock

Conns == 1 .. MaxConn

\* New.  toCms and toCharger are on the wire, hand is what readLoop has read
\* and not yet put into inbound, and reply is what the CMS is writing.
NewSock == [wire |-> "none", closed |-> FALSE, reader |-> "none",
            toCms |-> <<>>, reply |-> <<>>, toCharger |-> <<>>,
            hand |-> <<>>, inbound |-> <<>>]

Connected == [NewSock EXCEPT !.wire = "up", !.reader = "reading"]

\* Neither side can write any more; what the CMS still holds is of no use.
Broken(s) == [s EXCEPT !.wire = "cut", !.toCms = <<>>, !.reply = <<>>]

\* Close, idempotent.  The mutant does not close the channel "closed".
BrokenOnly(s) == Broken(s)
Closed(s) == [Broken(s) EXCEPT !.closed = TRUE]

\* What Send may do with a frame: written, lost on a link that is down, or an
\* error.  The link is up or cut: the actor sends on a connected client only.
Written(s, frame) ==
  IF s.wire = "up" /\ Len(s.toCms) < WireCap
  THEN {[s EXCEPT !.toCms = Append(@, frame)]}
  ELSE IF s.wire = "cut" /\ ~s.closed THEN {s} ELSE {}
SendFails(s) == s.wire = "cut"

-----------------------------------------------------------------------------
(* readLoop                                                                *)

\* What came before a break can still be read, until Close cancels the read.
ReadFrame(c) ==
  LET s == sock[c]
  IN  /\ s.reader = "reading" /\ s.hand = <<>> /\ ~s.closed /\ s.toCharger # <<>>
      /\ sock' = [sock EXCEPT ![c].hand = <<Head(s.toCharger)>>,
                              ![c].toCharger = Tail(s.toCharger)]

\* The mutant goes on reading although the frame in hand has not been taken.
DeliverOrDrop(c) ==
  LET s == sock[c]
  IN  /\ s.hand # <<>>
      /\ sock' = [sock EXCEPT ![c].hand = <<>>,
                   ![c].inbound = IF Len(@) < InCap THEN @ \o s.hand ELSE @]
Deliver(c) ==
  LET s == sock[c]
  IN  /\ s.hand # <<>> /\ Len(s.inbound) < InCap
      /\ sock' = [sock EXCEPT ![c].hand = <<>>, ![c].inbound = @ \o s.hand]

\* The loop ends, which closes inbound: a read fails, or Close comes while a
\* frame waits for room.  What is still on the wire is lost.  The mutant ends
\* with the frame in hand.
ExitedHolding(s) == [s EXCEPT !.reader = "exited", !.toCharger = <<>>]
Exited(s) == [s EXCEPT !.reader = "exited", !.hand = <<>>, !.toCharger = <<>>]
ReadFails(c) ==
  /\ sock[c].reader = "reading" /\ sock[c].hand = <<>> /\ sock[c].wire = "cut"
  /\ sock' = [sock EXCEPT ![c] = Exited(@)]
Abandon(c) ==
  /\ sock[c].hand # <<>> /\ sock[c].closed
  /\ sock' = [sock EXCEPT ![c] = Exited(@)]

ReadLoop(c) == ReadFrame(c) \/ Deliver(c) \/ ReadFails(c) \/ Abandon(c)

-----------------------------------------------------------------------------
(* The network                                                             *)

\* The CMS stops or restarts, or the network fails.
Cut(c) ==
  /\ sock[c].wire = "up"
  /\ sock' = [sock EXCEPT ![c] = Broken(@)]
=============================================================================

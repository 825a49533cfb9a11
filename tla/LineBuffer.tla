----------------------------- MODULE LineBuffer -----------------------------
(***************************************************************************)
(* One MooTCP driver (drivers/tcp.cpp) and its peer.  The peer sends bytes *)
(* and may close; the program calls receive() for a line at any time in    *)
(* between.                                                                *)
(***************************************************************************)
EXTENDS TcpBuffer, Integers

CONSTANT MaxSent   (* the peer sends at most this many bytes               *)

VARIABLES
  b,       (* the driver                                                   *)
  sent,    (* history: every byte the peer has sent                        *)
  taken,   (* history: the bytes of the lines receive() has consumed       *)
  ret      (* what receive() returned last; -1 when it threw moo_closed    *)

vars == <<b, sent, taken, ret>>

Init ==
  /\ b = FreshDriver
  /\ sent = <<>>
  /\ taken = <<>>
  /\ ret = 0

-----------------------------------------------------------------------------

(* A byte arrives from the network.                                         *)
Send(byte) ==
  /\ ~b.eof
  /\ Len(sent) < MaxSent
  /\ b' = [b EXCEPT !.sock = Append(@, byte)]
  /\ sent' = Append(sent, byte)
  /\ UNCHANGED <<taken, ret>>

(* The peer's end of file arrives.                                          *)
PeerCloses ==
  /\ ~b.eof
  /\ b' = [b EXCEPT !.eof = TRUE]
  /\ UNCHANGED <<sent, taken, ret>>

(* MooTCP::receive(data, len, delim): it throws moo_closed, ...             *)
ReceiveClosed ==
  /\ RecvFails(b)
  /\ b' = [b EXCEPT !.connected = FALSE]
  /\ ret' = -1
  /\ UNCHANGED <<sent, taken>>

(* ... or it returns the bytes before the first delimiter, and steps over   *)
(* both, ...                                                                *)
ReceiveLine ==
  LET filled == RecvToBuffer(b)
  IN /\ ~RecvFails(b)
     /\ \E i \in DOMAIN filled.data :
          /\ DelimAt(filled, i)
          /\ b' = ReadPos(filled, i)
          /\ taken' = taken \o SubSeq(filled.data, b.pos + 1, i)
          /\ ret' = i - b.pos - 1
     /\ UNCHANGED sent

(* ... or, without a delimiter, it returns 0 and leaves the bytes unread.   *)
ReceiveNothing ==
  /\ ~RecvFails(b)
  /\ ~HasLine(RecvToBuffer(b))
  /\ b' = RecvToBuffer(b)
  /\ ret' = 0
  /\ UNCHANGED <<sent, taken>>

Next ==
  \/ \E byte \in Byte : Send(byte)
  \/ PeerCloses
  \/ ReceiveClosed
  \/ ReceiveLine
  \/ ReceiveNothing

Spec == Init /\ [][Next]_vars

-----------------------------------------------------------------------------

(* m_read_pos and m_read_length stay inside m_read_buffer with room for the *)
(* terminating NUL, a buffer that is not empty has something unread, and no *)
(* line is longer than the buffer.                                          *)
BufferBounds ==
  /\ b \in Driver /\ ret \in -1..(Capacity - 2)
  /\ Len(b.data) < Capacity
  /\ b.data # <<>> => b.pos < Len(b.data)
  /\ b.data = <<>> => b.pos = 0

(* However the calls and the arrivals interleave, the bytes taken, then the *)
(* bytes buffered, then the bytes in the kernel are what the peer sent.     *)
NothingLost == taken \o Unread(b) \o b.sock = sent

(* receive() takes whole lines off the peer's stream, in order.             *)
Stream == INSTANCE LineStream
ImplementsLineStream == Stream!Spec

-----------------------------------------------------------------------------
(* What a comment of tcp.cpp says, and the code does not do.                *)

(* tcp.cpp:241, "return ... -1 on error or disconnect": only the peer's     *)
(* closing makes receive() report the connection closed.                    *)
OnlyPeerCloses == ~b.connected => b.eof

=============================================================================

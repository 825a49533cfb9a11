----------------------------- MODULE TcpBuffer -----------------------------
(***************************************************************************)
(* The receiving half of a MooTCP driver (drivers/tcp.cpp) as functions of *)
(* its state: what the kernel holds for its socket, its read buffer, its   *)
(* READ bit and its CONNECTED bit.  LineBuffer runs one such driver against*)
(* its peer; TelnetServer runs several under the main loop.                *)
(***************************************************************************)
EXTENDS Naturals, Sequences

CONSTANTS
  Byte,      (* the bytes a peer may send                                  *)
  Delim,     (* the one that ends a line                                   *)
  Capacity   (* TCP_READ_BUFFER: the buffer holds Capacity - 1 bytes       *)

ASSUME BufferAssumption ==
  /\ Delim \in Byte
  /\ Capacity \in Nat \ {0, 1}

Driver ==
  [sock      : Seq(Byte),   \* received by the kernel, not yet by the driver
   eof       : BOOLEAN,     \* the peer has closed its side
   data      : Seq(Byte),   \* m_read_buffer, up to m_read_length
   pos       : Nat,         \* m_read_pos
   ready     : BOOLEAN,     \* IO_READY_READ in m_bits
   connected : BOOLEAN]     \* SDM_IBF_CONNECTED in m_bits

(* The driver of a connection MooServer::receive_connection has accepted.   *)
FreshDriver ==
  [sock |-> <<>>, eof |-> FALSE, data |-> <<>>, pos |-> 0, ready |-> FALSE, connected |-> TRUE]

(* The bytes of the read buffer nobody has read yet.                        *)
Unread(b) == SubSeq(b.data, b.pos + 1, Len(b.data))

(* select() reports a socket readable at end of file as well.               *)
Readable(b) == b.sock # <<>> \/ b.eof

(* MooTCP::check_ready: the READ bit becomes what select() says.            *)
CheckReady(b) == [b EXCEPT !.ready = Readable(b)]

-----------------------------------------------------------------------------

(* Mutant: no room is kept for the terminating NUL.                         *)
IncomingToTheBrim(b) ==
  LET room == Capacity - Len(b.data)
  IN SubSeq(b.sock, 1, IF room < Len(b.sock) THEN room ELSE Len(b.sock))

(* The bytes recv() would move into the room left in the buffer: none at    *)
(* end of file, and none when the buffer is full.                           *)
Incoming(b) ==
  LET room == Capacity - Len(b.data) - 1
  IN SubSeq(b.sock, 1, IF room < Len(b.sock) THEN room ELSE Len(b.sock))

(* MooTCP::recv_to_buffer returns -1: there is something to receive, and    *)
(* recv() returns 0.                                                        *)
RecvFails(b) == Readable(b) /\ Incoming(b) = <<>>

(* MooTCP::recv_to_buffer otherwise: what is there moves to the buffer.     *)
RecvToBuffer(b) ==
  IF ~Readable(b) THEN b
  ELSE [b EXCEPT !.sock  = SubSeq(@, Len(Incoming(b)) + 1, Len(@)),
                 !.data  = @ \o Incoming(b),
                 !.ready = TRUE]

(* Mutant: any delimiter ends the line.                                     *)
AnyDelimAt(b, i) ==
  /\ i \in (b.pos + 1)..Len(b.data)
  /\ b.data[i] = Delim

(* The first unread delimiter is at index i of the buffer.                  *)
DelimAt(b, i) ==
  /\ i \in (b.pos + 1)..Len(b.data)
  /\ b.data[i] = Delim
  /\ \A k \in (b.pos + 1)..(i - 1) : b.data[k] # Delim

HasLine(b) == \E i \in (b.pos + 1)..Len(b.data) : b.data[i] = Delim

(* Mutant: the buffer is emptied with a byte still unread.                  *)
ReadPosEarly(b, p) ==
  IF p >= Len(b.data) - 1
  THEN [b EXCEPT !.ready = FALSE, !.pos = 0, !.data = <<>>]
  ELSE [b EXCEPT !.ready = TRUE, !.pos = p]

(* MooTCP::read_pos: the buffer is emptied once all of it has been read.    *)
ReadPos(b, p) ==
  IF p >= Len(b.data)
  THEN [b EXCEPT !.ready = FALSE, !.pos = 0, !.data = <<>>]
  ELSE [b EXCEPT !.ready = TRUE, !.pos = p]

=============================================================================

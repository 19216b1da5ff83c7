----------------------------- MODULE WireFrame -----------------------------
(***************************************************************************)
(* common/wireframe.h: how an Envelope becomes the frames of one ZeroMQ    *)
(* message and back.                                                       *)
(*                                                                         *)
(* A frame is its bytes and the flag that says whether more of the message *)
(* follow.  Bytes are empty (<<>>) or <<first byte, the rest>>; the rest   *)
(* is a header if a codec can decode it.  A payload is bytes too, and may  *)
(* well look like a header.  A socket is the sequence of frames in it.     *)
(***************************************************************************)
EXTENDS Integers, Sequences

CONSTANT Header

Protobuf == 1
Formats == {Protobuf}
defaultFormat == Protobuf

Frame(bytes, more) == [bytes |-> bytes, more |-> more]
Envelope(header, payload) == [header |-> header, payload |-> payload]

encodeHeader(header) == <<defaultFormat, header>>

sendFrames(headerBytes, payload) ==
  IF payload = <<>>
  THEN <<Frame(headerBytes, FALSE)>>
  ELSE <<Frame(headerBytes, TRUE), Frame(payload, FALSE)>>

(* The socket without the rest of the current message. *)
drainNothing(sock, rcvmore) == sock

drainMultipart(sock, rcvmore) ==
  IF rcvmore
  THEN LET last == CHOOSE i \in DOMAIN sock : ~sock[i].more /\ \A j \in 1..(i - 1) : sock[j].more
       IN  SubSeq(sock, last + 1, Len(sock))
  ELSE sock

Decodable(bytes) == bytes # <<>> /\ bytes[1] \in Formats /\ bytes[2] \in Header

(* What recv makes of a socket that has a message: the envelope, if there  *)
(* is one, and the socket it leaves.                                       *)
recv(sock) ==
  LET f == Head(sock)
      rest == Tail(sock)
  IN  IF ~Decodable(f.bytes)
      THEN [ok |-> FALSE, sock |-> drainMultipart(rest, f.more)]
      ELSE IF f.more
      THEN [ok |-> TRUE, env |-> Envelope(f.bytes[2], Head(rest).bytes),
            sock |-> drainMultipart(Tail(rest), Head(rest).more)]
      ELSE [ok |-> TRUE, env |-> Envelope(f.bytes[2], <<>>), sock |-> rest]
=============================================================================

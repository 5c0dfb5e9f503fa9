------------------------------- MODULE Framer -------------------------------
(***************************************************************************)
(* How both protocols cut a byte stream into messages.  A byte is a cell:  *)
(* the message it belongs to and its place in it.  A header is so many     *)
(* cells, and once it is complete the first cell of a message tells its    *)
(* declared size.                                                          *)
(***************************************************************************)
EXTENDS Integers, Sequences

\* The first n bytes of a message.
Bytes(m, n) == [j \in 1..n |-> [msg |-> m, at |-> j]]

Whole(m) == Bytes(m, m.size)

Drop(s, n) == SubSeq(s, n + 1, Len(s))

\* One turn of the loop in push: the next frame, if all of it is there.
FrameOne(f, header, limit) ==
  LET n == f.rest[1].msg.size
  IN  IF ~f.ok \/ Len(f.rest) < header THEN f
      ELSE IF n < header \/ n > limit THEN [f EXCEPT !.ok = FALSE]
      ELSE IF Len(f.rest) < n THEN f
      ELSE [f EXCEPT !.out = Append(@, SubSeq(f.rest, 1, n)), !.rest = Drop(f.rest, n)]

Unframed(bytes) == [out |-> <<>>, rest |-> bytes, ok |-> TRUE]

\* (slip) one frame per chunk: the rest waits for the next bytes
Push_One(bytes, header, limit) == FrameOne(Unframed(bytes), header, limit)

\* _MessageFramer._push, MySqlPacketFramer.push: the complete frames, what
\* stays in the buffer, and whether no length was rejected.  A rejected
\* length drops the frames found before it in the same chunk.
Push(bytes, header, limit) ==
  LET turn[i \in 0..Len(bytes)] ==
        IF i = 0 THEN Unframed(bytes) ELSE FrameOne(turn[i - 1], header, limit)
  IN  turn[Len(bytes)]

=============================================================================

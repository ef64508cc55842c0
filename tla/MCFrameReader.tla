---------------------------- MODULE MCFrameReader ----------------------------
(* FrameReader with IDs of 2 bytes, a buffer of 5 and up to MaxMessages    *)
(* messages: shorter than the buffer, as long, a byte longer, and with     *)
(* tails of one, two and more bytes after one and after two buffers.       *)
EXTENDS FrameReader

CONSTANT MaxMessages

MCLengths == {3, 5, 6, 7, 9, 11, 13}

RECURSIVE LayoutsOf(_)
LayoutsOf(n) ==
  IF n = 0 THEN {<<>>}
  ELSE {<<>>} \cup
       {<<l>> \o [i \in DOMAIN rest |-> rest[i] + l] :
          l \in MCLengths, rest \in LayoutsOf(n - 1)}

MCLayouts == LayoutsOf(MaxMessages)

=============================================================================

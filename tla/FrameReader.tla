----------------------------- MODULE FrameReader -----------------------------
(***************************************************************************)
(* How the bytes of one "/collect" stream become submissions.              *)
(*                                                                         *)
(* The remote end writes well-formed messages: IdLen bytes of submission   *)
(* ID, then the JSON of the submission.  The handler takes what one Read   *)
(* gives it for one message: the first IdLen bytes for the ID, the rest    *)
(* for the JSON.  Nothing marks the end of a message.                      *)
(*                                                                         *)
(* Bytes are positions 1, 2, ... of the stream, and message m takes the    *)
(* positions Start(m) + 1 .. Finish(m).  Reading turns one stream's bytes  *)
(* into the four results Collector has for a read.  A panic ends the       *)
(* process, so nothing sent behind it is read.                             *)
(***************************************************************************)
EXTENDS Integers, Sequences

CONSTANTS
  IdLen,        \* bytes of a submission ID (36)
  BufLen,       \* bytes of the read buffer (1024)
  Layouts       \* what may be sent: where each message of a stream ends

(* Each message has an ID and a JSON text. *)
Layout(ends) ==
  /\ ends \in Seq(Nat)
  /\ \A m \in DOMAIN ends : IdLen < ends[m]
  /\ \A m, k \in DOMAIN ends : m < k => ends[m] + IdLen < ends[k]

ASSUME LengthsAssumption == IdLen \in Nat \ {0} /\ BufLen \in Nat /\ IdLen < BufLen

ASSUME LayoutsAssumption == \A ends \in Layouts : Layout(ends)

VARIABLES
  ends,      \* where the messages of the stream end
  segmented, \* whether a Read stops where a write of the sender ended
  pos,       \* bytes read
  state,     \* "reading", "closed" or "panicked"
  unhandled, \* bytes that came with io.EOF and were not looked at
  decoded    \* what was decoded and pushed to the queue, in order

vars == <<ends, segmented, pos, state, unhandled, decoded>>

Messages == DOMAIN ends
Start(m) == IF m = 1 THEN 0 ELSE ends[m - 1]
Finish(m) == ends[m]
Length(m) == Finish(m) - Start(m)
Sent == IF ends = <<>> THEN 0 ELSE ends[Len(ends)]

Fits(m) == Length(m) <= BufLen

(* A submission the handler decoded came from a message: with that         *)
(* message's ID, or with other bytes taken for its ID.                     *)
Decoded == [msg : Nat, ownId : BOOLEAN]

Init ==
  /\ ends \in Layouts
  /\ segmented \in BOOLEAN
  /\ pos = 0
  /\ state = "reading"
  /\ unhandled = 0
  /\ decoded = <<>>

-----------------------------------------------------------------------------

(* A Read gives at least one byte and at most a buffer.  The muxer of a    *)
(* TCP connection gives what is left of one write; other transports and    *)
(* senders that write in pieces give any part of what was sent.            *)
Given(n, size) ==
  /\ n \in 1..size
  /\ pos + n <= Sent
  /\ segmented =>
       \E m \in Messages :
         /\ Start(m) <= pos
         /\ pos < Finish(m)
         /\ n = IF Finish(m) - pos < size THEN Finish(m) - pos ELSE size

Chunk_BufferTooShort(n) == Given(n, BufLen - 1)

Chunk_WholeBuffer(n) == n = BufLen /\ pos < Sent

Chunk(n) == Given(n, BufLen)

(* The chunk is message m from its first byte to its last. *)
Whole(m, n) == pos = Start(m) /\ pos + n = Finish(m)

(* What follows the first IdLen bytes lies strictly inside the JSON of m,  *)
(* where it may be a nested object, or a null, that decodes as well.       *)
Nested(m, n) ==
  /\ Start(m) < pos
  /\ IdLen < n
  /\ pos + n < Finish(m)

(* On a chunk shorter than an ID the handler panics.  The ID is no trouble,*)
(* a slice may reach to the capacity of its buffer; but the rest would     *)
(* begin behind the end of the chunk.                                      *)
ReadShort_IdAlone(n) ==
  /\ Chunk(n)
  /\ n <= IdLen
  /\ state' = "panicked"
  /\ pos' = pos + n
  /\ UNCHANGED <<ends, segmented, unhandled, decoded>>

ReadShort(n) ==
  /\ Chunk(n)
  /\ n < IdLen
  /\ state' = "panicked"
  /\ pos' = pos + n
  /\ UNCHANGED <<ends, segmented, unhandled, decoded>>

(* A whole message is decoded, and has the request that is used next.      *)
ReadSubmission_ChunkKept(n) ==
  /\ Chunk(n)
  /\ \E m \in Messages :
       Whole(m, n) /\ decoded' = Append(decoded, [msg |-> m, ownId |-> TRUE])
  /\ Len(decoded) < 2 * Len(ends)
  /\ UNCHANGED <<ends, segmented, pos, state, unhandled>>

ReadSubmission(n) ==
  /\ Chunk(n)
  /\ pos' = pos + n
  /\ \E m \in Messages :
       Whole(m, n) /\ decoded' = Append(decoded, [msg |-> m, ownId |-> TRUE])
  /\ UNCHANGED <<ends, segmented, state, unhandled>>

(* A nested value decodes to a submission, as a rule to one without a      *)
(* request: it is pushed, and then the nil request is dereferenced.  The   *)
(* handler reads on only if the push fails or the value has a request.     *)
ReadNested(n) ==
  /\ Chunk(n)
  /\ pos' = pos + n
  /\ \E m \in Messages :
       Nested(m, n) /\ decoded' = Append(decoded, [msg |-> m, ownId |-> FALSE])
  /\ state' \in {"reading", "panicked"}
  /\ UNCHANGED <<ends, segmented, unhandled>>

(* The rest of the chunk is not a JSON text: the chunk is dropped. *)
ReadGarbage(n) ==
  /\ Chunk(n)
  /\ n >= IdLen
  /\ ~\E m \in Messages : Whole(m, n)
  /\ pos' = pos + n
  /\ UNCHANGED <<ends, segmented, state, unhandled, decoded>>

(* Read gives io.EOF or another error: the handler leaves.  An error may   *)
(* come anytime; io.EOF may come with the last bytes, which are lost then. *)
ReadEnd(n) ==
  /\ \/ n = 0
     \/ Chunk(n) /\ pos + n = Sent
  /\ pos' = pos + n
  /\ unhandled' = n
  /\ state' = "closed"
  /\ UNCHANGED <<ends, segmented, decoded>>

Next ==
  /\ state = "reading"
  /\ \/ \E n \in 1..BufLen :
          ReadShort(n) \/ ReadSubmission(n) \/ ReadNested(n) \/ ReadGarbage(n)
     \/ \E n \in 0..BufLen : ReadEnd(n)

Spec == Init /\ [][Next]_vars

-----------------------------------------------------------------------------
(* Properties. *)

(* Every variable has its type, and no more is read than was sent. *)
TypeOK ==
  /\ ends \in Layouts
  /\ segmented \in BOOLEAN
  /\ pos \in 0..Sent
  /\ state \in {"reading", "closed", "panicked"}
  /\ unhandled \in 0..BufLen
  /\ decoded \in Seq(Decoded)

(* However the bytes are cut, submissions are decoded in the order sent,   *)
(* and a message that was decoded as a whole gives no second submission:   *)
(* bytes are never read twice and no two messages are taken for one.       *)
InOrder ==
  \A j \in DOMAIN decoded : \A i \in 1..(j - 1) :
    /\ decoded[i].msg <= decoded[j].msg
    /\ decoded[i].ownId \/ decoded[j].ownId => decoded[i].msg < decoded[j].msg

DecodedWhole(m) == \E i \in DOMAIN decoded : decoded[i] = [msg |-> m, ownId |-> TRUE]

(* When reads stop where writes ended, a message that fits the buffer has  *)
(* three ways not to be decoded with its own ID: it is still to be read or *)
(* an error came before it; the process ended in a panic within an earlier *)
(* message that is too long; or it is the last one and its bytes came with *)
(* the end of the stream.  A message that is too long and does not panic   *)
(* loses no other one.                                                     *)
FittingDecoded ==
  segmented => \A m \in Messages : Fits(m) =>
    \/ DecodedWhole(m)
    \/ /\ pos <= Start(m)
       /\ state = "panicked" =>
            \E l \in Messages : l < m /\ ~Fits(l) /\ Start(l) < pos /\ pos <= Finish(l)
    \/ state = "closed" /\ m = Len(ends) /\ unhandled = Length(m)

(* When reads stop where writes ended and all messages fit the buffer, the *)
(* handler decodes message after message, each once and with its own ID,   *)
(* never panics, and has looked at all bytes read but those that came with *)
(* the end of the stream.                                                  *)
OneByOne ==
  segmented /\ (\A m \in Messages : Fits(m)) =>
    /\ state # "panicked"
    /\ \A i \in DOMAIN decoded : decoded[i] = [msg |-> i, ownId |-> TRUE]
    /\ pos = unhandled + (IF decoded = <<>> THEN 0 ELSE Finish(Len(decoded)))

(* When reads stop where writes ended, a submission goes to the queue with *)
(* an ID that is not its own only out of a message of over two buffers.    *)
ForeignIdNeedsLongMessage ==
  segmented => \A i \in DOMAIN decoded :
    ~decoded[i].ownId => Length(decoded[i].msg) > 2 * BufLen

(* When reads stop where writes ended, the handler panics only on the tail *)
(* of a message longer than the buffer, that is shorter than an ID, or     *)
(* within a message of over two buffers, after it has pushed a part of it  *)
(* with an ID that is not its own.                                         *)
PanicsInLongMessages ==
  segmented /\ state = "panicked" =>
    \E m \in Messages :
      /\ Start(m) < pos
      /\ \/ pos = Finish(m) /\ \E k \in 1..pos : Length(m) - k * BufLen \in 1..(IdLen - 1)
         \/ /\ pos < Finish(m) /\ Length(m) > 2 * BufLen
            /\ \E i \in DOMAIN decoded : decoded[i] = [msg |-> m, ownId |-> FALSE]

=============================================================================

---------------------------- MODULE Submissions ----------------------------
(***************************************************************************)
(* The data the listener handles: snapshot submissions, the entries it     *)
(* puts on the submission queue, and the keys of its per-slot counters.    *)
(*                                                                         *)
(* A submission is kept down to what decides control or names a counter:   *)
(* its data market and its request.  The request is a pointer in the       *)
(* program and may be absent.  The other fields (signature, header, CID,   *)
(* project, node version) are carried, never looked at.                    *)
(***************************************************************************)
EXTENDS Naturals

CONSTANTS
  Markets,    \* data market addresses
  Slots,      \* slot identifiers
  Epochs,     \* epoch identifiers
  Streams,    \* remote ends, each with at most one open "/collect" stream
  MaxChunks,  \* bound: chunks a remote end ever gets read
  Nil         \* the absent request; also the empty hand of a handler

Request == [slot : Slots, epoch : Epochs]

ASSUME NilAssumption == Nil \notin Request

ASSUME MaxChunksAssumption == MaxChunks \in Nat

Submission == [market : Markets, request : Request \cup {Nil}]

(* An entry of the queue, with the stream and the number of the chunk it   *)
(* was read from.  Two entries of the program may be equal byte for byte;  *)
(* stream and number are history that tells a copy from a new submission.  *)
Entry == [stream : Streams, seq : 1..MaxChunks, sub : Submission]

HasRequest(e) == e.sub.request # Nil

(* The decimal numbers and the dots of the formatted key can be read back  *)
(* from its right end, so the key stands for the triple it is made of.     *)
KeyWithoutEpoch(market, slot, epoch) == <<market, slot>>

EpochSubmissionCountsReceivedInSlotKey(market, slot, epoch) ==
  <<market, slot, epoch>>

Keys == {EpochSubmissionCountsReceivedInSlotKey(m, s, e) :
           m \in Markets, s \in Slots, e \in Epochs}

(* The counter of an entry that has a request. *)
KeyOf(e) ==
  EpochSubmissionCountsReceivedInSlotKey(
    e.sub.market, e.sub.request.slot, e.sub.request.epoch)

=============================================================================

------------------------------- MODULE Alerts -------------------------------
(***************************************************************************)
(* Alerts on their way to the reporting URL: SendFailureNotification of    *)
(* package common puts them into a buffered channel, or drops them when    *)
(* the channel is full; one reporter goroutine takes them out and posts    *)
(* each once, with a timeout of 5 seconds.                                 *)
(*                                                                         *)
(* An alert is kept down to its number: the n-th raised is n.              *)
(***************************************************************************)
EXTENDS Naturals, Sequences, FiniteSets

CONSTANTS
  Capacity   \* of SequencerAlertsChannel (10000)

ASSUME CapacityAssumption == Capacity \in Nat

VARIABLES
  wellFormed,  \* whether the reporting URL parses
  running,     \* whether the process runs
  raised,      \* alerts raised so far, in all lives of the process
  channel,     \* SequencerAlertsChannel
  posting,     \* the alert the reporter is posting, 0 for none
  posted,      \* what reached the reporting URL, in this order
  gaveUp,      \* alerts posted without an answer in time
  dropped,     \* history: alerts the channel had no room for
  lost         \* history: alerts whose post failed, or that ended with the process

alertVars == <<raised, channel, posting, posted, gaveUp, dropped, lost>>

AlertsInit ==
  /\ wellFormed \in BOOLEAN
  /\ running = TRUE
  /\ raised = 0
  /\ channel = <<>>
  /\ posting = 0
  /\ posted = <<>>
  /\ gaveUp = {}
  /\ dropped = {}
  /\ lost = {}

Members(s) == {s[i] : i \in DOMAIN s}

InHand == {posting} \ {0}

-----------------------------------------------------------------------------

(* A send that never waits: without room, the new alert is dropped. *)
SendFailureNotification_Waiting ==
  /\ Len(channel) < Capacity
  /\ raised' = raised + 1
  /\ channel' = Append(channel, raised')
  /\ UNCHANGED <<posting, posted, gaveUp, dropped, lost>>

SendFailureNotification_OneOver ==
  /\ raised' = raised + 1
  /\ IF Len(channel) <= Capacity
     THEN channel' = Append(channel, raised') /\ UNCHANGED dropped
     ELSE dropped' = dropped \cup {raised'} /\ UNCHANGED channel
  /\ UNCHANGED <<posting, posted, gaveUp, lost>>

SendFailureNotification ==
  /\ raised' = raised + 1
  /\ IF Len(channel) < Capacity
     THEN channel' = Append(channel, raised') /\ UNCHANGED dropped
     ELSE dropped' = dropped \cup {raised'} /\ UNCHANGED channel
  /\ UNCHANGED <<posting, posted, gaveUp, lost>>

Receive ==
  /\ running
  /\ posting = 0
  /\ channel # <<>>
  /\ posting' = Head(channel)
  /\ channel' = Tail(channel)
  /\ UNCHANGED <<wellFormed, running, raised, posted, gaveUp, dropped, lost>>

Posting == running /\ posting # 0 /\ wellFormed

(* The request arrives while the reporter waits for it to be answered;     *)
(* whatever the answer, it is only logged.                                 *)
Posted ==
  /\ Posting
  /\ posted' = Append(posted, posting)
  /\ posting' = 0
  /\ UNCHANGED <<wellFormed, running, raised, channel, gaveUp, dropped, lost>>

(* The request cannot be sent; so it is with a URL that was not set. *)
PostFails_PutBack ==
  /\ Posting
  /\ channel' = Append(channel, posting)
  /\ posting' = 0
  /\ UNCHANGED <<wellFormed, running, raised, posted, gaveUp, dropped, lost>>

PostFails ==
  /\ Posting
  /\ lost' = lost \cup {posting}
  /\ posting' = 0
  /\ UNCHANGED <<wellFormed, running, raised, channel, posted, gaveUp, dropped>>

(* The timeout ends the wait; the request may be on its way. *)
PostTimesOut_TriedAgain ==
  /\ Posting
  /\ gaveUp' = gaveUp \cup {posting}
  /\ UNCHANGED <<wellFormed, running, raised, channel, posting, posted, dropped, lost>>

PostTimesOut ==
  /\ Posting
  /\ gaveUp' = gaveUp \cup {posting}
  /\ posting' = 0
  /\ UNCHANGED <<wellFormed, running, raised, channel, posted, dropped, lost>>

ArrivesLate ==
  \E a \in gaveUp \ Members(posted) :
    /\ posted' = Append(posted, a)
    /\ UNCHANGED <<wellFormed, running, raised, channel, posting, gaveUp, dropped, lost>>

(* The end of the process is the end of the channel. *)
EndAlerts ==
  /\ running' = FALSE
  /\ lost' = lost \cup Members(channel) \cup InHand
  /\ channel' = <<>>
  /\ posting' = 0
  /\ UNCHANGED <<wellFormed, raised, posted, gaveUp, dropped>>

(* The error of making a request is logged, and the request that was not   *)
(* made is used: the panic of the reporter ends the process.               *)
RequestPanics == running /\ posting # 0 /\ ~wellFormed

(* What the reporter does beside ending the process. *)
Report == Receive \/ Posted \/ PostFails \/ PostTimesOut

-----------------------------------------------------------------------------
(* Properties. *)

AlertsTypeOK ==
  /\ wellFormed \in BOOLEAN
  /\ running \in BOOLEAN
  /\ raised \in Nat
  /\ channel \in Seq(1..raised) /\ Len(channel) <= Capacity
  /\ posting \in 0..raised
  /\ posted \in Seq(1..raised)
  /\ gaveUp \subseteq 1..raised
  /\ dropped \subseteq 1..raised
  /\ lost \subseteq 1..raised

(* Where an alert can be. *)
Places ==
  <<Members(channel), InHand, gaveUp \ Members(posted), Members(posted), dropped, lost>>

(* Every alert raised is in one place: none vanishes between the channel,  *)
(* the reporter and the wire, none is there twice, and what was dropped or *)
(* lost is not shown after all.                                            *)
AlertsAccounted ==
  \A a \in 1..raised :
    \E i \in DOMAIN Places :
      /\ a \in Places[i]
      /\ \A j \in DOMAIN Places : a \in Places[j] => j = i

(* The alerts as the reader of the reporting channel sees them: with a     *)
(* channel that drops, timeouts, late arrivals and restarts, none is shown *)
(* twice, and those shown in time are in the order raised.                 *)
Feed == INSTANCE AlertFeed
          WITH feed <- posted, late <- gaveUp \cap Members(posted)

FeedSpec == Feed!FeedSpec

=============================================================================

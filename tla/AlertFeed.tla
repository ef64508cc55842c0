------------------------------ MODULE AlertFeed ------------------------------
(***************************************************************************)
(* What whoever reads the reporting channel is promised: an alert is shown *)
(* at most once, never before it was raised, and the alerts that were      *)
(* shown in time are in the order in which they were raised.               *)
(***************************************************************************)
EXTENDS Naturals, Sequences

VARIABLES
  raised,  \* alerts are numbered in the order they are raised: 1..raised
  feed,    \* the alerts shown, in order
  late     \* those of them that were shown late, after the sender gave up

feedVars == <<raised, feed, late>>

FeedInit ==
  /\ raised = 0
  /\ feed = <<>>
  /\ late = {}

Shown == {feed[i] : i \in DOMAIN feed}

Raise ==
  /\ raised' = raised + 1
  /\ UNCHANGED <<feed, late>>

Show(a) ==
  /\ a \notin Shown
  /\ \A b \in Shown \ late : b < a
  /\ feed' = Append(feed, a)
  /\ UNCHANGED <<raised, late>>

ShowLate(a) ==
  /\ a \notin Shown
  /\ feed' = Append(feed, a)
  /\ late' = late \cup {a}
  /\ UNCHANGED raised

FeedNext ==
  \/ Raise
  \/ \E a \in 1..raised : Show(a) \/ ShowLate(a)

FeedSpec == FeedInit /\ [][FeedNext]_feedVars

(* No alert is shown twice, and those shown in time are in order. *)
FeedInOrder ==
  \A i, j \in DOMAIN feed :
    /\ feed[i] = feed[j] => i = j
    /\ (i < j /\ {feed[i], feed[j]} \cap late = {}) => feed[i] < feed[j]

=============================================================================

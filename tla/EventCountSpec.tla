--------------------------- MODULE EventCountSpec ---------------------------
(***************************************************************************)
(* What an EventCount promises to the threads that wait on it.  A thread   *)
(* that announced itself with Prewait decides, in the order of the         *)
(* announcements, to sleep or to cancel.  A notification goes to the       *)
(* oldest undecided thread, else to the thread that fell asleep last, and  *)
(* is lost only if there is neither.                                       *)
(***************************************************************************)
EXTENDS Naturals, Sequences, SequencesExt

CONSTANT Waiters

VARIABLES announced,   \* between Prewait and the decision, oldest first
          parked,      \* asleep, the last one first
          released     \* notified, but not back from the wait yet

ecVars == <<announced, parked, released>>

EcTypeOK ==
  /\ announced \in Seq(Waiters) /\ parked \in Seq(Waiters)
  /\ released \subseteq Waiters

EcInit ==
  /\ announced = <<>>
  /\ parked = <<>>
  /\ released = {}

Outside(w) == w \notin released \cup ToSet(announced) \cup ToSet(parked)

EcPrewait(w) ==
  /\ Outside(w)
  /\ announced' = Append(announced, w)
  /\ UNCHANGED <<parked, released>>

(* CancelWait, and CommitWait or Park on finding the notification *)
EcLeave(w) ==
  /\ w \in released
  /\ released' = released \ {w}
  /\ UNCHANGED <<announced, parked>>

EcMyTurn(w) == announced # <<>> /\ Head(announced) = w

EcCancel(w) ==
  /\ EcMyTurn(w)
  /\ announced' = Tail(announced)
  /\ UNCHANGED <<parked, released>>

EcSleep(w) ==
  /\ EcMyTurn(w)
  /\ announced' = Tail(announced)
  /\ parked' = <<w>> \o parked
  /\ UNCHANGED released

EcNotifyOne ==
  \/ /\ announced # <<>>
     /\ released' = released \cup {Head(announced)}
     /\ announced' = Tail(announced)
     /\ UNCHANGED parked
  \/ /\ announced = <<>> /\ parked # <<>>
     /\ released' = released \cup {Head(parked)}
     /\ parked' = Tail(parked)
     /\ UNCHANGED announced

EcNotifyAll ==
  /\ announced \o parked # <<>>
  /\ released' = released \cup ToSet(announced \o parked)
  /\ announced' = <<>>
  /\ parked' = <<>>

EcNext ==
  \/ \E w \in Waiters : EcPrewait(w) \/ EcLeave(w) \/ EcCancel(w) \/ EcSleep(w)
  \/ EcNotifyOne \/ EcNotifyAll

EcSpec == EcInit /\ [][EcNext]_ecVars
=============================================================================

---------------------------- MODULE BarrierProofs ----------------------------
(***************************************************************************)
(* The safety of Barrier, for any number of notifiers and waiters.  Inv    *)
(* ties the atomic word to the notifications still to come, mu_ to the     *)
(* thread at a label inside its critical section, and the notifier that    *)
(* wakes to a waiter that cannot leave before it.                          *)
(***************************************************************************)
EXTENDS Barrier, FiniteSetTheorems, TLAPS

USE NotifiersAssumption, ThreadsAssumption

(* The threads yet to call Notify are finitely many; removing the one that *)
(* calls it takes one from their number.                                   *)
LEMMA OutstandingFinite ==
  /\ IsFiniteSet(Outstanding)
  /\ Cardinality(Outstanding) \in Nat
  /\ Cardinality(Outstanding) = 0 <=> Outstanding = {}
<1>1. IsFiniteSet(Outstanding)
  BY FS_Subset DEF Outstanding
<1> QED
  BY <1>1, FS_CardinalityType, FS_EmptySet

(* The decrement of Notify takes the notifier out of Outstanding. *)
LEMMA WordDropsByTwo ==
  ASSUME NEW n \in Notifiers, TypeOK, LabelsFit, WordIsExact, pc[n] = "notify",
         NEW label, label # "notify", pc' = [pc EXCEPT ![n] = label],
         state' = state - 2
  PROVE  /\ WordIsExact'
         /\ Outstanding' = Outstanding \ {n}
         /\ Flag' = Flag /\ Flag \in {0, 1}
         /\ state' = 1 <=> Flag = 1 /\ Outstanding' = {}
<1>1. Outstanding' = Outstanding \ {n} /\ n \in Outstanding
  BY DEF Outstanding, TypeOK, Threads
<1>2. Flag' = Flag /\ Flag \in {0, 1}
  BY DEF Flag, TypeOK, Threads
<1>3. /\ IsFiniteSet(Outstanding)
      /\ Cardinality(Outstanding) \in Nat
  BY OutstandingFinite
<1>4. Cardinality(Outstanding') = Cardinality(Outstanding) - 1
  BY <1>1, <1>3, FS_RemoveElement
<1>5. IsFiniteSet(Outstanding') /\ Cardinality(Outstanding') \in Nat
      /\ (Cardinality(Outstanding') = 0 <=> Outstanding' = {})
  BY <1>1, <1>3, FS_Subset, FS_CardinalityType, FS_EmptySet
<1>6. state = 2 * Cardinality(Outstanding) + Flag
  BY DEF WordIsExact
<1>7. state' = 2 * Cardinality(Outstanding') + Flag
  BY <1>2, <1>3, <1>4, <1>6
<1>8. \A c \in Nat, f \in {0, 1} : 2 * c + f = 1 <=> f = 1 /\ c = 0
  OBVIOUS
<1>9. state' = 1 <=> Flag = 1 /\ Cardinality(Outstanding') = 0
  BY <1>2, <1>5, <1>7, <1>8
<1> QED
  BY <1>1, <1>2, <1>5, <1>7, <1>9 DEF WordIsExact

(* The barrier starts with its constructor's count and nobody inside. *)
LEMMA InitInv == Init => Inv
<1> SUFFICES ASSUME Init PROVE Inv
  OBVIOUS
<1>1. Outstanding = Notifiers
  BY DEF Init, Outstanding, Threads
<1>2. Cardinality(Notifiers) \in Nat
  BY FS_CardinalityType
<1>3. Flag = 0
  BY DEF Init, Flag, Threads
<1>4. TypeOK /\ LabelsFit
  <2>1. state \in Nat
    BY <1>2 DEF Init
  <2>2. pc \in [Threads -> NotifierLabels \cup WaiterLabels]
    BY DEF Init, NotifierLabels, WaiterLabels
  <2>3. LabelsFit
    BY DEF Init, LabelsFit, Threads, NotifierLabels, WaiterLabels
  <2> QED
    BY <2>1, <2>2, <2>3 DEF Init, TypeOK
<1>5. WordIsExact
  BY <1>1, <1>2, <1>3 DEF Init, WordIsExact
<1>6. LockIsExact /\ LastNotifier /\ NotifiedAtTheEnd
  BY DEF Init, LockIsExact, LastNotifier, NotifiedAtTheEnd, Threads, Holding, Late
<1>7. NobodyReturnsEarly /\ WaitersAreOut /\ NoUseAfterDestruction
  BY DEF Init, NobodyReturnsEarly, WaitersAreOut, NoUseAfterDestruction, Threads
<1> QED
  BY <1>4, <1>5, <1>6, <1>7 DEF Inv

(* Steps that neither call Notify nor raise the flag leave the word exact. *)
LEMMA WordUntouched ==
  ASSUME TypeOK, LabelsFit, WordIsExact, state' = state,
         \A t \in Threads : (pc'[t] = "notify" <=> pc[t] = "notify")
                            /\ (pc'[t] = "wait" <=> pc[t] = "wait")
  PROVE  WordIsExact' /\ Outstanding' = Outstanding
<1>1. Outstanding' = Outstanding
  BY DEF Outstanding, Threads
<1>2. Flag' = Flag
  BY DEF Flag, Threads
<1> QED
  BY <1>1, <1>2 DEF WordIsExact

(* Every step of the barrier keeps the invariant. *)
LEMMA StepKeepsInv == Inv /\ [Next]_vars => Inv'
<1> SUFFICES ASSUME Inv, [Next]_vars PROVE Inv'
  OBVIOUS
<1> USE DEF Inv
<1>1. ASSUME NEW n \in Notifiers, NotifySub(n) PROVE Inv'
  <2> DEFINE label == IF state' = 1 THEN "notify.lock" ELSE "notified"
  <2>1. /\ pc[n] = "notify" /\ state' = state - 2
        /\ pc' = [pc EXCEPT ![n] = label] /\ label # "notify"
        /\ UNCHANGED <<notified, mu, alive>>
    BY <1>1 DEF NotifySub, Go
  <2>2. /\ WordIsExact'
        /\ Outstanding' = Outstanding \ {n}
        /\ Flag' = Flag /\ Flag \in {0, 1}
        /\ state' = 1 <=> Flag = 1 /\ Outstanding' = {}
    <3> HIDE DEF label
    <3> QED BY <2>1, WordDropsByTwo
  <2>3. n \in Outstanding /\ Outstanding # {}
    BY <2>1 DEF Outstanding
  <2>4. state' \in Nat
    <3>1. Cardinality(Outstanding') \in Nat
      BY <2>2, OutstandingFinite, FS_Subset, FS_CardinalityType
    <3> QED BY <3>1, <2>2 DEF WordIsExact
  <2>5. TypeOK' /\ LabelsFit'
    BY <2>1, <2>4 DEF TypeOK, LabelsFit, Threads, NotifierLabels, WaiterLabels
  <2>6. LockIsExact'
    BY <2>1 DEF LockIsExact, TypeOK, Threads, Holding
  <2>7. \A m \in Notifiers : pc[m] \notin Late
    BY <2>3 DEF LastNotifier
  <2>8. \A t \in Waiters : pc[t] # "returned" /\ pc'[t] = pc[t]
    BY <2>1, <2>3 DEF NobodyReturnsEarly, TypeOK, Threads
  <2>9. LastNotifier'
    <3> SUFFICES ASSUME NEW k \in Notifiers, pc'[k] \in Late
                 PROVE  /\ Outstanding' = {}
                        /\ \A m \in Notifiers : pc'[m] \in Late => m = k
                        /\ \E t \in Waiters : pc'[t] \in Inside
                        /\ notified' <=> pc'[k] \in {"notify.all", "notify.unlock"}
      BY DEF LastNotifier
    <3>1. k = n /\ label = "notify.lock"
      BY <2>1, <2>7 DEF TypeOK, Threads, Late
    <3>2. Flag = 1 /\ Outstanding' = {}
      BY <3>1, <2>2
    <3>3. \E t \in Waiters : pc'[t] \in Inside
      BY <3>2, <2>8 DEF Flag, LabelsFit, WaiterLabels, Inside
    <3>4. \A m \in Notifiers : pc'[m] \in Late => m = k
      BY <3>1, <2>1, <2>7 DEF TypeOK, Threads
    <3>5. ~notified' /\ pc'[k] = "notify.lock"
      BY <3>1, <2>1, <2>3 DEF NotifiedAtTheEnd, TypeOK, Threads
    <3> QED BY <3>2, <3>3, <3>4, <3>5
  <2>10. NotifiedAtTheEnd' /\ NobodyReturnsEarly'
    BY <2>1, <2>3, <2>8 DEF NotifiedAtTheEnd, NobodyReturnsEarly
  <2>11. WaitersAreOut' /\ NoUseAfterDestruction'
    BY <2>1, <2>8 DEF WaitersAreOut, NoUseAfterDestruction
  <2> QED
    BY <2>2, <2>5, <2>6, <2>9, <2>10, <2>11
<1>2. ASSUME NEW n \in Notifiers, NotifyLock(n) PROVE Inv'
  <2> USE <1>2 DEF NotifyLock, Go
  <2>1. WordIsExact' /\ Outstanding' = Outstanding
    BY WordUntouched DEF TypeOK, Threads
  <2>2. TypeOK' /\ LabelsFit'
    BY DEF TypeOK, LabelsFit, Threads, NotifierLabels, WaiterLabels
  <2>3. LockIsExact'
    BY DEF LockIsExact, TypeOK, Threads, Holding
  <2>4. LastNotifier'
    BY <2>1 DEF LastNotifier, TypeOK, Threads, Late, Inside
  <2>5. NotifiedAtTheEnd' /\ NobodyReturnsEarly' /\ WaitersAreOut' /\ NoUseAfterDestruction'
    BY <2>1 DEF NotifiedAtTheEnd, NobodyReturnsEarly, WaitersAreOut, NoUseAfterDestruction, TypeOK, Threads
  <2> QED BY <2>1, <2>2, <2>3, <2>4, <2>5
<1>3. ASSUME NEW n \in Notifiers, NotifySet(n) PROVE Inv'
  <2> USE <1>3 DEF NotifySet, Go
  <2>1. WordIsExact' /\ Outstanding' = Outstanding
    BY WordUntouched DEF TypeOK, Threads
  <2>2. TypeOK' /\ LabelsFit'
    BY DEF TypeOK, LabelsFit, Threads, NotifierLabels, WaiterLabels
  <2>3. LockIsExact'
    BY DEF LockIsExact, TypeOK, Threads, Holding
  <2>4. LastNotifier'
    BY <2>1 DEF LastNotifier, TypeOK, Threads, Late, Inside
  <2>5. NotifiedAtTheEnd' /\ NobodyReturnsEarly' /\ WaitersAreOut' /\ NoUseAfterDestruction'
    BY <2>1 DEF NotifiedAtTheEnd, NobodyReturnsEarly, WaitersAreOut, NoUseAfterDestruction,
                LastNotifier, Late, TypeOK, Threads
  <2> QED BY <2>1, <2>2, <2>3, <2>4, <2>5
<1>4. ASSUME NEW n \in Notifiers, NotifyAll(n) PROVE Inv'
  <2> USE <1>4 DEF NotifyAll
  <2>1. WordIsExact' /\ Outstanding' = Outstanding
    BY WordUntouched DEF TypeOK, Threads
  <2>2. TypeOK' /\ LabelsFit'
    BY DEF TypeOK, LabelsFit, Threads, NotifierLabels, WaiterLabels
  <2>3. LockIsExact'
    BY DEF LockIsExact, TypeOK, Threads, Holding
  <2>4. LastNotifier'
    BY <2>1 DEF LastNotifier, TypeOK, LabelsFit, NotifierLabels, Threads, Late, Inside
  <2>5. NotifiedAtTheEnd' /\ NobodyReturnsEarly' /\ WaitersAreOut' /\ NoUseAfterDestruction'
    BY <2>1 DEF NotifiedAtTheEnd, NobodyReturnsEarly, WaitersAreOut, NoUseAfterDestruction, TypeOK, Threads
  <2> QED BY <2>1, <2>2, <2>3, <2>4, <2>5
<1>5. ASSUME NEW n \in Notifiers, NotifyUnlock(n) PROVE Inv'
  <2> USE <1>5 DEF NotifyUnlock, Go
  <2>1. WordIsExact' /\ Outstanding' = Outstanding
    BY WordUntouched DEF TypeOK, Threads
  <2>2. TypeOK' /\ LabelsFit'
    BY DEF TypeOK, LabelsFit, Threads, NotifierLabels, WaiterLabels
  <2>3. LockIsExact'
    BY DEF LockIsExact, TypeOK, Threads, Holding
  <2>4. LastNotifier'
    BY <2>1 DEF LastNotifier, TypeOK, Threads, Late, Inside
  <2>5. NotifiedAtTheEnd' /\ NobodyReturnsEarly' /\ WaitersAreOut' /\ NoUseAfterDestruction'
    BY <2>1 DEF NotifiedAtTheEnd, NobodyReturnsEarly, WaitersAreOut, NoUseAfterDestruction, TypeOK, Threads
  <2> QED BY <2>1, <2>2, <2>3, <2>4, <2>5
<1>6. ASSUME NEW u \in Waiters, WaitOr(u) PROVE Inv'
  <2> DEFINE label == IF Count(state) = 0 THEN "returned" ELSE "wait.lock"
  <2>1. /\ pc[u] = "wait" /\ state' = WithFlag(state)
        /\ pc' = [pc EXCEPT ![u] = label]
        /\ UNCHANGED <<notified, mu, alive>>
    BY <1>6 DEF WaitOr, Go
  <2>2. Outstanding' = Outstanding
    BY <2>1 DEF Outstanding, TypeOK, Threads
  <2>3. Flag' = 1
    BY <2>1 DEF Flag, TypeOK, Threads
  <2>4. /\ Cardinality(Outstanding) \in Nat
        /\ Cardinality(Outstanding) = 0 <=> Outstanding = {}
    BY OutstandingFinite
  <2>5. \A c \in Nat, f \in {0, 1} :
          /\ WithFlag(2 * c + f) = 2 * c + 1
          /\ Count(2 * c + f) = c
    BY DEF WithFlag, Count
  <2>6. /\ state' = 2 * Cardinality(Outstanding) + 1
        /\ Count(state) = Cardinality(Outstanding)
    <3>1. Flag \in {0, 1}
      BY DEF Flag
    <3> QED BY <3>1, <2>1, <2>4, <2>5 DEF WordIsExact
  <2>7. WordIsExact' /\ state' \in Nat
    BY <2>2, <2>3, <2>4, <2>6 DEF WordIsExact
  <2>8. TypeOK' /\ LabelsFit'
    BY <2>1, <2>7 DEF TypeOK, LabelsFit, Threads, NotifierLabels, WaiterLabels
  <2>9. LockIsExact'
    BY <2>1 DEF LockIsExact, TypeOK, Threads, Holding
  <2>10. label = "returned" => Outstanding = {}
    BY <2>4, <2>6
  <2>11. LastNotifier' /\ NotifiedAtTheEnd'
    BY <2>1, <2>2 DEF LastNotifier, NotifiedAtTheEnd, TypeOK, Threads, Late, Inside
  <2>12. NobodyReturnsEarly'
    BY <2>1, <2>2, <2>10 DEF NobodyReturnsEarly, TypeOK, Threads
  <2>13. WaitersAreOut' /\ NoUseAfterDestruction'
    BY <2>1 DEF WaitersAreOut, NoUseAfterDestruction, TypeOK, Threads
  <2> QED BY <2>7, <2>8, <2>9, <2>11, <2>12, <2>13
<1>7. ASSUME NEW u \in Waiters, WaitLock(u) PROVE Inv'
  <2> USE <1>7 DEF WaitLock, Go
  <2>1. WordIsExact' /\ Outstanding' = Outstanding
    BY WordUntouched DEF TypeOK, Threads
  <2>2. TypeOK' /\ LabelsFit'
    BY DEF TypeOK, LabelsFit, Threads, NotifierLabels, WaiterLabels
  <2>3. LockIsExact'
    BY DEF LockIsExact, TypeOK, Threads, Holding
  <2>4. LastNotifier'
    BY <2>1 DEF LastNotifier, TypeOK, Threads, Late, Inside
  <2>5. NotifiedAtTheEnd' /\ NobodyReturnsEarly' /\ WaitersAreOut' /\ NoUseAfterDestruction'
    BY <2>1 DEF NotifiedAtTheEnd, NobodyReturnsEarly, WaitersAreOut, NoUseAfterDestruction, TypeOK, Threads
  <2> QED BY <2>1, <2>2, <2>3, <2>4, <2>5
<1>8. ASSUME NEW u \in Waiters, WaitTest(u) PROVE Inv'
  <2> USE <1>8 DEF WaitTest, Go
  <2>1. WordIsExact' /\ Outstanding' = Outstanding
    BY WordUntouched DEF TypeOK, Threads
  <2>2. TypeOK' /\ LabelsFit'
    BY DEF TypeOK, LabelsFit, Threads, NotifierLabels, WaiterLabels
  <2>3. LockIsExact'
    BY DEF LockIsExact, TypeOK, Threads, Holding
  <2>4. notified => \A n \in Notifiers : pc[n] \notin Late
    BY DEF LastNotifier, LockIsExact, Holding, Threads
  <2>5. LastNotifier'
    BY <2>1, <2>4 DEF LastNotifier, TypeOK, Threads, Late, Inside
  <2>6. NotifiedAtTheEnd' /\ NobodyReturnsEarly' /\ WaitersAreOut' /\ NoUseAfterDestruction'
    BY <2>1 DEF NotifiedAtTheEnd, NobodyReturnsEarly, WaitersAreOut, NoUseAfterDestruction, LockIsExact,
                Holding, TypeOK, Threads
  <2> QED BY <2>1, <2>2, <2>3, <2>5, <2>6
<1>9. ASSUME NEW u \in Waiters, SpuriousWakeup(u) PROVE Inv'
  <2> USE <1>9 DEF SpuriousWakeup, Go
  <2>1. WordIsExact' /\ Outstanding' = Outstanding
    BY WordUntouched DEF TypeOK, Threads
  <2>2. TypeOK' /\ LabelsFit'
    BY DEF TypeOK, LabelsFit, Threads, NotifierLabels, WaiterLabels
  <2>3. LockIsExact'
    BY DEF LockIsExact, TypeOK, Threads, Holding
  <2>4. LastNotifier'
    BY <2>1 DEF LastNotifier, TypeOK, Threads, Late, Inside
  <2>5. NotifiedAtTheEnd' /\ NobodyReturnsEarly' /\ WaitersAreOut' /\ NoUseAfterDestruction'
    BY <2>1 DEF NotifiedAtTheEnd, NobodyReturnsEarly, WaitersAreOut, NoUseAfterDestruction, TypeOK, Threads
  <2> QED BY <2>1, <2>2, <2>3, <2>4, <2>5
<1>10. CASE Destroy
  <2> USE <1>10 DEF Destroy
  <2>1. WordIsExact' /\ Outstanding' = Outstanding
    BY WordUntouched
  <2>2. \A n \in Notifiers : pc[n] = "notified"
    <3>1. Outstanding = {} /\ \A n \in Notifiers : pc[n] \notin Late
      BY DEF NobodyReturnsEarly, LastNotifier, Inside
    <3> QED BY <3>1 DEF Outstanding, LabelsFit, NotifierLabels, Late
  <2>3. mu = Free
    BY <2>2 DEF TypeOK, LockIsExact, Threads, Holding
  <2> QED
    BY <2>1, <2>2, <2>3 DEF TypeOK, LabelsFit, LockIsExact, LastNotifier, NotifiedAtTheEnd,
                            NobodyReturnsEarly, WaitersAreOut, NoUseAfterDestruction
<1>11. CASE UNCHANGED vars
  BY <1>11 DEF vars, TypeOK, LabelsFit, WordIsExact, LockIsExact, LastNotifier,
               NotifiedAtTheEnd, NobodyReturnsEarly, WaitersAreOut, NoUseAfterDestruction, Outstanding, Flag
<1> QED
  BY <1>1, <1>2, <1>3, <1>4, <1>5, <1>6, <1>7, <1>8, <1>9, <1>10, <1>11
     DEF Next, NotifierNext, WaiterNext, WaiterStep, Terminated

(* The inductive invariant holds in every reachable state of the barrier.  *)
THEOREM InvHolds == Spec => []Inv
  BY InitInv, StepKeepsInv, PTL DEF Spec

(* The type invariant holds for every number of notifiers and waiters. *)
THEOREM TypeCorrect == Spec => []TypeOK
<1>1. Inv => TypeOK
  BY DEF Inv
<1> QED BY InvHolds, <1>1, PTL

(* Wait never returns while a call of Notify is outstanding. *)
THEOREM NoEarlyReturn == Spec => []NobodyReturnsEarly
<1>1. Inv => NobodyReturnsEarly
  BY DEF Inv
<1> QED BY InvHolds, <1>1, PTL

(* A barrier on the stack may be destroyed as soon as its waiters are out. *)
THEOREM SafeDestruction == Spec => []NoUseAfterDestruction
<1>1. Inv => NoUseAfterDestruction
  BY DEF Inv
<1> QED BY InvHolds, <1>1, PTL

(* The DCHECKs of Notify and of the destructor never fail. *)
THEOREM NoAssertionFails == Spec => []AssertionsHold
<1>1. Inv => AssertionsHold
  <2> SUFFICES ASSUME Inv PROVE AssertionsHold
    OBVIOUS
  <2> USE DEF Inv
  <2>1. /\ Cardinality(Outstanding) \in Nat
        /\ Cardinality(Outstanding) = 0 <=> Outstanding = {}
    BY OutstandingFinite
  <2>2. \A c \in Nat, f \in {0, 1} : Count(2 * c + f) = c
    BY DEF Count
  <2>3. Count(state) = Cardinality(Outstanding)
    <3>1. Flag \in {0, 1}
      BY DEF Flag
    <3> QED BY <3>1, <2>1, <2>2 DEF WordIsExact
  <2>4. (\E n \in Notifiers : pc[n] = "notify") => Count(state) # 0
    BY <2>1, <2>3 DEF Outstanding
  <2>5. (\E n \in Notifiers : pc[n] = "notify.set") => ~notified
    BY DEF LastNotifier, Late
  <2>6. ~alive => Count(state) = 0
    <3>1. ~alive => Outstanding = {}
      BY DEF WaitersAreOut, NoUseAfterDestruction, Outstanding
    <3> QED BY <3>1, <2>1, <2>3
  <2> QED BY <2>4, <2>5, <2>6 DEF AssertionsHold
<1> QED BY InvHolds, <1>1, PTL

(* The barrier is destroyed after its last use, and its DCHECKs hold.      *)
THEOREM DestructionIsSafe == Spec => []DestroyedAfterUse
<1>1. TypeOK /\ NoUseAfterDestruction /\ AssertionsHold => DestroyedAfterUse
  BY DEF DestroyedAfterUse
<1> QED
  BY <1>1, TypeCorrect, SafeDestruction, NoAssertionFails, PTL
=============================================================================

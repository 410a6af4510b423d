------------------------------ MODULE RefCount ------------------------------
(***************************************************************************)
(* RefCounted (src/core/base/refcount.h): an object that deletes itself    *)
(* when its last reference goes, with the shortcut that skips the atomic   *)
(* decrement when the count reads 1.  One action per access to ref_; the   *)
(* DCHECKs are compiled in.                                                *)
(*                                                                         *)
(* A reference is a token some thread holds; threads follow the class's    *)
(* convention: whoever calls Ref, Unref or RefCountIsOne holds one.        *)
(***************************************************************************)
EXTENDS Integers, FiniteSets

CONSTANTS Threads,
          References,   \* bound: as many references can exist at a time
          Nobody

ASSUME ReferencesAssumption == IsFiniteSet(References) /\ References # {}
ASSUME ThreadsAssumption == Nobody \notin Threads

VARIABLES
  ref,       \* ref_
  holder,    \* holder[r]: the thread that holds reference r
  pc,        \* pc[t]: where thread t is in Unref
  dropping,  \* dropping[t]: the reference t gives up
  deletions  \* how often the destructor ran

refVars == <<ref, holder, pc, dropping, deletions>>

Held == {r \in References : holder[r] # Nobody}

-----------------------------------------------------------------------------
RefInit ==
  /\ ref = 1
  /\ \E t \in Threads, r \in References :
       /\ holder = [x \in References |-> IF x = r THEN t ELSE Nobody]
       /\ dropping = [u \in Threads |-> r]
  /\ pc = [t \in Threads |-> "idle"]
  /\ deletions = 0

Ref(t) ==
  /\ pc[t] = "idle"
  /\ \E r \in References : holder[r] = t
  /\ \E r \in References \ Held : holder' = [holder EXCEPT ![r] = t]
  /\ ref' = ref + 1
  /\ UNCHANGED <<pc, dropping, deletions>>

(* The holder hands a reference to another thread. *)
HandOver(t, u) ==
  /\ pc[t] = "idle"
  /\ \E r \in References : holder[r] = t /\ holder' = [holder EXCEPT ![r] = u]
  /\ UNCHANGED <<ref, pc, dropping, deletions>>

(* Unref: a count of 1 means that nobody else holds a reference. *)
UnrefLoad(t) ==
  /\ pc[t] = "idle"
  /\ \E r \in References :
       /\ holder[r] = t
       /\ dropping' = [dropping EXCEPT ![t] = r]
  /\ pc' = [pc EXCEPT ![t] = IF ref = 1 THEN "delete" ELSE "subtract"]
  /\ UNCHANGED <<ref, holder, deletions>>

(* mutant: the value after the decrement is compared with 1 *)
UnrefSubtractEarly(t) ==
  /\ pc[t] = "subtract"
  /\ ref' = ref - 1
  /\ holder' = [holder EXCEPT ![dropping[t]] = Nobody]
  /\ pc' = [pc EXCEPT ![t] = IF ref' = 1 THEN "delete" ELSE "idle"]
  /\ UNCHANGED <<dropping, deletions>>

UnrefSubtract(t) ==
  /\ pc[t] = "subtract"
  /\ ref' = ref - 1
  /\ holder' = [holder EXCEPT ![dropping[t]] = Nobody]
  /\ pc' = [pc EXCEPT ![t] = IF ref = 1 THEN "delete" ELSE "idle"]
  /\ UNCHANGED <<dropping, deletions>>

(* ref_.store(0), delete this *)
Delete(t) ==
  /\ pc[t] = "delete"
  /\ ref' = 0
  /\ holder' = [holder EXCEPT ![dropping[t]] = Nobody]
  /\ deletions' = deletions + 1
  /\ pc' = [pc EXCEPT ![t] = "idle"]
  /\ UNCHANGED dropping

Gone == deletions > 0 /\ UNCHANGED refVars

RefNext ==
  \/ \E t \in Threads :
       \/ Ref(t) \/ UnrefLoad(t) \/ UnrefSubtract(t) \/ Delete(t)
       \/ \E u \in Threads : HandOver(t, u)
  \/ Gone

RefSpec == RefInit /\ [][RefNext]_refVars

-----------------------------------------------------------------------------
(* Types *)

RefTypeOK ==
  /\ ref \in Nat
  /\ holder \in [References -> Threads \cup {Nobody}]
  /\ pc \in [Threads -> {"idle", "subtract", "delete"}]
  /\ dropping \in [Threads -> References]
  /\ deletions \in Nat

(* Safety *)

(* The object is deleted once, by one thread, and only when no other       *)
(* thread holds a reference or is inside Unref: the load that bypasses the *)
(* decrement cannot pair with another thread's decrement to delete twice.  *)
DeletedAloneAndOnce ==
  /\ deletions <= 1
  /\ \A t \in Threads : pc[t] = "delete" \/ deletions = 1 =>
       \A u \in Threads \ {t} : pc[u] = "idle" /\ \A r \in References : holder[r] # u

(* It is deleted at all: when the last reference is gone the destructor    *)
(* has run, or the thread that gave it up is about to run it.              *)
NeverLeaked ==
  Held = {} => deletions = 1 \/ \E t \in Threads : pc[t] = "delete"

(* A thread that holds a reference and finds RefCountIsOne has the object  *)
(* to itself (the comment at refcount.h:24).                               *)
OneMeansExclusive ==
  \A t \in Threads : \A r \in References :
    holder[r] = t /\ pc[t] = "idle" /\ ref = 1 =>
      /\ Held = {r}
      /\ \A u \in Threads : pc[u] = "idle"

(* The counter and the references agree: the object is deleted, once, when *)
(* nobody has a reference, and who finds the count at one is alone.        *)
CountIsTrusted == DeletedAloneAndOnce /\ NeverLeaked /\ OneMeansExclusive

-----------------------------------------------------------------------------
(* The inductive invariant *)

CountIsExact == deletions = 0 => ref = Cardinality(Held)

DropsItsOwn == \A t \in Threads : pc[t] = "subtract" => holder[dropping[t]] = t

(* A thread about to delete holds at most the reference it gives up, and   *)
(* nobody else holds any or is under way.                                  *)
DeleterIsAlone ==
  \A t \in Threads : pc[t] = "delete" =>
    /\ deletions = 0
    /\ \A r \in Held : r = dropping[t] /\ holder[r] = t
    /\ \A u \in Threads \ {t} : pc[u] = "idle"

NothingAfterDelete ==
  deletions > 0 =>
    /\ deletions = 1 /\ Held = {}
    /\ \A t \in Threads : pc[t] = "idle"

Inv ==
  RefTypeOK /\ CountIsExact /\ DropsItsOwn /\ DeleterIsAlone /\ NothingAfterDelete /\ NeverLeaked
=============================================================================

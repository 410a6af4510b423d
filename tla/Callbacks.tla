----------------------------- MODULE Callbacks ------------------------------
(* Closures and result callbacks (core/base/callback.h): one thread makes, *)
(* runs and deletes them; the functions they hold do so too. A run is a    *)
(* frame of the stack; what was freed may be allocated anew at once.       *)
EXTENDS Integers, Sequences, SequencesExt

CONSTANTS
  Addresses,  \* places where a callback can be allocated
  NoObject,   \* a place that is free
  MaxFrames   \* bound: runs that are nested

VARIABLES
  object,     \* object[a]: the callback at a, or NoObject
  stack       \* the runs that have not returned, the innermost one last

callbackVars == <<object, stack>>

Closures == {"FunctionClosure0", "MethodClosure0", "FunctionClosure1", "MethodClosure1",
             "FunctionClosure2", "MethodClosure2"}
ResultCallbacks ==
  {"FunctionResultCallback_0_0", "FunctionResultCallback_1_0", "FunctionResultCallback_0_1",
   "FunctionResultCallback_1_1", "MethodResultCallback_5_2"}

Objects == [class : Closures \cup ResultCallbacks, self_deleting : BOOLEAN, started : BOOLEAN]

ASSUME NoObjectAssumption == NoObject \notin Objects

CallbackInit == object = [a \in Addresses |-> NoObject] /\ stack = <<>>

(* started tells whether Run was called, which the code does not record.   *)
New(a, class, self_deleting) ==
  /\ object[a] = NoObject
  /\ object' = [object EXCEPT ![a] = [class |-> class, self_deleting |-> self_deleting,
                                      started |-> FALSE]]
  /\ UNCHANGED stack

NewCallback(a) ==
  \E class \in (Closures \cup ResultCallbacks) \ {"MethodResultCallback_5_2"} : New(a, class, TRUE)

NewPermanentCallback(a) == \E class \in Closures \cup ResultCallbacks : New(a, class, FALSE)

(* A callback of NewCallback is run once.                                  *)
MayRun(a) == object[a] # NoObject /\ (object[a].self_deleting => ~object[a].started)

(* self_deleting_ is read before the function is called.                   *)
Run(a) ==
  /\ MayRun(a) /\ Len(stack) < MaxFrames
  /\ stack' = Append(stack, [this |-> a, needs_delete |-> object[a].self_deleting])
  /\ object' = [object EXCEPT ![a].started = TRUE]

(* mutant: self_deleting_ is read when the function has returned *)
NeedsDeleteNow(frame) == object[frame.this] # NoObject /\ object[frame.this].self_deleting

NeedsDelete(frame) == frame.needs_delete

(* The function returns, and Run after it.                                 *)
Return ==
  /\ stack # <<>>
  /\ object' = IF NeedsDelete(Last(stack)) THEN [object EXCEPT ![Last(stack).this] = NoObject]
               ELSE object
  /\ stack' = Front(stack)

(* Who made a permanent callback deletes it: at any time, so also from the *)
(* function that it is running.                                            *)
DeletePermanent(a) ==
  /\ object[a] # NoObject /\ ~object[a].self_deleting
  /\ object' = [object EXCEPT ![a] = NoObject]
  /\ UNCHANGED stack

CallbackNext ==
  \/ \E a \in Addresses : NewCallback(a) \/ NewPermanentCallback(a) \/ Run(a) \/ DeletePermanent(a)
  \/ Return

CallbackSpec == CallbackInit /\ [][CallbackNext]_callbackVars

-----------------------------------------------------------------------------
Running(a) == \E i \in DOMAIN stack : stack[i].this = a

InTime(a) ==
  LET freed == object[a] # NoObject /\ object'[a] = NoObject IN
  /\ freed /\ object[a].self_deleting =>
       object[a].started /\ stack' = Front(stack) /\ Last(stack).this = a
  /\ freed /\ ~object[a].self_deleting => stack' = stack
  /\ object'[a] # NoObject /\ object'[a].self_deleting /\ object'[a].started => Running(a)'

(* A callback of NewCallback goes when its run is over, never before and   *)
(* never later; a permanent one only when it is deleted. Neither end of a  *)
(* run touches what was allocated where a deleted callback was.            *)
FreedOnceAndInTime == [][\A a \in Addresses : InTime(a)]_callbackVars
=============================================================================

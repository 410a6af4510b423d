---------------------------- MODULE CallOptions -----------------------------
(* CallOptions (dr/call_options.cc): a cancel callback that one thread     *)
(* starts while others set and clear it, and a timeout. Every method locks *)
(* mu_; StartCancel runs the callback with mu_ held.                       *)
EXTENDS Integers

CONSTANTS
  Clients,     \* threads
  Callbacks,   \* functions that may be set; they do not call back
  NoCallback,  \* nullptr
  NoClient,      \* holds no mutex
  Timeouts     \* arguments of SetTimeout, and what the constructor leaves

ASSUME CallbackAssumption == NoCallback \notin Callbacks
ASSUME ClientAssumption == NoClient \notin Clients

VARIABLES
  mu,           \* who holds mu_
  cancel_func,
  timeout,      \* timeout_in_ms_
  at,           \* at[t]: the method t is in, or "idle"
  running,      \* running[t]: the callback t is executing, or NoCallback
  cleared       \* callbacks that were taken out and not set again since

callVars == <<mu, cancel_func, timeout, at, running, cleared>>

(* The constructor leaves the timeout as the memory had it.                *)
CallInit ==
  /\ mu = NoClient /\ cancel_func = NoCallback /\ timeout \in Timeouts
  /\ at = [t \in Clients |-> "idle"]
  /\ running = [t \in Clients |-> NoCallback]
  /\ cleared = {}

Methods == {"StartCancel", "SetCancelCallback", "ClearCancelCallback", "GetTimeout", "SetTimeout"}

Enter(t) ==
  /\ at[t] = "idle" /\ mu = NoClient
  /\ \E method \in Methods : at' = [at EXCEPT ![t] = method]
  /\ mu' = t
  /\ UNCHANGED <<cancel_func, timeout, running, cleared>>

Leave(t) == mu' = NoClient /\ at' = [at EXCEPT ![t] = "idle"]

(* mutant: the callback is started when the lock is gone *)
StartCancelUnlocked(t) ==
  /\ at[t] = "StartCancel" /\ cancel_func # NoCallback
  /\ running' = [running EXCEPT ![t] = cancel_func]
  /\ mu' = NoClient /\ at' = [at EXCEPT ![t] = "callback"]
  /\ UNCHANGED <<cancel_func, timeout, cleared>>

StartCancel(t) ==
  /\ at[t] = "StartCancel" /\ cancel_func # NoCallback
  /\ running' = [running EXCEPT ![t] = cancel_func]
  /\ at' = [at EXCEPT ![t] = "callback"]
  /\ UNCHANGED <<mu, cancel_func, timeout, cleared>>

NothingToCancel(t) ==
  /\ at[t] = "StartCancel" /\ cancel_func = NoCallback
  /\ Leave(t)
  /\ UNCHANGED <<cancel_func, timeout, running, cleared>>

CallbackReturns(t) ==
  /\ at[t] = "callback"
  /\ running' = [running EXCEPT ![t] = NoCallback]
  /\ Leave(t)
  /\ UNCHANGED <<cancel_func, timeout, cleared>>

SetCancelCallback(t, f) ==
  /\ at[t] = "SetCancelCallback"
  /\ cancel_func' = f
  /\ cleared' = (cleared \cup {cancel_func}) \ {f, NoCallback}
  /\ Leave(t)
  /\ UNCHANGED <<timeout, running>>

ClearCancelCallback(t) ==
  /\ at[t] = "ClearCancelCallback"
  /\ cancel_func' = NoCallback
  /\ cleared' = (cleared \cup {cancel_func}) \ {NoCallback}
  /\ Leave(t)
  /\ UNCHANGED <<timeout, running>>

GetTimeout(t) ==
  /\ at[t] = "GetTimeout"
  /\ Leave(t)
  /\ UNCHANGED <<cancel_func, timeout, running, cleared>>

SetTimeout(t, ms) ==
  /\ at[t] = "SetTimeout"
  /\ timeout' = ms
  /\ Leave(t)
  /\ UNCHANGED <<cancel_func, running, cleared>>

ClientStep(t) ==
  \/ Enter(t) \/ StartCancel(t) \/ NothingToCancel(t) \/ CallbackReturns(t)
  \/ ClearCancelCallback(t) \/ GetTimeout(t)
  \/ \E f \in Callbacks : SetCancelCallback(t, f)
  \/ \E ms \in Timeouts : SetTimeout(t, ms)

CallNext == \E t \in Clients : ClientStep(t)

CallSpec == CallInit /\ [][CallNext]_callVars

-----------------------------------------------------------------------------
(* A callback that was cleared or replaced neither runs nor is running:    *)
(* whoever clears it may free what it refers to, and no function object is *)
(* destroyed while it is executed.                                         *)
ClearedCallbackIsQuiet ==
  \A t \in Clients :
    running[t] # NoCallback => running[t] = cancel_func /\ running[t] \notin cleared
=============================================================================

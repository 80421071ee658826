----------------------------- MODULE RegistrySet -----------------------------
(***************************************************************************)
(* What the client registry promises its callers                           *)
(* (src/include/client_registry.h): it is a set of file descriptors, and   *)
(* every call takes effect at one instant between its call and its return. *)
(* creg_register adds the caller's descriptor, which no other thread       *)
(* serves; creg_unregister removes it, and only it.                        *)
(***************************************************************************)
CONSTANTS Thread, Fd, NULL
VARIABLES registered,   \* the set
          stage,        \* where each thread is with respect to the registry
          own           \* the descriptor each thread registers
vars == <<registered, stage, own>>

Init == /\ registered = {}
        /\ stage = [t \in Thread |-> "out"]
        /\ own = [t \in Thread |-> NULL]

To(t, from, to) == stage[t] = from /\ stage' = [stage EXCEPT ![t] = to]

CallRegister(t) ==
  /\ To(t, "out", "adding")
  /\ \E f \in Fd \ {own[u] : u \in Thread} : own' = [own EXCEPT ![t] = f]
  /\ UNCHANGED registered

Add(t) ==
  /\ stage[t] = "adding" /\ own[t] \notin registered
  /\ registered' = registered \cup {own[t]}
  /\ UNCHANGED <<stage, own>>

ReturnRegister(t) ==
  /\ To(t, "adding", "member") /\ own[t] \in registered
  /\ UNCHANGED <<registered, own>>

CallUnregister(t) ==
  /\ To(t, "member", "removing")
  /\ UNCHANGED <<registered, own>>

Remove(t) ==
  /\ stage[t] = "removing" /\ own[t] \in registered
  /\ registered' = registered \ {own[t]}
  /\ UNCHANGED <<stage, own>>

ReturnUnregister(t) ==
  /\ To(t, "removing", "out") /\ own[t] \notin registered
  /\ own' = [own EXCEPT ![t] = NULL]
  /\ UNCHANGED registered

Next == \E t \in Thread :
  \/ CallRegister(t) \/ Add(t) \/ ReturnRegister(t)
  \/ CallUnregister(t) \/ Remove(t) \/ ReturnUnregister(t)

Spec == Init /\ [][Next]_vars
=============================================================================

------------------------------ MODULE OnceMap ------------------------------
(***************************************************************************)
(* What the stage accessors of the decode plane promise their callers: a   *)
(* map whose entries are decided once, a stage or an error, and answer     *)
(* every request for them with what was decided.                           *)
(***************************************************************************)
CONSTANTS
  Key,       \* what is built: a layer, a span or an expert of a layer
  Caller,    \* who asks
  Outcome,   \* what building may come to
  None       \* no key, no outcome

VARIABLES
  outcome,   \* what was decided for every key
  want,      \* the key each caller is asking for
  got        \* the answer to each caller's last request

vars == <<outcome, want, got>>

Init ==
  /\ outcome = [k \in Key |-> None]
  /\ want = [c \in Caller |-> None]
  /\ got = [c \in Caller |-> None]

Ask(c) ==
  /\ want[c] = None
  /\ \E k \in Key : want' = [want EXCEPT ![c] = k]
  /\ got' = [got EXCEPT ![c] = None]
  /\ UNCHANGED outcome

\* A key is decided once, on behalf of somebody who asked for it.
Decide(k) ==
  /\ outcome[k] = None
  /\ \E c \in Caller : want[c] = k
  /\ \E o \in Outcome : outcome' = [outcome EXCEPT ![k] = o]
  /\ UNCHANGED <<want, got>>

Answer(c) ==
  /\ want[c] \in Key
  /\ outcome[want[c]] # None
  /\ got' = [got EXCEPT ![c] = outcome[want[c]]]
  /\ want' = [want EXCEPT ![c] = None]
  /\ UNCHANGED outcome

Next ==
  \/ \E c \in Caller : Ask(c) \/ Answer(c)
  \/ \E k \in Key : Decide(k)

SafeSpec == Init /\ [][Next]_vars

\* Whoever asks is answered.
Spec ==
  /\ SafeSpec
  /\ \A k \in Key : WF_vars(Decide(k))
  /\ \A c \in Caller : WF_vars(Answer(c))
=============================================================================

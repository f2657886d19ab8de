------------------------------- MODULE VMLock -------------------------------
(***************************************************************************)
(* What acquire, release, iyield and startup promise together: a lock on   *)
(* the interpreter, held by at most one Proc, that can be asked for, taken *)
(* and given up.  A Proc that asked with acquire() stays a claimant until  *)
(* it holds the lock.                                                      *)
(***************************************************************************)
CONSTANTS Proc, Nobody

VARIABLES holder,   \* the Proc that may touch the interpreter, or Nobody
          claims    \* the Procs that wait in acquire()

vars == <<holder, claims>>

Init == holder = Nobody /\ claims = {}

\* acquire() finds the VM in use.
Claim(p) ==
  /\ holder # p
  /\ p \notin claims
  /\ claims' = claims \cup {p}
  /\ UNCHANGED holder

\* The VM is free and p gets it, whether it had to wait or not.
Take(p) ==
  /\ holder = Nobody
  /\ holder' = p
  /\ claims' = claims \ {p}

\* release() or iyield().
Drop(p) ==
  /\ holder = p
  /\ holder' = Nobody
  /\ UNCHANGED claims

Next == \E p \in Proc : Claim(p) \/ Take(p) \/ Drop(p)

Spec == Init /\ [][Next]_vars
=============================================================================

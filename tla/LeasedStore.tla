------------------------------ MODULE LeasedStore -----------------------------
(***************************************************************************)
(* What the engine sees of its Store when that Store also implements       *)
(* Locker and Lister (store.go, lock.go): one saved record and one lease   *)
(* on the execution.                                                       *)
(*                                                                         *)
(* Every resume call presents an owner ID of its own (idgen.New), so a     *)
(* lease can be in one of three conditions: nobody holds it or its TTL has *)
(* passed (Free), the call a process is now in holds it (that process), or *)
(* a call that will never present its ID again holds it (Orphan).          *)
(***************************************************************************)
CONSTANTS Workers,    \* the processes that share the store
          Free,
          Orphan

VARIABLES store,      \* the record last saved for the execution
          lease       \* Free, Orphan or a worker

ASSUME LeaseAssumption ==
  /\ Free \notin Workers
  /\ Orphan \notin Workers
  /\ Free # Orphan

Leases == Workers \cup {Free, Orphan}

Put(r) == store' = r

\* Mutant: the owner of an unexpired lease is not looked at.
AvailableToAnyone(w) == w \in Workers

\* Acquire succeeds for w: nobody else holds an unexpired lease.
Available(w) == lease \in {Free, w}

Take(w) ==
  /\ Available(w)
  /\ lease' = w

\* Mutant: Release is called with an owner ID that is not the holder's.
GiveUpNobodys(w) == w \in Workers /\ UNCHANGED lease

\* Release is a no-op for anyone but the holder.
GiveUp(w) == lease' = IF lease = w THEN Free ELSE lease

\* The call of w ends without its Release reaching the store.
Forsake(w) == lease' = IF lease = w THEN Orphan ELSE lease

\* Mutant: a lease is held until it is released.
ExpireNever(over) == over /\ FALSE /\ UNCHANGED lease

\* The TTL passes with no renewal: over says that it has.
Expire(over) ==
  /\ over
  /\ lease # Free
  /\ lease' = Free

\* The life of the lease by itself, as a store has to keep it, where released
\* are the workers whose Release this step can be.
LockInit == lease = Free

LockNext(over, released) ==
  \/ \E w \in Workers : Take(w)
  \/ \E w \in released : GiveUp(w)
  \/ Expire(over)

LockSpec(over, released) == LockInit /\ [][LockNext(over, released)]_lease

===============================================================================

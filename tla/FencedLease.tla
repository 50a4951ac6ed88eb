----------------------------- MODULE FencedLease -----------------------------
(***************************************************************************)
(* orbiter.leases.fencing on one resource: LeaseManager takes a lease in   *)
(* two store commands (INCR of the token counter, then SET NX of the lease *)
(* key), FencedWriter checks a token at the write.  Any holder may pause   *)
(* between any two commands, and a lease may expire under a paused holder. *)
(***************************************************************************)
EXTENDS Naturals, Sequences, KeyValueStore

CONSTANTS
    Holder,     \* the clients of the lease, e.g. worker ids
    MaxToken,   \* bound: how often the token counter is incremented
    MaxWrites   \* bound: how many writes the guarded data accepts

ASSUME BoundsAssumption == MaxToken \in Nat /\ MaxWrites \in Nat

VARIABLES
    counter,          \* orbiter:lease:<resource>:token
    lease,            \* orbiter:lease:<resource>: Absent or <<holder, token>>
    phase,            \* where each holder is between two store commands
    token,            \* the token each holder carries, 0 for none
    newest_accepted,  \* FencedWriter._newest_accepted[resource]
    writes            \* history: the accepted writes, as <<holder, token>>

leaseVars == <<counter, lease, phase, token, newest_accepted, writes>>

Phase == {"idle", "acquiring", "holding", "releasing"}

LeaseInit ==
    /\ counter = 0
    /\ lease = Absent
    /\ phase = [h \in Holder |-> "idle"]
    /\ token = [h \in Holder |-> 0]
    /\ newest_accepted = 0
    /\ writes = << >>

\* acquire, first command: the counter is incremented whatever comes of it.
AcquireIncr(h) ==
    /\ phase[h] = "idle"
    /\ counter < MaxToken
    /\ counter' = counter + 1
    /\ token' = [token EXCEPT ![h] = counter + 1]
    /\ phase' = [phase EXCEPT ![h] = "acquiring"]
    /\ UNCHANGED <<lease, newest_accepted, writes>>

\* A lease entry that does not name its holder.
AnonymousLease(h) ==
    /\ phase[h] = "acquiring"
    /\ lease = Absent
    /\ lease' = <<token[h]>>
    /\ phase' = [phase EXCEPT ![h] = "holding"]
    /\ UNCHANGED <<counter, token, newest_accepted, writes>>

\* acquire, second command: SET NX of the lease key; None burns the token.
AcquireSetNx(h) ==
    /\ phase[h] = "acquiring"
    /\ lease' = set_if_absent(lease, <<h, token[h]>>)
    /\ IF nx_reply(lease)
       THEN /\ phase' = [phase EXCEPT ![h] = "holding"]
            /\ UNCHANGED token
       ELSE /\ phase' = [phase EXCEPT ![h] = "idle"]
            /\ token' = [token EXCEPT ![h] = 0]
    /\ UNCHANGED <<counter, newest_accepted, writes>>

\* A check that accepts every token.
CheckNothing(h) == TRUE

\* FencedWriter.check: accept a token at least as new as the newest accepted.
check(h) == token[h] >= newest_accepted

\* A write by a client that believes it holds the lease; StaleLeaseError makes
\* it stand down.
Write(h) ==
    /\ phase[h] = "holding"
    /\ Len(writes) < MaxWrites
    /\ IF check(h)
       THEN /\ newest_accepted' = token[h]
            /\ writes' = Append(writes, <<h, token[h]>>)
            /\ UNCHANGED phase
       ELSE /\ phase' = [phase EXCEPT ![h] = "releasing"]
            /\ UNCHANGED <<newest_accepted, writes>>
    /\ UNCHANGED <<counter, lease, token>>

\* The client is done with its critical section and will call release.
Finish(h) ==
    /\ phase[h] = "holding"
    /\ phase' = [phase EXCEPT ![h] = "releasing"]
    /\ UNCHANGED <<counter, lease, token, newest_accepted, writes>>

\* release as a plain DEL of the lease key.
PlainDelete(h) ==
    /\ phase[h] = "releasing"
    /\ lease' = Absent
    /\ phase' = [phase EXCEPT ![h] = "idle"]
    /\ token' = [token EXCEPT ![h] = 0]
    /\ UNCHANGED <<counter, newest_accepted, writes>>

\* release: compare-and-delete of the client's own "<holder>:<token>".
Release(h) ==
    /\ phase[h] = "releasing"
    /\ lease' = compare_and_delete(lease, <<h, token[h]>>)
    /\ phase' = [phase EXCEPT ![h] = "idle"]
    /\ token' = [token EXCEPT ![h] = 0]
    /\ UNCHANGED <<counter, newest_accepted, writes>>

\* The client dies; its lease stays behind until it expires.
Die(h) ==
    /\ phase[h] # "idle"
    /\ phase' = [phase EXCEPT ![h] = "idle"]
    /\ token' = [token EXCEPT ![h] = 0]
    /\ UNCHANGED <<counter, lease, newest_accepted, writes>>

\* The lease's time to live runs out, whatever its holder is doing.
Expire ==
    /\ lease # Absent
    /\ lease' = Absent
    /\ UNCHANGED <<counter, phase, token, newest_accepted, writes>>

LeaseNext ==
    \/ \E h \in Holder :
          \/ AcquireIncr(h) \/ AcquireSetNx(h)
          \/ Write(h) \/ Finish(h) \/ Release(h) \/ Die(h)
    \/ Expire

LeaseSpec == LeaseInit /\ [][LeaseNext]_leaseVars
------------------------------------------------------------------------------
\* Every variable stays in its type.
LeaseTypeOK ==
    /\ counter \in Nat
    /\ lease \in {Absent} \union (Holder \X Nat)
    /\ phase \in [Holder -> Phase]
    /\ token \in [Holder -> Nat]
    /\ newest_accepted \in Nat
    /\ writes \in Seq(Holder \X Nat)

\* Two writers never interleave at the guarded data (fencing.py, FencedWriter):
\* between two accepted writes that carry the same token, every accepted write
\* is by that same holder under that same token.  A holder that was paused past
\* its lease and overtaken never gets another write in.
NoInterleavedWriters ==
    \A i, k \in 1..Len(writes) :
       i < k /\ writes[i][2] = writes[k][2]
         => \A m \in i..k : writes[m] = writes[i]

\* LeaseManager.release never drops a successor's lease: a release step that
\* deletes the lease key deletes the entry of the very client that releases.
ReleaseSparesSuccessor ==
    [][\A h \in Holder :
          phase[h] = "releasing" /\ phase'[h] = "idle" /\ lease' # lease
            => lease = <<h, token[h]>>]_leaseVars
==============================================================================

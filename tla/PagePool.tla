------------------------------ MODULE PagePool ------------------------------
(***************************************************************************)
(* What a page allocator promises, whatever its bookkeeping looks like.    *)
(*                                                                         *)
(* There is a set of free page frames and a set of live blocks, the runs   *)
(* of frames handed out and not yet given back.  Memory may be brought     *)
(* under management, reserved or withdrawn at any time, but never at the   *)
(* expense of a live block.  A request is refused only when no run of free *)
(* frames is long enough.                                                  *)
(*                                                                         *)
(* PageAllocator implements this specification; Kalloc is written against  *)
(* it.                                                                     *)
(***************************************************************************)
EXTENDS Integers

CONSTANTS
  Requests,   \* the block lengths clients ask for
  Null        \* PHYS_ADDR_NULL, the refused request

VARIABLES
  managed,    \* frames the allocator looks after
  free,       \* the managed frames that may be handed out
  live,       \* blocks handed out, [frame, num]
  result      \* the last request and its answer, [num, frame]

poolVars == <<managed, free, live, result>>

\* The frames of a run of n frames that starts at frame f.
Run(f, n) == f .. (f + n - 1)

BlockFrames(b) == Run(b.frame, b.num)

LiveFrames == UNION {BlockFrames(b) : b \in live}

PoolInit ==
  /\ managed = {} /\ free = {} /\ live = {}
  /\ result = [num |-> 0, frame |-> Null]

\* Some run of n free frames is handed out.
Alloc(n) ==
  \E f \in free :
    /\ n > 0
    /\ Run(f, n) \subseteq free
    /\ free' = free \ Run(f, n)
    /\ live' = live \cup {[frame |-> f, num |-> n]}
    /\ result' = [num |-> n, frame |-> f]
    /\ UNCHANGED managed

\* A request is refused because no run of n free frames exists.
Refuse(n) ==
  /\ n = 0 \/ \A f \in free : ~(Run(f, n) \subseteq free)
  /\ result' = [num |-> n, frame |-> Null]
  /\ UNCHANGED <<managed, free, live>>

\* A block is given back.  Its frames become free, those excepted that have
\* been withdrawn in the meantime.
Release(b) ==
  /\ live' = live \ {b}
  /\ free' = free \cup (BlockFrames(b) \cap managed)
  /\ UNCHANGED <<managed, result>>

\* Memory is added, reserved, released from reservation or withdrawn.
Resize ==
  /\ free' \subseteq managed'
  /\ free' \cap LiveFrames = {}
  /\ UNCHANGED <<live, result>>

PoolNext ==
  \/ \E n \in Requests : Alloc(n) \/ Refuse(n)
  \/ \E b \in live : Release(b)
  \/ Resize

PoolSpec == PoolInit /\ [][PoolNext]_poolVars
====

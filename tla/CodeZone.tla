------------------------------ MODULE CodeZone ------------------------------
(***************************************************************************)
(* The code zone: the compiled methods (nmethods) of the virtual machine   *)
(* and the places that hold their addresses.  Those are the code table,    *)
(* the inline caches of compiled sends, the return addresses of            *)
(* activations, and the routes by which the interpreter enters compiled    *)
(* code.  An nmethod goes when space is needed, when it is recompiled,     *)
(* when the method it was compiled from changes, or when Self asks for it; *)
(* one that has activations becomes a zombie first.                        *)
(* Compaction moves what is left to the low end.                           *)
(*                                                                         *)
(* An address is that of a chunk that holds one nmethod; how chunks are    *)
(* found is in ZoneHeap.  Two fields are history: old says of an nmethod   *)
(* that what it was compiled from has changed, and is says of a reference  *)
(* where the nmethod it was made for is now, or None if it was flushed.    *)
(***************************************************************************)
EXTENDS Integers, FiniteSets

CONSTANTS
  Capacity,  \* nmethods that the zone can hold
  Keys,      \* what nmethods are found by: receiver map and selector
  Sends,     \* the key of the send that the nmethods of a key contain
  MaxFrames, \* BOUND: activations, those of one nmethod counted once
  None

ASSUME CodeZoneAssumption ==
  /\ Capacity \in Nat \ {0}
  /\ Sends \in [Keys -> Keys]
  /\ MaxFrames \in Nat

VARIABLES
  code,     \* the nmethod at each address
  table,    \* the code table: the address of the nmethod of each key
  routes,   \* the interpreter's PIC entry for each key, if it has the current
             \* codeFlushGeneration as its stamp: one with another is dropped
             \* when it is next used
  frames    \* the activations on all stacks; one in here may stand for several

vars == <<code, table, routes, frames>>

Addresses == 1..Capacity

Link == [at : Addresses, is : Addresses \cup {None}]
Frame == [at : Addresses, is : Addresses \cup {None}, patched : BOOLEAN]
Nmethod == [key : Keys, calls : Link \cup {None}, zombie : BOOLEAN, listed : BOOLEAN,
            invalid : BOOLEAN, chained : BOOLEAN, old : BOOLEAN]

ASSUME NoneAssumption == None \notin Addresses \cup Link \cup Frame \cup Nmethod

\* What an operation on the zone works on.
Zone == [code |-> code, table |-> table, routes |-> routes, frames |-> frames]
Becomes(z) ==
  code' = z.code /\ table' = z.table /\ routes' = z.routes /\ frames' = z.frames

Nmethods(z) == {a \in Addresses : z.code[a] # None}
Ref(a) == [at |-> a, is |-> a]
Meets(r) == r.is = r.at

ActiveUnpatched(z, a) == \E f \in z.frames : f.at = a /\ ~f.patched

\* frame_chain # NoFrameChain
Active(z, a) == \E f \in z.frames : f.at = a
Inactive(z) == {a \in Nmethods(z) : ~Active(z, a)}

\* The nmethods of A as Op changes them.
Updated(z, A, Op(_)) ==
  [a \in Addresses |-> IF a \in A THEN Op(z.code[a]) ELSE z.code[a]]
-----------------------------------------------------------------------------
(* Removing nmethods.                                                      *)

staysInCodeTable(z, A) == z

removeFromCodeTable(z, A) ==
  [z EXCEPT !.table = [k \in Keys |-> IF z.table[k] \in A THEN None ELSE z.table[k]]]

remove_me_from_inline_cache(z, A) ==
  [z EXCEPT !.code =
     Updated(z, {a \in Nmethods(z) : z.code[a].calls # None /\ z.code[a].calls.at \in A},
             LAMBDA n : [n EXCEPT !.calls = None])]

\* Out of every list: the code table, the zone's lists, the inline caches
\* and the chains of dependencies.
unlink(z, A) ==
  LET y == remove_me_from_inline_cache(removeFromCodeTable(z, A), A) IN
  [y EXCEPT !.code = Updated(y, A, LAMBDA n : [n EXCEPT !.listed = FALSE, !.chained = FALSE])]

\* A zombie goes when it has no activations.
makeZombie(z, A, unlnk) ==
  LET new == {a \in A : ~z.code[a].zombie}
      y == IF unlnk THEN unlink(z, new) ELSE removeFromCodeTable(z, new)
  IN [y EXCEPT !.code = Updated(y, new, LAMBDA n : [n EXCEPT !.zombie = TRUE, !.listed = TRUE])]

SameGeneration(z, A) == z.routes

\* The stamp of a flush makes all routes stale.
NewGeneration(z, A) == IF A = {} THEN z.routes ELSE [k \in Keys |-> None]

\* History: the nmethods of A are no more.
Lost(r, A) == IF r = None \/ r.is \notin A THEN r ELSE [r EXCEPT !.is = None]
Forget(z, A) ==
  [z EXCEPT !.code = Updated(z, Nmethods(z), LAMBDA n : [n EXCEPT !.calls = Lost(@, A)]),
            !.routes = [k \in Keys |-> Lost(z.routes[k], A)],
            !.frames = {Lost(f, A) : f \in z.frames}]

\* free_nmethod
Free(z, A) == LET y == Forget(z, A) IN [y EXCEPT !.code = Updated(y, A, LAMBDA n : None)]

\* nmethod::flush of each nmethod of A.
flush(z, A) ==
  LET bumped == [z EXCEPT !.routes = NewGeneration(z, A)]
      gone == A \cap Inactive(z)
  IN Free(unlink(makeZombie(bumped, A \ gone, FALSE), gone), gone)

Zombies(z) == {a \in Nmethods(z) : z.code[a].listed}
flushZombies(z) == flush(z, Zombies(z) \cap Inactive(z))

\* A sweep flushes what nobody will use again and takes what is in use off
\* the zone's lists.
Unreachable(z, a) == z.code[a].zombie \/ z.table[z.code[a].key] # a

sweeper(z, visited) ==
  LET dead == {a \in visited \cap Inactive(z) : Unreachable(z, a)}
      inUse == visited \ Inactive(z)
      swept == flush(z, dead)
  IN [swept EXCEPT !.code = Updated(swept, inUse, LAMBDA n : [n EXCEPT !.listed = FALSE])]

\* After a sweep from where the last one ended, over some nmethods or none:
\* those that it changes nothing of need not be among them.
SweepChanges(z) ==
  {a \in Nmethods(z) : IF Active(z, a) THEN z.code[a].listed ELSE Unreachable(z, a)}
Sweeps(z) == {sweeper(z, visited) : visited \in SUBSET SweepChanges(z)}

\* Flushing the replacement candidates, any that have not been used lately,
\* with the sweeps that find them: what those flush is among them too.
Reclaims(z) ==
  {flush(sweeper(z, V), W) : V \in SUBSET (Zombies(z) \ Inactive(z)), W \in SUBSET Inactive(z)}
-----------------------------------------------------------------------------
(* Allocating and compiling.                                               *)

NewNmethod(k) ==
  [key |-> k, calls |-> None, zombie |-> FALSE, listed |-> FALSE,
   invalid |-> FALSE, chained |-> TRUE, old |-> FALSE]

\* The zone when alloc has what it needs: swept if that was due, or, where
\* there was no room, without its zombies and without others, for which it
\* was swept.
AfterReclaim(z) == Reclaims(flushZombies(z))
AfterAlloc(z) == Sweeps(z) \cup AfterReclaim(z)

\* A new nmethod for k at a, in the code table.
Compiled(z, k, a) ==
  [z EXCEPT !.code[a] = NewNmethod(k), !.table[k] = a]

\* The sender at b has its inline cache set to the nmethod at a.
Linked(z, b, a) == [z EXCEPT !.code[b].calls = Ref(a)]

\* An activation of the nmethod at a.
Activation(a) == [at |-> a, is |-> a, patched |-> FALSE]
Enter(z, a) ==
  LET y == [z EXCEPT !.frames = @ \cup {Activation(a)}] IN
  Cardinality(y.frames) <= MaxFrames /\ Becomes(y)

\* The lookup that compiles: k is compiled, and Use done with the nmethod.
Compile(k, Use(_, _)) ==
  /\ table[k] = None
  /\ \E z \in AfterAlloc(Zone) :
       \E a \in Addresses \ Nmethods(z) : Use(Compiled(z, k, a), a)

\* The lookup for whose nmethod there was no room.
NoRoom ==
  /\ \E k \in Keys : table[k] = None
  /\ \E z \in AfterReclaim(Zone) : Becomes(z)

\* maybe_tier_up: a method that was interpreted often is compiled, and the
\* routes that would go on interpreting it are dropped.
TierUp(k) == Compile(k, LAMBDA z, a : Becomes([z EXCEPT !.routes[k] = None]))

\* A send in compiled code, by an activation that is not to be converted.
Sender(f) == ~f.patched /\ code[f.at] # None

SendLinked(f) ==
  /\ Sender(f)
  /\ LET r == code[f.at].calls IN r # None /\ Enter(Zone, r.at)

SendUnlinked(f) ==
  LET k == Sends[code[f.at].key] IN
  /\ Sender(f)
  /\ code[f.at].calls = None
  /\ \/ /\ table[k] # None
        /\ Enter(Linked(Zone, f.at, table[k]), table[k])
     \/ Compile(k, LAMBDA z, a : Enter(Linked(z, f.at, a), a))

\* The last of the activations that f stands for returns.
Return(f) ==
  Becomes([Zone EXCEPT !.frames = @ \ {f}])

\* The nmethod at a, which overflowed its counter, is out of the code table
\* while its successor is compiled, and protected from being flushed.  Its
\* callers are then linked to the new one.  A reusable nmethod, which would not
\* be flushed, is made by the NIC only, which the 64-bit builds leave out.
Forwarded(z, a, b) ==
  [z EXCEPT !.code =
     Updated(z, {s \in Nmethods(z) : z.code[s].calls # None /\ z.code[s].calls.at = a},
             LAMBDA n : [n EXCEPT !.calls = Ref(b)])]

Recompile(f) ==
  LET a == f.at
      k == code[a].key
  IN
  /\ Sender(f) /\ table[k] = a
  /\ \E z \in AfterAlloc(removeFromCodeTable(Zone, {a})) :
       \E b \in Addresses \ Nmethods(z) :
         LET y == flush(Forwarded(Compiled(z, k, b), a, b), {a}) IN
         \/ Becomes(y)
         \/ Becomes([y EXCEPT !.frames = (@ \ {f}) \cup {Activation(b)}])
         \/ Enter(y, b)
-----------------------------------------------------------------------------
(* The interpreter's sends.                                                *)

\* try_pic_entry: what is at a route's address is entered, unless it is
\* invalid; where no nmethod is, what happens is unknown, and left out.
EnterRoute(k) ==
  /\ routes[k] # None
  /\ LET a == routes[k].at IN code[a] # None /\ ~code[a].invalid /\ Enter(Zone, a)

DropRoute(k) ==
  /\ routes[k] # None
  /\ LET a == routes[k].at IN code[a] # None /\ code[a].invalid
  /\ Becomes([Zone EXCEPT !.routes[k] = None])

\* fill_pic after a lookup, and the late routing of an entry without one.
Route(k) ==
  /\ routes[k] = None
  /\ table[k] # None
  /\ Enter([Zone EXCEPT !.routes[k] = Ref(table[k])], table[k])
-----------------------------------------------------------------------------
(* What happens to the zone as a whole.                                    *)

Sweep == \* doSweep
  \E z \in Sweeps(Zone) \ {Zone} : Becomes(z)

\* _Flush, and _FlushUnused for those that are not used: made zombies, they
\* are all on one list to be flushed from.
FlushAll ==
  Becomes(flushZombies(makeZombie(Zone, Nmethods(Zone), TRUE)))

FlushUnused ==
  \E unused \in SUBSET Inactive(Zone) :
     Becomes(flushZombies(makeZombie(Zone, unused, TRUE)))

\* Where the nmethod at a goes when the zone is compacted, and a reference
\* to it that is or is not changed with it.
Slid(z, a) == IF a = None THEN None ELSE Cardinality({b \in Nmethods(z) : b <= a})
Shifted(z, r) == IF r = None THEN None ELSE [r EXCEPT !.at = Slid(z, @), !.is = Slid(z, @)]
NotShifted(z, r) == IF r = None THEN None ELSE [r EXCEPT !.is = Slid(z, @)]

LinkShifted(z, r) == Shifted(z, r)

Slide(z) ==
  LET from(b) == z.code[CHOOSE a \in Nmethods(z) : Slid(z, a) = b] IN
  [code |-> [b \in Addresses |-> IF b > Cardinality(Nmethods(z)) THEN None
                                 ELSE [from(b) EXCEPT !.calls = LinkShifted(z, @)]],
   table |-> [k \in Keys |-> Slid(z, z.table[k])],
   frames |-> {Shifted(z, f) : f \in z.frames},
   routes |-> [k \in Keys |-> NotShifted(z, z.routes[k])]]

\* _Compact moves the nmethods.  One that the virtual machine does of itself
\* (when alloc has asked for it, which depends on how much of three heaps is
\* lost to fragments, so that it may come at any time) may be one of the
\* secondary heaps only, but flushes more nmethods if there is little room
\* for new ones.
compact(forced) ==
  IF forced THEN Becomes(Slide(flushZombies(Zone)))
  ELSE \E z \in AfterReclaim(Zone) : Becomes(z) \/ Becomes(Slide(z))

\* _Define of an object changes what key k finds: what depends on it is
\* invalidated, its activations are marked to be converted, and the
\* interpreter's PICs are emptied.
Invalidated(z, A) ==
  LET y == unlink(z, A) IN
  [y EXCEPT !.code = Updated(y, A, LAMBDA n : [n EXCEPT !.invalid = TRUE])]

Program(k) ==
  LET depends == {a \in Nmethods(Zone) : code[a].key = k}
      y == Invalidated(Zone, {a \in depends : code[a].chained})
      invalid(r) == y.code[r.at] # None /\ y.code[r.at].invalid
  IN
  Becomes(
    [y EXCEPT
       !.code = Updated(y, depends, LAMBDA n : [n EXCEPT !.old = TRUE]),
       !.routes = [j \in Keys |-> None],
       !.frames = {[f EXCEPT !.patched = @ \/ invalid(f)] : f \in y.frames}])
-----------------------------------------------------------------------------
Init ==
  /\ code = [a \in Addresses |-> None]
  /\ table = [k \in Keys |-> None]
  /\ routes = [k \in Keys |-> None]
  /\ frames = {}

Next ==
  \/ \E k \in Keys : TierUp(k) \/ EnterRoute(k) \/ DropRoute(k) \/ Route(k) \/ Program(k)
  \/ \E f \in frames : SendLinked(f) \/ SendUnlinked(f) \/ Return(f) \/ Recompile(f)
  \/ NoRoom \/ Sweep \/ FlushAll \/ FlushUnused
  \/ \E forced \in BOOLEAN : compact(forced)

Spec == Init /\ [][Next]_vars
-----------------------------------------------------------------------------
(* Properties.                                                             *)

\* No activation is left without its nmethod: what is on a stack is neither
\* flushed nor moved without the return address being changed with it.
FramesLive == \A f \in frames : Meets(f)

\* A compiled send is linked to the nmethod of its key, and to none that was
\* flushed, moved away or compiled from what has changed since.
LinksLive ==
  \A a \in Nmethods(Zone) :
    LET n == code[a] IN
    n.calls # None =>
      Meets(n.calls) /\ code[n.calls.at].key = Sends[n.key] /\ ~code[n.calls.at].old

\* A lookup finds the one nmethod of the key that is neither a zombie nor
\* invalid, and never one compiled from what has changed since.
TableAgrees ==
  \A k \in Keys : \A a \in Addresses :
    table[k] = a <=>
      code[a] # None /\ code[a].key = k /\ ~code[a].zombie /\ ~code[a].invalid
                     /\ ~code[a].old

\* A route that the stamp does not show to be stale is to an nmethod that
\* was not flushed, and was compiled from what its key still finds.
RouteNotFlushed ==
  \A k \in Keys : routes[k] # None =>
    routes[k].is # None /\ code[routes[k].is].key = k /\ ~code[routes[k].is].old

\* A usable route leads to the nmethod it was made for: "a flushed (possibly
\* reused) nmethod is never entered on a stale PIC hit" (interpreter.cpp).
RouteEntersIt == \A k \in Keys : routes[k] # None => Meets(routes[k])

\* Code that a programming change has made wrong is not continued: "later
\* programming changes may need to invalidate it" (nmethod::flush).
OldCodeStops == \A f \in frames : Meets(f) /\ code[f.at].old => f.patched
=============================================================================

---------------------------- MODULE ArenaPromise ----------------------------
(***************************************************************************)
(* What the runtime relies on from any arena allocator, whatever its       *)
(* layout: a region handed out stays the holder's own until the holder's   *)
(* agreement ends.  Persistent regions are never given back; the section   *)
(* (the resizable buffer, later the reserved overlay) is replaced as a     *)
(* whole; a temporary region is the holder's until it is freed, and the    *)
(* chain of temporaries is reclaimed only once every one was freed.        *)
(* INonPersistentBufferAllocator and IPersistentBufferAllocator            *)
(* (arena_allocator/ibuffer_allocator.h) state this contract in prose.     *)
(***************************************************************************)
EXTENDS Naturals, Sequences

CONSTANT Regions        \* the regions an allocator may hand out: [start, size] records

VARIABLES
  persistent,           \* set of regions handed out for the lifetime of the arena
  section,              \* the one region of the head section
  chain                 \* temporaries since the last reclaim: [start, size, freed] records

promiseVars == <<persistent, section, chain>>

\* Two regions do not share a byte.
Apart(r, s) ==
  \/ r.size = 0
  \/ s.size = 0
  \/ r.start + r.size <= s.start
  \/ s.start + s.size <= r.start

Live == {i \in DOMAIN chain : ~chain[i].freed}

ApartFromTemps(r) == \A i \in Live : Apart(r, chain[i])
ApartFromPersistent(r) == \A p \in persistent : Apart(r, p)

GrantPersistent ==
  /\ UNCHANGED <<section, chain>>
  /\ \E r \in Regions :
       /\ persistent' = persistent \union {r}
       /\ ApartFromPersistent(r) /\ ApartFromTemps(r) /\ Apart(r, section)

GrantTemp ==
  /\ UNCHANGED <<persistent, section>>
  /\ \E r \in Regions :
       /\ chain' = Append(chain, [start |-> r.start, size |-> r.size, freed |-> FALSE])
       /\ ApartFromPersistent(r) /\ ApartFromTemps(r) /\ Apart(r, section)

FreeTemp ==
  /\ UNCHANGED <<persistent, section>>
  /\ \E i \in Live : chain' = [chain EXCEPT ![i].freed = TRUE]

ReclaimTemps ==
  /\ UNCHANGED <<persistent, section>>
  /\ Live = {}
  /\ chain' = <<>>

ReplaceSection ==
  /\ UNCHANGED <<persistent, chain>>
  /\ \E r \in Regions :
       /\ section' = r
       /\ ApartFromPersistent(r) /\ ApartFromTemps(r)

PromiseInit ==
  /\ section \in {r \in Regions : r.size = 0}
  /\ persistent \subseteq Regions
  /\ \A p, q \in persistent : p = q \/ Apart(p, q)
  /\ chain = <<>>

PromiseNext ==
  \/ GrantPersistent
  \/ GrantTemp
  \/ FreeTemp
  \/ ReclaimTemps
  \/ ReplaceSection

PromiseSpec == PromiseInit /\ [][PromiseNext]_promiseVars
=============================================================================

--------------------------- MODULE DiskCacheIndex ---------------------------
(***************************************************************************)
(* The disk cache's slot index, src/src/DiskCacheIndex.c.  Each operation  *)
(* runs under Index->Lock and is one step.                                 *)
(*                                                                         *)
(* A key names one block of one version of one file.  A slot's pin count   *)
(* is the set of who pinned it: the reads it is served to, and Filling     *)
(* for the fill that reserved it.  A hash chain is the set of slots linked *)
(* in it, and a ghost tag is the key it was computed from.                 *)
(***************************************************************************)
EXTENDS Naturals, Sequences

CONSTANTS
    SlotCount,   \* Index->SlotCount
    ClockReach,  \* DISK_CACHE_CLOCK_REACH
    GhostWays,   \* DISK_CACHE_GHOST_WAYS
    Keys,        \* Block keys
    ChainOf,     \* ChainOf[k]: the hash chain k belongs to
    GhostSetOf,  \* GhostSetOf[k]: the set of ghost ways k belongs to
    Reads,       \* Reads that may hold pins
    Filling,     \* The pin a reservation holds
    NoKey,       \* No key: an empty ghost way, or a slot never filled
    NoSlot       \* DISK_CACHE_NO_SLOT

ASSUME IndexAssumption ==
    /\ SlotCount \in Nat \ {0} /\ ClockReach \in Nat \ {0} /\ GhostWays \in Nat \ {0}
    /\ DOMAIN ChainOf = Keys /\ DOMAIN GhostSetOf = Keys
    /\ Filling \notin Reads /\ NoKey \notin Keys /\ NoSlot \notin Nat

VARIABLES
    State,       \* State[s]: "free", "filling" or "valid"
    Key,         \* Key[s]: the block the slot stands for
    Pins,        \* Pins[s]
    Referenced,  \* Referenced[s]: served since the hand last passed
    Chain,       \* Chain[c]: the slots linked in hash chain c
    Hand,        \* The clock hand
    Ghosts,      \* Ghosts[g]: tags of recent first misses, latest first
    Slots        \* Slots[r][k]: the slot read r has pinned for block k, or NoSlot

indexVars == <<State, Key, Pins, Referenced, Chain, Hand, Ghosts, Slots>>

SlotIds == 0 .. SlotCount - 1
Chains == {ChainOf[k] : k \in Keys}
GhostSets == {GhostSetOf[k] : k \in Keys}
NoSlots == [k \in Keys |-> NoSlot]

IndexInit ==
    /\ State = [s \in SlotIds |-> "free"]
    /\ Key = [s \in SlotIds |-> NoKey]
    /\ Pins = [s \in SlotIds |-> {}]
    /\ Referenced = [s \in SlotIds |-> FALSE]
    /\ Chain = [c \in Chains |-> {}]
    /\ Hand = 0
    /\ Ghosts = [g \in GhostSets |-> [w \in 1 .. GhostWays |-> NoKey]]
    /\ Slots = [r \in Reads |-> NoSlots]

Earliest(S) == CHOOSE i \in S : \A j \in S : i <= j

-----------------------------------------------------------------------------
(* DiskCacheIndexFind, DiskCacheIndexVictim.                               *)

Hits(k) == {s \in Chain[ChainOf[k]] : Key[s] = k}
Find(k) == IF Hits(k) = {} THEN NoSlot ELSE CHOOSE s \in Hits(k) : TRUE

Reach == IF SlotCount < ClockReach THEN SlotCount ELSE ClockReach
At(i) == (Hand + i) % SlotCount

\* How far from the hand the unpinned slots are, and those to be taken outright.
Unpinned == {i \in 0 .. Reach - 1 : Pins[At(i)] = {}}
\* Mutant: the clock does not look at the mark.
Takeable_marked == Unpinned

Takeable == {i \in Unpinned : State[At(i)] = "free" \/ ~Referenced[At(i)]}

\* How many slots the hand passes, and what it passes them for.
Looked == IF Takeable = {} THEN Reach ELSE Earliest(Takeable) + 1
Victim ==
    CASE Takeable # {} -> At(Earliest(Takeable))
      [] Takeable = {} /\ Unpinned # {} -> At(Earliest(Unpinned))
      [] OTHER -> NoSlot

NextHand == At(Looked)
PassedOver == {At(i) : i \in {j \in Unpinned : j < Looked}}

-----------------------------------------------------------------------------

\* Mutant: a block still being filled is pinned as if it were valid.
PinHeld_whileFilling(r, want) ==
    LET held == {k \in want : Find(k) # NoSlot}
    IN  /\ Slots' = [Slots EXCEPT ![r] = [k \in Keys |-> IF k \in held THEN Find(k) ELSE NoSlot]]
        /\ Pins' = [s \in SlotIds |-> IF \E k \in held : Find(k) = s THEN Pins[s] \cup {r} ELSE Pins[s]]
        /\ UNCHANGED <<State, Key, Referenced, Chain, Hand, Ghosts>>

\* BlorgDiskCacheIndexPinHeld: pins what is valid of the wanted blocks.
PinHeld(r, want) ==
    LET held == {k \in want : Find(k) # NoSlot /\ State[Find(k)] = "valid"}
    IN  /\ Slots' = [Slots EXCEPT ![r] = [k \in Keys |-> IF k \in held THEN Find(k) ELSE NoSlot]]
        /\ Pins' = [s \in SlotIds |-> IF \E k \in held : Find(k) = s THEN Pins[s] \cup {r} ELSE Pins[s]]
        /\ UNCHANGED <<State, Key, Referenced, Chain, Hand, Ghosts>>

\* BlorgDiskCacheIndexPlanRead: pins of the blocks not kept are dropped.
PlanRead(r, keep) ==
    /\ Slots' = [Slots EXCEPT ![r] = [k \in Keys |-> IF k \in keep THEN @[k] ELSE NoSlot]]
    /\ Pins' = [s \in SlotIds |-> IF \E k \in Keys \ keep : Slots[r][k] = s THEN Pins[s] \ {r} ELSE Pins[s]]
    /\ UNCHANGED <<State, Key, Referenced, Chain, Hand, Ghosts>>

\* BlorgDiskCacheIndexUnpin of everything r still has pinned.
Unpin(r, served) ==
    LET mine == {s \in SlotIds : \E k \in Keys : Slots[r][k] = s}
    IN  /\ Pins' = [s \in SlotIds |-> IF s \in mine THEN Pins[s] \ {r} ELSE Pins[s]]
        /\ Referenced' = [s \in SlotIds |-> Referenced[s] \/ (served /\ s \in mine)]
        /\ Slots' = [Slots EXCEPT ![r] = NoSlots]
        /\ UNCHANGED <<State, Key, Chain, Hand, Ghosts>>

\* The outcomes of BlorgDiskCacheIndexReserve.
GhostHit(k) == \E w \in 1 .. GhostWays : Ghosts[GhostSetOf[k]][w] = k
\* Mutant: only a valid block counts as held, so one being filled is filled again.
Admit_ignoresFilling(k) ==
    CASE Find(k) # NoSlot /\ State[Find(k)] = "valid" -> "held"
      [] ~GhostHit(k) -> "firstMiss"
      [] GhostHit(k) /\ Victim = NoSlot -> "noVictim"
      [] OTHER -> "reserved"

Admit(k) ==
    CASE Find(k) # NoSlot -> "held"
      [] Find(k) = NoSlot /\ ~GhostHit(k) -> "firstMiss"
      [] Find(k) = NoSlot /\ GhostHit(k) /\ Victim = NoSlot -> "noVictim"
      [] OTHER -> "reserved"

\* Unlinks s if it is in use, and links it under its new key.
Relink(s, k) ==
    Chain' = [c \in Chains |->
        (IF State[s] # "free" /\ c = ChainOf[Key[s]] THEN Chain[c] \ {s} ELSE Chain[c])
            \cup (IF c = ChainOf[k] THEN {s} ELSE {})]

\* The victim search moves the hand and clears the marks it passes over.
Reserve(k) ==
    \/ /\ Admit(k) = "held"
       /\ UNCHANGED indexVars
    \/ /\ Admit(k) = "firstMiss"
       /\ Ghosts' = [Ghosts EXCEPT ![GhostSetOf[k]] =
                        [w \in 1 .. GhostWays |-> IF w = 1 THEN k ELSE @[w - 1]]]
       /\ UNCHANGED <<State, Key, Pins, Referenced, Chain, Hand, Slots>>
    \/ /\ Admit(k) = "noVictim"
       /\ Hand' = NextHand
       /\ UNCHANGED <<State, Key, Pins, Referenced, Chain, Ghosts, Slots>>
    \/ /\ Admit(k) = "reserved"
       /\ Relink(Victim, k)
       /\ Key' = [Key EXCEPT ![Victim] = k]
       /\ State' = [State EXCEPT ![Victim] = "filling"]
       /\ Pins' = [Pins EXCEPT ![Victim] = {Filling}]
       /\ Referenced' = [s \in SlotIds |-> Referenced[s] /\ s \notin PassedOver \cup {Victim}]
       /\ Hand' = NextHand
       /\ Ghosts' = [Ghosts EXCEPT ![GhostSetOf[k]] =
                        [w \in 1 .. GhostWays |-> IF @[w] = k THEN NoKey ELSE @[w]]]
       /\ UNCHANGED Slots

\* BlorgDiskCacheIndexCommit ends the reservation of s.
Commit(s, written) ==
    /\ State' = [State EXCEPT ![s] = IF written THEN "valid" ELSE "free"]
    /\ Chain' = [Chain EXCEPT ![ChainOf[Key[s]]] = IF written THEN @ ELSE @ \ {s}]
    /\ Pins' = [Pins EXCEPT ![s] = @ \ {Filling}]
    /\ UNCHANGED <<Key, Referenced, Hand, Ghosts, Slots>>

-----------------------------------------------------------------------------
(* The index under users that keep its contract: a read pins once and      *)
(* unpins once, a reservation is committed once.                           *)

IndexNext ==
    \/ \E r \in Reads :
        \/ Slots[r] = NoSlots /\ \E want \in SUBSET Keys : PinHeld(r, want)
        \/ Slots[r] # NoSlots /\ \E keep \in SUBSET Keys : PlanRead(r, keep)
        \/ Slots[r] # NoSlots /\ \E served \in BOOLEAN : Unpin(r, served)
    \/ \E k \in Keys : Reserve(k)
    \/ \E s \in SlotIds : Filling \in Pins[s] /\ \E written \in BOOLEAN : Commit(s, written)

IndexSpec == IndexInit /\ [][IndexNext]_indexVars

-----------------------------------------------------------------------------
(* Properties.                                                             *)

\* What a read has pinned stays what it pinned, servable and under the same
\* key, until the read unpins it: the clock never takes a pinned slot, and a
\* reservation never touches another's slot (DiskCacheIndexVictim's Pins test).
PinnedSlotKeepsItsBlock ==
    \A r \in Reads, k \in Keys : Slots[r][k] # NoSlot =>
        /\ State[Slots[r][k]] = "valid"
        /\ Key[Slots[r][k]] = k
        /\ r \in Pins[Slots[r][k]]

\* The index describes what it holds exactly.  A slot being filled is pinned
\* by its reservation and by nobody else, and any other pin is a read's; no
\* block is in two slots, held or being filled; a slot in use is linked in its
\* key's chain and in no other, a free one in none (what Find relies on, and
\* what Unpin, Commit and Unlink assert).
IndexIsExact ==
    /\ \A s \in SlotIds :
        /\ State[s] = "filling" <=> Filling \in Pins[s]
        /\ \A r \in Reads : r \in Pins[s] <=> \E k \in Keys : Slots[r][k] = s
    /\ \A s, u \in SlotIds : State[s] # "free" /\ State[u] # "free" /\ Key[s] = Key[u] => s = u
    /\ \A c \in Chains, s \in SlotIds :
        s \in Chain[c] <=> State[s] # "free" /\ Key[s] \in Keys /\ ChainOf[Key[s]] = c

\* A block that was served survives the hand's next pass unless nothing in
\* reach was better: a marked slot is only taken over if every unpinned slot in
\* reach was in use and marked.
MarkedSlotIsLastResort ==
    [][\A s \in SlotIds :
        State[s] = "valid" /\ Referenced[s] /\ Key'[s] # Key[s] =>
            \A i \in Unpinned : State[At(i)] # "free" /\ Referenced[At(i)]]_indexVars
=============================================================================

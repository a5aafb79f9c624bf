----------------------------- MODULE MCCacheSim -----------------------------
(* CacheSim for TLC.  Blocks have two addresses; the accesses miss, hit,   *)
(* collide in both sets and cross block boundaries.  Two operations are    *)
(* under way at once where lines are replaced in the order of their use;   *)
(* RRIP replaces the newest line first, and with it the block of the other *)
(* operation.                                                              *)
EXTENDS CacheSim

Access(isLoad, address, bytes) ==
  [isRead |-> isLoad, memAddress |-> address, size |-> bytes]

MCAccesses ==
  {Access(TRUE, 0, 2), Access(FALSE, 4, 2), Access(TRUE, 8, 1),
   Access(TRUE, 1, 2), Access(TRUE, 5, 2), Access(FALSE, 9, 2)}

Configuration(victim, rrip, rate) ==
  [useVictim |-> victim, useRRIP |-> rrip, fetchRate |-> rate]

MCConfigurations ==
  {Configuration(victim, FALSE, 2) : victim \in BOOLEAN}
  \cup {Configuration(victim, TRUE, 1) : victim \in BOOLEAN}

Overlapping == {Configuration(victim, rrip, 2) : victim, rrip \in BOOLEAN}
=============================================================================

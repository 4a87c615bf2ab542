----------------------------- MODULE InitfsProofs -----------------------------
(***************************************************************************)
(* Proofs about initfs on dvfs, for every archive, inode set and pool      *)
(* size: the entries taken from initfs_file_pool are exactly those held by *)
(* the root and the live inodes, whatever the order of lookups, directory  *)
(* reads, their failure paths, chmod, reads, seeks and destruction.        *)
(***************************************************************************)
EXTENDS Initfs, FiniteSetTheorems, TLAPS

\* An inode record as initfs_fill_inode and dvfs leave it: four fields.
NodeFields == {"live", "entry", "mode", "pos"}
IsNode(r) == DOMAIN r = NodeFields

\* The live inodes of an inode table f.
LiveOf(f) == {n \in Ino : f[n].live}

\* The inductive invariant: PoolAccounting, with what its proof needs: the
\* root holds an entry exactly when the superblock is filled, and the inode
\* table is a function on Ino of four-field records.
PInv ==
    /\ fiUsed \in Nat
    /\ rootFi = mounted
    /\ ino = [n \in Ino |-> ino[n]]
    /\ \A n \in Ino : IsNode(ino[n])
    /\ PoolAccounting

-----------------------------------------------------------------------------
(* How the live set moves when one inode is filled, freed or updated.      *)

LEMMA LiveFinite == ASSUME NEW f PROVE IsFiniteSet(LiveOf(f))
    BY InitfsAssumption, FS_Subset DEF LiveOf

LEMMA LiveFill ==
    ASSUME NEW f, f = [m \in Ino |-> f[m]], NEW n \in Ino, ~f[n].live,
           NEW r, r.live = TRUE
    PROVE  Cardinality(LiveOf([f EXCEPT ![n] = r])) = Cardinality(LiveOf(f)) + 1
<1>1. LiveOf([f EXCEPT ![n] = r]) = LiveOf(f) \cup {n}
    BY DEF LiveOf
<1>2. n \notin LiveOf(f)
    BY DEF LiveOf
<1>3. QED
    BY <1>1, <1>2, LiveFinite, FS_AddElement

LEMMA LiveFree ==
    ASSUME NEW f, f = [m \in Ino |-> f[m]], NEW n \in Ino, f[n].live,
           NEW r, r.live = FALSE
    PROVE  Cardinality(LiveOf([f EXCEPT ![n] = r])) = Cardinality(LiveOf(f)) - 1
<1>1. LiveOf([f EXCEPT ![n] = r]) = LiveOf(f) \ {n}
    BY DEF LiveOf
<1>2. n \in LiveOf(f)
    BY DEF LiveOf
<1>3. QED
    BY <1>1, <1>2, LiveFinite, FS_RemoveElement

\* chmod, read and seek rewrite one field of an inode's record, leaving it
\* a four-field record with the same liveness.
LEMMA LiveField ==
    ASSUME NEW f, f = [m \in Ino |-> f[m]], \A m \in Ino : IsNode(f[m]),
           NEW n \in Ino, NEW v
    PROVE  /\ LiveOf([f EXCEPT ![n].mode = v]) = LiveOf(f)
           /\ LiveOf([f EXCEPT ![n].pos = v]) = LiveOf(f)
           /\ \A m \in Ino : IsNode([f EXCEPT ![n].mode = v][m])
           /\ \A m \in Ino : IsNode([f EXCEPT ![n].pos = v][m])
<1>1. [f EXCEPT ![n].mode = v]
        = [m \in Ino |-> IF m = n THEN [f[n] EXCEPT !.mode = v] ELSE f[m]]
    BY Zenon
<1>2. [f EXCEPT ![n].pos = v]
        = [m \in Ino |-> IF m = n THEN [f[n] EXCEPT !.pos = v] ELSE f[m]]
    BY Zenon
<1>3. /\ DOMAIN [f[n] EXCEPT !.mode = v] = NodeFields
      /\ [f[n] EXCEPT !.mode = v].live = f[n].live
      /\ DOMAIN [f[n] EXCEPT !.pos = v] = NodeFields
      /\ [f[n] EXCEPT !.pos = v].live = f[n].live
    BY Zenon DEF IsNode, NodeFields
<1>4. QED
    BY <1>1, <1>2, <1>3 DEF LiveOf, IsNode

\* PoolAccounting, now and after a step, in terms of LiveOf.
LEMMA PoolLive ==
    /\ PoolAccounting <=> fiUsed = Cardinality(LiveOf(ino)) + (IF rootFi THEN 1 ELSE 0)
    /\ PoolAccounting' <=> fiUsed' = Cardinality(LiveOf(ino')) + (IF rootFi' THEN 1 ELSE 0)
    BY DEF PoolAccounting, LiveOf

-----------------------------------------------------------------------------
(* The invariant holds initially and is kept by every step.                *)

LEMMA PInvInit == Init => PInv
<1> SUFFICES ASSUME Init PROVE PInv
    OBVIOUS
<1>1. LiveOf(ino) = {}
    BY DEF Init, LiveOf, FreeNode
<1>2. \A n \in Ino : IsNode(ino[n])
    BY DEF Init, FreeNode, IsNode, NodeFields
<1>3. Cardinality(LiveOf(ino)) = 0
    BY <1>1, FS_EmptySet
<1>6. PoolAccounting
    BY <1>3, PoolLive DEF Init
<1>4. ino = [n \in Ino |-> ino[n]]
    BY DEF Init
<1>5. QED
    BY <1>2, <1>6, <1>4 DEF Init, PInv

\* initfs_fill_inode into a free inode, the root untouched: one more entry
\* taken, one more live inode.
LEMMA FillKeeps ==
    ASSUME PInv, NEW n \in FreeIno, NEW j, FillInode(n, j),
           UNCHANGED <<mounted, rootFi>>
    PROVE  PInv'
<1> DEFINE r == [live |-> TRUE, entry |-> j, pos |-> 0,
                 mode |-> [type |-> Archive[j].type, perm |-> Archive[j].perm]]
<1>1. ino' = [ino EXCEPT ![n] = r] /\ fiUsed' = fiUsed + 1
    BY DEF FillInode
<1>2. Cardinality(LiveOf(ino')) = Cardinality(LiveOf(ino)) + 1
    BY <1>1, LiveFill DEF PInv, FreeIno
<1>3. \A m \in Ino : IsNode(ino'[m])
    BY <1>1 DEF PInv, IsNode, NodeFields
<1>4. ino' = [m \in Ino |-> ino'[m]]
    BY <1>1 DEF PInv
<1>5. PoolAccounting'
  <2>1. Cardinality(LiveOf(ino)) \in Nat
    BY LiveFinite, FS_CardinalityType
  <2>2. fiUsed' = Cardinality(LiveOf(ino')) + (IF rootFi' THEN 1 ELSE 0)
    BY <1>1, <1>2, <2>1, PoolLive DEF PInv
  <2>3. QED
    BY <2>2, PoolLive
<1>6. fiUsed' \in Nat
    BY <1>1 DEF PInv
<1>7. QED
    BY <1>3, <1>4, <1>5, <1>6 DEF PInv

\* A step that leaves the pool and the inode table alone.
LEMMA PoolUnchanged ==
    ASSUME PInv, UNCHANGED <<mounted, rootFi, fiUsed, ino>>
    PROVE  PInv'
    BY DEF PInv, PoolAccounting, IsNode, NodeFields

\* initfs_destroy_inode: the inode's pool entry is given back.
LEMMA DestroyKeeps ==
    ASSUME PInv, Destroy
    PROVE  PInv'
<1> SUFFICES ASSUME NEW n \in Ino, ino[n].live,
                    ino' = [ino EXCEPT ![n] = FreeNode],
                    fiUsed' = fiUsed - 1,
                    UNCHANGED <<mounted, rootFi>>
             PROVE  PInv'
    BY DEF Destroy
<1>1. Cardinality(LiveOf(ino')) = Cardinality(LiveOf(ino)) - 1
    BY LiveFill, LiveFree DEF PInv, FreeNode
<1>2. Cardinality(LiveOf(ino)) \in Nat \ {0}
  <2>1. n \in LiveOf(ino)
    BY DEF LiveOf
  <2>2. QED
    BY <2>1, LiveFinite, FS_CardinalityType, FS_EmptySet
<1>3. \A m \in Ino : IsNode(ino'[m])
    BY DEF PInv, IsNode, NodeFields, FreeNode
<1>4. ino' = [m \in Ino |-> ino'[m]]
    BY DEF PInv
<1>5. fiUsed' = Cardinality(LiveOf(ino')) + (IF rootFi' THEN 1 ELSE 0)
    BY <1>1, <1>2, PoolLive DEF PInv
<1>6. fiUsed' \in Nat
    BY <1>1, <1>2, <1>5
<1>7. QED
    BY <1>3, <1>4, <1>5, <1>6, PoolLive DEF PInv

\* chmod, initfs_read and lseek change one field of an inode's record.
LEMMA FieldKeeps ==
    ASSUME PInv, NEW n \in Ino, NEW v,
           \/ ino' = [ino EXCEPT ![n].mode = v]
           \/ ino' = [ino EXCEPT ![n].pos = v],
           UNCHANGED <<mounted, rootFi, fiUsed>>
    PROVE  PInv'
<1>1. /\ LiveOf(ino') = LiveOf(ino)
      /\ \A m \in Ino : IsNode(ino'[m])
  <2>1. ino = [m \in Ino |-> ino[m]] /\ \A m \in Ino : IsNode(ino[m])
    BY DEF PInv
  <2>2. /\ LiveOf([ino EXCEPT ![n].mode = v]) = LiveOf(ino)
        /\ LiveOf([ino EXCEPT ![n].pos = v]) = LiveOf(ino)
        /\ \A m \in Ino : IsNode([ino EXCEPT ![n].mode = v][m])
        /\ \A m \in Ino : IsNode([ino EXCEPT ![n].pos = v][m])
    BY <2>1, LiveField
  <2>3. QED
    BY <2>2, Zenon
<1>2. ino' = [m \in Ino |-> ino'[m]]
    BY DEF PInv
<1>3. QED
    BY <1>1, <1>2, PoolLive DEF PInv

LEMMA PInvStep == PInv /\ [Next]_vars => PInv'
<1> SUFFICES ASSUME PInv, [Next]_vars PROVE PInv'
    OBVIOUS
<1>1. CASE FillSb
  <2>1. rootFi = FALSE /\ rootFi' = TRUE /\ mounted' = TRUE /\ fiUsed' = fiUsed + 1
    BY <1>1 DEF FillSb, PInv
  <2>2. UNCHANGED ino
    BY <1>1 DEF FillSb
  <2>3. LiveOf(ino') = LiveOf(ino)
    BY <2>2
  <2>4. Cardinality(LiveOf(ino)) \in Nat
    BY LiveFinite, FS_CardinalityType
  <2>6. PoolAccounting'
    BY <2>1, <2>3, <2>4, PoolLive DEF PInv
  <2>5. QED
    BY <2>1, <2>2, <2>6 DEF PInv
<1>2. CASE LookupStep
  <2>1. PICK d \in DirNodes, nm \in Names : Lookup(d, nm)
    BY <1>2 DEF LookupStep
  <2>2. UNCHANGED <<mounted, rootFi>>
    BY <1>2 DEF LookupStep
  <2>3. QED
    BY <2>1, <2>2, FillKeeps, PoolUnchanged DEF Lookup
<1>3. CASE IterBegin
    BY <1>3, PoolUnchanged DEF IterBegin
<1>4. CASE IterStep
  <2>1. UNCHANGED <<mounted, rootFi>>
    BY <1>4 DEF IterStep
  <2>2. QED
    BY <1>4, <2>1, FillKeeps, PoolUnchanged DEF IterStep
<1>5. CASE Destroy
    BY <1>5, DestroyKeeps
<1>6. CASE Chmod
    BY <1>6, FieldKeeps DEF Chmod
<1>7. CASE Read
    BY <1>7, FieldKeeps DEF Read
<1>8. CASE Seek
    BY <1>8, FieldKeeps DEF Seek
<1>9. CASE UNCHANGED vars
    BY <1>9, PoolUnchanged DEF vars
<1>10. QED
    BY <1>1, <1>2, <1>3, <1>4, <1>5, <1>6, <1>7, <1>8, <1>9 DEF Next

(***************************************************************************)
(* For every archive, inode set and pool size: initfs_file_pool never      *)
(* leaks and never double-counts. Every entry taken by initfs_fill_sb or   *)
(* initfs_fill_inode is held by the root or by exactly one live inode, and *)
(* initfs_destroy_inode gives back exactly one, whatever the order of      *)
(* lookups, directory reads, their three failure paths, chmod, reads,      *)
(* seeks and destruction.                                                  *)
(***************************************************************************)
THEOREM PoolAccountingHolds == Spec => []PoolAccounting
<1>1. PInv => PoolAccounting
    BY DEF PInv
<1>2. QED
    BY <1>1, PInvInit, PInvStep, PTL DEF Spec

=============================================================================

------------------------------- MODULE Initfs -------------------------------
(***************************************************************************)
(* initfs, the read-only filesystem over the cpio archive linked into the *)
(* image (src/src/fs/driver/initfs/initfs_fops.c and initfs_dvfs.c), and  *)
(* chmod over dvfs (src/src/compat/posix/fs/dvfs/chmod_dvfs.c).           *)
(*                                                                         *)
(* The archive has no directories of its own: every entry carries its full *)
(* path, and a directory's children are found by comparing bytes of those  *)
(* paths. Names are therefore kept as sequences of characters, the one     *)
(* place where this project does so: the properties are about exactly      *)
(* those comparisons. An inode's private data (struct initfs_file_info)    *)
(* comes from a pool of file_quantity entries shared by every inode.       *)
(*                                                                         *)
(* dvfs, which calls these handlers, is not in the source tree: its part   *)
(* (allocating inodes, holding them, seeking, choosing the calls) is the   *)
(* environment, free to make any call the handlers accept.                 *)
(***************************************************************************)
EXTENDS Naturals, Sequences, SequencesExt

CONSTANTS Archive,   \* the cpio entries: [name, type, perm, size]
          Names,     \* the path components dvfs may look up
          Perm,      \* permission bits, abstracted
          Ino,       \* dvfs inodes that may hold an initfs file
          Root,      \* the superblock's root inode
          PoolSize,  \* OPTION file_quantity: size of initfs_file_pool
          W,         \* bits of size_t and off_t
          MaxPos,    \* largest offset dvfs seeks to
          MaxBuf     \* largest buffer a reader passes

ASSUME InitfsAssumption ==
    /\ PoolSize \in Nat \ {0}
    /\ W \in Nat \ {0}
    /\ MaxPos \in Nat /\ MaxBuf \in Nat
    /\ Root \notin Ino
    /\ IsFiniteSet(Ino)   \* dvfs has a fixed number of inodes

VARIABLES mounted,     \* initfs_fill_sb has succeeded
          rootFi,      \* the root inode holds a pool entry
          fiUsed,      \* entries taken from initfs_file_pool
          ino,         \* the dvfs inodes that hold initfs files
          it,          \* the directory being read, and ctx->fs_ctx
          lastLookup,  \* history: the last initfs_lookup's question and answer
          lastRead     \* history: the last initfs_read

vars == <<mounted, rootFi, fiUsed, ino, it, lastLookup, lastRead>>

Entry == 1 .. Len(Archive)
Known == {"dir", "reg"}            \* S_ISDIR or S_ISREG
Mode == [type : Known \cup {"none"}, perm : Perm]
FreeNode == [live |-> FALSE, entry |-> 0,
             mode |-> [type |-> "none", perm |-> CHOOSE p \in Perm : TRUE],
             pos |-> 0]

-----------------------------------------------------------------------------
(* C strings as sequences: CharAt(s, k) is s[k] (0-based, "" for the NUL  *)
(* and past it), From(s, k) is the string at s + k.                        *)
CharAt(s, k) == IF k < Len(s) THEN s[k + 1] ELSE ""
From(s, k) == IF k < Len(s) THEN SubSeq(s, k + 1, Len(s)) ELSE << >>
HasSlash(s) == \E k \in 1 .. Len(s) : s[k] = "/"

\* fi->path, fi->path_len of a directory: the entry's name for a directory
\* filled by initfs_fill_inode, NULL and 0 for the root (memset in fill_sb).
DirPath(d) == IF d = Root THEN << >> ELSE Archive[ino[d].entry].name

\* The prefix test: skipped when fi->path is NULL, else memcmp of path_len
\* bytes (an entry shorter than the path differs at its NUL).
PrefixOk(d, e) ==
    d = Root \/ (Len(e) >= Len(DirPath(d)) /\ IsPrefix(DirPath(d), e))

\* initfs_lookup's match (initfs_dvfs.c lines 40-45). strrchr past the NUL
\* is only reached after strcmp matched an empty name, which dvfs never asks.
LookupHit(d, nm, e) ==
    LET pl == Len(DirPath(d))
    IN  /\ PrefixOk(d, e)
        /\ nm = From(e, pl + (IF CharAt(e, pl) = "/" THEN 1 ELSE 0))
        /\ ~HasSlash(From(e, pl + 1))

\* initfs_iterate's match (initfs_fops.c lines 152-156).
IterHit(d, e) ==
    LET pl == Len(DirPath(d))
    IN  /\ PrefixOk(d, e)
        /\ CharAt(e, pl) # ""
        /\ ~HasSlash(From(e, pl + 1))

\* What a directory's children are: entries named path/c, c one component.
ChildPath(d, nm) == IF d = Root THEN nm ELSE DirPath(d) \o <<"/">> \o nm
IsChild(d, e) ==
    \E k \in 1 .. Len(e) :
        /\ SubSeq(e, 1, k - 1) = (IF d = Root THEN << >> ELSE DirPath(d) \o <<"/">>)
        /\ ~HasSlash(SubSeq(e, k, Len(e)))
ChildSeq(d) == SelectSeq([k \in Entry |-> k], LAMBDA k : IsChild(d, Archive[k].name))

-----------------------------------------------------------------------------
Init ==
    /\ mounted = FALSE
    /\ rootFi = FALSE
    /\ fiUsed = 0
    /\ ino = [n \in Ino |-> FreeNode]
    /\ it = [state |-> "idle", dir |-> Root, ctx |-> 0, out |-> << >>]
    /\ lastLookup = [path |-> << >>, got |-> 0]
    /\ lastRead = [pos |-> 0, n |-> 0, size |-> 0]

FreeIno == {n \in Ino : ~ino[n].live}

\* The scan stopped at entry j (0: at the trailer), which is a directory or
\* a regular file; any other type ends the scan with "Unknown inode type".
Usable(j) == j # 0 /\ Archive[j].type \in Known
DirNodes == {Root} \cup {n \in Ino : ino[n].live /\ Archive[ino[n].entry].type = "dir"}

\* Mutant: the result of initfs_alloc_inode is not checked against NULL.
FillInodeNoPoolCheck(n, j) ==
    /\ fiUsed' = fiUsed + 1
    /\ ino' = [ino EXCEPT ![n] = [live |-> TRUE, entry |-> j, pos |-> 0,
                                  mode |-> [type |-> Archive[j].type,
                                            perm |-> Archive[j].perm]]]

\* initfs_fill_inode (initfs_fops.c lines 84-109) into inode n, pool
\* permitting: i_mode is the entry's type and permission bits.
FillInode(n, j) ==
    /\ fiUsed < PoolSize
    /\ fiUsed' = fiUsed + 1
    /\ ino' = [ino EXCEPT ![n] = [live |-> TRUE, entry |-> j, pos |-> 0,
                                  mode |-> [type |-> Archive[j].type,
                                            perm |-> Archive[j].perm]]]

\* initfs_fill_sb (lines 190-214): an empty archive fails; otherwise the
\* root inode gets a zeroed pool entry.
FillSb ==
    /\ ~mounted
    /\ Len(Archive) > 0
    /\ fiUsed < PoolSize
    /\ mounted' = TRUE
    /\ rootFi' = TRUE
    /\ fiUsed' = fiUsed + 1
    /\ UNCHANGED <<ino, it, lastLookup, lastRead>>

(***************************************************************************)
(* initfs_lookup(nm, d) (initfs_dvfs.c lines 32-67): the first matching    *)
(* entry, then three ways to return NULL: an entry neither directory nor   *)
(* regular file, no free dvfs inode, or an empty pool (fill_inode fails,   *)
(* dvfs_destroy_inode gives the inode back).                               *)
(***************************************************************************)
Lookup(d, nm) ==
    LET j == SelectInSeq(Archive, LAMBDA e : LookupHit(d, nm, e.name))
        path == ChildPath(d, nm)
    IN  \/ /\ Usable(j)
           /\ \E n \in FreeIno : FillInode(n, j)
           /\ lastLookup' = [path |-> path, got |-> j]
        \/ /\ \/ ~Usable(j)
              \/ FreeIno = {}
              \/ fiUsed = PoolSize
           /\ lastLookup' = [path |-> path, got |-> 0]
           /\ UNCHANGED <<fiUsed, ino>>

LookupStep ==
    /\ mounted
    /\ \E d \in DirNodes, nm \in Names : Lookup(d, nm)
    /\ UNCHANGED <<mounted, rootFi, it, lastRead>>

\* dvfs starts reading directory d: ctx->fs_ctx is NULL.
IterBegin ==
    /\ mounted
    /\ it.state # "run"
    /\ \E d \in DirNodes : it' = [state |-> "run", dir |-> d, ctx |-> 0, out |-> << >>]
    /\ UNCHANGED <<mounted, rootFi, fiUsed, ino, lastLookup, lastRead>>

\* Mutant: ctx->fs_ctx is set to prev, the entry just returned.
IterAdvancePrev(j) == it' = [it EXCEPT !.ctx = j - 1, !.out = Append(@, j)]

\* ctx->fs_ctx = cpio, the entry after the one returned (line 168); the
\* name initfs_fillname writes is recorded as the entry it names.
IterAdvance(j) == it' = [it EXCEPT !.ctx = j, !.out = Append(@, j)]

(***************************************************************************)
(* One call of initfs_iterate (initfs_fops.c lines 138-176) on the `next`  *)
(* inode dvfs allocated: scan from ctx->fs_ctx to the next match. If there *)
(* is none, if it is neither directory nor regular file (break), or if     *)
(* fill_inode finds the pool empty, return -1, which dvfs takes as the end *)
(* of the directory. Otherwise fill `next`, name it and move ctx past it.  *)
(* With no free inode dvfs cannot call it and the read fails (err).        *)
(***************************************************************************)
IterStep ==
    /\ it.state = "run"
    /\ LET j == SelectInSubSeq(Archive, it.ctx + 1, Len(Archive),
                               LAMBDA e : IterHit(it.dir, e.name))
       IN  \/ /\ Usable(j)
              /\ \E n \in FreeIno : FillInode(n, j)
              /\ IterAdvance(j)
           \/ /\ FreeIno # {}
              /\ ~Usable(j) \/ fiUsed = PoolSize
              /\ it' = [it EXCEPT !.state = "done"]
              /\ UNCHANGED <<fiUsed, ino>>
           \/ /\ FreeIno = {}
              /\ it' = [it EXCEPT !.state = "err"]
              /\ UNCHANGED <<fiUsed, ino>>
    /\ UNCHANGED <<mounted, rootFi, lastLookup, lastRead>>

\* Mutant: initfs_destroy_inode does not give the pool entry back.
DestroyLeak ==
    \E n \in Ino :
        /\ ino[n].live
        /\ it.state = "run" => it.dir # n
        /\ ino' = [ino EXCEPT ![n] = FreeNode]
        /\ UNCHANGED <<fiUsed, mounted, rootFi, it, lastLookup, lastRead>>

\* dvfs drops an inode: initfs_destroy_inode (lines 179-185) returns its
\* pool entry. The directory being read is held until the read ends.
Destroy ==
    \E n \in Ino :
        /\ ino[n].live
        /\ it.state = "run" => it.dir # n
        /\ ino' = [ino EXCEPT ![n] = FreeNode]
        /\ fiUsed' = fiUsed - 1
        /\ UNCHANGED <<mounted, rootFi, it, lastLookup, lastRead>>

\* chmod(path, mode) (chmod_dvfs.c lines 13-28): dvfs_lookup, then i_mode
\* is overwritten by mode, whose S_IFMT bits a caller leaves clear.
Chmod ==
    \E n \in Ino, p \in Perm :
        /\ ino[n].live
        /\ ino' = [ino EXCEPT ![n].mode = [type |-> "none", perm |-> p]]
        /\ UNCHANGED <<mounted, rootFi, fiUsed, it, lastLookup, lastRead>>

\* initfs_read (initfs_fops.c lines 29-43) on an open regular file: the
\* clamp is computed in W-bit unsigned arithmetic (off_t pos + size_t
\* size); dvfs then moves the position by the count returned.
Read ==
    \E n \in Ino, size \in 0 .. MaxBuf :
        LET pos == ino[n].pos
            fsz == Archive[ino[n].entry].size
            cnt == IF (pos + size) % 2^W > fsz THEN (fsz - pos) % 2^W ELSE size
        IN  /\ ino[n].live
            /\ Archive[ino[n].entry].type = "reg"
            /\ lastRead' = [pos |-> pos, n |-> cnt, size |-> fsz]
            /\ ino' = [ino EXCEPT ![n].pos = (pos + cnt) % 2^W]
            /\ UNCHANGED <<mounted, rootFi, fiUsed, it, lastLookup>>

\* lseek through dvfs: any offset, past the end of the file included.
Seek ==
    \E n \in Ino, p \in 0 .. MaxPos :
        /\ ino[n].live
        /\ Archive[ino[n].entry].type = "reg"
        /\ ino' = [ino EXCEPT ![n].pos = p]
        /\ UNCHANGED <<mounted, rootFi, fiUsed, it, lastLookup, lastRead>>

Next ==
    \/ FillSb
    \/ LookupStep
    \/ IterBegin
    \/ IterStep
    \/ Destroy
    \/ Chmod
    \/ Read
    \/ Seek

Spec == Init /\ [][Next]_vars

-----------------------------------------------------------------------------
TypeOK ==
    /\ mounted \in BOOLEAN
    /\ rootFi \in BOOLEAN
    /\ fiUsed \in 0 .. PoolSize
    /\ \A n \in Ino : ino[n].live => ino[n].entry \in Entry /\ ino[n].mode \in Mode
                                   /\ ino[n].pos \in 0 .. 2^W - 1
    /\ it.state \in {"idle", "run", "done", "err"}
    /\ it.dir \in {Root} \cup Ino
    /\ it.ctx \in 0 .. Len(Archive)
    /\ it.out \in Seq(Entry)

(***************************************************************************)
(* The pool is not leaked: every entry taken from initfs_file_pool is held *)
(* by the root or by exactly one live inode, however lookups, directory    *)
(* reads and their failure paths (no inode, empty pool, unknown type) and  *)
(* inode destruction interleave.                                           *)
(***************************************************************************)
PoolAccounting ==
    fiUsed = Cardinality({n \in Ino : ino[n].live}) + (IF rootFi THEN 1 ELSE 0)

(***************************************************************************)
(* A directory read through repeated initfs_iterate calls returns entries  *)
(* in archive order, none twice: ctx->fs_ctx always moves past the entry   *)
(* returned.                                                               *)
(***************************************************************************)
ListingInOrder ==
    \A k \in 1 .. Len(it.out) - 1 : it.out[k] < it.out[k + 1]

(***************************************************************************)
(* initfs_lookup of name nm in directory d returns the entry named d/nm    *)
(* (or nm in the root), never another one.                                 *)
(***************************************************************************)
LookupCorrect ==
    lastLookup.got # 0 => Archive[lastLookup.got].name = lastLookup.path

(***************************************************************************)
(* A directory read that initfs_iterate ends with -1 ("End of directory") *)
(* has returned exactly the directory's children, in archive order.        *)
(***************************************************************************)
ListingComplete ==
    it.state = "done" => it.out = ChildSeq(it.dir)

(***************************************************************************)
(* initfs_read copies only bytes of the file: from pos, at most up to its *)
(* size, whatever position dvfs has seeked to.                             *)
(***************************************************************************)
ReadWithinFile ==
    lastRead.n = 0 \/ lastRead.pos + lastRead.n <= lastRead.size

(***************************************************************************)
(* chmod changes permissions, never the file type: an inode initfs filled *)
(* as a directory or regular file stays one (POSIX chmod; S_IFMT is set   *)
(* only by initfs_fill_inode).                                             *)
(***************************************************************************)
ModeKeepsType ==
    \A n \in Ino : ino[n].live => ino[n].mode.type = Archive[ino[n].entry].type

=============================================================================

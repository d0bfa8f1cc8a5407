------------------------------- MODULE Sandbox -------------------------------
(***************************************************************************)
(* A game's saves: the overlay of VirtualFileSystem (vfs_sandbox.cpp) over *)
(* the host directory that SandboxStore keeps (sandbox_store.cpp), through *)
(* sessions, flushes, crashes and reloads.                                 *)
(*                                                                         *)
(* The VFS mutex makes an operation atomic for the game.  Not for a crash: *)
(* each operation has a trail of host states, one per host call, and Crash *)
(* leaves any of them behind.  The content of a file is its size.  Left    *)
(* out: meta.toml, name escaping and case folding, the entry limit, host   *)
(* I/O errors that the state of the directory does not cause, directory    *)
(* handles, mappings, the lazy reading of file contents, and more than one *)
(* descriptor of a node: a node is open or it is not.                      *)
(***************************************************************************)
EXTENDS Integers, FiniteSets, FiniteSetsExt, SequencesExt, Functions

CONSTANTS
  Paths,       (* guest paths inside one semantic root                     *)
  Top,         (* that root                                                *)
  Parent,      (* [Paths -> Paths \cup {Top}]                              *)
  Base,        (* the paths at which a read-only layer has a file          *)
  MaxSize,     (* bound: sizes of files                                    *)
  Quota,       (* byte_quota                                               *)
  Nodes,       (* bound: file nodes with a name or a descriptor            *)
  None,
  Careless     (* the game also creates files in directories that do not  *)
               (* exist, and directories where the base has a file         *)

Sizes == 0 .. MaxSize
BaseSize == MaxSize

\* The ancestors of a path below the root: what every set holds that holds its
\* parent and, with a path, the parent of that.
Ancestors ==
  [p \in Paths |->
     {a \in Paths :
        \A S \in SUBSET Paths :
          (\A b \in S \cup {p} : Parent[b] \in S \cup {Top}) => a \in S}]

\* The paths are a tree, and so are the files of the base layer.  There are enough
\* nodes for every path to have one.
ASSUME SandboxAssumption ==
  /\ IsFiniteSet(Paths) /\ Top \notin Paths
  /\ Parent \in [Paths -> Paths \cup {Top}]
  /\ \A p \in Paths : p \notin Ancestors[p]
  /\ Base \subseteq Paths
  /\ \A p \in Base : Ancestors[p] \cap Base = {}
  /\ MaxSize \in Nat /\ Quota \in Nat
  /\ Nodes \subseteq Nat /\ IsFiniteSet(Nodes)
  /\ ExistsInjection(Paths, Nodes)
  /\ None \notin Paths \cup Nodes \cup Sizes
  /\ Careless \in BOOLEAN

VARIABLES
  disk,                (* the host directory                               *)
  up,                  (* a session has the sandbox attached               *)
  entries, stored,     (* SandboxStore: the index and its sizes            *)
  used,                (* used_bytes                                       *)
  names,               (* VFS files_                                       *)
  dirs,                (* directories_                                     *)
  hidden,              (* tombstones_                                      *)
  overlay, dirty,      (* File::overlay_path, dirty                        *)
  size, persisted,     (* File::size, persisted_size                       *)
  open,                (* nodes with an open descriptor                    *)
  delta,               (* dirty_overlay_delta_                             *)
  resurfaces,          (* auxiliary: the game has moved a base file away   *)
                       (* and the store has not been told                  *)
  overlooked           (* auxiliary: this session has deleted a directory  *)
                       (* whose subdirectory has no entry                  *)

storeVars == <<entries, stored, used>>
nodeVars == <<overlay, dirty, size, persisted>>
auxVars == <<resurfaces, overlooked>>
vars == <<disk, up, storeVars, names, dirs, hidden, nodeVars, open, delta, auxVars>>

Disks == [host : [Paths -> {"none", "file", "dir"}], bytes : [Paths -> Sizes],
          tombs : SUBSET Paths, temps : SUBSET Paths]

\* Every variable has its type; `used_bytes` never exceeds the byte quota, as
\* SandboxStore::Impl::RequireQuota enforces.
TypeOK ==
  /\ disk \in Disks
  /\ up \in BOOLEAN
  /\ entries \in [Paths -> {"none", "file", "dir", "tombstone"}]
  /\ stored \in [Paths -> Sizes]
  /\ used \in 0 .. Quota
  /\ names \in [Paths -> Nodes \cup {None}]
  /\ dirs \subseteq Paths
  /\ hidden \subseteq Paths
  /\ overlay \in [Nodes -> Paths \cup {None}]
  /\ dirty \in [Nodes -> BOOLEAN]
  /\ size \in [Nodes -> Sizes]
  /\ persisted \in [Nodes -> Sizes]
  /\ open \subseteq Nodes
  /\ delta \in Int
  /\ resurfaces \in BOOLEAN
  /\ overlooked \in BOOLEAN

-----------------------------------------------------------------------------
(* Paths.                                                                  *)

Descendants == [p \in Paths |-> {c \in Paths : p \in Ancestors[c]}]

Above(p) == Ancestors[p]
Below(p) == Descendants[p]

Directories ==
  LET there == dirs \cup {p \in Paths : names[p] # None}
  IN {Top} \cup dirs \cup UNION {Above(p) : p \in there}

IsDirectory(p) == p \in Directories

-----------------------------------------------------------------------------
(* The host directory.                                                     *)

EmptyDisk ==
  [host |-> [p \in Paths |-> "none"], bytes |-> [p \in Paths |-> 0],
   tombs |-> {}, temps |-> {}]

Put(d, p, kind, n) ==
  [host |-> [d.host EXCEPT ![p] = kind], bytes |-> [d.bytes EXCEPT ![p] = n],
   tombs |-> d.tombs, temps |-> d.temps]

WithParents(d, p) ==
  [d EXCEPT !.host = [q \in Paths |-> IF q \in Above(p) THEN "dir" ELSE @[q]]]

\* A file and a tombstone for one path: only a crash leaves that.
Torn(d) == \E p \in d.tombs : d.host[p] = "file"

\* LoadRoot and Load accept it.  The container of deleted children is a
\* directory beside its own tombstone, and then nothing below it is live.
Openable(d) ==
  /\ ~Torn(d)
  /\ \A p \in d.tombs : d.host[p] = "dir" =>
       \A c \in Below(p) : d.host[c] = "none" \/ c \in d.tombs

\* The files a session finds when it attaches `d` over the base layer.
Durable(d) ==
  [p \in Paths |->
     IF d.host[p] = "file" THEN d.bytes[p]
     ELSE IF p \in d.tombs \/ p \notin Base THEN None ELSE BaseSize]

-----------------------------------------------------------------------------
(* SandboxStore: each operation as the host states it goes through.        *)

HasDescendant(p) == \E c \in Below(p) : entries[c] # "none"
LiveDescendant(p) == \E c \in Below(p) : entries[c] \in {"file", "dir"}

\* The temporary is renamed over the file, then the tombstone goes.
WriteTrail(d, p, n) ==
  LET written == [WithParents(d, p) EXCEPT !.temps = @ \cup {p}]
      renamed == [Put(written, p, "file", n) EXCEPT !.temps = @ \ {p}]
  IN <<written, renamed, [renamed EXCEPT !.tombs = @ \ {p}]>>

\* CreateParentDirectories fails on a file.
CanPlace(p) == \A a \in Above(p) : disk.host[a] # "file"

\* Nothing on the host stands in the way, and the quota allows it.
CanWrite(p, n) ==
  /\ CanPlace(p)
  /\ disk.host[p] # "dir"
  /\ used - stored[p] + n <= Quota

\* Mutant of TombstoneTrail: a file of the overlay is deleted without one.
PlainRemovalTrail(d, p) ==
  IF entries[p] = "file" THEN <<Put(d, p, "none", 0)>>
  ELSE <<[WithParents(d, p) EXCEPT !.tombs = @ \cup {p}]>>

\* The tombstone is made first; a directory stays while it holds tombstones.
TombstoneTrail(d, p) ==
  IF entries[p] = "tombstone" THEN <<d>>
  ELSE LET marked == [WithParents(d, p) EXCEPT !.tombs = @ \cup {p}]
       IN <<marked, IF HasDescendant(p) THEN marked ELSE Put(marked, p, "none", 0)>>

\* Mutant of CanErase: deletes a directory whatever the store holds below it.
CanEraseAlways(p) == TRUE

CanErase(p) == entries[p] = "tombstone" \/ (~LiveDescendant(p) /\ CanPlace(p))

\* Mutant of DirectoryTrail: the tombstone stays.
DirectoryOnlyTrail(d, p) == <<Put(WithParents(d, p), p, "dir", 0)>>

DirectoryTrail(d, p) ==
  LET made == Put(WithParents(d, p), p, "dir", 0)
  IN <<made, [made EXCEPT !.tombs = @ \ {p}]>>

\* The index after the entry of `p` has become `kind` with `n` bytes.
Index(p, kind, n) ==
  /\ entries' = [entries EXCEPT ![p] = kind]
  /\ stored' = [stored EXCEPT ![p] = n]
  /\ used' = used - stored[p] + n

-----------------------------------------------------------------------------
(* File nodes.                                                             *)

Fresh == [overlay |-> None, dirty |-> FALSE, size |-> 0, persisted |-> 0]

Node(n) == [overlay |-> overlay[n], dirty |-> dirty[n],
            size |-> size[n], persisted |-> persisted[n]]

\* DirtyContribution: bytes the store has not seen.
Contribution(f) == IF f.dirty /\ f.overlay # None THEN f.size - f.persisted ELSE 0

\* The nodes of the map `f` become what it says, the sum follows; a node that
\* has neither name nor descriptor is forgotten.
SetNodes(f) ==
  LET after(n) == IF n \in DOMAIN f THEN f[n] ELSE Node(n)
      kept(n) == IF n \in open' \cup Range(names') THEN after(n) ELSE Fresh
  IN /\ overlay' = [n \in Nodes |-> kept(n).overlay]
     /\ dirty' = [n \in Nodes |-> kept(n).dirty]
     /\ size' = [n \in Nodes |-> kept(n).size]
     /\ persisted' = [n \in Nodes |-> kept(n).persisted]
     /\ delta' = delta + SumFunction([n \in DOMAIN f |-> Contribution(f[n]) - Contribution(Node(n))])

SetNode(n, f) == SetNodes([m \in {n} |-> f])

\* Mutants of Orphan: the bytes of the node stay in the sum; its path stays.
OrphanStillDirty(n) == [Node(n) EXCEPT !.dirty = @]
OrphanKeepingPath(n) == [Node(n) EXCEPT !.dirty = FALSE]

\* An unlinked or replaced node loses its path: its handle must not save it.
Orphan(n) == [Node(n) EXCEPT !.dirty = FALSE, !.overlay = None]

-----------------------------------------------------------------------------
(* A session: from AttachSandbox to its end.                               *)

Forget ==
  /\ entries' = [p \in Paths |-> "none"]
  /\ stored' = [p \in Paths |-> 0]
  /\ used' = 0
  /\ names' = [p \in Paths |-> None]
  /\ dirs' = {} /\ hidden' = {} /\ open' = {}
  /\ overlay' = [n \in Nodes |-> None]
  /\ dirty' = [n \in Nodes |-> FALSE]
  /\ size' = [n \in Nodes |-> 0]
  /\ persisted' = [n \in Nodes |-> 0]
  /\ delta' = 0

Init ==
  /\ disk = EmptyDisk
  /\ up = FALSE
  /\ entries = [p \in Paths |-> "none"]
  /\ stored = [p \in Paths |-> 0]
  /\ used = 0
  /\ names = [p \in Paths |-> None]
  /\ dirs = {} /\ hidden = {} /\ open = {}
  /\ overlay = [n \in Nodes |-> None]
  /\ dirty = [n \in Nodes |-> FALSE]
  /\ size = [n \in Nodes |-> 0]
  /\ persisted = [n \in Nodes |-> 0]
  /\ delta = 0
  /\ resurfaces = FALSE
  /\ overlooked = FALSE

\* A base file is replaced by an overlay file and taken away by a tombstone;
\* a directory of the overlay leaves it where it is.
Attach ==
  LET onDisk(p) == disk.host[p] = "file"
      files == {p \in Paths : onDisk(p) \/ (p \in Base /\ p \notin disk.tombs)}
      node == CHOOSE f \in [files -> Nodes] : IsInjective(f)
      saved == {node[p] : p \in {q \in files : onDisk(q)}}
      path(n) == CHOOSE p \in files : node[p] = n
  IN
  /\ ~up
  /\ Openable(disk)
  /\ up' = TRUE
  /\ disk' = [disk EXCEPT !.temps = {}]
  /\ entries' = [p \in Paths |-> IF p \in disk.tombs THEN "tombstone" ELSE disk.host[p]]
  /\ stored' = disk.bytes
  /\ used' = SumFunction(disk.bytes)
  /\ names' = [p \in Paths |-> IF p \in files THEN node[p] ELSE None]
  /\ dirs' = {p \in Paths : disk.host[p] = "dir"} \ disk.tombs
  /\ hidden' = disk.tombs
  /\ overlay' = [n \in Nodes |-> IF n \in saved THEN path(n) ELSE None]
  /\ size' = [n \in Nodes |-> IF n \notin Range(node) THEN 0
                              ELSE IF n \in saved THEN disk.bytes[path(n)] ELSE BaseSize]
  /\ persisted' = [n \in Nodes |-> IF n \in saved THEN disk.bytes[path(n)] ELSE 0]
  /\ overlooked' = FALSE
  /\ UNCHANGED <<dirty, open, delta, resurfaces>>

-----------------------------------------------------------------------------
(* The game's operations.                                                  *)

Free == Nodes \ (open \cup Range(names))

CreateFile(p) ==
  /\ up
  /\ names[p] = None /\ ~IsDirectory(p)
  /\ Careless \/ IsDirectory(Parent[p])
  /\ Free # {}
  /\ names' = [names EXCEPT ![p] = Min(Free)]
  /\ open' = open \cup {Min(Free)}
  /\ SetNode(Min(Free), [Fresh EXCEPT !.overlay = p, !.dirty = TRUE])
  /\ hidden' = hidden \ {p}
  /\ UNCHANGED <<disk, up, storeVars, dirs, auxVars>>

\* For writing: from now on the node belongs to the overlay.  O_TRUNC asks no
\* quota.
OpenFile(p) ==
  LET n == names[p] IN
  /\ up
  /\ n # None /\ n \notin open
  /\ open' = open \cup {n}
  /\ UNCHANGED <<disk, up, storeVars, names, dirs, hidden, auxVars>>
  /\ \/ SetNode(n, [Node(n) EXCEPT !.overlay = p])
     \/ SetNode(n, [Node(n) EXCEPT !.overlay = p, !.size = 0, !.dirty = TRUE])

\* Write, WriteAt and Truncate: the quota counts unflushed bytes too.
WriteFile(n, s) ==
  /\ up /\ n \in open
  /\ overlay[n] # None =>
       used + delta - Contribution(Node(n)) + s - persisted[n] \in 0 .. Quota
  /\ UNCHANGED <<disk, up, storeVars, names, dirs, hidden, open, auxVars>>
  /\ SetNode(n, [Node(n) EXCEPT !.size = s, !.dirty = dirty[n] \/ overlay[n] # None])

Unsaved(n) == dirty[n] /\ overlay[n] # None
CanSave(n) == CanWrite(overlay[n], size[n])
Saved(n) == [Node(n) EXCEPT !.persisted = size[n], !.dirty = FALSE]

\* FlushFileLocked
Save(n) ==
  LET p == overlay[n] IN
  /\ Unsaved(n) /\ CanSave(n)
  /\ disk' = Last(WriteTrail(disk, p, size[n]))
  /\ Index(p, "file", size[n])
  /\ hidden' = hidden \ {p}
  /\ UNCHANGED <<up, names, dirs, auxVars>>
  /\ SetNode(n, Saved(n))

\* fsync, and each file of FlushAll.
Flush(n) == up /\ open' = open /\ Save(n)

\* The descriptor is gone even when the flush fails.
Close(n) ==
  /\ up /\ n \in open
  /\ open' = open \ {n}
  /\ \/ Save(n)
     \/ /\ ~(Unsaved(n) /\ CanSave(n))
        /\ UNCHANGED <<disk, up, storeVars, names, dirs, hidden, auxVars>>
        /\ SetNode(n, Node(n))

CanMakeDirectory(p) ==
  /\ names[p] = None /\ ~IsDirectory(p) /\ IsDirectory(Parent[p])
  /\ entries[p] # "file" /\ CanPlace(p)
  /\ Careless \/ p \notin Base

MakeDirectory(p) ==
  /\ up
  /\ CanMakeDirectory(p)
  /\ IF entries[p] = "dir"
       THEN UNCHANGED <<disk, storeVars>>
       ELSE disk' = Last(DirectoryTrail(disk, p)) /\ Index(p, "dir", 0)
  /\ dirs' = dirs \cup {p}
  /\ hidden' = hidden \ {p}
  /\ UNCHANGED <<up, names, nodeVars, open, delta, auxVars>>

\* WriteTombstone looks for entries below the path: a directory made only as a
\* parent has none, and is live below the tombstone when the host is read again.
Overlook ==
  overlooked' = (overlooked \/ \E p \in disk'.tombs \ disk.tombs, c \in Paths :
                                 c \in Below(p) /\ disk.host[c] = "dir" /\ entries[c] = "none")

\* PersistRemovalLocked
Erase(p) ==
  /\ CanErase(p)
  /\ disk' = Last(TombstoneTrail(disk, p))
  /\ Index(p, "tombstone", 0)
  /\ hidden' = hidden \cup {p}

RemoveFile(p) ==
  /\ up
  /\ names[p] # None
  /\ Erase(p)
  /\ names' = [names EXCEPT ![p] = None]
  /\ Overlook
  /\ UNCHANGED <<up, dirs, open, resurfaces>>
  /\ SetNode(names[p], Orphan(names[p]))

IsEmptyDirectory(p) ==
  names[p] = None /\ p \in dirs /\ \A c \in Below(p) : names[c] = None /\ c \notin dirs

RemoveDirectory(p) ==
  /\ up
  /\ IsEmptyDirectory(p)
  /\ Erase(p)
  /\ dirs' = dirs \ {p}
  /\ Overlook
  /\ UNCHANGED <<up, names, nodeVars, open, delta, resurfaces>>

CanRename(p, q) ==
  /\ names[p] # None /\ p # q
  /\ ~IsDirectory(q) /\ IsDirectory(Parent[q])

\* The node moves to its new name, whatever has that name is orphaned.
Move(p, q, moved) ==
  LET n == names[p] IN
  /\ names' = [names EXCEPT ![p] = None, ![q] = n]
  /\ UNCHANGED <<up, dirs, open>>
  /\ SetNodes([m \in {n} \cup ({names[q]} \ {None}) |-> IF m = n THEN moved ELSE Orphan(m)])

\* The removal of the source finds nothing live below it.
CanLeave(p, q) == CanErase(p) /\ q \notin Below(p)

\* Without the source's removal a base file is there again in the next session.
Resurfaces(p) == p \in Base /\ disk.host[p] # "file"

\* The target is flushed, then the source is removed; when that throws, the
\* target has been saved and the source is still there for the next session.
Rename(p, q) ==
  LET n == names[p]
      written == Last(WriteTrail(disk, q, size[n]))
      left == CanLeave(p, q)
  IN
  /\ up
  /\ CanRename(p, q)
  /\ CanWrite(q, size[n])
  /\ Move(p, q, [Saved(n) EXCEPT !.overlay = q])
  /\ disk' = IF left THEN Last(TombstoneTrail(written, p)) ELSE written
  /\ entries' = [entries EXCEPT ![q] = "file", ![p] = IF left THEN "tombstone" ELSE @]
  /\ stored' = [stored EXCEPT ![q] = size[n], ![p] = IF left THEN 0 ELSE @]
  /\ used' = used - stored[q] + size[n] - (IF left THEN stored[p] ELSE 0)
  /\ hidden' = (hidden \ {q}) \cup (IF left THEN {p} ELSE {})
  /\ resurfaces' = (resurfaces \/ (~left /\ Resurfaces(p)))
  /\ Overlook

\* The flush throws when the names have moved already.
RenameUnsaved(p, q) ==
  LET n == names[p] IN
  /\ up
  /\ CanRename(p, q)
  /\ ~CanWrite(q, size[n])
  /\ Move(p, q, [Node(n) EXCEPT !.overlay = q, !.dirty = TRUE])
  /\ hidden' = hidden \ {q}
  /\ resurfaces' = (resurfaces \/ Resurfaces(p))
  /\ UNCHANGED <<disk, storeVars, overlooked>>

\* Everything the host can be left with when the process dies: between two
\* operations, or at any step of one that could be under way.
CrashPoints ==
  LET writes == {ToSet(WriteTrail(disk, overlay[n], size[n])) :
                   n \in {m \in Nodes : Unsaved(m) /\ CanSave(m)}}
      makes == {ToSet(DirectoryTrail(disk, p)) : p \in {q \in Paths : CanMakeDirectory(q)}}
      erases == {ToSet(TombstoneTrail(disk, p)) :
                   p \in {q \in Paths : (names[q] # None \/ IsEmptyDirectory(q)) /\ CanErase(q)}}
      renames == {r \in Paths \X Paths :
                    CanRename(r[1], r[2]) /\ CanWrite(r[2], size[names[r[1]]])}
      target(r) == WriteTrail(disk, r[2], size[names[r[1]]])
      targets == {ToSet(target(r)) : r \in renames}
      sources == {ToSet(TombstoneTrail(Last(target(r)), r[1])) :
                    r \in {s \in renames : CanLeave(s[1], s[2])}}
  IN {disk} \cup UNION (writes \cup makes \cup erases \cup targets \cup sources)

Crash ==
  /\ up /\ up' = FALSE
  /\ disk' \in CrashPoints
  /\ Forget
  /\ Overlook /\ UNCHANGED resurfaces

\* The library clears the saves of an instance that does not run (a clearing
\* that was interrupted is repeated before the game is started).
Clear ==
  /\ ~up
  /\ Openable(disk)
  /\ disk' = EmptyDisk
  /\ resurfaces' = FALSE /\ overlooked' = FALSE
  /\ UNCHANGED <<up, storeVars, names, dirs, hidden, nodeVars, open, delta>>

-----------------------------------------------------------------------------
GameStep ==
  \/ \E p \in Paths : \/ CreateFile(p) \/ OpenFile(p) \/ RemoveFile(p)
                      \/ MakeDirectory(p) \/ RemoveDirectory(p)
  \/ \E p, q \in Paths : Rename(p, q) \/ RenameUnsaved(p, q)
  \/ \E n \in Nodes : \/ Flush(n) \/ Close(n)
                      \/ \E s \in Sizes : WriteFile(n, s)

Next == Attach \/ GameStep \/ Crash \/ Clear

Spec == Init /\ [][Next]_vars

-----------------------------------------------------------------------------
\* The index of SandboxStore is what a reload would build from the host, so that
\* its decisions (is it there, is it empty, is it deleted) hold in the next
\* session; directories made only as parents have no entry before that.
IndexMatchesDisk ==
  up => \A p \in Paths :
          \/ entries[p] = IF p \in disk.tombs THEN "tombstone" ELSE disk.host[p]
          \/ entries[p] = "none" /\ disk.host[p] = "dir" /\ p \notin disk.tombs

\* used_bytes is what the files on the host take, and dirty_overlay_delta_ what
\* unflushed nodes will add: both are maintained step by step, through renames,
\* replaced and unlinked nodes and failed flushes, and decide about ENOSPC.
QuotaAccounting ==
  up => /\ used = SumFunction(disk.bytes)
        /\ delta = SumFunction([n \in Nodes |-> Contribution(Node(n))])

\* A file that is not dirty reads the same in the next session, and a name that
\* was deleted is not there: not from the host, and not from the base layer.
CleanStateIsDurable ==
  up => \A p \in Paths :
          /\ names[p] # None /\ ~dirty[names[p]] => Durable(disk)[p] = size[names[p]]
          /\ p \in hidden => names[p] = None /\ Durable(disk)[p] = None

\* src/docs/design/sandbox/01-scope.md:30: the next start sees what the last one
\* left.  Whatever happened before, at any crash point, the directory can be
\* opened, with three exceptions: a file beside its own tombstone, which a crash
\* between the two steps of a removal or a replacement leaves; what may follow
\* when the game could not save a base file under its new name; and a directory
\* deleted in this session above one that was made only as a parent.
NextSessionStarts == resurfaces \/ overlooked \/ Openable(disk) \/ Torn(disk)

Promise == INSTANCE AbstractSandbox WITH
  Contents <- Sizes,
  Absent <- None,
  seen <- [p \in Paths |-> IF names[p] = None THEN None ELSE size[names[p]]],
  durable <- Durable(disk)

\* The promise about saves: flushed is durable, removed is gone, the next session
\* finds exactly that, and a crash loses or tears nothing else.
Implements == Promise!Spec

=============================================================================

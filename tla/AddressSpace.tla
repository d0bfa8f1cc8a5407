---------------------------- MODULE AddressSpace ----------------------------
(***************************************************************************)
(* AddressSpace (src/src/memory/address_space.cpp): the mapping ledger of  *)
(* the guest's memory, the host pages that back it, the two page tables    *)
(* that generated code reads without the ledger's mutex, the tickets of    *)
(* prevalidated writes, the ranges of protected owners, and the            *)
(* translations that a mapping change has to invalidate.                   *)
(*                                                                         *)
(* A host page may hold several guest pages.  The mutex is held while      *)
(* phase is not "free"; the commits and decommits of host pages are steps  *)
(* of their own because generated code sees the tables between them.       *)
(* Calls that are refused change nothing and are left out, and so are the  *)
(* bytes of a page.                                                        *)
(***************************************************************************)
EXTENDS Naturals

CONSTANTS
  NumPages,       (* guest pages                                           *)
  Guard,          (* those that may never be mapped                        *)
  HostPages,
  HostOf,         (* the host page behind each guest page                  *)
  Protections,    (* bound: the protections asked for                      *)
  Owners,         (* bound: the protected owners                           *)
  Snapshots,      (* bound: the snapshots restored                         *)
  None,
  MaxGeneration   (* bound: changes of the mapping                         *)

Pages == 0 .. NumPages - 1
RW == {"r", "w"}

\* Writable pages are readable.
ASSUME AddressSpaceAssumption ==
  /\ NumPages \in Nat /\ MaxGeneration \in Nat
  /\ Guard \subseteq Pages
  /\ HostOf \in [Pages -> HostPages]
  /\ Protections \subseteq {p \in SUBSET {"r", "w", "x"} : "w" \in p => "r" \in p}
  /\ None \notin Owners \cup Snapshots
  /\ \A s \in Snapshots : /\ s.mapped \subseteq Pages \ Guard
                         /\ s.prot \in [Pages -> Protections]

VARIABLES
  mapped,     (* mapped_                                                   *)
  prot,       (* pages_                                                    *)
  committed,  (* host_committed_                                           *)
  direct,     (* the pages with an entry in direct_page_table_             *)
  readable,   (* and in direct_read_page_table_                            *)
  generation, (* mapping_generation_                                       *)
  base,       (* reservation_: how often it was replaced                   *)
  entries,    (* protected_, with the reservation the owner resolved       *)
  owners,     (* owners_                                                   *)
  phase,      (* where the call that holds the mutex is,                   *)
  range,      (* the pages it changes,                                     *)
  want,       (* the protection it gives them,                             *)
  hosts,      (* the host pages it has added or has still to look at,      *)
  who,        (* and its owner                                             *)
  ticket,     (* a ValidatedGuestWrite                                     *)
  restoring,  (* the snapshot of a restore that has passed its first check *)
  cached,     (* pages with translations of what they hold,                *)
  stale,      (* and of what they held                                     *)
  announcing, (* ranges changed by calls that have not told the observers  *)
  refused     (* history: the host has refused to take a page back         *)

ledgerVars == <<mapped, prot, direct, readable>>
callVars == <<phase, range, want, hosts, who>>
ownerVars == <<base, entries, owners>>
codeVars == <<cached, stale, announcing>>
memoryVars == <<ledgerVars, committed, generation, ownerVars, callVars, ticket, restoring, codeVars,
          refused>>

Backing(r) == {HostOf[p] : p \in r}
Interval(a, b) == {p \in Pages : a <= p /\ p <= b}
Ranges == {Interval(a, b) : a, b \in Pages} \ {{}}

\* The types of the ledger, of the call under way and of what others keep of it.
MemoryTypeOK ==
  /\ mapped \subseteq Pages /\ direct \subseteq Pages /\ readable \subseteq Pages
  /\ prot \in [Pages -> SUBSET {"r", "w", "x"}]
  /\ committed \subseteq HostPages
  /\ generation \in Nat /\ base \in Nat
  /\ entries \subseteq [owner : Owners, pages : SUBSET Pages, base : Nat]
  /\ owners \subseteq Owners
  /\ phase \in {"free", "committing", "releasing"}
  /\ range \subseteq Pages /\ want \subseteq {"r", "w", "x"} /\ hosts \subseteq HostPages
  /\ who \in Owners \cup {None}
  /\ ticket.pages \subseteq Pages /\ ticket.generation \in Nat
  /\ restoring \in Snapshots \cup {None}
  /\ cached \subseteq Pages /\ stale \subseteq Pages /\ announcing \subseteq SUBSET Pages
  /\ refused \in BOOLEAN

NoPages == [p \in Pages |-> {}]

MemoryInit ==
  /\ mapped = {} /\ prot = NoPages /\ direct = {} /\ readable = {}
  /\ committed = {} /\ generation = 0 /\ base = 0
  /\ entries = {} /\ owners = {}
  /\ phase = "free" /\ range = {} /\ want = {} /\ hosts = {} /\ who = None
  /\ ticket = [pages |-> {}, generation |-> 0]
  /\ restoring = None
  /\ cached = {} /\ stale = {} /\ announcing = {}
  /\ refused = FALSE

-----------------------------------------------------------------------------
(* What the calls share.                                                   *)

\* Bounds: MaxGeneration changes, one fewer once the host has refused, and two
\* calls at once.
Locked ==
  /\ phase = "free" /\ generation + (IF refused THEN 1 ELSE 0) < MaxGeneration
  /\ \A r, q \in announcing : r = q
Owned(r) == \E e \in entries : e.pages \cap r # {}
HostStarts == {a \in Pages : \A b \in Pages : b < a => HostOf[b] # HostOf[a]}
Fits(r) == r \cap (mapped \cup Guard) = {}
StartsAt(r, a) == a \in r /\ \A p \in r : a <= p

\* UpdateDirectPages: generated code writes readable and writable pages without
\* code, and reads readable ones.
UpdateDirectPages(m, f) ==
  /\ direct' = {p \in m : {"r", "w"} \subseteq f[p] /\ "x" \notin f[p]}
  /\ readable' = {p \in m : "r" \in f[p]}

\* The ledger takes the pages r as mapped or not, with protection p.
SetPages(r, isMapped, p) ==
  LET m == IF isMapped THEN mapped \cup r ELSE mapped \ r
      f == [q \in Pages |-> IF q \in r THEN p ELSE prot[q]]
  IN mapped' = m /\ prot' = f /\ UpdateDirectPages(m, f)

\* The translations of r are of what the pages held.
Outdate(r) == cached' = cached \ r /\ stale' = stale \cup (cached \cap r)

Enter(point, r, p, h, o) ==
  phase' = point /\ range' = r /\ want' = p /\ hosts' = h /\ who' = o

\* The mutex is released, and the call has the observers to tell of r.
Leave == Enter("free", {}, {}, {}, None)
Announce(r) == announcing' = announcing \cup {r}

-----------------------------------------------------------------------------
(* Mapping.                                                                *)

BeginMapping(r, p, o) ==
  /\ Enter("committing", r, p, {}, o)
  /\ UNCHANGED <<ledgerVars, committed, generation, base, owners, ticket, restoring,
                 codeVars, refused>>

Map(r, p) ==
  /\ Locked /\ Fits(r)
  /\ BeginMapping(r, p, None) /\ UNCHANGED entries

ReplaceAnonymous(r, p) ==
  /\ Locked /\ r \cap Guard = {} /\ ~Owned(r)
  /\ BeginMapping(r, p, None) /\ UNCHANGED entries

\* FindFreeLocked: the first interval of that size that begins at one of the
\* starts and is free.
FirstFit(r, starts) ==
  \E a \in starts, b \in Pages :
    /\ a <= b /\ r = Interval(a, b) /\ Fits(r)
    /\ \A c \in starts : c < a => ~Fits(Interval(c, c + (b - a)))

MapAnywhere(r, p) ==
  /\ Locked /\ FirstFit(r, Pages)
  /\ BeginMapping(r, p, None) /\ UNCHANGED entries

\* Nothing is entered where the map has an entry already.
MapProtectedAnywhere(o, r) ==
  /\ Locked /\ o \in owners
  /\ FirstFit(r, HostStarts)
  /\ entries' = IF \E e \in entries, a \in Pages : StartsAt(e.pages, a) /\ StartsAt(r, a)
                THEN entries
                ELSE entries \cup {[owner |-> o, pages |-> r, base |-> base]}
  /\ BeginMapping(r, RW, o)

\* EnsureHostBacking.
Commit(h) ==
  /\ phase = "committing"
  /\ h \in Backing(range) \ committed
  /\ committed' = committed \cup {h}
  /\ hosts' = hosts \cup {h}
  /\ UNCHANGED <<ledgerVars, generation, ownerVars, phase, range, want, who, ticket,
                 restoring, codeVars, refused>>

\* The host has no memory: what the call has added is given back unless
\* the host refuses that, and a protected range is forgotten.
CommitFails ==
  /\ phase = "committing"
  /\ Backing(range) \ committed # {}
  /\ committed' \in {committed \ h : h \in SUBSET hosts}
  /\ refused' = (refused \/ committed' # committed \ hosts)
  /\ entries' = IF who = None THEN entries
                ELSE {e \in entries : ~\E a \in Pages : StartsAt(e.pages, a) /\ StartsAt(range, a)}
  /\ Leave
  /\ UNCHANGED <<ledgerVars, generation, base, owners, ticket, restoring, codeVars>>

\* ReplaceAnonymousLocked, once the backing is there.
PublishMapping ==
  /\ phase = "committing"
  /\ Backing(range) \subseteq committed
  /\ SetPages(range, TRUE, want)
  /\ generation' = generation + 1
  /\ Outdate(range) /\ Announce(range)
  /\ Leave
  /\ UNCHANGED <<committed, ownerVars, ticket, restoring, refused>>

-----------------------------------------------------------------------------
(* Protecting and unmapping.                                               *)

\* Mutant: the observers are not told.
ProtectQuietly(r, p) ==
  /\ Locked /\ ~Owned(r)
  /\ r \subseteq mapped
  /\ SetPages(r, TRUE, p)
  /\ generation' = generation + 1
  /\ Outdate(r)
  /\ UNCHANGED <<committed, ownerVars, callVars, ticket, restoring, announcing, refused>>

\* Mutant: the tickets given out stay good.
ProtectSameGeneration(r, p) ==
  /\ Locked /\ ~Owned(r)
  /\ r \subseteq mapped
  /\ SetPages(r, TRUE, p)
  /\ Outdate(r) /\ Announce(r)
  /\ UNCHANGED <<committed, generation, ownerVars, callVars, ticket, restoring, refused>>

Protect(r, p) ==
  /\ Locked /\ ~Owned(r)
  /\ r \subseteq mapped
  /\ SetPages(r, TRUE, p)
  /\ generation' = generation + 1
  /\ Outdate(r) /\ Announce(r)
  /\ UNCHANGED <<committed, ownerVars, callVars, ticket, restoring, refused>>

\* UnmapLocked up to ReleaseUnusedHostBacking.
BeginUnmapping(r, o) ==
  /\ r \subseteq mapped
  /\ SetPages(r, FALSE, {})
  /\ Outdate(r)
  /\ Enter("releasing", r, {}, Backing(r), o)
  /\ UNCHANGED <<committed, generation, ownerVars, ticket, restoring, announcing, refused>>

Unmap(r) == Locked /\ ~Owned(r) /\ BeginUnmapping(r, None)

UnmapProtected(o, r) ==
  /\ Locked
  /\ \E e \in entries : e.owner = o /\ e.pages = r
  /\ BeginUnmapping(r, o)

\* Mutant: the neighbours of the unmapped pages are not looked at.
ReleaseAll(h) ==
  /\ phase = "releasing" /\ h \in hosts
  /\ hosts' = hosts \ {h}
  /\ committed' = committed \ {h}
  /\ UNCHANGED <<ledgerVars, generation, ownerVars, phase, range, want, who, ticket,
                 restoring, codeVars, refused>>

\* Mutant: a host page stays when another page of it was mapped before.
ReleaseNothing(h) ==
  /\ phase = "releasing" /\ h \in hosts
  /\ hosts' = hosts \ {h}
  /\ UNCHANGED <<ledgerVars, committed, generation, ownerVars, phase, range, want, who, ticket,
                 restoring, codeVars, refused>>

\* A host page goes back unless a neighbour of the pages still uses it.
ReleaseUnused(h) ==
  /\ phase = "releasing" /\ h \in hosts
  /\ hosts' = hosts \ {h}
  /\ committed' = IF h \in Backing(mapped) THEN committed ELSE committed \ {h}
  /\ UNCHANGED <<ledgerVars, generation, ownerVars, phase, range, want, who, ticket,
                 restoring, codeVars, refused>>

\* The exception leaves the call where it stands.
DecommitThrows ==
  /\ phase = "releasing"
  /\ \E h \in hosts : h \in committed \ Backing(mapped)
  /\ refused' = TRUE
  /\ Leave
  /\ UNCHANGED <<ledgerVars, committed, generation, ownerVars, ticket, restoring, codeVars>>

FinishUnmapping ==
  /\ phase = "releasing" /\ hosts = {}
  /\ generation' = generation + 1
  /\ entries' = IF who = None THEN entries
                ELSE {e \in entries : ~(e.owner = who /\ e.pages = range)}
  /\ Announce(range)
  /\ Leave
  /\ UNCHANGED <<ledgerVars, committed, base, owners, ticket, restoring, cached, stale,
                 refused>>

-----------------------------------------------------------------------------
(* Owners, prevalidated writes, snapshots.                                 *)

RegisterOwner(o) ==
  /\ phase = "free" /\ o \notin owners
  /\ owners' = owners \cup {o}
  /\ UNCHANGED <<ledgerVars, committed, generation, base, entries, callVars, ticket,
                 restoring, codeVars, refused>>

\* An owner goes after its ranges, as the provider of Java payloads does.
UnregisterOwner(o) ==
  /\ phase = "free" /\ o \in owners
  /\ \A e \in entries : e.owner # o
  /\ owners' = owners \ {o}
  /\ UNCHANGED <<ledgerVars, committed, generation, base, entries, callVars, ticket,
                 restoring, codeVars, refused>>

Writable(r) == r \subseteq mapped /\ \A p \in r : "w" \in prot[p]

PreflightWrite(r) ==
  /\ phase = "free" /\ Writable(r)
  /\ ticket' = [pages |-> r, generation |-> generation]
  /\ UNCHANGED <<ledgerVars, committed, generation, ownerVars, callVars, restoring,
                 codeVars, refused>>

\* RestoreSnapshot refuses while an owner is active, and builds the new
\* reservation without the mutex.
BeginRestore(s) ==
  /\ phase = "free" /\ restoring = None /\ owners = {}
  /\ restoring' = s
  /\ UNCHANGED <<ledgerVars, committed, generation, ownerVars, callVars, ticket, codeVars,
                 refused>>

RefuseRestore ==
  /\ phase = "free" /\ restoring # None /\ owners # {}
  /\ restoring' = None
  /\ UNCHANGED <<ledgerVars, committed, generation, ownerVars, callVars, ticket, codeVars,
                 refused>>

\* Mutant of Restore: owners are not looked for again.
RestoreUnchecked ==
  /\ Locked /\ restoring # None
  /\ mapped' = restoring.mapped /\ prot' = restoring.prot
  /\ UpdateDirectPages(restoring.mapped, restoring.prot)
  /\ committed' = Backing(restoring.mapped)
  /\ base' = base + 1
  /\ generation' = generation + 1
  /\ Outdate(Pages) /\ Announce(Pages)
  /\ restoring' = None
  /\ UNCHANGED <<entries, owners, callVars, ticket, refused>>

\* The second look, then ledger, backing and tables change in one step: a table
\* entry that generated code still reads meanwhile points into the reservation
\* that was replaced, which lives until after UpdateDirectPages.
Restore ==
  /\ Locked /\ restoring # None /\ owners = {}
  /\ mapped' = restoring.mapped /\ prot' = restoring.prot
  /\ UpdateDirectPages(restoring.mapped, restoring.prot)
  /\ committed' = Backing(restoring.mapped)
  /\ base' = base + 1
  /\ generation' = generation + 1
  /\ Outdate(Pages) /\ Announce(Pages)
  /\ restoring' = None
  /\ UNCHANGED <<entries, owners, callVars, ticket, refused>>

-----------------------------------------------------------------------------
(* Translations.                                                           *)

\* Generated code is made from an executable page.
Translate(p) ==
  /\ phase = "free" /\ p \in mapped /\ "x" \in prot[p]
  /\ cached' = cached \cup {p}
  /\ UNCHANGED <<ledgerVars, committed, generation, ownerVars, callVars, ticket, restoring,
                 stale, announcing, refused>>

\* PublishMappingChange: the call tells the observers, and returns.
PublishMappingChange(r) ==
  /\ r \in announcing
  /\ announcing' = announcing \ {r}
  /\ cached' = cached \ r /\ stale' = stale \ r
  /\ UNCHANGED <<ledgerVars, committed, generation, ownerVars, callVars, ticket, restoring,
                 refused>>

-----------------------------------------------------------------------------
MappingCall ==
  \/ \E r \in Ranges, p \in Protections :
       Map(r, p) \/ ReplaceAnonymous(r, p) \/ MapAnywhere(r, p) \/ Protect(r, p)
  \/ \E r \in Ranges : Unmap(r) \/ PreflightWrite(r)
  \/ \E o \in Owners, r \in Ranges : MapProtectedAnywhere(o, r) \/ UnmapProtected(o, r)

MappingStep ==
  \/ \E h \in HostPages : Commit(h) \/ ReleaseUnused(h)
  \/ CommitFails \/ PublishMapping \/ DecommitThrows \/ FinishUnmapping

OwnerCall == \E o \in Owners : RegisterOwner(o) \/ UnregisterOwner(o)
SnapshotCall == (\E s \in Snapshots : BeginRestore(s)) \/ RefuseRestore \/ Restore

CodeStep ==
  \/ \E p \in Pages : Translate(p)
  \/ \E r \in announcing : PublishMappingChange(r)

MemoryNext == MappingCall \/ MappingStep \/ OwnerCall \/ SnapshotCall \/ CodeStep

MemorySpec == MemoryInit /\ [][MemoryNext]_memoryVars

-----------------------------------------------------------------------------
\* Generated code finds in its tables, at every moment, only pages that the
\* ledger allows it and that host memory stands behind: the tables lose a page
\* before its backing goes and gain it after the backing came, on hosts whose
\* pages hold several guest pages too.
TablesAreBacked ==
  /\ \A p \in direct \cup readable : p \in mapped \ Guard /\ HostOf[p] \in committed
  /\ \A p \in direct : prot[p] = RW
  /\ \A p \in readable : "r" \in prot[p]

\* Until the host has refused a decommit, a host page is committed exactly while a
\* mapped page needs it, also after a mapping that failed half way.
NoIdleBacking == phase = "free" /\ ~refused => committed = Backing(mapped)

\* Until the host has refused a decommit, a prevalidated write that finds the
\* generation of its ticket writes, without looking, pages that are mapped and
\* writable: WritePrevalidated leaves the check out only while nothing was unmapped
\* or protected (memory/MODULE.md).
TicketHolds ==
  phase = "free" /\ ~refused /\ ticket.generation = generation => Writable(ticket.pages)

\* Until the host has refused a decommit, the range of an owner stays mapped,
\* readable and writable, in the reservation whose address the owner keeps, until
\* the owner gives it back: nobody else unmaps, protects or replaces it, and no
\* snapshot is restored over it, although the owner may come while the restore is
\* being prepared.
PayloadStays ==
  ~refused =>
    \A e \in entries :
      \/ phase # "free" /\ who = e.owner /\ range = e.pages
      \/ /\ e.pages \subseteq mapped /\ e.base = base
         /\ \A p \in e.pages : prot[p] = RW

\* Until the host has refused a decommit, translations of what a page no longer
\* holds are known to a call that is still to tell the observers: none is left once
\* the changing call has returned.
StaleIsAnnounced ==
  ~refused =>
    stale \subseteq (UNION announcing) \cup (IF phase = "releasing" THEN range ELSE {})
=============================================================================

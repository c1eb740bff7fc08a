----------------------------- MODULE FragmentCache -----------------------------
(***************************************************************************)
(* The fragment cache (DynaRec/FragmentCache.cpp): the fragments by entry   *)
(* address, the last-address pair and the hash table in front of them, the  *)
(* jumps between fragments, and the pages they cover.  Dynarec takes its    *)
(* steps: an operator here gives the variables of the cache their next     *)
(* value.                                                                  *)
(*                                                                         *)
(* A fragment stands for its generated code: its ops, the details of its   *)
(* branches, and the address it ends at.  Site 0 is the jump at that end,   *)
(* site b the jump at the end of the handler of branch b.                   *)
(***************************************************************************)
EXTENDS Integers, Sequences, FiniteSets

CONSTANTS
    PageSize,           \* 1 << MEM_USAGE_SHIFT, in ops
    HashSize            \* HASH_TABLE_SIZE

ASSUME CacheAssumption == PageSize \in Nat \ {0} /\ HashSize \in Nat \ {0}

VARIABLES
    fragments,          \* mFragments: a function from entry addresses
    links,              \* the jumps that lead into a fragment
    jumps,              \* mJumpMap: the jumps that wait for one
    todo,               \* the patches InsertFragment has still to register
    cached,             \* mCachedFragmentAddress, mpCachedFragment
    hash,               \* mpCacheHashTable
    covered             \* mCacheCoverage: the pages marked

cacheVars == <<fragments, links, jumps, todo, cached, hash, covered>>

NoFragment == 0
Nowhere == -1           \* ~0, the target of an indirect exit

Empty == [addr |-> 0, frag |-> NoFragment]

CacheInit ==
    /\ fragments = <<>> /\ links = {} /\ jumps = {} /\ todo = {}
    /\ cached = Empty /\ hash = [i \in 0..(HashSize - 1) |-> Empty]
    /\ covered = {}

Clear ==
    /\ fragments' = <<>> /\ links' = {} /\ jumps' = {} /\ todo' = {}
    /\ cached' = Empty /\ hash' = [i \in 0..(HashSize - 1) |-> Empty]
    /\ covered' = {}
-------------------------------------------------------------------------------
Entries == DOMAIN fragments
Index(a) == a % HashSize

\* LookupFragmentQ: what it answers, failures included, is remembered twice.
Lookup(a) ==
    CASE a = cached.addr -> cached.frag
      [] a # cached.addr /\ a = hash[Index(a)].addr -> hash[Index(a)].frag
      [] OTHER -> IF a \in Entries THEN a ELSE NoFragment

Answer(a) == [addr |-> a, frag |-> Lookup(a)]

HashAfter(a) == IF a = cached.addr THEN hash ELSE [hash EXCEPT ![Index(a)] = Answer(a)]

Remember(a) == cached' = Answer(a) /\ hash' = HashAfter(a)

\* Mutant: only the page of the first op is covered.
Pages_First(a, len) == {a \div PageSize}

\* The pages of len ops from a on, and of the op behind them.
Pages(a, len) == (a \div PageSize)..((a + len) \div PageSize)

ShouldInvalidateOnWrite(a, len) == Pages(a, len) \cap covered # {}
-------------------------------------------------------------------------------
\* Mutant: a likely branch that was not taken after all does not skip its slot.
ExitAddress_OneOp(f, site) ==
    IF site = 0 THEN f.exit
    ELSE LET d == f.branches[site]
         IN  IF d.kind = "likely" THEN f.ops[d.at].addr + 1 ELSE d.target

\* Where a jump out of a fragment leads (Assemble): a likely branch that left
\* the trace goes on after its slot, or runs the slot it has not recorded.
ExitAddress(f, site) ==
    IF site = 0 THEN f.exit
    ELSE LET d == f.branches[site]
             a == f.ops[d.at].addr
         IN  CASE d.kind # "likely" -> d.target
               [] d.kind = "likely" /\ d.taken -> a + 2
               [] OTHER -> a + 1

\* GenerateExitCode: a loop jumps to its own top and is never patched.
Looping(e, f, site) == f.loop /\ f.exit = e /\ ExitAddress(f, site) = e

Direct(f, site) == site = 0 \/ f.branches[site].kind \in {"branch", "likely"}

Patched(e, f) ==
    {site \in 0..Len(f.branches) : Direct(f, site) /\ ~Looping(e, f, site)}

PatchList(e, f) == {[from |-> e, site |-> site] : site \in Patched(e, f)}

\* Mutant: the jumps that waited for the fragment stay parked.
Insert_LeavesJumps(e, f, seen) ==
    /\ fragments' = [a \in Entries \cup {e} |-> IF a = e THEN f ELSE fragments[a]]
    /\ covered' = covered \cup Pages(e, Len(f.ops))
    /\ cached' = Answer(seen)
    /\ hash' = [HashAfter(seen) EXCEPT ![Index(e)] = [addr |-> e, frag |-> e]]
    /\ todo' = PatchList(e, f)
    /\ UNCHANGED <<links, jumps>>

\* InsertFragment up to its loop over the new fragment's own jumps; the lookup
\* of `seen` has come just before.
Insert(e, f, seen) ==
    /\ fragments' = [a \in Entries \cup {e} |-> IF a = e THEN f ELSE fragments[a]]
    /\ covered' = covered \cup Pages(e, Len(f.ops))
    /\ cached' = Answer(seen)
    /\ hash' = [HashAfter(seen) EXCEPT ![Index(e)] = [addr |-> e, frag |-> e]]
    /\ links' = links \cup {j \in jumps : j.to = e}
    /\ jumps' = {j \in jumps : j.to # e}
    /\ todo' = PatchList(e, f)

To(patch) == ExitAddress(fragments[patch.from], patch.site)
JumpOf(patch) == [from |-> patch.from, site |-> patch.site, to |-> To(patch)]

\* One round of that loop, in the order in which the code was assembled.
Register(patch) ==
    /\ \A p \in todo : patch.site <= p.site
    /\ IF Lookup(To(patch)) # NoFragment
       THEN links' = links \cup {JumpOf(patch)} /\ UNCHANGED jumps
       ELSE /\ jumps' = IF To(patch) = Nowhere THEN jumps ELSE jumps \cup {JumpOf(patch)}
            /\ UNCHANGED links
    /\ Remember(To(patch))
    /\ todo' = todo \ {patch}
    /\ UNCHANGED <<fragments, covered>>

RegisterPatch == \E patch \in todo : Register(patch)
-------------------------------------------------------------------------------
\* The answers that are remembered are the ones a search would give.  The pair
\* may be behind while InsertFragment has jumps to register: every new fragment
\* has one, and looking its target up moves the pair on.
Truth(a) == IF a \in Entries THEN a ELSE NoFragment

RememberedRight ==
    /\ \A i \in DOMAIN hash : hash[i].frag = Truth(hash[i].addr)
    /\ todo = {} => cached.frag = Truth(cached.addr)

Linked(patch) == {l \in links \cup jumps : l.from = patch.from /\ l.site = patch.site}

\* A jump of a fragment leads to the fragment at its target or, when there is
\* none, waits for it.
JumpRight(patch) ==
    Linked(patch) = IF To(patch) = Nowhere \/ patch \in todo THEN {} ELSE {JumpOf(patch)}

JumpsRight ==
    /\ \A l \in links : l.from \in Entries /\ l.to \in Entries
    /\ \A j \in jumps : j.from \in Entries /\ j.to \notin Entries
    /\ \A e \in Entries : \A patch \in PatchList(e, fragments[e]) : JumpRight(patch)

\* The last-address pair, the hash table, the links and the parked jumps agree
\* with the fragments the cache holds, through every insertion and clearing
\* (FragmentCache.cpp: failures are stored in both caches, an insertion
\* refreshes only one of them).
CacheExact == RememberedRight /\ JumpsRight
================================================================================

---------------------------- MODULE Dynarec_proofs ----------------------------
(***************************************************************************)
(* Proofs about Dynarec for every set of games and every size.             *)
(***************************************************************************)
EXTENDS Dynarec, TLAPS
-------------------------------------------------------------------------------
Branching == Delayed \cup {"eret"}

OpRecords == [addr : Addr, slot : BOOLEAN, ver : Nat, branch : Nat]
BranchRecords ==
    [kind : Branching, at : Nat, slot : Nat, taken : BOOLEAN, target : Int]
Answers == [addr : Int, frag : Int]

\* The details of the branches belong to the ops; `open` is the branch whose slot
\* has not been recorded yet.
BranchesFit(ops, branches, open) ==
    /\ ops \in Seq(OpRecords) /\ branches \in Seq(BranchRecords)
    /\ \A i \in DOMAIN ops : Kind(ops[i].addr) \in Branching =>
          /\ ops[i].branch \in DOMAIN branches
          /\ branches[ops[i].branch].kind = Kind(ops[i].addr)
    /\ \A b \in DOMAIN branches :
          /\ branches[b].at \in DOMAIN ops
          /\ Kind(ops[branches[b].at].addr) = branches[b].kind
          /\ branches[b].kind \notin {"likely", "eret"} /\ b # open =>
                branches[b].slot \in DOMAIN ops

FragmentFits(f) == BranchesFit(f.ops, f.branches, 0) /\ f.exit \in Int

FragmentsFit == Entries \subseteq Addr /\ \A e \in Entries : FragmentFits(fragments[e])

TraceFits ==
    /\ DOMAIN trace = {"active", "start", "ops", "branches", "exit", "open", "stopAfter"}
    /\ trace.open \in Nat /\ trace.exit \in Int
    /\ BranchesFit(trace.ops, trace.branches, trace.open)

\* The registers; a slot is the op behind a branch, and no branch itself.
CpuFits ==
    /\ game \in Games /\ ver \in [Addr -> Nat]
    /\ pc \in Int /\ target \in Int /\ epc \in Int /\ exc.pc \in Int
    /\ delay \in {"NO", "DO", "EXEC"} /\ core \in {"plain", "traced"}
    /\ selected \in {"plain", "traced"}
    /\ at \in {"op", "trace", "count", "branch", "frag"}
    /\ delay = "DO" => at \in {"trace", "count"} /\ pc \in Addr /\ Kind(pc) \in Delayed
    /\ delay = "EXEC" /\ at \in {"op", "branch"} /\ pc \in Addr => Kind(pc) \in Straight
    /\ at = "trace" =>
          /\ last.addr \in Addr /\ last.ver \in Nat /\ last.slot \in BOOLEAN
          /\ last.slot => Kind(last.addr) \in Straight
          /\ delay = "EXEC" => last.slot
          /\ delay = "DO" => pc = last.addr

\* The place in a fragment.
HereFits ==
    /\ here \in [entry : Int, i : Nat, branch : Nat]
    /\ at = "frag" => here.entry \in Entries
    /\ at = "frag" /\ here.branch # 0 =>
          /\ here.branch \in DOMAIN Fragment.branches
          /\ Details_.kind # "jump"
          /\ here.i = 0 => Details_.kind \notin {"likely", "eret"}

\* A trace goes on at higher addresses than it began at, or is about to end; so
\* the op that ends it is not the one it began with.
Recording ==
    trace.active =>
        /\ trace.start \in Addr /\ trace.start \notin Entries
        /\ core = "plain" => at = "op" /\ jobs = {"CHANGE_CORE"}
        /\ at # "frag"
        /\ trace.ops = <<>> =>
              /\ ~trace.stopAfter /\ trace.open = 0 /\ at \in {"op", "trace"}
              /\ at = "op" => pc = trace.start /\ delay = "NO"
              /\ at = "trace" => last.addr = trace.start
        /\ trace.ops # <<>> =>
              /\ at = "trace" => last.addr > trace.start
              /\ at \in {"op", "branch"} => pc > trace.start
        /\ at = "trace" => Kind(last.addr) = "eret" \/ pc >= last.addr
        /\ at = "count" => pc >= trace.start
        /\ delay = "EXEC" /\ at \in {"op", "trace"} => target > trace.start \/ trace.stopAfter
        /\ delay = "EXEC" /\ at = "count" => target > trace.start /\ trace.open = 0
        /\ delay = "DO" /\ at = "count" => target > trace.start \/ trace.stopAfter
        /\ at = "branch" => delay = "NO" /\ trace.open = 0

\* What the two shortcuts of the lookup remember.  The pair may be behind for the
\* first jump that is registered, which does not lead to the new fragment itself.
HashRight ==
    /\ hash \in [0..(HashSize - 1) -> Answers]
    /\ \A i \in 0..(HashSize - 1) :
          /\ hash[i].frag = Truth(hash[i].addr)
          /\ hash[i].addr = 0 \/ Index(hash[i].addr) = i

PairRight ==
    /\ cached \in Answers
    /\ \/ cached.frag = Truth(cached.addr)
       \/ /\ [from |-> cached.addr, site |-> 0] \in todo
          /\ fragments[cached.addr].exit # cached.addr

TodoFits ==
    /\ \A p, q \in todo : p.from = q.from
    /\ \A p \in todo : p.from \in Entries /\ p \in PatchList(p.from, fragments[p.from])

CacheInv == HashRight /\ PairRight /\ TodoFits /\ JumpsRight

Registering == todo # {} => at \in {"count", "frag"}

Covered == \A e \in Entries : Pages(e, Len(fragments[e].ops)) \subseteq covered

CacheGood == CacheInv /\ Covered /\ FragmentsFit

DynInv == CpuFits /\ TraceFits /\ HereFits /\ Recording /\ CacheGood /\ Registering
-------------------------------------------------------------------------------
\* The core that runs is the one selected unless the change is a job; the one
\* selected follows the recorder unless a dispatch has just ended its trace.
CoreInv ==
    /\ jobs \subseteq {"INTERRUPTS", "EXCEPTIONS", "CHANGE_CORE"}
    /\ "CHANGE_CORE" \notin jobs => core = selected
    /\ change => at \in {"branch", "frag"} /\ ~trace.active
    /\ ~change => (selected = "traced" <=> trace.active)
    /\ at = "trace" => trace.active
    /\ at = "frag" => jobs = {}

LEMMA NoTraceIdle == ~NoTrace.active
BY DEF NoTrace

LEMMA StartedActive == ASSUME NEW a PROVE StartTrace(a).active
BY DEF StartTrace, NoTrace

LEMMA CoreInit == Init => CoreInv
BY NoTraceIdle DEF Init, CoreInv

LEMMA CoreNext == CoreInv /\ [Next]_vars => CoreInv'
<1> SUFFICES ASSUME CoreInv, [Next]_vars PROVE CoreInv'  OBVIOUS
<1> USE DEF CoreInv
<1>1. CASE Execute
    <2>1. /\ at = "op" /\ jobs = {} /\ UNCHANGED <<trace, core, selected, change>>
          /\ at' = IF core = "traced" THEN "trace" ELSE "count"
        BY <1>1 DEF Execute, ExecuteStraight, TakeBranch, PassBranch, ExecuteEret, Interpret,
            cores, branching
    <2>2. jobs' \subseteq {"INTERRUPTS", "EXCEPTIONS"}
        BY <1>1, <2>1
        DEF Execute, ExecuteStraight, TakeBranch, PassBranch, ExecuteEret, Effect, Interrupts
    <2>3. QED  BY <2>1, <2>2
<1>2. CASE UpdateTrace
    <2>1. /\ at = "trace" /\ at' = "count" /\ UNCHANGED <<core, change>>
        BY <1>2 DEF UpdateTrace, branching
    <2>2. CASE KeepTrace
        BY <2>1, <2>2 DEF KeepTrace
    <2>3. CASE EndTrace
        BY <2>1, <2>3, NoTraceIdle DEF EndTrace, CreateAndAddFragment, SelectCore
    <2>4. QED  BY <1>2, <2>2, <2>3 DEF UpdateTrace
<1>3. CASE Count
    BY <1>3 DEF Count, cores, branching, Interrupts
<1>4. CASE CheckStuffToDo
    <2>1. ASSUME ChangeCore PROVE ~Aborts
        BY <2>1 DEF ChangeCore, GiveUpTrace, Aborts
    <2>2. /\ at = "op" /\ at' = "op" /\ UNCHANGED change
          /\ trace' = IF Aborts THEN NoTrace ELSE trace
          /\ selected' = IF Aborts THEN "plain" ELSE selected
        BY <1>4
        DEF CheckStuffToDo, ServeInterrupt, ServeException, ChangeCore, GiveUpTrace, branching
    <2>3. CASE ChangeCore
        BY <2>1, <2>2, <2>3 DEF ChangeCore, GiveUpTrace
    <2>4. CASE ServeInterrupt \/ ServeException
        <3>1. /\ core' = core
              /\ jobs' \subseteq jobs \cup {"CHANGE_CORE"}
              /\ Aborts => "CHANGE_CORE" \in jobs'
              /\ "CHANGE_CORE" \in jobs => "CHANGE_CORE" \in jobs'
            BY <2>4 DEF ServeInterrupt, ServeException, GiveUpTrace
        <3>2. QED  BY <2>2, <3>1, NoTraceIdle
    <2>5. QED  BY <1>4, <2>3, <2>4 DEF CheckStuffToDo
<1>5. CASE StopDispatching
    BY <1>5 DEF StopDispatching, ReturnFromBranch, SelectCore
<1>6. CASE Dispatch
    BY <1>6, NoTraceIdle
    DEF Dispatch, Dispatching, Enter, CreateAndAddFragment, cpu, cores
<1>7. CASE LeaveAlone
    BY <1>7 DEF LeaveAlone, Dispatching, ReturnFromBranch, SelectCore
<1>8. CASE CountHeat
    BY <1>8, StartedActive DEF CountHeat, Dispatching, ReturnFromBranch, SelectCore
<1>9. CASE RunFragment
    <2>1. at = "frag" /\ jobs = {} /\ UNCHANGED <<trace, core, selected, change>>
        BY <1>9
        DEF RunFragment, RunStraight, RunBranch, LeaveDirectly, LeaveLoop, LeaveIndirectly,
            Running, Unrecorded, cores
    <2>2. jobs' \subseteq {"INTERRUPTS", "EXCEPTIONS"} /\ at' \in {"branch", "frag"}
          /\ (at' = "frag" => jobs' = {})
        BY <1>9, <2>1
        DEF RunFragment, RunStraight, RunBranch, LeaveDirectly, LeaveLoop, LeaveIndirectly,
            Running, Effect, Interrupts, Leave, GoOn, Enter
    <2>3. QED  BY <2>1, <2>2
<1>10. CASE InsertMore
    BY <1>10 DEF InsertMore, cpu, cores, branching
<1>11. CASE UNCHANGED vars
    BY <1>11 DEF vars, cpu, cores, branching
<1>12. QED
    BY <1>1, <1>2, <1>3, <1>4, <1>5, <1>6, <1>7, <1>8, <1>9, <1>10, <1>11
    DEF Next, HandleDynaRecOnBranch

\* The core that interprets an op records it exactly if a trace is active.
THEOREM RecorderMatches == Spec => []CoreMatches
<1>1. CoreInv => CoreMatches  BY DEF CoreInv, CoreMatches
<1>2. QED  BY <1>1, CoreInit, CoreNext, PTL DEF Spec
-------------------------------------------------------------------------------
\* What a game gives.
LEMMA GameFacts ==
    ASSUME game \in Games
    PROVE  /\ Addr \subseteq Nat \ {0}
           /\ \A a \in Addr : Kind(a) \in Straight \cup Branching /\ game.code[a].to \in Nat
           /\ \A a \in Addr : Kind(a) \in Delayed /\ a + 1 \in Addr => Kind(a + 1) \in Straight
           /\ game.vector \in Nat /\ \A a \in game.returns : a \in Nat
           /\ game.reload.from \in Addr /\ game.reload.len \in Nat
BY DynarecAssumption DEF IsGame, Addr, Kind, Branching

LEMMA IndexRange == ASSUME NEW a \in Int PROVE Index(a) \in 0..(HashSize - 1)
BY CacheAssumption DEF Index

PageOf(a) == a \div PageSize

LEMMA PageMono ==
    ASSUME NEW a \in Int, NEW b \in Int, a <= b
    PROVE  PageOf(a) \in Int /\ PageOf(b) \in Int /\ PageOf(a) <= PageOf(b)
BY CacheAssumption, SMTT(30) DEF PageOf

LEMMA PagesOf ==
    ASSUME NEW a \in Int, NEW n \in Nat, NEW x \in a..(a + n)
    PROVE  PageOf(x) \in Pages(a, n)
<1>1. PageOf(a) \in Int /\ PageOf(x) \in Int /\ PageOf(a) <= PageOf(x)
    BY PageMono
<1>2. PageOf(a + n) \in Int /\ PageOf(x) <= PageOf(a + n)
    BY PageMono
<1>3. Pages(a, n) = PageOf(a)..PageOf(a + n)
    BY DEF Pages, PageOf
<1>4. QED  BY <1>1, <1>2, <1>3
-------------------------------------------------------------------------------
(* The cache. *)

EntriesFit == Entries \subseteq Nat \ {0}

\* A lookup is right unless it is for an address the pair is behind on.
LEMMA LookupRight ==
    ASSUME NEW a \in Int, HashRight,
           a = cached.addr => cached.frag = Truth(a)
    PROVE  Lookup(a) = Truth(a)
BY IndexRange DEF HashRight, Lookup, Truth, Answers

LEMMA IdleLookupRight ==
    ASSUME NEW a \in Int, HashRight, PairRight, todo = {}
    PROVE  Lookup(a) = Truth(a)
BY LookupRight DEF PairRight

LEMMA TruthFits ==
    ASSUME NEW a \in Int, EntriesFit
    PROVE  Truth(a) \in Int /\ (Truth(a) # NoFragment <=> a \in Entries)
BY DEF Truth, EntriesFit, NoFragment

LEMMA HashAfterRight ==
    ASSUME NEW a \in Int, HashRight, EntriesFit, Lookup(a) = Truth(a)
    PROVE  /\ Answer(a) \in Answers /\ Answer(a).frag = Truth(a) /\ Answer(a).addr = a
           /\ HashAfter(a) \in [0..(HashSize - 1) -> Answers]
           /\ \A i \in 0..(HashSize - 1) :
                 /\ HashAfter(a)[i].frag = Truth(HashAfter(a)[i].addr)
                 /\ HashAfter(a)[i].addr = 0 \/ Index(HashAfter(a)[i].addr) = i
<1>1. Answer(a) \in Answers /\ Answer(a).frag = Truth(a) /\ Answer(a).addr = a
    BY TruthFits DEF Answer, Answers
<1>2. CASE a = cached.addr
    BY <1>1, <1>2 DEF HashAfter, HashRight
<1>3. CASE a # cached.addr
    BY <1>1, <1>3, IndexRange DEF HashAfter, HashRight
<1>4. QED  BY <1>1, <1>2, <1>3

\* Remembering a right answer leaves both shortcuts right.
LEMMA RememberRight ==
    ASSUME NEW a \in Int, HashRight, EntriesFit, Lookup(a) = Truth(a),
           Remember(a), fragments' = fragments
    PROVE  HashRight' /\ PairRight'
BY HashAfterRight DEF Remember, HashRight, PairRight, Truth, Entries, Index

LEMMA ClearRight ==
    ASSUME Clear
    PROVE  CacheInv' /\ Covered' /\ Entries' = {} /\ todo' = {}
<1>1. Entries' = {} /\ links' = {} /\ jumps' = {} /\ todo' = {}
    BY DEF Clear, Entries
<1>2. HashRight' /\ PairRight'
    BY <1>1 DEF Clear, HashRight, PairRight, Answers, Empty, Truth, NoFragment
<1>3. JumpsRight' /\ Covered'
    BY <1>1 DEF JumpsRight, Covered
<1>4. QED  BY <1>1, <1>2, <1>3 DEF CacheInv, TodoFits

\* An insertion: the jumps that waited for the fragment become links, and its own
\* are still to be registered.  The pair may be behind on it until they are.
LEMMA InsertHash ==
    ASSUME NEW e \in Nat \ {0}, NEW f, NEW seen \in Int,
           HashRight, EntriesFit, e \notin Entries, Lookup(seen) = Truth(seen),
           Insert(e, f, seen)
    PROVE  /\ HashRight' /\ cached' \in Answers
           /\ cached'.addr = seen /\ (seen # e => cached'.frag = Truth(seen)')
<1> DEFINE h == HashAfter(seen)
<1>1. Entries' = Entries \cup {e}
    BY DEF Insert, Entries
<1>2. \A a \in Int : a # e => Truth(a)' = Truth(a)
    BY <1>1 DEF Truth
<1>3. /\ hash' = [h EXCEPT ![Index(e)] = [addr |-> e, frag |-> e]]
      /\ cached' = Answer(seen)
    BY DEF Insert
<1>4. /\ h \in [0..(HashSize - 1) -> Answers]
      /\ \A i \in 0..(HashSize - 1) :
            h[i].frag = Truth(h[i].addr) /\ (h[i].addr = 0 \/ Index(h[i].addr) = i)
    BY HashAfterRight
<1>5. ASSUME NEW i \in 0..(HashSize - 1)
      PROVE  /\ hash'[i].frag = IF hash'[i].addr \in Entries' THEN hash'[i].addr ELSE NoFragment
             /\ hash'[i].addr = 0 \/ Index(hash'[i].addr) = i
    <2>1. CASE i = Index(e)
        BY <1>1, <1>3, <1>4, <2>1
    <2>2. CASE i # Index(e)
        <3>1. hash'[i] = h[i] /\ h[i].addr \in Int
            BY <1>3, <1>4, <2>2 DEF Answers
        <3>2. h[i].addr # e
            BY <1>4, <2>2
        <3>3. QED  BY <1>1, <1>4, <3>1, <3>2 DEF Truth
    <2>3. QED  BY <2>1, <2>2
<1>6. hash' \in [0..(HashSize - 1) -> Answers]
    <2>1. [addr |-> e, frag |-> e] \in Answers  BY DEF Answers
    <2>2. QED  BY <1>3, <1>4, <2>1
<1>7. HashRight'
    BY <1>5, <1>6 DEF HashRight, Index, Truth
<1>8. QED
    BY <1>2, <1>3, <1>7, HashAfterRight

LEMMA InsertJumps ==
    ASSUME NEW e \in Nat \ {0}, NEW f, NEW seen \in Int,
           JumpsRight, e \notin Entries, todo = {}, Insert(e, f, seen)
    PROVE  JumpsRight'
<1>1. /\ Entries' = Entries \cup {e} /\ fragments'[e] = f
      /\ \A a \in Entries : fragments'[a] = fragments[a]
    BY DEF Insert, Entries
<1>2. /\ links' = links \cup {j \in jumps : j.to = e}
      /\ jumps' = {j \in jumps : j.to # e}
      /\ todo' = PatchList(e, f)
    BY DEF Insert
<1>3. links' \cup jumps' = links \cup jumps
    BY <1>2
<1>4. \A p : Linked(p)' = Linked(p)
    BY <1>3 DEF Linked
<1>5. /\ \A l \in links' : l.from \in Entries' /\ l.to \in Entries'
      /\ \A j \in jumps' : j.from \in Entries' /\ j.to \notin Entries'
    BY <1>1, <1>2 DEF JumpsRight
<1>6. ASSUME NEW a \in Entries', NEW p \in PatchList(a, fragments'[a])
      PROVE  JumpRight(p)'
    <2>1. p.from = a
        BY DEF PatchList
    <2>2. CASE a = e
        <3>1. Linked(p) = {}
            BY <2>1, <2>2 DEF JumpsRight, Linked
        <3>2. p \in todo'
            BY <1>1, <1>2, <1>6, <2>2
        <3>3. QED  BY <1>4, <3>1, <3>2 DEF JumpRight
    <2>3. CASE a # e
        <3>1. a \in Entries /\ fragments'[a] = fragments[a]
            BY <1>1, <2>3
        <3>2. p \notin todo'
            BY <1>2, <2>1, <2>3 DEF PatchList
        <3>3. JumpRight(p)
            BY <1>6, <3>1 DEF JumpsRight
        <3>4. QED  BY <1>4, <2>1, <3>1, <3>2, <3>3 DEF JumpRight, To, JumpOf
    <2>4. QED  BY <2>2, <2>3
<1>7. QED  BY <1>5, <1>6 DEF JumpsRight

\* A fragment inserted behind its own lookup leaves for elsewhere.
LEMMA InsertRight ==
    ASSUME NEW e \in Nat \ {0}, NEW f, NEW seen \in Int,
           CacheInv, Covered, EntriesFit, e \notin Entries, todo = {},
           0 \in 0..Len(f.branches), seen = e => f.exit # e,
           Insert(e, f, seen)
    PROVE  CacheInv' /\ Covered' /\ Entries' = Entries \cup {e}
<1>1. /\ Entries' = Entries \cup {e} /\ fragments'[e] = f
      /\ \A a \in Entries : fragments'[a] = fragments[a]
    BY DEF Insert, Entries
<1>2. todo' = PatchList(e, f)
    BY DEF Insert
<1>3. Lookup(seen) = Truth(seen)
    BY IdleLookupRight DEF CacheInv
<1>4. HashRight' /\ cached' \in Answers /\ cached'.addr = seen
      /\ (seen # e => cached'.frag = Truth(seen)')
    BY <1>3, InsertHash DEF CacheInv
<1>5. PairRight'
    <2>1. CASE seen # e
        BY <1>4, <2>1 DEF PairRight, Truth
    <2>2. CASE seen = e
        <3>1. 0 \in Patched(e, f)
            BY <2>2 DEF Patched, Direct, Looping
        <3>2. [from |-> e, site |-> 0] \in todo'
            BY <1>2, <3>1 DEF PatchList
        <3>3. QED  BY <1>1, <1>4, <2>2, <3>2 DEF PairRight
    <2>3. QED  BY <2>1, <2>2
<1>6. TodoFits'
    BY <1>1, <1>2 DEF PatchList, TodoFits
<1>7. JumpsRight'
    BY InsertJumps DEF CacheInv
<1>8. Covered'
    BY <1>1 DEF Insert, Covered
<1>9. QED  BY <1>1, <1>4, <1>5, <1>6, <1>7, <1>8 DEF CacheInv

ExitsFit ==
    \A e \in Entries : \A patch \in PatchList(e, fragments[e]) : To(patch) \in Int

\* The first jump that is registered moves the pair on.
LEMMA RegisterLookup ==
    ASSUME CacheInv, NEW patch \in todo, \A p \in todo : patch.site <= p.site,
           To(patch) \in Int
    PROVE  Lookup(To(patch)) = Truth(To(patch))
<1>1. SUFFICES To(patch) = cached.addr => cached.frag = Truth(To(patch))
    BY LookupRight DEF CacheInv
<1>2. CASE cached.frag = Truth(cached.addr)
    BY <1>2
<1>3. CASE /\ [from |-> cached.addr, site |-> 0] \in todo
           /\ fragments[cached.addr].exit # cached.addr
    <2>1. patch.from = cached.addr /\ patch.site <= 0
        BY <1>3 DEF CacheInv, TodoFits
    <2>2. patch.site \in Nat
        BY DEF CacheInv, TodoFits, PatchList, Patched
    <2>3. patch.site = 0
        BY <2>1, <2>2
    <2>4. To(patch) = fragments[cached.addr].exit
        BY <2>1, <2>3 DEF To, ExitAddress
    <2>5. QED  BY <1>3, <2>4
<1>4. QED  BY <1>2, <1>3 DEF CacheInv, PairRight

LEMMA RegisterRight ==
    ASSUME CacheInv, Covered, EntriesFit, ExitsFit, RegisterPatch
    PROVE  CacheInv' /\ Covered' /\ fragments' = fragments /\ todo' \subseteq todo
<1>1. PICK patch \in todo : Register(patch)
    BY DEF RegisterPatch
<1> DEFINE to == To(patch)
<1>2. /\ patch.from \in Entries /\ patch \in PatchList(patch.from, fragments[patch.from])
      /\ to \in Int
    BY DEF CacheInv, TodoFits, ExitsFit
<1>3. /\ fragments' = fragments /\ covered' = covered /\ Entries' = Entries
      /\ todo' = todo \ {patch} /\ Remember(to)
    BY <1>1 DEF Register, Entries
<1>4. Lookup(to) = Truth(to)
    BY <1>1, <1>2, RegisterLookup DEF Register
<1>5. HashRight' /\ PairRight'
    BY <1>2, <1>3, <1>4, RememberRight DEF CacheInv
<1>6. TodoFits'
    BY <1>3 DEF CacheInv, TodoFits
<1>7. to \in Entries => to # Nowhere
    BY <1>2 DEF EntriesFit, Nowhere
<1>8. IF to \in Entries THEN links' = links \cup {JumpOf(patch)} /\ jumps' = jumps
      ELSE /\ jumps' = IF to = Nowhere THEN jumps ELSE jumps \cup {JumpOf(patch)}
           /\ links' = links
    BY <1>1, <1>2, <1>4, TruthFits DEF Register
<1>9. /\ JumpOf(patch).from = patch.from /\ JumpOf(patch).site = patch.site
      /\ JumpOf(patch).to = to
    BY DEF JumpOf
<1>10. JumpsRight'
    <2>1. /\ \A l \in links' : l.from \in Entries' /\ l.to \in Entries'
          /\ \A j \in jumps' : j.from \in Entries' /\ j.to \notin Entries'
        BY <1>2, <1>3, <1>8, <1>9 DEF CacheInv, JumpsRight
    <2>2. ASSUME NEW a \in Entries, NEW p \in PatchList(a, fragments[a])
          PROVE  JumpRight(p)'
        <3>1. JumpRight(p)
            BY DEF CacheInv, JumpsRight
        <3>2. To(p)' = To(p) /\ JumpOf(p)' = JumpOf(p)
            BY <1>3 DEF To, JumpOf
        <3>3. links' \cup jumps' = IF to = Nowhere THEN links \cup jumps
                                   ELSE links \cup jumps \cup {JumpOf(patch)}
            BY <1>7, <1>8
        <3>4. CASE p = patch
            <4>1. Linked(p) = {}
                BY <3>1, <3>4 DEF JumpRight
            <4>2. Linked(p)' = IF to = Nowhere THEN {} ELSE {JumpOf(patch)}
                BY <1>9, <3>3, <3>4, <4>1 DEF Linked
            <4>3. QED  BY <1>3, <3>2, <3>4, <4>2 DEF JumpRight
        <3>5. CASE p # patch
            <4>1. ~(p.from = patch.from /\ p.site = patch.site)
                BY <1>2, <3>5 DEF PatchList
            <4>2. Linked(p)' = Linked(p)
                BY <1>9, <3>3, <4>1 DEF Linked
            <4>3. QED  BY <1>3, <3>1, <3>2, <3>5, <4>2 DEF JumpRight
        <3>6. QED  BY <3>4, <3>5
    <2>3. QED  BY <1>3, <2>1, <2>2 DEF JumpsRight
<1>11. Covered'
    BY <1>3 DEF Covered
<1>12. QED  BY <1>3, <1>5, <1>6, <1>10, <1>11 DEF CacheInv
-------------------------------------------------------------------------------
(* The recorder. *)

LEMMA RecordedFields ==
    ASSUME TraceFits
    PROVE  LET op == game.code[last.addr]
               t == Recorded(last, op, delay = "DO", target)
           IN  /\ DOMAIN t = DOMAIN trace /\ t.start = trace.start
               /\ t.active <=> ~(trace.stopAfter /\ last.slot) /\ op.kind # "eret"
               /\ t.exit = ExitAfter(last, op, delay = "DO", target)
               /\ t.stopAfter <=> \/ trace.stopAfter /\ ~last.slot
                                  \/ EndsAfterSlot(op, delay = "DO", last.addr, target)
               /\ ~IsBranch(op) => t.open = 0
BY DEF TraceFits, Recorded

LEMMA SlotSet ==
    ASSUME NEW r \in BranchRecords, NEW v \in Nat
    PROVE  LET q == [r EXCEPT !.slot = v]
           IN  /\ q \in BranchRecords /\ q.slot = v
               /\ q.kind = r.kind /\ q.at = r.at /\ q.taken = r.taken /\ q.target = r.target
BY DEF BranchRecords

\* The slot of branch o is op v.
Fill(s, o, v) == [s EXCEPT ![o].slot = v]

LEMMA SlotFilled ==
    ASSUME NEW s \in Seq(BranchRecords), NEW o, NEW v \in Nat, NEW f, f = Fill(s, o, v)
    PROVE  /\ f \in Seq(BranchRecords) /\ Len(f) = Len(s)
           /\ \A b \in 1..Len(s) :
                 /\ f[b].kind = s[b].kind /\ f[b].at = s[b].at
                 /\ f[b].taken = s[b].taken /\ f[b].target = s[b].target
                 /\ f[b].slot = IF b = o THEN v ELSE s[b].slot
<1>1. CASE o \in 1..Len(s)
    <2>1. s[o] \in BranchRecords
        BY <1>1
    <2>2. PICK q \in BranchRecords : /\ q = [s[o] EXCEPT !.slot = v]
                                     /\ q.kind = s[o].kind /\ q.at = s[o].at /\ q.slot = v
                                     /\ q.taken = s[o].taken /\ q.target = s[o].target
        BY <2>1, SlotSet
    <2>3. f = [s EXCEPT ![o] = q]
        BY <2>2 DEF Fill
    <2>4. QED  BY <1>1, <2>2, <2>3
<1>2. CASE o \notin 1..Len(s)
    <2>1. f = s
        BY <1>2 DEF Fill
    <2>2. QED  BY <1>2, <2>1
<1>3. QED  BY <1>1, <1>2

\* What recording an op adds to the trace.
LEMMA RecordedParts ==
    ASSUME game \in Games, TraceFits, last.addr \in Addr, last.ver \in Nat,
           last.slot \in BOOLEAN, NEW taken \in BOOLEAN, target \in Int
    PROVE  LET op == game.code[last.addr]
               n == Len(trace.ops)
               m == Len(trace.branches)
               t == Recorded(last, op, taken, target)
               entry == t.ops[n + 1]
               new == Details(last, op, taken, target)
           IN  /\ n \in Nat /\ m \in Nat /\ t.exit \in Int
               /\ entry \in OpRecords /\ entry.addr = last.addr /\ entry.slot = last.slot
               /\ entry.branch = IF IsBranch(op) THEN m + 1 ELSE 0
               /\ t.ops = Append(trace.ops, entry)
               /\ t.branches \in Seq(BranchRecords)
               /\ DOMAIN t.branches = IF IsBranch(op) THEN 1..(m + 1) ELSE 1..m
               /\ \A b \in 1..m :
                     /\ t.branches[b].kind = trace.branches[b].kind
                     /\ t.branches[b].at = trace.branches[b].at
                     /\ t.branches[b].taken = trace.branches[b].taken
                     /\ t.branches[b].target = trace.branches[b].target
                     /\ t.branches[b].slot = IF b = trace.open THEN n + 1
                                             ELSE trace.branches[b].slot
               /\ IsBranch(op) => /\ t.branches[m + 1] = new /\ new \in BranchRecords
                                  /\ new.kind = op.kind /\ new.at = n + 1
               /\ t.open = IF IsBranch(op) THEN m + 1 ELSE 0
<1> DEFINE op == game.code[last.addr]
           n == Len(trace.ops)
           m == Len(trace.branches)
           filled == IF trace.open = 0 THEN trace.branches
                     ELSE [trace.branches EXCEPT ![trace.open].slot = n + 1]
           entry == [addr |-> last.addr, slot |-> last.slot, ver |-> last.ver,
                     branch |-> IF IsBranch(op) THEN Len(filled) + 1 ELSE 0]
           new == Details(last, op, taken, target)
           t == Recorded(last, op, taken, target)
<1>1. /\ trace.ops \in Seq(OpRecords) /\ trace.branches \in Seq(BranchRecords)
      /\ trace.open \in Nat /\ trace.exit \in Int /\ n \in Nat /\ m \in Nat
    BY DEF TraceFits, BranchesFit
<1>2. /\ op.kind = Kind(last.addr) /\ op.kind \in Straight \cup Branching /\ op.to \in Nat
      /\ last.addr \in Nat
    BY GameFacts DEF Kind
<1>3. IsBranch(op) <=> op.kind \in Branching
    BY <1>2 DEF IsBranch, Branching, Delayed
<1>4. /\ filled \in Seq(BranchRecords) /\ Len(filled) = m
      /\ \A b \in 1..m :
            /\ filled[b].kind = trace.branches[b].kind
            /\ filled[b].at = trace.branches[b].at
            /\ filled[b].taken = trace.branches[b].taken
            /\ filled[b].target = trace.branches[b].target
            /\ filled[b].slot = IF b = trace.open THEN n + 1 ELSE trace.branches[b].slot
    <2>1. CASE trace.open = 0
        BY <1>1, <2>1
    <2>2. CASE trace.open # 0
        <3>1. filled = Fill(trace.branches, trace.open, n + 1)
            BY <2>2 DEF Fill
        <3>2. n + 1 \in Nat /\ m = Len(trace.branches)
            BY <1>1
        <3> HIDE DEF filled, n, m
        <3>3. QED  BY <1>1, <3>1, <3>2, SlotFilled
    <2>3. QED  BY <2>1, <2>2
<1> HIDE DEF filled
<1>5. /\ entry \in OpRecords /\ entry.addr = last.addr /\ entry.slot = last.slot
      /\ entry.branch = IF IsBranch(op) THEN m + 1 ELSE 0
    BY <1>1, <1>4 DEF OpRecords
<1>6. IsBranch(op) => /\ new \in BranchRecords /\ new.kind = op.kind /\ new.at = n + 1
    BY <1>1, <1>2, <1>3 DEF Details, BranchRecords, IsConditional, Unpredicted
<1>7. /\ t.ops = Append(trace.ops, entry)
      /\ t.branches = IF IsBranch(op) THEN Append(filled, new) ELSE filled
      /\ t.open = IF IsBranch(op) THEN m + 1 ELSE 0
      /\ t.exit = ExitAfter(last, op, taken, target)
    BY <1>4 DEF Recorded, TraceFits, filled
<1> HIDE DEF entry, new, t, op
<1>8. t.exit \in Int
    BY <1>1, <1>2, <1>7 DEF ExitAfter, Unpredicted, IsConditional
<1>9. t.ops[n + 1] = entry
    BY <1>1, <1>5, <1>7
<1>10. /\ t.branches \in Seq(BranchRecords)
       /\ DOMAIN t.branches = IF IsBranch(op) THEN 1..(m + 1) ELSE 1..m
       /\ \A b \in 1..m : t.branches[b] = filled[b]
       /\ IsBranch(op) => t.branches[m + 1] = new
    BY <1>1, <1>4, <1>6, <1>7
<1>11. QED
    BY <1>1, <1>4, <1>5, <1>6, <1>7, <1>8, <1>9, <1>10 DEF op, t, new

\* What is recorded belongs together as before.
LEMMA RecordedFits ==
    ASSUME game \in Games, TraceFits, last.addr \in Addr, last.ver \in Nat,
           last.slot \in BOOLEAN, NEW taken \in BOOLEAN, target \in Int
    PROVE  LET t == Recorded(last, game.code[last.addr], taken, target)
           IN  /\ t.open \in Nat /\ t.exit \in Int /\ t.ops # <<>>
               /\ BranchesFit(t.ops, t.branches, t.open)
               /\ t.open # 0 => t.branches[t.open].kind = game.code[last.addr].kind
<1> DEFINE op == game.code[last.addr]
           n == Len(trace.ops)
           m == Len(trace.branches)
           t == Recorded(last, op, taken, target)
           entry == t.ops[n + 1]
           new == Details(last, op, taken, target)
<1>1. /\ trace.ops \in Seq(OpRecords) /\ trace.branches \in Seq(BranchRecords)
      /\ trace.open \in Nat /\ n \in Nat /\ m \in Nat
    BY DEF TraceFits, BranchesFit
<1>2. /\ op.kind = Kind(last.addr) /\ op.kind \in Straight \cup Branching
    BY GameFacts DEF Kind
<1>3. IsBranch(op) <=> op.kind \in Branching
    BY <1>2 DEF IsBranch, Branching, Delayed
<1>4. /\ entry \in OpRecords /\ entry.addr = last.addr /\ t.exit \in Int
      /\ entry.branch = IF IsBranch(op) THEN m + 1 ELSE 0
      /\ t.ops = Append(trace.ops, entry)
      /\ t.branches \in Seq(BranchRecords)
      /\ DOMAIN t.branches = IF IsBranch(op) THEN 1..(m + 1) ELSE 1..m
      /\ \A b \in 1..m :
            /\ t.branches[b].kind = trace.branches[b].kind
            /\ t.branches[b].at = trace.branches[b].at
            /\ t.branches[b].slot = IF b = trace.open THEN n + 1 ELSE trace.branches[b].slot
      /\ IsBranch(op) => /\ t.branches[m + 1] = new /\ new.kind = op.kind /\ new.at = n + 1
      /\ t.open = IF IsBranch(op) THEN m + 1 ELSE 0
    BY RecordedParts
<1> HIDE DEF entry, new, t, op
<1>5. /\ t.ops \in Seq(OpRecords) /\ Len(t.ops) = n + 1 /\ t.ops[n + 1] = entry
      /\ \A i \in 1..n : t.ops[i] = trace.ops[i]
    BY <1>1, <1>4
<1>6. /\ DOMAIN t.branches \subseteq 1..(m + 1)
       /\ \A b \in 1..m : b \in DOMAIN t.branches
       /\ m + 1 \in DOMAIN t.branches <=> IsBranch(op)
    BY <1>1, <1>4
<1>7. ASSUME NEW i \in DOMAIN t.ops, Kind(t.ops[i].addr) \in Branching
       PROVE  /\ t.ops[i].branch \in DOMAIN t.branches
              /\ t.branches[t.ops[i].branch].kind = Kind(t.ops[i].addr)
    <2>1. CASE i \in 1..n
        <3>1. t.ops[i] = trace.ops[i] /\ i \in DOMAIN trace.ops
            BY <1>1, <1>5, <2>1
        <3>2. DOMAIN trace.branches = 1..m
            BY <1>1
        <3>3. /\ trace.ops[i].branch \in 1..m
              /\ trace.branches[trace.ops[i].branch].kind = Kind(trace.ops[i].addr)
            BY <1>7, <3>1, <3>2 DEF TraceFits, BranchesFit
        <3>4. PICK b \in 1..m : b = trace.ops[i].branch
            BY <3>3
        <3>5. b \in DOMAIN t.branches /\ t.branches[b].kind = trace.branches[b].kind
            BY <1>4, <1>6
        <3>6. QED  BY <3>1, <3>3, <3>4, <3>5
    <2>2. CASE i = n + 1
        <3>1. entry.addr = last.addr /\ IsBranch(op) /\ entry.branch = m + 1
            BY <1>2, <1>3, <1>4, <1>5, <1>7, <2>2
        <3>2. QED  BY <1>2, <1>4, <1>5, <1>6, <2>2, <3>1
    <2>3. QED  BY <1>5, <2>1, <2>2
<1>8. ASSUME NEW b \in DOMAIN t.branches
       PROVE  /\ t.branches[b].at \in DOMAIN t.ops
              /\ Kind(t.ops[t.branches[b].at].addr) = t.branches[b].kind
              /\ t.branches[b].kind \notin {"likely", "eret"} /\ b # t.open =>
                    t.branches[b].slot \in DOMAIN t.ops
    <2>1. CASE b \in 1..m
        <3>1. /\ trace.branches[b].at \in 1..n
              /\ Kind(trace.ops[trace.branches[b].at].addr) = trace.branches[b].kind
              /\ trace.branches[b].kind \notin {"likely", "eret"} /\ b # trace.open =>
                    trace.branches[b].slot \in 1..n
            BY <1>1, <2>1 DEF TraceFits, BranchesFit
        <3>2. /\ t.branches[b].kind = trace.branches[b].kind
              /\ t.branches[b].at = trace.branches[b].at
              /\ t.branches[b].slot = IF b = trace.open THEN n + 1 ELSE trace.branches[b].slot
            BY <1>4, <1>6, <2>1
        <3>3. t.ops[trace.branches[b].at] = trace.ops[trace.branches[b].at]
            BY <1>5, <3>1
        <3>4. DOMAIN t.ops = 1..(n + 1)
            BY <1>5
        <3>5. QED  BY <1>1, <3>1, <3>2, <3>3, <3>4
    <2>2. CASE b = m + 1
        <3>1. IsBranch(op) /\ t.open = b /\ t.branches[b] = new
            BY <1>4, <1>6, <2>2
        <3>2. QED  BY <1>1, <1>2, <1>4, <1>5, <3>1
    <2>3. QED  BY <1>6, <2>1, <2>2
<1>9. BranchesFit(t.ops, t.branches, t.open)
    BY <1>4, <1>5, <1>7, <1>8 DEF BranchesFit
<1>10. t.open \in Nat /\ t.ops # <<>> /\ (t.open # 0 => t.branches[t.open].kind = op.kind)
    <2>1. t.open \in Nat /\ t.ops # <<>>
        <3>1. t.open \in Nat
            BY <1>1, <1>4
        <3>2. n \in Nat /\ Len(t.ops) = n + 1
            BY <1>1, <1>5
        <3> HIDE DEF n
        <3>3. QED  BY <3>1, <3>2
    <2>2. ASSUME t.open # 0 PROVE t.branches[t.open].kind = op.kind
        <3>1. IsBranch(op) /\ t.open = m + 1
            BY <1>4, <2>2
        <3>2. t.branches[t.open] = new /\ new.kind = op.kind
            BY <1>4, <3>1
        <3>3. QED  BY <3>2
    <2>3. QED  BY <2>1, <2>2
<1>11. QED  BY <1>4, <1>9, <1>10 DEF t, op
-------------------------------------------------------------------------------
(* The steps. *)

LEMMA ExitFits ==
    ASSUME game \in Games, NEW f, FragmentFits(f), NEW site \in 0..Len(f.branches)
    PROVE  ExitAddress(f, site) \in Int
<1>1. /\ f.branches \in Seq(BranchRecords) /\ f.ops \in Seq(OpRecords) /\ f.exit \in Int
      /\ \A b \in DOMAIN f.branches : f.branches[b].at \in DOMAIN f.ops
    BY DEF FragmentFits, BranchesFit
<1>2. CASE site = 0
    BY <1>1, <1>2 DEF ExitAddress
<1>3. CASE site # 0
    <2>1. f.branches[site] \in BranchRecords
        BY <1>1, <1>3
    <2>2. f.branches[site].target \in Int
        BY <2>1 DEF BranchRecords
    <2>3. f.branches[site].at \in DOMAIN f.ops
        BY <1>1, <1>3
    <2>4. f.ops[f.branches[site].at] \in OpRecords
        BY <1>1, <2>3
    <2>5. f.ops[f.branches[site].at].addr \in Nat
        BY <2>4, GameFacts DEF OpRecords
    <2>6. QED  BY <1>3, <2>2, <2>5 DEF ExitAddress
<1>4. QED  BY <1>2, <1>3

LEMMA CacheFits ==
    ASSUME game \in Games, FragmentsFit
    PROVE  EntriesFit /\ ExitsFit
<1>1. EntriesFit
    BY GameFacts DEF FragmentsFit, EntriesFit
<1>2. ASSUME NEW e \in Entries, NEW patch \in PatchList(e, fragments[e])
      PROVE  To(patch) \in Int
    <2>1. patch.from = e /\ patch.site \in 0..Len(fragments[e].branches)
        BY DEF PatchList, Patched
    <2>2. QED  BY <2>1, ExitFits DEF To, FragmentsFit
<1>3. QED  BY <1>1, <1>2 DEF ExitsFit

LEMMA FragmentsStay ==
    ASSUME FragmentsFit, fragments' = fragments, game' = game
    PROVE  FragmentsFit' /\ Entries' = Entries
BY DEF FragmentsFit, FragmentFits, BranchesFit, OpRecords, BranchRecords, Entries, Addr, Kind

LEMMA CacheStays ==
    ASSUME CacheGood, UNCHANGED cacheVars, game' = game
    PROVE  CacheGood' /\ Entries' = Entries /\ fragments' = fragments /\ todo' = todo
<1>1. FragmentsFit' /\ Entries' = Entries
    BY FragmentsStay DEF CacheGood, cacheVars
<1>2. HashRight'
    BY DEF CacheGood, CacheInv, cacheVars, HashRight, Truth, Index, Entries
<1>3. PairRight'
    BY DEF CacheGood, CacheInv, cacheVars, PairRight, Truth, Entries
<1>4. TodoFits'
    BY <1>1 DEF CacheGood, CacheInv, cacheVars, TodoFits
<1>5. \A p : JumpRight(p)' = JumpRight(p)
    BY DEF cacheVars, JumpRight, Linked, To, JumpOf
<1>6. JumpsRight'
    BY <1>1, <1>5 DEF CacheGood, CacheInv, cacheVars, JumpsRight
<1>7. Covered'
    BY <1>1 DEF CacheGood, cacheVars, Covered
<1>8. QED
    BY <1>1, <1>2, <1>3, <1>4, <1>6, <1>7 DEF CacheGood, CacheInv, cacheVars

LEMMA CacheRemembers ==
    ASSUME CacheGood, game \in Games, todo = {}, NEW a \in Int, Remember(a),
           UNCHANGED <<fragments, links, jumps, todo, covered>>, game' = game
    PROVE  CacheGood' /\ Entries' = Entries /\ fragments' = fragments /\ todo' = todo
<1>1. FragmentsFit' /\ Entries' = Entries
    BY FragmentsStay DEF CacheGood
<1>2. HashRight' /\ PairRight'
    BY CacheFits, IdleLookupRight, RememberRight DEF CacheGood, CacheInv
<1>3. TodoFits'
    BY DEF TodoFits
<1>4. \A p : JumpRight(p)' = JumpRight(p)
    BY DEF JumpRight, Linked, To, JumpOf
<1>5. JumpsRight'
    BY <1>1, <1>4 DEF CacheGood, CacheInv, JumpsRight
<1>6. Covered'
    BY <1>1 DEF CacheGood, Covered
<1>7. QED
    BY <1>1, <1>2, <1>3, <1>5, <1>6 DEF CacheGood, CacheInv

LEMMA CacheInserts ==
    ASSUME CacheGood, game \in Games, todo = {}, NEW e \in Addr, e \notin Entries,
           NEW f, FragmentFits(f), NEW seen \in Int, seen = e => f.exit # e,
           Insert(e, f, seen), game' = game
    PROVE  CacheGood' /\ Entries' = Entries \cup {e}
           /\ \A a \in Entries : fragments'[a] = fragments[a]
<1>1. /\ Entries' = Entries \cup {e} /\ fragments'[e] = f
      /\ \A a \in Entries : fragments'[a] = fragments[a]
    BY DEF Insert, Entries
<1>2. e \in Nat \ {0} /\ EntriesFit
    BY GameFacts, CacheFits DEF CacheGood
<1>3. 0 \in 0..Len(f.branches)
    BY DEF FragmentFits, BranchesFit
<1>4. CacheInv' /\ Covered'
    BY <1>2, <1>3, InsertRight DEF CacheGood
<1>5. Addr' = Addr /\ \A g : FragmentFits(g)' = FragmentFits(g)
    BY DEF FragmentFits, BranchesFit, OpRecords, BranchRecords, Addr, Kind
<1>6. FragmentsFit'
    BY <1>1, <1>5 DEF CacheGood, FragmentsFit
<1>7. QED  BY <1>1, <1>4, <1>6 DEF CacheGood

LEMMA CacheRegisters ==
    ASSUME CacheGood, game \in Games, RegisterPatch, game' = game
    PROVE  CacheGood' /\ Entries' = Entries /\ fragments' = fragments /\ todo' \subseteq todo
BY CacheFits, RegisterRight, FragmentsStay DEF CacheGood

LEMMA CacheClears ==
    ASSUME Clear
    PROVE  CacheGood' /\ Entries' = {} /\ todo' = {}
BY ClearRight DEF CacheGood, FragmentsFit

LEMMA TraceStays ==
    ASSUME TraceFits, trace' = trace, game' = game
    PROVE  TraceFits'
BY DEF TraceFits, BranchesFit, OpRecords, BranchRecords, Addr, Kind

LEMMA HereStays ==
    ASSUME HereFits, here' = here, at' # "frag"
    PROVE  HereFits'
BY DEF HereFits

LEMMA DynInit == Init => DynInv
<1> SUFFICES ASSUME Init PROVE DynInv  OBVIOUS
<1>1. game \in Games /\ 1 \in Int /\ todo = {} /\ at = "op" /\ Entries = {}
    BY DEF Init, CacheInit, Entries
<1>2. CpuFits
    BY <1>1 DEF Init, CpuFits, NoFault
<1>3. /\ trace = NoTrace /\ trace.ops = <<>> /\ trace.branches = <<>> /\ trace.open = 0
      /\ trace.exit = 0 /\ ~trace.active
      /\ DOMAIN trace = {"active", "start", "ops", "branches", "exit", "open", "stopAfter"}
    BY DEF Init, NoTrace
<1>4. TraceFits
    BY <1>3 DEF TraceFits, BranchesFit
<1>5. HereFits /\ Recording /\ Registering
    BY <1>1, <1>3 DEF Init, HereFits, Outside, Recording, Registering
<1>6. HashRight /\ PairRight
    BY <1>1 DEF Init, CacheInit, HashRight, PairRight, Answers, Empty, Truth, NoFragment
<1>7. JumpsRight /\ Covered /\ FragmentsFit /\ TodoFits
    BY <1>1 DEF Init, CacheInit, JumpsRight, Covered, FragmentsFit, TodoFits
<1>8. QED
    BY <1>2, <1>4, <1>5, <1>6, <1>7 DEF DynInv, CacheGood, CacheInv

\* Loading code changes versions only.
LEMMA EffectFits ==
    ASSUME CpuFits, NEW a \in Int, NEW slot, Effect(a, slot), game' = game
    PROVE  ver' \in [Addr -> Nat] /\ exc'.pc \in Int
<1>1. \/ UNCHANGED ver
      \/ Reload
    BY DEF Effect
<1>2. CASE UNCHANGED ver
    BY <1>2 DEF CpuFits, Effect
<1>3. CASE Reload
    BY <1>3, GameFacts DEF CpuFits, Effect, Reload
<1>4. exc'.pc \in Int
    BY DEF CpuFits, Effect
<1>5. QED  BY <1>1, <1>2, <1>3, <1>4

LEMMA ExecuteKeeps ==
    ASSUME DynInv, Execute
    PROVE  DynInv'
<1>1. /\ at = "op" /\ jobs = {} /\ pc \in Addr /\ game' = game
      /\ last' = IF core = "traced"
                 THEN [addr |-> pc, slot |-> delay = "EXEC", ver |-> ver[pc]] ELSE NoOp
      /\ at' = IF core = "traced" THEN "trace" ELSE "count"
      /\ UNCHANGED <<cacheVars, trace, core, selected, here>>
    BY DEF Execute, ExecuteStraight, TakeBranch, PassBranch, ExecuteEret, Interpret, cores
<1>2. /\ game \in Games /\ pc \in Nat /\ ver \in [Addr -> Nat] /\ Addr' = Addr
      /\ \A a : Kind(a)' = Kind(a)
    BY <1>1, GameFacts DEF DynInv, CpuFits, Addr, Kind
<1>3. ver' \in [Addr -> Nat] /\ exc'.pc \in Int
    BY <1>1, <1>2, EffectFits
    DEF DynInv, CpuFits, Execute, ExecuteStraight, TakeBranch, PassBranch, ExecuteEret
<1>4. \/ /\ Kind(pc) \in Straight /\ UNCHANGED <<pc, target, delay, epc>>
      \/ /\ Kind(pc) \in Delayed /\ target' \in Nat /\ delay' = "DO" /\ UNCHANGED <<pc, epc>>
      \/ /\ Kind(pc) \in {"branch", "likely"} /\ pc' \in {pc, pc + 1}
         /\ UNCHANGED <<target, delay, epc>>
      \/ /\ Kind(pc) = "eret" /\ pc' = epc - 1 /\ delay' = "NO" /\ UNCHANGED <<target, epc>>
    <2>1. CASE ExecuteStraight
        BY <2>1 DEF ExecuteStraight
    <2>2. CASE TakeBranch
        BY <1>1, <1>2, <2>2, GameFacts DEF TakeBranch, Delayed, Kind
    <2>3. CASE PassBranch
        BY <2>3 DEF PassBranch
    <2>4. CASE ExecuteEret
        BY <2>4 DEF ExecuteEret
    <2>5. QED  BY <2>1, <2>2, <2>3, <2>4 DEF Execute
<1>5. /\ pc \in Int /\ target \in Int /\ epc \in Int /\ delay \in {"NO", "EXEC"}
      /\ core \in {"plain", "traced"} /\ selected \in {"plain", "traced"}
      /\ (delay = "EXEC" => Kind(pc) \in Straight)
    BY <1>1 DEF DynInv, CpuFits
<1>6. CpuFits'
    <2>1. /\ pc' \in Int /\ target' \in Int /\ epc' \in Int
          /\ core' \in {"plain", "traced"} /\ selected' \in {"plain", "traced"}
          /\ delay' \in {"NO", "DO", "EXEC"} /\ at' \in {"trace", "count"}
          /\ delay' = "DO" => pc' = pc /\ Kind(pc) \in Delayed
          /\ delay' = "EXEC" => delay = "EXEC"
        BY <1>1, <1>2, <1>4, <1>5
    <2>2. at' = "trace" => /\ last'.addr = pc /\ last'.ver = ver[pc]
                           /\ last'.slot = (delay = "EXEC")
        BY <1>1
    <2>3. QED  BY <1>1, <1>2, <1>3, <1>5, <2>1, <2>2 DEF CpuFits
<1>7. TraceFits' /\ HereFits'
    BY <1>1, TraceStays, HereStays DEF DynInv
<1>8. Recording'
    BY <1>1, <1>2, <1>4, <1>5 DEF DynInv, Recording, Straight, Delayed, Entries, cacheVars
<1>9. todo = {}
    BY <1>1 DEF DynInv, Registering
<1>10. CacheGood' /\ Registering'
    BY <1>1, <1>9, CacheStays DEF DynInv, Registering
<1>11. QED  BY <1>6, <1>7, <1>8, <1>10 DEF DynInv

\* A trace that has ended and leaves for an address becomes a fragment that fits.
LEMMA FragmentOfFits ==
    ASSUME NEW t, BranchesFit(t.ops, t.branches, 0), t.exit \in Int, NEW loop, NEW late
    PROVE  /\ FragmentFits(FragmentOf(t, loop, late))
           /\ FragmentOf(t, loop, late).exit = t.exit
BY DEF FragmentFits, FragmentOf

LEMMA StopTraceFits ==
    ASSUME TraceFits, NEW a \in Int, trace.open = 0
    PROVE  LET t == StopTrace(a)
           IN  /\ BranchesFit(t.ops, t.branches, 0) /\ t.exit = a
               /\ t.start = trace.start /\ ~t.active
BY DEF TraceFits, StopTrace

LEMMA TraceGone ==
    ASSUME trace' = NoTrace
    PROVE  TraceFits' /\ Recording' /\ ~trace'.active
<1>1. /\ NoTrace.ops = <<>> /\ NoTrace.branches = <<>> /\ NoTrace.open = 0
      /\ NoTrace.exit = 0 /\ ~NoTrace.active
      /\ DOMAIN NoTrace =
            {"active", "start", "ops", "branches", "exit", "open", "stopAfter"}
    BY DEF NoTrace
<1>2. TraceFits'
    BY <1>1 DEF TraceFits, BranchesFit
<1>3. Recording' /\ ~trace'.active
    BY <1>1 DEF Recording
<1>4. QED  BY <1>2, <1>3

LEMMA UpdateKeeps ==
    ASSUME DynInv, CoreInv, UpdateTrace
    PROVE  DynInv'
<1> DEFINE op == game.code[last.addr]
           r == Recorded(last, op, delay = "DO", target)
<1>1. /\ at = "trace" /\ at' = "count" /\ last' = NoOp /\ game' = game
      /\ UNCHANGED <<pc, target, delay, epc, exc, core, here, ver>>
      /\ selected' \in {selected, "plain"}
    BY DEF UpdateTrace, memory, KeepTrace, EndTrace, SelectCore
<1>2. /\ game \in Games /\ last.addr \in Addr /\ last.ver \in Nat /\ last.slot \in BOOLEAN
      /\ last.slot => Kind(last.addr) \in Straight
      /\ pc \in Int /\ target \in Int /\ delay \in {"NO", "DO", "EXEC"}
      /\ delay = "EXEC" => last.slot
      /\ delay = "DO" => pc = last.addr /\ Kind(last.addr) \in Delayed
    BY <1>1 DEF DynInv, CpuFits
<1>3. /\ Addr' = Addr /\ \A a : Kind(a)' = Kind(a)
      /\ last.addr \in Nat /\ op.kind = Kind(last.addr) /\ op.to \in Nat
      /\ op.kind \in Straight \cup Branching
      /\ trace.start \in Nat
    BY <1>1, <1>2, GameFacts DEF Addr, Kind, CoreInv, DynInv, Recording
<1>4. /\ trace.active /\ core # "plain" /\ trace.start \in Addr /\ trace.start \notin Entries
      /\ trace.ops = <<>> => ~trace.stopAfter /\ trace.open = 0 /\ last.addr = trace.start
      /\ trace.ops # <<>> => last.addr > trace.start
      /\ Kind(last.addr) = "eret" \/ pc >= last.addr
      /\ delay = "EXEC" => target > trace.start \/ trace.stopAfter
    BY <1>1 DEF CoreInv, DynInv, Recording
<1>5. todo = {} /\ Registering'
    BY <1>1 DEF DynInv, Registering
<1>6. CpuFits'
    BY <1>1, <1>2, <1>3 DEF DynInv, CpuFits
<1>7. HereFits'
    BY <1>1, HereStays DEF DynInv
<1>8. /\ DOMAIN r = DOMAIN trace /\ r.start = trace.start
      /\ r.active <=> ~(trace.stopAfter /\ last.slot) /\ op.kind # "eret"
      /\ r.exit = ExitAfter(last, op, delay = "DO", target)
      /\ r.stopAfter <=> \/ trace.stopAfter /\ ~last.slot
                         \/ EndsAfterSlot(op, delay = "DO", last.addr, target)
      /\ ~IsBranch(op) => r.open = 0
    BY RecordedFields DEF DynInv
<1>9. /\ r.open \in Nat /\ r.exit \in Int /\ r.ops # <<>>
      /\ BranchesFit(r.ops, r.branches, r.open)
      /\ r.open # 0 => r.branches[r.open].kind = op.kind
    BY <1>2, RecordedFits DEF DynInv
<1>10. IsBranch(op) <=> op.kind \in Branching
    BY <1>3 DEF IsBranch, Branching, Delayed
<1> HIDE DEF r
<1>11. CASE KeepTrace
    <2>1. trace' = r /\ r.active
        BY <1>11 DEF KeepTrace, r
    <2>2. CacheGood' /\ Entries' = Entries
        BY <1>1, <1>2, <1>3, <1>5, <1>11, CacheRemembers DEF KeepTrace, DynInv
    <2>3. TraceFits'
        BY <1>1, <1>8, <1>9, <2>1
        DEF TraceFits, BranchesFit, OpRecords, BranchRecords, Addr, Kind, DynInv
    <2>4. delay = "EXEC" => target > trace.start /\ r.open = 0
        BY <1>2, <1>3, <1>4, <1>8, <1>10, <2>1 DEF Straight, Branching, Delayed
    <2>5. delay = "DO" => target > trace.start \/ r.stopAfter
        BY <1>2, <1>3, <1>4, <1>8 DEF EndsAfterSlot, IsConditional, Delayed
    <2>6. pc >= trace.start
        <3>1. op.kind # "eret"
            BY <1>8, <2>1
        <3>2. last.addr >= trace.start
            BY <1>3, <1>4
        <3>3. QED  BY <1>2, <1>3, <1>4, <3>1, <3>2
    <2>7. Recording'
        BY <1>1, <1>3, <1>4, <1>8, <1>9, <2>1, <2>2, <2>4, <2>5, <2>6 DEF Recording
    <2>8. QED  BY <1>5, <1>6, <1>7, <2>2, <2>3, <2>7 DEF DynInv
<1>12. CASE EndTrace
    <2> DEFINE hit == StopsBefore(Lookup(last.addr) # NoFragment)
               t == IF hit THEN StopTrace(last.addr) ELSE r
    <2>1. ~t.active /\ CreateAndAddFragment(t, last.addr)
        BY <1>12 DEF EndTrace, r
    <2>2. /\ BranchesFit(t.ops, t.branches, 0) /\ t.exit \in Int /\ t.start = trace.start
        <3>1. CASE hit
            BY <1>3, <3>1, StopTraceFits DEF StopsBefore, DynInv
        <3>2. CASE ~hit
            <4>1. t = r
                BY <3>2
            <4>2. Kind(last.addr) = "eret" \/ last.slot
                BY <1>3, <1>8, <2>1, <4>1
            <4>3. CASE last.slot
                <5>1. r.open = 0
                    BY <1>2, <1>3, <1>8, <1>10, <4>3 DEF Straight, Branching, Delayed
                <5>2. QED  BY <1>8, <1>9, <4>1, <5>1
            <4>4. CASE Kind(last.addr) = "eret"
                <5>1. r.open # 0 => r.branches[r.open].kind = "eret"
                    BY <1>3, <1>9, <4>4
                <5>2. BranchesFit(r.ops, r.branches, 0)
                    BY <1>9, <5>1 DEF BranchesFit
                <5>3. QED  BY <1>8, <1>9, <4>1, <5>2
            <4>5. QED  BY <4>2, <4>3, <4>4
        <3>3. QED  BY <3>1, <3>2
    <2>3. ASSUME trace.ops = <<>> PROVE t.exit # trace.start
        <3>1. Lookup(last.addr) = NoFragment
            BY <1>3, <1>4, <1>5, <2>3, IdleLookupRight DEF DynInv, CacheGood, CacheInv, Truth
        <3>2. Len(trace.ops) = 0 /\ MaxTrace \in Nat
            BY <2>3, TraceAssumption
        <3>3. t = r
            BY <3>1, <3>2 DEF StopsBefore
        <3>4. op.kind = "eret"
            BY <1>4, <1>8, <2>1, <2>3, <3>3
        <3>5. t.exit = -1
            <4>1. r.exit = ExitAfter(last, op, delay = "DO", target)
                BY <1>8
            <4> HIDE DEF op, t
            <4>2. QED  BY <3>3, <3>4, <4>1 DEF ExitAfter, Unpredicted, IsConditional
        <3>6. QED  BY <1>3, <3>5
    <2> DEFINE f == FragmentOf(t, game.loop, Stale(t.ops))
    <2>4. FragmentFits(f) /\ f.exit = t.exit
        BY <2>2, FragmentOfFits
    <2>5. Insert(trace.start, f, last.addr) /\ trace' = NoTrace
        BY <2>1, <2>2 DEF CreateAndAddFragment
    <2> HIDE DEF f, t
    <2>6. last.addr = trace.start => f.exit # trace.start
        BY <1>3, <1>4, <2>3, <2>4
    <2>7. CacheGood'
        BY <1>1, <1>2, <1>3, <1>4, <1>5, <2>4, <2>5, <2>6, CacheInserts DEF DynInv
    <2>8. QED  BY <1>5, <1>6, <1>7, <2>5, <2>7, TraceGone DEF DynInv
<1>13. QED  BY <1>11, <1>12 DEF UpdateTrace

LEMMA CountKeeps ==
    ASSUME DynInv, Count
    PROVE  DynInv'
<1>1. /\ at = "count" /\ todo = {} /\ game' = game
      /\ UNCHANGED <<cacheVars, trace, target, epc, exc, core, selected, here, ver>>
      /\ \/ delay = "DO" /\ pc' = pc + 1 /\ delay' = "EXEC" /\ at' = "op"
         \/ delay = "EXEC" /\ pc' = target /\ delay' = "NO" /\ at' = "branch"
         \/ delay \notin {"DO", "EXEC"} /\ pc' = pc + 1 /\ delay' = delay /\ at' = "op"
    BY DEF Count, memory, cores
<1>2. /\ game \in Games /\ pc \in Int /\ target \in Int /\ delay \in {"NO", "DO", "EXEC"}
      /\ Addr' = Addr /\ (\A a : Kind(a)' = Kind(a))
      /\ delay = "DO" => pc \in Addr /\ Kind(pc) \in Delayed
    BY <1>1 DEF DynInv, CpuFits, Addr, Kind
<1>3. delay = "DO" /\ pc + 1 \in Addr => Kind(pc + 1) \in Straight
    BY <1>2, GameFacts
<1>4. CpuFits'
    BY <1>1, <1>2, <1>3 DEF DynInv, CpuFits
<1>5. TraceFits' /\ HereFits'
    BY <1>1, TraceStays, HereStays DEF DynInv
<1>6. CacheGood' /\ Registering' /\ Entries' = Entries
    BY <1>1, CacheStays DEF DynInv, Registering
<1>7. ASSUME trace.active PROVE trace.start \in Nat
    BY <1>2, <1>7, GameFacts DEF DynInv, Recording
<1>8. Recording'
    BY <1>1, <1>2, <1>6, <1>7 DEF DynInv, Recording
<1>9. QED  BY <1>4, <1>5, <1>6, <1>8 DEF DynInv

LEMMA JobKeeps ==
    ASSUME DynInv, CoreInv, CheckStuffToDo
    PROVE  DynInv'
<1>1. /\ at = "op" /\ at' = "op" /\ game' = game
      /\ UNCHANGED <<cacheVars, target, here, ver>>
      /\ trace' = IF Aborts THEN NoTrace ELSE trace
      /\ selected' = IF Aborts THEN "plain" ELSE selected
    BY DEF CheckStuffToDo, ServeInterrupt, ServeException, ChangeCore, GiveUpTrace, memory
<1>2. /\ game \in Games /\ pc \in Int /\ target \in Int /\ epc \in Int /\ exc.pc \in Int
      /\ game.vector \in Nat
      /\ Addr' = Addr /\ (\A a : Kind(a)' = Kind(a))
    BY <1>1, GameFacts DEF DynInv, CpuFits, Addr, Kind
<1>3. \/ /\ pc' \in Int /\ epc' \in Int /\ exc'.pc \in Int /\ delay' = "NO" /\ core' = core
         /\ \/ jobs \cap {"INTERRUPTS", "EXCEPTIONS"} # {}
      \/ /\ UNCHANGED <<pc, epc, exc, delay>> /\ core' = selected
         /\ jobs' = {} /\ jobs = {"CHANGE_CORE"} /\ ~Aborts
    <2>1. CASE ServeInterrupt \/ ServeException
        <3>1. core' = core /\ jobs \cap {"INTERRUPTS", "EXCEPTIONS"} # {}
            BY <2>1 DEF ServeInterrupt, ServeException, GiveUpTrace
        <3>2. pc' \in Int /\ epc' \in Int /\ exc'.pc \in Int /\ delay' = "NO"
            BY <1>2, <2>1
            DEF ServeInterrupt, ServeException, JumpToInterruptVector, NoFault
        <3>3. QED  BY <3>1, <3>2
    <2>2. CASE ChangeCore
        <3>1. jobs = {"CHANGE_CORE"}
            BY <2>2 DEF ChangeCore, GiveUpTrace, CoreInv
        <3>2. ~Aborts
            BY <3>1 DEF Aborts
        <3>3. QED  BY <2>2, <3>1, <3>2 DEF ChangeCore, GiveUpTrace
    <2>3. QED  BY <2>1, <2>2 DEF CheckStuffToDo
<1>4. CpuFits'
    BY <1>1, <1>2, <1>3 DEF DynInv, CpuFits
<1>5. HereFits'
    BY <1>1, HereStays DEF DynInv
<1>6. CacheGood' /\ Registering' /\ Entries' = Entries
    BY <1>1, CacheStays DEF DynInv, Registering
<1>7. CASE Aborts
    BY <1>1, <1>3, <1>4, <1>5, <1>6, <1>7, TraceGone DEF DynInv, CpuFits
<1>8. CASE ~Aborts
    <2>1. TraceFits'
        BY <1>1, <1>8, TraceStays DEF DynInv
    <2>2. trace.active => core' # "plain" /\ pc' = pc /\ delay' = delay
        BY <1>1, <1>3, <1>8 DEF DynInv, CpuFits, Recording, CoreInv, Aborts
    <2>3. Recording'
        BY <1>1, <1>2, <1>3, <1>6, <1>8, <2>2 DEF DynInv, Recording
    <2>4. QED  BY <1>4, <1>5, <1>6, <2>1, <2>3 DEF DynInv
<1>9. QED  BY <1>7, <1>8

LEMMA StopDispatchingKeeps ==
    ASSUME DynInv, CoreInv, StopDispatching
    PROVE  DynInv'
<1>1. /\ at = "branch" /\ at' = "op" /\ game' = game /\ selected' \in {"plain", "traced"}
      /\ UNCHANGED <<cacheVars, trace, pc, target, delay, epc, exc, core, here, last, ver>>
    BY DEF StopDispatching, ReturnFromBranch, SelectCore, memory, DynInv, CpuFits
<1>2. game \in Games /\ Addr' = Addr /\ (\A a : Kind(a)' = Kind(a))
    BY <1>1 DEF DynInv, CpuFits, Addr, Kind
<1>3. CpuFits'
    BY <1>1, <1>2 DEF DynInv, CpuFits
<1>4. TraceFits' /\ HereFits'
    BY <1>1, TraceStays, HereStays DEF DynInv
<1>5. CacheGood' /\ Registering' /\ Entries' = Entries
    BY <1>1, CacheStays DEF DynInv, Registering
<1>6. Recording'
    BY <1>1, <1>2, <1>5 DEF DynInv, Recording
<1>7. QED  BY <1>3, <1>4, <1>5, <1>6 DEF DynInv

LEMMA LeaveAloneKeeps ==
    ASSUME DynInv, CoreInv, LeaveAlone
    PROVE  DynInv'
<1>1. /\ at = "branch" /\ at' = "op" /\ game' = game /\ selected' \in {"plain", "traced"}
      /\ todo = {} /\ Remember(pc)
      /\ UNCHANGED <<fragments, links, jumps, todo, covered>>
      /\ UNCHANGED <<trace, pc, target, delay, epc, exc, core, here, last, ver>>
    BY DEF LeaveAlone, Dispatching, ReturnFromBranch, SelectCore, memory, DynInv, CpuFits
<1>2. game \in Games /\ pc \in Int /\ Addr' = Addr /\ (\A a : Kind(a)' = Kind(a))
    BY <1>1 DEF DynInv, CpuFits, Addr, Kind
<1>3. CpuFits'
    BY <1>1, <1>2 DEF DynInv, CpuFits
<1>4. TraceFits' /\ HereFits'
    BY <1>1, TraceStays, HereStays DEF DynInv
<1>5. CacheGood' /\ Registering' /\ Entries' = Entries
    BY <1>1, <1>2, CacheRemembers DEF DynInv, Registering
<1>6. Recording'
    BY <1>1, <1>2, <1>5 DEF DynInv, Recording
<1>7. QED  BY <1>3, <1>4, <1>5, <1>6 DEF DynInv

\* A place at the top of a fragment.
LEMMA EntryFits ==
    ASSUME NEW e \in Entries', e \in Int, Enter(e)
    PROVE  HereFits'
BY DEF Enter, HereFits

LEMMA DispatchKeeps ==
    ASSUME DynInv, CoreInv, Dispatch
    PROVE  DynInv'
<1>1. /\ at = "branch" /\ at' = "frag" /\ game' = game /\ todo = {} /\ delay = "NO"
      /\ UNCHANGED <<pc, target, delay, epc, exc, core, selected, ver>>
      /\ Lookup(pc) # NoFragment /\ Enter(Lookup(pc))
    BY DEF Dispatch, Dispatching, Enter, memory, cpu, cores
<1>2. /\ game \in Games /\ pc \in Int /\ Addr' = Addr /\ (\A a : Kind(a)' = Kind(a))
      /\ EntriesFit
    BY <1>1, CacheFits DEF DynInv, CpuFits, CacheGood, Addr, Kind
<1>3. CpuFits'
    BY <1>1, <1>2 DEF DynInv, CpuFits
<1>4. Lookup(pc) = pc /\ pc \in Entries
    BY <1>1, <1>2, IdleLookupRight, TruthFits DEF DynInv, CacheGood, CacheInv, Truth
<1>5. Registering'
    BY <1>1 DEF Registering
<1>6. CASE trace.active
    <2> DEFINE t == StopTrace(pc)
               f == FragmentOf(t, game.loop, Stale(t.ops))
    <2>1. /\ trace.start \in Addr /\ trace.start \notin Entries /\ trace.open = 0
          /\ pc # trace.start
        BY <1>1, <1>2, <1>4, <1>6 DEF DynInv, Recording
    <2>2. /\ BranchesFit(t.ops, t.branches, 0) /\ t.exit = pc /\ t.start = trace.start
        BY <1>2, <2>1, StopTraceFits DEF DynInv
    <2>3. FragmentFits(f)
        BY <1>2, <2>2, FragmentOfFits
    <2>4. Insert(trace.start, f, pc) /\ trace' = NoTrace
        BY <1>6, <2>2 DEF Dispatch, CreateAndAddFragment
    <2> HIDE DEF f, t
    <2>5. CacheGood' /\ Entries' = Entries \cup {trace.start}
        BY <1>1, <1>2, <2>1, <2>3, <2>4, CacheInserts DEF DynInv
    <2>6. HereFits'
        BY <1>1, <1>2, <1>4, <2>5, EntryFits
    <2>7. QED  BY <1>3, <1>5, <2>4, <2>5, <2>6, TraceGone DEF DynInv
<1>7. CASE ~trace.active
    <2>1. /\ UNCHANGED <<fragments, links, jumps, todo, covered, trace>> /\ Remember(pc)
        BY <1>7 DEF Dispatch
    <2>2. CacheGood' /\ Entries' = Entries
        BY <1>1, <1>2, <2>1, CacheRemembers DEF DynInv
    <2>3. HereFits'
        BY <1>1, <1>2, <1>4, <2>2, EntryFits
    <2>4. TraceFits' /\ Recording'
        BY <1>1, <1>7, <2>1, TraceStays DEF DynInv, Recording
    <2>5. QED  BY <1>3, <1>5, <2>2, <2>3, <2>4 DEF DynInv
<1>8. QED  BY <1>6, <1>7

LEMMA StartTraceFits ==
    ASSUME NEW a \in Int, trace' = StartTrace(a)
    PROVE  /\ TraceFits' /\ trace'.active /\ trace'.start = a /\ trace'.ops = <<>>
           /\ ~trace'.stopAfter /\ trace'.open = 0
<1>1. /\ NoTrace.ops = <<>> /\ NoTrace.branches = <<>> /\ NoTrace.open = 0
      /\ ~NoTrace.stopAfter
      /\ DOMAIN NoTrace =
            {"active", "start", "ops", "branches", "exit", "open", "stopAfter"}
    BY DEF NoTrace
<1>2. /\ trace'.ops = <<>> /\ trace'.branches = <<>> /\ trace'.open = 0
      /\ trace'.exit = a + 1 /\ trace'.active /\ trace'.start = a /\ ~trace'.stopAfter
      /\ DOMAIN trace' =
            {"active", "start", "ops", "branches", "exit", "open", "stopAfter"}
    BY <1>1 DEF StartTrace
<1>3. QED  BY <1>2 DEF TraceFits, BranchesFit

LEMMA CountHeatKeeps ==
    ASSUME DynInv, CoreInv, CountHeat
    PROVE  DynInv'
<1>1. /\ at = "branch" /\ at' = "op" /\ game' = game /\ selected' \in {"plain", "traced"}
      /\ todo = {} /\ jobs = {} /\ delay = "NO" /\ pc \in Addr /\ ~trace.active
      /\ Lookup(pc) = NoFragment
      /\ UNCHANGED <<pc, target, delay, epc, exc, core, here, last, ver>>
    BY DEF CountHeat, Dispatching, ReturnFromBranch, SelectCore, memory, DynInv, CpuFits
<1>2. \/ Clear
      \/ Remember(pc) /\ UNCHANGED <<fragments, links, jumps, todo, covered>>
    BY DEF CountHeat
<1>3. \/ trace' = trace
      \/ trace' = StartTrace(pc) /\ (core # "traced" => jobs' = {"CHANGE_CORE"})
    BY <1>1 DEF CountHeat, ReturnFromBranch, SelectCore
<1>4. /\ game \in Games /\ pc \in Int /\ Addr' = Addr /\ (\A a : Kind(a)' = Kind(a))
      /\ core \in {"plain", "traced"} /\ EntriesFit
    BY <1>1, CacheFits DEF DynInv, CpuFits, CacheGood, Addr, Kind
<1>5. CpuFits'
    BY <1>1, <1>4 DEF DynInv, CpuFits
<1>6. HereFits'
    BY <1>1, HereStays DEF DynInv
<1>7. pc \notin Entries
    BY <1>1, <1>4, IdleLookupRight, TruthFits DEF DynInv, CacheGood, CacheInv
<1>8. CacheGood' /\ todo' = {} /\ Entries' \in {{}, Entries}
    BY <1>1, <1>2, <1>4, CacheClears, CacheRemembers DEF DynInv
<1>9. Registering'
    BY <1>8 DEF Registering
<1>10. CASE trace' = trace
    BY <1>1, <1>5, <1>6, <1>8, <1>9, <1>10, TraceStays DEF DynInv, Recording
<1>11. CASE trace' = StartTrace(pc) /\ (core # "traced" => jobs' = {"CHANGE_CORE"})
    <2>1. /\ TraceFits' /\ trace'.active /\ trace'.start = pc /\ trace'.ops = <<>>
          /\ ~trace'.stopAfter /\ trace'.open = 0
        BY <1>4, <1>11, StartTraceFits
    <2>2. Recording'
        BY <1>1, <1>4, <1>7, <1>8, <1>11, <2>1 DEF Recording
    <2>3. QED  BY <1>5, <1>6, <1>8, <1>9, <2>1, <2>2 DEF DynInv
<1>12. QED  BY <1>3, <1>10, <1>11

\* The place in a fragment, and the op that runs there.
LEMMA PlaceFits ==
    ASSUME DynInv, at = "frag"
    PROVE  /\ here.entry \in Entries /\ FragmentFits(Fragment) /\ here.branch \in Nat
           /\ here.branch \in 0..Len(Fragment.branches)
           /\ here.branch # 0 =>
                 /\ Details_ \in BranchRecords /\ Details_.kind # "jump"
                 /\ Details_.at \in DOMAIN Fragment.ops
                 /\ Fragment.ops[Details_.at].addr \in Addr
                 /\ Kind(Fragment.ops[Details_.at].addr) = Details_.kind
<1>1. /\ here.entry \in Entries /\ FragmentFits(Fragment) /\ here.branch \in Nat
      /\ here.branch # 0 => here.branch \in DOMAIN Fragment.branches /\ Details_.kind # "jump"
    BY DEF DynInv, HereFits, CacheGood, FragmentsFit, Fragment
<1>2. /\ Fragment.branches \in Seq(BranchRecords) /\ Fragment.ops \in Seq(OpRecords)
      /\ \A b \in DOMAIN Fragment.branches :
            /\ Fragment.branches[b].at \in DOMAIN Fragment.ops
            /\ Kind(Fragment.ops[Fragment.branches[b].at].addr) = Fragment.branches[b].kind
    BY <1>1 DEF FragmentFits, BranchesFit
<1>3. ASSUME here.branch # 0
      PROVE  /\ here.branch \in 1..Len(Fragment.branches) /\ Details_ \in BranchRecords
             /\ Details_.at \in DOMAIN Fragment.ops
             /\ Fragment.ops[Details_.at] \in OpRecords
             /\ Kind(Fragment.ops[Details_.at].addr) = Details_.kind
    BY <1>1, <1>2, <1>3 DEF Details_
<1>4. QED  BY <1>1, <1>2, <1>3 DEF OpRecords

LEMMA OpFits ==
    ASSUME DynInv, at = "frag", ~AtExit
    PROVE  /\ Op.addr \in Addr
           /\ OnTrace /\ Kind(Op.addr) \in Branching =>
                 /\ Op.branch \in DOMAIN Fragment.branches /\ Op.branch # 0
                 /\ Fragment.branches[Op.branch].kind = Kind(Op.addr)
<1>1. /\ FragmentFits(Fragment) /\ here.i \in Nat
      /\ here.branch # 0 => here.branch \in DOMAIN Fragment.branches
      /\ here.branch # 0 /\ here.i = 0 => Details_.kind \notin {"likely", "eret"}
    BY DEF DynInv, HereFits, CacheGood, FragmentsFit, Fragment
<1>2. /\ Fragment.branches \in Seq(BranchRecords) /\ Fragment.ops \in Seq(OpRecords)
      /\ \A i \in DOMAIN Fragment.ops : Kind(Fragment.ops[i].addr) \in Branching =>
            /\ Fragment.ops[i].branch \in DOMAIN Fragment.branches
            /\ Fragment.branches[Fragment.ops[i].branch].kind = Kind(Fragment.ops[i].addr)
      /\ \A b \in DOMAIN Fragment.branches :
            Fragment.branches[b].kind \notin {"likely", "eret"} /\ b # 0 =>
                Fragment.branches[b].slot \in DOMAIN Fragment.ops
    BY <1>1 DEF FragmentFits, BranchesFit
<1>3. CASE OnTrace
    <2>1. here.i \in DOMAIN Fragment.ops /\ Op = Fragment.ops[here.i]
        BY <1>3 DEF OnTrace, Op
    <2>2. Op \in OpRecords
        BY <1>2, <2>1
    <2>3. Op.addr \in Addr
        BY <2>2 DEF OpRecords
    <2>4. 0 \notin DOMAIN Fragment.branches
        BY <1>2
    <2>5. QED  BY <1>2, <2>1, <2>3, <2>4
<1>4. CASE ~OnTrace
    <2>1. InSlot
        BY <1>4 DEF AtExit
    <2>2. Details_.slot \in DOMAIN Fragment.ops
        BY <1>1, <1>2, <2>1 DEF InSlot, Details_
    <2>3. Fragment.ops[Details_.slot] \in OpRecords
        BY <1>2, <2>2
    <2>4. Op.addr = Fragment.ops[Details_.slot].addr
        BY <1>4, <2>3 DEF Op, OpRecords
    <2>5. QED  BY <1>4, <2>3, <2>4 DEF OpRecords
<1>5. QED  BY <1>3, <1>4

\* Inside a fragment nothing is recorded.
LEMMA NotRecording ==
    ASSUME DynInv, at = "frag", trace' = trace, game' = game
    PROVE  TraceFits' /\ Recording' /\ game \in Games /\ Addr' = Addr
           /\ \A a : Kind(a)' = Kind(a)
BY TraceStays DEF DynInv, Recording, CpuFits, Addr, Kind

LEMMA RunStraightKeeps ==
    ASSUME DynInv, RunStraight
    PROVE  DynInv'
<1>1. /\ at = "frag" /\ ~AtExit /\ todo = {} /\ game' = game /\ trace' = trace
      /\ UNCHANGED <<cacheVars, target, epc, core, selected>>
    BY DEF RunStraight, Running, Unrecorded, cores
<1>2. /\ TraceFits' /\ Recording' /\ game \in Games /\ Addr' = Addr
      /\ \A a : Kind(a)' = Kind(a)
    BY <1>1, NotRecording
<1>3. Op.addr \in Addr /\ Op.addr \in Nat
    BY <1>1, <1>2, OpFits, GameFacts
<1>4. ver' \in [Addr -> Nat] /\ exc'.pc \in Int
    BY <1>1, <1>3, EffectFits DEF RunStraight, DynInv
<1>5. /\ pc \in Int /\ target \in Int /\ epc \in Int /\ delay \in {"NO", "EXEC"}
      /\ core \in {"plain", "traced"} /\ selected \in {"plain", "traced"}
    BY <1>1 DEF DynInv, CpuFits
<1>6. \/ /\ at' = "branch" /\ delay' = "NO" /\ pc' \in Int /\ here' = Outside
      \/ /\ at' = "frag" /\ delay' \in {"NO", "EXEC"} /\ pc' \in Int
         /\ here' = [here EXCEPT !.i = @ + 1]
    <2> DEFINE d == IF Op.slot THEN "EXEC" ELSE delay
    <2>1. \/ Leave(Op.addr, d)
          \/ /\ pc' \in {Op.addr, pc} /\ UNCHANGED at /\ here' = [here EXCEPT !.i = @ + 1]
             /\ \E slow \in BOOLEAN : delay' = DelayAfter(slow)
        BY DEF RunStraight
    <2>2. CASE Leave(Op.addr, d)
        BY <1>3, <1>5, <2>2 DEF Leave
    <2>3. CASE /\ pc' \in {Op.addr, pc} /\ UNCHANGED at /\ here' = [here EXCEPT !.i = @ + 1]
               /\ \E slow \in BOOLEAN : delay' = DelayAfter(slow)
        <3>1. PICK slow \in BOOLEAN : delay' = DelayAfter(slow)
            BY <2>3
        <3>2. delay' \in {"NO", "EXEC"}
            BY <1>5, <3>1 DEF DelayAfter
        <3>3. QED  BY <1>1, <1>3, <1>5, <2>3, <3>2
    <2>4. QED  BY <2>1, <2>2, <2>3
<1>7. CpuFits'
    BY <1>1, <1>2, <1>4, <1>5, <1>6 DEF CpuFits
<1>8. CacheGood' /\ Registering' /\ Entries' = Entries /\ fragments' = fragments
    BY <1>1, CacheStays DEF DynInv, Registering
<1>9. HereFits'
    <2>1. CASE at' = "branch" /\ here' = Outside
        BY <2>1 DEF HereFits, Outside
    <2>2. CASE at' = "frag" /\ here' = [here EXCEPT !.i = @ + 1]
        <3>1. /\ here \in [entry : Int, i : Nat, branch : Nat] /\ here.entry \in Entries
              /\ here.branch # 0 => /\ here.branch \in DOMAIN fragments[here.entry].branches
                                    /\ fragments[here.entry].branches[here.branch].kind # "jump"
            BY <1>1 DEF DynInv, HereFits, Fragment, Details_
        <3>2. /\ here'.entry = here.entry /\ here'.branch = here.branch /\ here'.i # 0
              /\ here' \in [entry : Int, i : Nat, branch : Nat]
            BY <2>2, <3>1
        <3>3. QED  BY <1>8, <3>1, <3>2 DEF HereFits, Fragment, Details_
    <2>3. QED  BY <1>6, <2>1, <2>2
<1>10. QED  BY <1>2, <1>7, <1>8, <1>9 DEF DynInv

LEMMA HandlerFits ==
    ASSUME NEW h \in [entry : Int, i : Nat, branch : Nat], NEW b \in Nat, NEW n \in Nat
    PROVE  LET q == [h EXCEPT !.branch = b, !.i = n]
           IN  /\ q.entry = h.entry /\ q.branch = b /\ q.i = n
               /\ q \in [entry : Int, i : Nat, branch : Nat]
OBVIOUS

LEMMA RunBranchKeeps ==
    ASSUME DynInv, RunBranch
    PROVE  DynInv'
<1>1. /\ at = "frag" /\ at' = "frag" /\ OnTrace /\ game' = game /\ trace' = trace
      /\ UNCHANGED <<cacheVars, epc, exc, core, selected, ver>>
    BY DEF RunBranch, Running, Unrecorded, cores
<1>2. /\ TraceFits' /\ Recording' /\ game \in Games /\ Addr' = Addr
      /\ \A a : Kind(a)' = Kind(a)
    BY <1>1, NotRecording
<1>3. /\ pc \in Int /\ target \in Int /\ epc \in Int /\ delay \in {"NO", "EXEC"}
      /\ core \in {"plain", "traced"} /\ selected \in {"plain", "traced"}
      /\ \A a \in game.returns : a \in Nat
    BY <1>1, <1>2, GameFacts DEF DynInv, CpuFits
<1>4. /\ pc' \in {pc, epc - 1} /\ (target' = target \/ target' \in game.returns)
      /\ delay' \in {delay, "NO"}
      /\ \/ Follow
         \/ Kind(Op.addr) \in {"branch", "likely", "jr", "eret"} /\ here' = Handler(Op.branch)
    BY DEF RunBranch
<1>5. CpuFits'
    BY <1>1, <1>2, <1>3, <1>4 DEF DynInv, CpuFits
<1>6. CacheGood' /\ Registering' /\ Entries' = Entries /\ fragments' = fragments
    BY <1>1, CacheStays DEF DynInv, Registering
<1>7. /\ here \in [entry : Int, i : Nat, branch : Nat] /\ here.entry \in Entries
      /\ here.branch = 0 /\ FragmentFits(Fragment)
    BY <1>1, PlaceFits DEF DynInv, HereFits, OnTrace
<1>8. HereFits'
    <2>1. CASE Follow
        <3>1. /\ here'.entry = here.entry /\ here'.branch = 0
              /\ here' \in [entry : Int, i : Nat, branch : Nat]
            BY <1>7, <2>1 DEF Follow
        <3>2. QED  BY <1>6, <1>7, <3>1 DEF HereFits
    <2>2. CASE /\ Kind(Op.addr) \in {"branch", "likely", "jr", "eret"}
               /\ here' = Handler(Op.branch)
        <3> DEFINE b == Op.branch
        <3>1. /\ b \in DOMAIN Fragment.branches /\ b # 0
              /\ Fragment.branches[b].kind = Kind(Op.addr)
            BY <1>1, <2>2, OpFits DEF AtExit, Branching, Delayed
        <3>2. b \in Nat
            BY <1>7, <3>1 DEF FragmentFits, BranchesFit
        <3> HIDE DEF b
        <3> DEFINE n == IF Fragment.branches[b].kind \in {"likely", "eret"} THEN 1 ELSE 0
        <3>3. here' = [here EXCEPT !.branch = b, !.i = n] /\ n \in Nat
            BY <2>2 DEF Handler, b
        <3>4. /\ here'.entry = here.entry /\ here'.branch = b
              /\ here' \in [entry : Int, i : Nat, branch : Nat]
              /\ here'.i = 0 => Fragment.branches[b].kind \notin {"likely", "eret"}
            <4>1. n = 0 => Fragment.branches[b].kind \notin {"likely", "eret"}
                OBVIOUS
            <4> HIDE DEF n
            <4>2. /\ here'.entry = here.entry /\ here'.branch = b /\ here'.i = n
                  /\ here' \in [entry : Int, i : Nat, branch : Nat]
                BY <1>7, <3>2, <3>3, HandlerFits
            <4>3. QED  BY <4>1, <4>2
        <3>5. Fragment.branches[b].kind # "jump"
            BY <2>2, <3>1
        <3>6. QED  BY <1>6, <1>7, <3>1, <3>4, <3>5 DEF HereFits, Fragment, Details_
    <2>3. QED  BY <1>4, <2>1, <2>2
<1>9. QED  BY <1>2, <1>5, <1>6, <1>8 DEF DynInv

\* The jump at an exit leads to a fragment if it has been linked.
LEMMA LinkLeads ==
    ASSUME DynInv, at = "frag", ~Indirect, ~Looping(here.entry, Fragment, here.branch),
           NEW l \in links, l.from = here.entry, l.site = here.branch
    PROVE  Exit \in Entries
<1> DEFINE patch == [from |-> here.entry, site |-> here.branch]
<1>1. /\ here.entry \in Entries /\ here.branch \in 0..Len(Fragment.branches)
      /\ here.branch # 0 => Details_ \in BranchRecords /\ Details_.kind # "jump"
    BY PlaceFits
<1>2. Direct(Fragment, here.branch)
    BY <1>1 DEF Direct, Indirect, Details_, BranchRecords, Branching, Delayed
<1>3. patch \in PatchList(here.entry, Fragment)
    BY <1>1, <1>2 DEF PatchList, Patched
<1>4. JumpRight(patch) /\ l.to \in Entries
    BY <1>1, <1>3 DEF DynInv, CacheGood, CacheInv, JumpsRight, Fragment
<1>5. l \in Linked(patch)
    BY DEF Linked
<1>6. l = JumpOf(patch)
    BY <1>4, <1>5 DEF JumpRight
<1>7. l.to = Exit
    BY <1>6 DEF JumpOf, To, Exit, Fragment
<1>8. QED  BY <1>4, <1>7

LEMMA ExitIsInt ==
    ASSUME DynInv, at = "frag"
    PROVE  Exit \in Int
BY PlaceFits, ExitFits DEF Exit, DynInv, CpuFits

LEMMA LeaveDirectlyKeeps ==
    ASSUME DynInv, LeaveDirectly
    PROVE  DynInv'
<1>1. /\ at = "frag" /\ game' = game /\ trace' = trace /\ todo = {} /\ pc' = Exit
      /\ ~Indirect /\ ~Looping(here.entry, Fragment, here.branch)
      /\ UNCHANGED <<cacheVars, epc, exc, core, selected, ver>>
      /\ \/ ToSlot /\ delay' = "EXEC" /\ target' = Details_.target
         \/ ~ToSlot /\ delay' = "NO" /\ target' = target
    BY DEF LeaveDirectly, Running, Unrecorded, cores
<1>2. /\ TraceFits' /\ Recording' /\ game \in Games /\ Addr' = Addr
      /\ \A a : Kind(a)' = Kind(a)
    BY <1>1, NotRecording
<1>3. /\ target \in Int /\ epc \in Int /\ exc.pc \in Int /\ ver \in [Addr -> Nat]
      /\ core \in {"plain", "traced"} /\ selected \in {"plain", "traced"}
    BY <1>1 DEF DynInv, CpuFits
<1>4. Exit \in Int
    BY <1>1, ExitIsInt
<1>5. \/ at' = "branch" /\ here' = Outside
      \/ at' = "frag" /\ Exit \in Entries /\ Enter(Exit)
    <2> DEFINE linked == {l \in links : l.from = here.entry /\ l.site = here.branch}
    <2>1. GoOn(IF linked = {} THEN NoFragment ELSE Exit)
        BY DEF LeaveDirectly
    <2>2. CASE linked = {}
        BY <2>1, <2>2 DEF GoOn
    <2>3. CASE linked # {}
        <3>1. Exit \in Entries
            BY <1>1, <2>3, LinkLeads
        <3>2. QED  BY <2>1, <2>3, <3>1 DEF GoOn, Enter
    <2>4. QED  BY <2>2, <2>3
<1>6. ASSUME ToSlot
      PROVE  target' \in Int /\ (pc' \in Addr => Kind(pc') \in Straight)
    <2>1. /\ Details_ \in BranchRecords /\ Fragment.ops[Details_.at].addr \in Addr
          /\ Kind(Fragment.ops[Details_.at].addr) = "likely"
          /\ here.branch # 0
        BY <1>1, <1>6, PlaceFits DEF ToSlot
    <2>2. pc' = Fragment.ops[Details_.at].addr + 1
        BY <1>1, <1>6, <2>1 DEF Exit, ExitAddress, ToSlot, Details_
    <2>3. QED  BY <1>1, <1>2, <1>6, <2>1, <2>2, GameFacts DEF BranchRecords, Delayed, ToSlot
<1>7. CpuFits'
    BY <1>1, <1>2, <1>3, <1>4, <1>5, <1>6 DEF CpuFits, Enter
<1>8. CacheGood' /\ Registering' /\ Entries' = Entries
    BY <1>1, CacheStays DEF DynInv, Registering
<1>9. HereFits'
    BY <1>4, <1>5, <1>8, EntryFits DEF HereFits, Outside
<1>10. QED  BY <1>2, <1>7, <1>8, <1>9 DEF DynInv

LEMMA LeaveLoopKeeps ==
    ASSUME DynInv, LeaveLoop
    PROVE  DynInv'
<1>1. /\ at = "frag" /\ game' = game /\ trace' = trace /\ todo = {}
      /\ UNCHANGED <<cacheVars, target, epc, exc, core, selected, ver>>
      /\ \/ Enter(here.entry) /\ UNCHANGED <<pc, delay>>
         \/ pc' = Exit /\ delay' = "NO" /\ at' = "branch" /\ here' = Outside
    BY DEF LeaveLoop, Running, Unrecorded, cores
<1>2. /\ TraceFits' /\ Recording' /\ game \in Games /\ Addr' = Addr
      /\ \A a : Kind(a)' = Kind(a)
    BY <1>1, NotRecording
<1>3. Exit \in Int /\ here.entry \in Int /\ here.entry \in Entries
    BY <1>1, ExitIsInt DEF DynInv, HereFits
<1>4. CpuFits'
    BY <1>1, <1>2, <1>3 DEF DynInv, CpuFits, Enter
<1>5. CacheGood' /\ Registering' /\ Entries' = Entries
    BY <1>1, CacheStays DEF DynInv, Registering
<1>6. HereFits'
    BY <1>1, <1>3, <1>5, EntryFits DEF HereFits, Outside
<1>7. QED  BY <1>2, <1>4, <1>5, <1>6 DEF DynInv

LEMMA LeaveIndirectlyKeeps ==
    ASSUME DynInv, LeaveIndirectly
    PROVE  DynInv'
<1> DEFINE to == IF Details_.kind = "eret" THEN pc + 1 ELSE target
<1>1. /\ at = "frag" /\ game' = game /\ trace' = trace /\ todo = {}
      /\ pc' = to /\ delay' = "NO" /\ GoOn(Lookup(to))
      /\ UNCHANGED <<fragments, links, jumps, todo, covered>>
      /\ Remember(to) \/ UNCHANGED <<cached, hash>>
      /\ UNCHANGED <<target, epc, exc, core, selected, ver>>
    BY DEF LeaveIndirectly, Running, cores, memory
<1>2. /\ TraceFits' /\ Recording' /\ game \in Games /\ Addr' = Addr
      /\ \A a : Kind(a)' = Kind(a)
    BY <1>1, NotRecording
<1>3. to \in Int
    BY DEF DynInv, CpuFits
<1> HIDE DEF to
<1>4. Lookup(to) # NoFragment => Lookup(to) = to /\ to \in Entries
    BY <1>1, <1>2, <1>3, IdleLookupRight, CacheFits, TruthFits
    DEF DynInv, CacheGood, CacheInv, Truth
<1>5. \/ at' = "branch" /\ here' = Outside
      \/ at' = "frag" /\ to \in Entries /\ Enter(to)
    BY <1>1, <1>4 DEF GoOn, Enter
<1>6. CpuFits'
    BY <1>1, <1>2, <1>3, <1>5 DEF DynInv, CpuFits
<1>7. CacheGood' /\ Registering' /\ Entries' = Entries
    BY <1>1, <1>2, <1>3, CacheStays, CacheRemembers DEF DynInv, Registering, cacheVars
<1>8. HereFits'
    BY <1>3, <1>5, <1>7, EntryFits DEF HereFits, Outside
<1>9. QED  BY <1>2, <1>6, <1>7, <1>8 DEF DynInv

LEMMA InsertMoreKeeps ==
    ASSUME DynInv, InsertMore
    PROVE  DynInv'
<1>1. /\ RegisterPatch /\ game' = game /\ trace' = trace
      /\ UNCHANGED <<pc, target, delay, epc, jobs, exc, core, selected, at, last, here, ver>>
    BY DEF InsertMore, cpu, cores, memory
<1>2. game \in Games /\ Addr' = Addr /\ (\A a : Kind(a)' = Kind(a))
    BY <1>1 DEF DynInv, CpuFits, Addr, Kind
<1>3. CacheGood' /\ Entries' = Entries /\ fragments' = fragments /\ todo' \subseteq todo
    BY <1>1, <1>2, CacheRegisters DEF DynInv
<1>4. CpuFits' /\ TraceFits' /\ Registering'
    BY <1>1, <1>2, <1>3, TraceStays DEF DynInv, CpuFits, Registering
<1>5. HereFits'
    BY <1>1, <1>3 DEF DynInv, HereFits, Fragment, Details_
<1>6. Recording'
    BY <1>1, <1>2, <1>3 DEF DynInv, Recording
<1>7. QED  BY <1>3, <1>4, <1>5, <1>6 DEF DynInv

LEMMA StutterKeeps ==
    ASSUME DynInv, UNCHANGED vars
    PROVE  DynInv'
<1>1. /\ game' = game /\ trace' = trace /\ UNCHANGED cacheVars
      /\ UNCHANGED <<pc, target, delay, epc, jobs, exc, core, selected, at, last, here, ver>>
    BY DEF vars, cpu, cores, memory
<1>2. game \in Games /\ Addr' = Addr /\ (\A a : Kind(a)' = Kind(a))
    BY <1>1 DEF DynInv, CpuFits, Addr, Kind
<1>3. CacheGood' /\ Entries' = Entries /\ fragments' = fragments /\ todo' = todo
    BY <1>1, CacheStays DEF DynInv
<1>4. CpuFits' /\ TraceFits' /\ Registering'
    BY <1>1, <1>2, <1>3, TraceStays DEF DynInv, CpuFits, Registering
<1>5. HereFits' /\ Recording'
    BY <1>1, <1>2, <1>3 DEF DynInv, HereFits, Recording, Fragment, Details_
<1>6. QED  BY <1>3, <1>4, <1>5 DEF DynInv

LEMMA DynNext == DynInv /\ CoreInv /\ [Next]_vars => DynInv'
BY ExecuteKeeps, UpdateKeeps, CountKeeps, JobKeeps, StopDispatchingKeeps, DispatchKeeps,
   LeaveAloneKeeps, CountHeatKeeps, RunStraightKeeps, RunBranchKeeps, LeaveDirectlyKeeps,
   LeaveLoopKeeps, LeaveIndirectlyKeeps, InsertMoreKeeps, StutterKeeps
DEF Next, HandleDynaRecOnBranch, RunFragment

\* Whatever is recorded, inserted, linked and dropped, a lookup through either
\* shortcut answers what a search would, and every jump of every fragment leads to
\* the fragment at its target or waits for it.
THEOREM CacheStaysExact == Spec => []CacheExact
<1>1. DynInv => CacheExact
    BY DEF DynInv, CacheGood, CacheInv, CacheExact, RememberedRight, PairRight, HashRight
<1>2. QED  BY <1>1, CoreInit, CoreNext, DynInit, DynNext, PTL DEF Spec
-------------------------------------------------------------------------------
(* Code that is loaded again. *)

\* The op i of a fragment that begins at e is what memory holds, or lies out of the
\* range the fragment covers, or was out of date when the fragment was made.
OpFresh(e, i) ==
    LET f == fragments[e]
    IN  \/ f.ops[i].ver = ver[f.ops[i].addr]
        \/ f.ops[i].addr \notin e..(e + Len(f.ops))
        \/ f.late

LEMMA FreshByOp ==
    CodeFresh <=> reset \/ \A e \in Entries : \A i \in DOMAIN fragments[e].ops : OpFresh(e, i)
BY DEF CodeFresh, OpFresh

\* A load that misses the covered pages misses the fragments' code.
LEMMA ReloadSpares ==
    ASSUME DynInv, Reload, ~reset', NEW e \in Entries, NEW x \in Addr,
           x \in e..(e + Len(fragments[e].ops))
    PROVE  ver'[x] = ver[x]
<1> DEFINE r == game.reload
           n == Len(fragments[e].ops)
<1>1. /\ game \in Games /\ r.from \in Nat /\ r.len \in Nat /\ x \in Nat /\ ver \in [Addr -> Nat]
    BY GameFacts DEF DynInv, CpuFits
<1>2. e \in Nat /\ n \in Nat
    BY <1>1, GameFacts DEF DynInv, CacheGood, FragmentsFit, FragmentFits, BranchesFit
<1>3. ~ShouldInvalidateOnWrite(r.from, r.len)
    BY DEF Reload
<1>4. PageOf(x) \in covered
    BY <1>2, PagesOf DEF DynInv, CacheGood, Covered
<1>5. ASSUME x \in r.from..(r.from + r.len - 1) PROVE FALSE
    <2>1. x \in r.from..(r.from + r.len)
        BY <1>1, <1>5
    <2>2. PageOf(x) \in Pages(r.from, r.len)
        BY <1>1, <2>1, PagesOf
    <2>3. QED  BY <1>3, <1>4, <2>2 DEF ShouldInvalidateOnWrite
<1>6. x \notin r.from..(r.from + r.len - 1)
    BY <1>5
<1>7. QED  BY <1>6 DEF Reload

LEMMA EffectKeepsFresh ==
    ASSUME DynInv, CodeFresh, NEW a, NEW slot, Effect(a, slot), fragments' = fragments
    PROVE  CodeFresh'
<1>1. SUFFICES ASSUME ~reset', NEW e \in Entries, NEW i \in DOMAIN fragments[e].ops
               PROVE  OpFresh(e, i)'
    BY FreshByOp DEF CodeFresh, OpFresh, Entries
<1>2. ~reset
    BY <1>1 DEF Effect, Reload
<1>3. OpFresh(e, i)
    BY <1>2, FreshByOp
<1>4. CASE UNCHANGED ver
    BY <1>3, <1>4 DEF OpFresh
<1>5. CASE Reload
    <2> DEFINE x == fragments[e].ops[i].addr
    <2>1. x \in Addr
        <3>1. fragments[e].ops \in Seq(OpRecords)
            BY DEF DynInv, CacheGood, FragmentsFit, FragmentFits, BranchesFit
        <3>2. fragments[e].ops[i] \in OpRecords
            BY <3>1
        <3>3. QED  BY <3>2 DEF OpRecords
    <2>2. x \in e..(e + Len(fragments[e].ops)) => ver'[x] = ver[x]
        BY <1>1, <1>5, <2>1, ReloadSpares
    <2>3. QED  BY <1>3, <2>2 DEF OpFresh
<1>6. QED  BY <1>4, <1>5 DEF Effect

LEMMA FreshStays ==
    ASSUME CodeFresh, fragments' = fragments, ver' = ver, reset => reset'
    PROVE  CodeFresh'
BY DEF CodeFresh, Entries

\* A fragment of ops that are up to date is fresh; others are marked as late.
LEMMA FreshInsert ==
    ASSUME CodeFresh, NEW t, NEW seen, CreateAndAddFragment(t, seen),
           ver' = ver, reset' = reset
    PROVE  CodeFresh'
<1> DEFINE f == FragmentOf(t, game.loop, Stale(t.ops))
<1>1. f.ops = t.ops /\ f.late = Stale(t.ops)
    BY DEF FragmentOf
<1>2. fragments' = [a \in Entries \cup {t.start} |-> IF a = t.start THEN f ELSE fragments[a]]
    BY DEF CreateAndAddFragment, Insert
<1> HIDE DEF f
<1>3. ASSUME ~reset, NEW e \in Entries', NEW i \in DOMAIN fragments'[e].ops
      PROVE  OpFresh(e, i)'
    <2>1. CASE e = t.start
        <3>1. fragments'[e] = f
            BY <1>2, <2>1
        <3>2. f.ops[i].ver = ver[f.ops[i].addr] \/ f.late
            BY <1>1, <1>3, <3>1 DEF Stale
        <3>3. QED  BY <3>1, <3>2 DEF OpFresh
    <2>2. CASE e # t.start
        <3>1. e \in Entries /\ fragments'[e] = fragments[e]
            BY <1>2, <2>2 DEF Entries
        <3>2. OpFresh(e, i)
            BY <1>3, <3>1, FreshByOp
        <3>3. QED  BY <3>1, <3>2 DEF OpFresh
    <2>3. QED  BY <2>1, <2>2
<1>4. QED  BY <1>3 DEF CodeFresh, OpFresh

LEMMA FreshNext == DynInv /\ CodeFresh /\ [Next]_vars => CodeFresh'
<1> SUFFICES ASSUME DynInv, CodeFresh, [Next]_vars PROVE CodeFresh'  OBVIOUS
<1>1. CASE Execute
    <2>1. fragments' = fragments
        BY <1>1 DEF Execute, ExecuteStraight, TakeBranch, PassBranch, ExecuteEret, Interpret,
            cacheVars
    <2>2. QED  BY <1>1, <2>1, EffectKeepsFresh, FreshStays
        DEF Execute, ExecuteStraight, TakeBranch, PassBranch, ExecuteEret
<1>2. CASE UpdateTrace
    <2>1. ver' = ver /\ reset' = reset
        BY <1>2 DEF UpdateTrace, memory
    <2>2. CASE KeepTrace
        BY <2>1, <2>2, FreshStays DEF KeepTrace
    <2>3. CASE EndTrace
        BY <2>1, <2>3, FreshInsert DEF EndTrace
    <2>4. QED  BY <1>2, <2>2, <2>3 DEF UpdateTrace
<1>3. CASE Count \/ CheckStuffToDo \/ StopDispatching \/ LeaveAlone
    BY <1>3, FreshStays
    DEF Count, CheckStuffToDo, ServeInterrupt, ServeException, ChangeCore, GiveUpTrace,
        StopDispatching, LeaveAlone, cacheVars, heat, memory
<1>4. CASE Dispatch
    <2>1. ver' = ver /\ reset' = reset
        BY <1>4 DEF Dispatch, memory
    <2>2. QED  BY <1>4, <2>1, FreshInsert, FreshStays DEF Dispatch
<1>5. CASE CountHeat
    <2>1. Clear \/ (~DropsCache /\ fragments' = fragments /\ ver' = ver)
        BY <1>5 DEF CountHeat, memory
    <2>2. CASE Clear
        BY <2>2 DEF Clear, CodeFresh, Entries
    <2>3. CASE ~DropsCache /\ fragments' = fragments /\ ver' = ver
        BY <2>3, FreshStays DEF DropsCache
    <2>4. QED  BY <2>1, <2>2, <2>3
<1>6. CASE RunStraight
    <2>1. fragments' = fragments
        BY <1>6 DEF RunStraight, Unrecorded, cacheVars
    <2>2. QED  BY <1>6, <2>1, EffectKeepsFresh DEF RunStraight
<1>7. CASE RunBranch \/ LeaveDirectly \/ LeaveLoop \/ LeaveIndirectly
    BY <1>7, FreshStays
    DEF RunBranch, LeaveDirectly, LeaveLoop, LeaveIndirectly, Unrecorded, cacheVars, heat, memory
<1>8. CASE InsertMore
    <2>1. fragments' = fragments
        BY <1>8 DEF InsertMore, RegisterPatch, Register
    <2>2. QED  BY <1>8, <2>1, FreshStays DEF InsertMore, heat, memory
<1>9. CASE UNCHANGED vars
    BY <1>9, FreshStays DEF vars, cacheVars, heat, memory
<1>10. QED
    BY <1>1, <1>2, <1>3, <1>4, <1>5, <1>6, <1>7, <1>8, <1>9
    DEF Next, HandleDynaRecOnBranch, RunFragment

\* Code that is loaded again is not run from the cache, or the cache is about to be
\* dropped, but for ops out of the range that is covered and late fragments.
THEOREM LoadedCodeFresh == Spec => []CodeFresh
<1>1. Init => CodeFresh
    BY DEF Init, CacheInit, CodeFresh, Entries
<1>2. QED  BY <1>1, FreshNext, CoreInit, CoreNext, DynInit, DynNext, PTL DEF Spec
-------------------------------------------------------------------------------
(* The guest's control flow.  What a trace or a fragment has recorded is a   *)
(* path the guest can take: each op leads to the next one, and behind the    *)
(* last op is x and behind that y, where s tells whether x is a delay slot.  *)

Place(ops, x, y, i) ==
    IF i <= Len(ops) THEN ops[i].addr ELSE IF i = Len(ops) + 1 THEN x ELSE y
SlotAt(ops, s, i) == IF i <= Len(ops) THEN ops[i].slot ELSE s

\* The op at i leads to the one behind it, and a branch that the path follows to
\* its target leads there over its slot.
OpFlows(ops, branches, x, s, y, i) ==
    LET o == ops[i]
        k == Kind(o.addr)
        d == branches[o.branch]
        next == Place(ops, x, y, i + 1)
    IN  /\ o.slot => k \in Straight /\ next # 0
        /\ k \notin Delayed => ~SlotAt(ops, s, i + 1)
        /\ k \in Straight /\ ~o.slot => next = o.addr + 1
        /\ k \in Delayed =>
              /\ d.at = i
              /\ SlotAt(ops, s, i + 1) <=> d.taken
              /\ d.taken => /\ next = o.addr + 1
                            /\ Place(ops, x, y, i + 2) =
                                 IF k = "jr" THEN d.target ELSE game.code[o.addr].to
              /\ ~d.taken => next = o.addr + (IF k = "likely" THEN 2 ELSE 1)

\* What the handler of a branch needs to know: where a run goes that leaves the
\* path there.
BranchFlows(ops, d) ==
    LET a == ops[d.at].addr
    IN  /\ d.kind \in {"jump", "jr"} => d.taken
        /\ d.kind \in {"branch", "jr"} => d.slot \in {0, d.at + 1}
        /\ d.kind = "branch" /\ d.taken => d.target = a + 2
        /\ d.kind \in {"branch", "likely"} /\ ~d.taken => d.target = game.code[a].to

BranchesFlow(ops, branches) == \A b \in DOMAIN branches : BranchFlows(ops, branches[b])

\* A path from `start` on, to higher addresses.
Flows(ops, branches, start, x, s, y) ==
    /\ Place(ops, x, y, 1) = start /\ ~SlotAt(ops, s, 1)
    /\ \A i \in DOMAIN ops : /\ OpFlows(ops, branches, x, s, y, i)
                             /\ i > 1 => ops[i].addr > start
    /\ BranchesFlow(ops, branches)

\* Behind a fragment is its exit, which is no slot.
FragmentFlows(e, f) ==
    f.ops # <<>> /\ Flows(f.ops, f.branches, e, f.exit, FALSE, 0)
FragmentsFlow == \A e \in Entries : FragmentFlows(e, fragments[e])

\* What is ahead of the recorder: the op that was executed and is to be recorded,
\* or the one that will be executed next.
Ahead ==
    CASE at = "trace" -> last.addr
      [] at = "count" -> IF delay = "EXEC" THEN target ELSE pc + 1
      [] OTHER -> pc
AheadSlot ==
    CASE at = "trace" -> last.slot
      [] at = "count" -> delay = "DO"
      [] OTHER -> delay = "EXEC"

\* The trace is a path to what is ahead; the branch whose slot is still to be
\* recorded is the last op, and its target is where the slot leads.
TraceFlows ==
    trace.active =>
        /\ Flows(trace.ops, trace.branches, trace.start, Ahead, AheadSlot, target)
        /\ LET n == Len(trace.ops)
           IN  IF trace.open = 0 THEN n > 0 => Kind(trace.ops[n].addr) \notin Delayed
               ELSE trace.branches[trace.open].at = n
        /\ AheadSlot => trace.exit = target

\* Between an op and its record the registers still tell what the op did.
StepFlows ==
    at = "trace" =>
        LET k == Kind(last.addr)
        IN  /\ k \in Straight => pc = last.addr /\ delay = IF last.slot THEN "EXEC" ELSE "NO"
            /\ k \notin Straight => ~last.slot /\ delay # "EXEC"
            /\ k = "eret" => delay = "NO"
            /\ k \in {"jump", "jr"} => delay = "DO"
            /\ delay = "DO" => /\ pc = last.addr
                               /\ k # "jr" => target = game.code[last.addr].to
            /\ k \in {"branch", "likely"} /\ delay = "NO" =>
                  pc = last.addr + (IF k = "likely" THEN 1 ELSE 0)

\* A slot that waits leads somewhere, and so does the handler of a jump through a
\* register; an interrupt waits only while exceptions are allowed.
GuestKept ==
    /\ at # "frag" /\ delay # "NO" => target # 0
    /\ "INTERRUPTS" \in jobs => ~exl
    /\ at = "frag" /\ here.branch # 0 /\ Details_.kind = "jr" => target # 0
FlowInv == FragmentsFlow /\ TraceFlows /\ StepFlows /\ GuestKept
-------------------------------------------------------------------------------
\* A path depends on nothing but the program.
LEMMA FlowsStay ==
    ASSUME game' = game, NEW ops, NEW branches, NEW start, NEW x, NEW s, NEW y
    PROVE  Flows(ops, branches, start, x, s, y)' <=> Flows(ops, branches, start, x, s, y)
BY DEF Flows, OpFlows, BranchesFlow, BranchFlows, Place, SlotAt, Kind

\* Fragments that stay are still paths.
LEMMA FragmentsFlowStay ==
    ASSUME FragmentsFlow, fragments' = fragments, game' = game
    PROVE  FragmentsFlow'
<1>1. \A e \in Entries : FragmentFlows(e, fragments[e])'
    BY FlowsStay DEF FragmentsFlow, FragmentFlows
<1>2. QED  BY <1>1 DEF FragmentsFlow, Entries

\* Where a path goes on does not matter before it is looked at.
LEMMA FlowsOn ==
    ASSUME NEW ops \in Seq(OpRecords), NEW branches, NEW start, NEW x, NEW y, NEW z,
           Flows(ops, branches, start, x, FALSE, y)
    PROVE  Flows(ops, branches, start, x, FALSE, z)
<1>1. \A i \in DOMAIN ops : Place(ops, x, z, i + 1) = Place(ops, x, y, i + 1)
    BY DEF Place
<1>2. \A i \in DOMAIN ops : SlotAt(ops, FALSE, i + 1) => i + 1 <= Len(ops)
    BY DEF SlotAt
<1>3. \A i \in DOMAIN ops : i + 1 <= Len(ops) => Place(ops, x, z, i + 2) = Place(ops, x, y, i + 2)
    BY DEF Place
<1>4. ASSUME NEW i \in DOMAIN ops PROVE OpFlows(ops, branches, x, FALSE, z, i)
    <2>1. OpFlows(ops, branches, x, FALSE, y, i)
        BY DEF Flows
    <2>2. QED  BY <1>1, <1>2, <1>3, <2>1 DEF OpFlows
<1>5. Place(ops, x, z, 1) = Place(ops, x, y, 1)
    BY DEF Place
<1>6. QED  BY <1>4, <1>5 DEF Flows

\* The branches among the ops are the same in both lists.
SameBranches(ops, branches, more) ==
    \A i \in DOMAIN ops : Kind(ops[i].addr) \in Delayed =>
        LET b == ops[i].branch
        IN  /\ more[b].at = branches[b].at /\ more[b].taken = branches[b].taken
            /\ more[b].target = branches[b].target

\* One more op, and the path goes on behind it.
LEMMA FlowAppend ==
    ASSUME NEW ops \in Seq(OpRecords), NEW branches, NEW start \in Int, NEW y,
           NEW entry \in OpRecords, entry.addr \in Int, entry.slot \in BOOLEAN,
           Flows(ops, branches, start, entry.addr, entry.slot, y),
           ops # <<>> => entry.addr > start,
           NEW more, SameBranches(ops, branches, more),
           NEW x2, NEW s2, NEW y2, entry.slot => x2 = y,
           OpFlows(Append(ops, entry), more, x2, s2, y2, Len(ops) + 1),
           BranchesFlow(Append(ops, entry), more)
    PROVE  Flows(Append(ops, entry), more, start, x2, s2, y2)
<1> DEFINE x == entry.addr
           s == entry.slot
<1>1. /\ Flows(ops, branches, start, x, s, y) /\ (ops # <<>> => x > start)
      /\ entry.addr = x /\ entry.slot = s /\ x \in Int /\ s \in BOOLEAN /\ (s => x2 = y)
    OBVIOUS
<1> HIDE DEF x, s
<1> DEFINE n == Len(ops)
           all == Append(ops, entry)
<1>2. /\ n \in Nat /\ Len(all) = n + 1 /\ all[n + 1] = entry /\ DOMAIN all = 1..(n + 1)
      /\ DOMAIN ops = 1..n /\ \A i \in 1..n : all[i] = ops[i]
    OBVIOUS
<1> HIDE DEF n, all
<1>3. ASSUME NEW i \in 1..(n + 1)
      PROVE  /\ Place(all, x2, y2, i) = Place(ops, x, y, i)
             /\ SlotAt(all, s2, i) = SlotAt(ops, s, i)
    <2>1. CASE i \in 1..n
        BY <1>2, <2>1 DEF Place, SlotAt, n
    <2>2. CASE i = n + 1
        BY <1>1, <1>2, <2>2 DEF Place, SlotAt, n
    <2>3. QED  BY <1>2, <2>1, <2>2
<1>4. s => Place(all, x2, y2, n + 2) = Place(ops, x, y, n + 2)
    BY <1>1, <1>2 DEF Place, n
<1>5. ASSUME NEW i \in DOMAIN all PROVE OpFlows(all, more, x2, s2, y2, i)
    <2>1. CASE i = n + 1
        BY <2>1 DEF n, all
    <2>2. CASE i \in 1..n
        <3>1. OpFlows(ops, branches, x, s, y, i)
            BY <1>1, <1>2, <2>2 DEF Flows
        <3>2. /\ all[i] = ops[i]
              /\ Place(all, x2, y2, i + 1) = Place(ops, x, y, i + 1)
              /\ SlotAt(all, s2, i + 1) = SlotAt(ops, s, i + 1)
            BY <1>2, <1>3, <2>2
        <3>3. SlotAt(ops, s, i + 1) =>
                 Place(all, x2, y2, i + 2) = Place(ops, x, y, i + 2)
            <4>1. CASE i = n
                BY <1>2, <1>4, <4>1 DEF SlotAt, n
            <4>2. CASE i # n
                BY <1>2, <1>3, <2>2, <4>2
            <4>3. QED  BY <4>1, <4>2
        <3>4. Kind(ops[i].addr) \in Delayed =>
                LET b == ops[i].branch
                IN  /\ more[b].at = branches[b].at /\ more[b].taken = branches[b].taken
                    /\ more[b].target = branches[b].target
            BY <1>2, <2>2 DEF SameBranches
        <3>5. QED  BY <3>1, <3>2, <3>3, <3>4 DEF OpFlows
    <2>3. QED  BY <1>2, <2>1, <2>2
<1>6. ASSUME NEW i \in DOMAIN all, i > 1 PROVE all[i].addr > start
    <2>1. CASE i \in 1..n
        BY <1>1, <1>2, <1>6, <2>1 DEF Flows
    <2>2. CASE i = n + 1
        BY <1>1, <1>2, <1>6, <2>2 DEF n
    <2>3. QED  BY <1>2, <2>1, <2>2
<1>7. Place(all, x2, y2, 1) = start /\ ~SlotAt(all, s2, 1)
    BY <1>1, <1>2, <1>3 DEF Flows
<1>8. QED  BY <1>5, <1>6, <1>7 DEF Flows, all

\* Recording leaves the path of the trace whole: what was ahead becomes its last op.
LEMMA RecordedFlows ==
    ASSUME CpuFits, TraceFits, Recording, TraceFlows, StepFlows, GuestKept,
           at = "trace", trace.active,
           NEW x, Kind(last.addr) # "eret" => x = IF delay = "EXEC" THEN target ELSE pc + 1
    PROVE  LET r == Recorded(last, game.code[last.addr], delay = "DO", target)
               n == Len(r.ops)
           IN  /\ Flows(r.ops, r.branches, trace.start, x, delay = "DO", target)
               /\ r.ops # <<>>
               /\ IF r.open = 0 THEN n > 0 => Kind(r.ops[n].addr) \notin Delayed
                  ELSE r.branches[r.open].at = n
               /\ delay = "DO" => r.exit = target
<1> DEFINE op == game.code[last.addr]
           n == Len(trace.ops)
           m == Len(trace.branches)
           taken == (delay = "DO")
           r == Recorded(last, op, taken, target)
           entry == r.ops[n + 1]
           new == Details(last, op, taken, target)
<1>1. /\ game \in Games /\ last.addr \in Addr /\ last.ver \in Nat /\ last.slot \in BOOLEAN
      /\ pc \in Int /\ target \in Int /\ delay \in {"NO", "DO", "EXEC"}
      /\ trace.start \in Addr /\ (trace.ops # <<>> => last.addr > trace.start)
      /\ trace.ops \in Seq(OpRecords) /\ trace.branches \in Seq(BranchRecords)
      /\ n \in Nat /\ m \in Nat /\ trace.open \in Nat
    BY DEF CpuFits, Recording, TraceFits, BranchesFit
<1>2. /\ op.kind = Kind(last.addr) /\ op.kind \in Straight \cup Branching
      /\ last.addr \in Nat /\ trace.start \in Nat
    <2>1. op.kind = Kind(last.addr)
        BY DEF Kind
    <2>2. Addr \subseteq Nat \ {0} /\ Kind(last.addr) \in Straight \cup Branching
        BY <1>1, GameFacts
    <2> HIDE DEF op
    <2>3. QED  BY <1>1, <2>1, <2>2
<1>3. IsBranch(op) <=> op.kind \in Branching
    BY <1>2 DEF IsBranch, Branching, Delayed
<1>4. /\ entry \in OpRecords /\ entry.addr = last.addr /\ entry.slot = last.slot
      /\ entry.branch = IF IsBranch(op) THEN m + 1 ELSE 0
      /\ r.ops = Append(trace.ops, entry)
      /\ r.branches \in Seq(BranchRecords)
      /\ DOMAIN r.branches = IF IsBranch(op) THEN 1..(m + 1) ELSE 1..m
      /\ \A b \in 1..m :
            /\ r.branches[b].kind = trace.branches[b].kind
            /\ r.branches[b].at = trace.branches[b].at
            /\ r.branches[b].taken = trace.branches[b].taken
            /\ r.branches[b].target = trace.branches[b].target
            /\ r.branches[b].slot = IF b = trace.open THEN n + 1 ELSE trace.branches[b].slot
      /\ IsBranch(op) => /\ r.branches[m + 1] = new /\ new.kind = op.kind /\ new.at = n + 1
      /\ r.open = IF IsBranch(op) THEN m + 1 ELSE 0
    BY <1>1, RecordedParts
<1>5. IsBranch(op) =>
        /\ new.slot = 0
        /\ new.taken <=> op.kind \in {"jump", "jr"} \/ (op.kind \in {"branch", "likely"} /\ taken)
        /\ op.kind \in {"jump", "jr"} => new.target = target
        /\ op.kind \in {"branch", "likely"} /\ taken => new.target = last.addr + 2
        /\ op.kind \in {"branch", "likely"} /\ ~taken => new.target = op.to
    BY DEF Details, IsConditional
<1>6. taken => r.exit = IF op.kind \in {"branch", "likely"} THEN op.to ELSE target
    <2>1. r.exit = ExitAfter(last, op, taken, target)
        BY RecordedFields
    <2>2. taken => op.kind \in Delayed
        BY <1>2 DEF StepFlows, Branching
    <2>3. QED  BY <2>1, <2>2 DEF ExitAfter, IsConditional, Delayed
<1>7. /\ op.kind \in Straight => pc = last.addr /\ delay = IF last.slot THEN "EXEC" ELSE "NO"
      /\ op.kind \notin Straight => ~last.slot /\ delay # "EXEC"
      /\ op.kind = "eret" => delay = "NO"
      /\ op.kind \in {"jump", "jr"} => taken
      /\ taken => pc = last.addr /\ (op.kind # "jr" => target = op.to)
      /\ op.kind \in {"branch", "likely"} /\ delay = "NO" =>
            pc = last.addr + (IF op.kind = "likely" THEN 1 ELSE 0)
      /\ delay # "NO" => target # 0
    BY <1>2 DEF StepFlows, GuestKept
<1>8. /\ Flows(trace.ops, trace.branches, trace.start, last.addr, last.slot, target)
      /\ trace.open # 0 => trace.branches[trace.open].at = n
    BY DEF TraceFlows, Ahead, AheadSlot
<1>9. Kind(last.addr) # "eret" => x = IF delay = "EXEC" THEN target ELSE pc + 1
    OBVIOUS
<1> DEFINE all == Append(trace.ops, entry)
<1> HIDE DEF op, r, entry, new, taken
<1>10. /\ Len(all) = n + 1 /\ all[n + 1] = entry /\ DOMAIN trace.ops = 1..n
       /\ \A i \in 1..n : all[i] = trace.ops[i]
    BY <1>1, <1>4
<1> HIDE DEF all, n, m
<1>11. OpFlows(all, r.branches, x, taken, target, n + 1)
    <2>1. /\ Place(all, x, target, n + 2) = x /\ Place(all, x, target, n + 3) = target
          /\ SlotAt(all, taken, n + 2) = taken
        BY <1>1, <1>10 DEF Place, SlotAt
    <2>2. n + 1 + 1 = n + 2 /\ n + 1 + 2 = n + 3
        BY <1>1
    <2>3. CASE op.kind \in Straight
        <3>1. op.kind \notin Delayed /\ op.kind # "eret"
            BY <2>3 DEF Straight, Delayed
        <3>2. pc = last.addr /\ delay = (IF last.slot THEN "EXEC" ELSE "NO") /\ ~taken
            BY <1>7, <2>3 DEF taken
        <3>3. last.slot => x # 0
            BY <1>2, <1>7, <1>9, <3>1, <3>2
        <3>4. ~last.slot => x = last.addr + 1
            BY <1>2, <1>9, <3>1, <3>2
        <3>5. QED
            BY <1>2, <1>4, <1>10, <2>1, <2>2, <2>3, <3>1, <3>2, <3>3, <3>4 DEF OpFlows
    <2>4. CASE op.kind = "eret"
        BY <1>1, <1>2, <1>4, <1>7, <1>10, <2>1, <2>2, <2>4
        DEF OpFlows, Straight, Delayed, taken
    <2>5. CASE op.kind \in Delayed
        <3>1. IsBranch(op) /\ r.branches[entry.branch] = new /\ new.at = n + 1
            BY <1>3, <1>4, <2>5 DEF Branching
        <3>2. /\ x = pc + 1 /\ ~last.slot /\ op.kind # "eret" /\ op.kind \notin Straight
            BY <1>2, <1>7, <1>9, <2>5 DEF Delayed, Straight
        <3>3. new.taken <=> taken
            BY <1>5, <1>7, <2>5, <3>1 DEF Delayed
        <3>4. taken => /\ x = last.addr + 1
                       /\ target = IF op.kind = "jr" THEN new.target ELSE op.to
            BY <1>1, <1>5, <1>7, <3>1, <3>2
        <3>5. ~taken => x = last.addr + (IF op.kind = "likely" THEN 2 ELSE 1)
            BY <1>1, <1>2, <1>7, <2>5, <3>2 DEF Delayed, taken
        <3>6. op.to = game.code[last.addr].to
            BY DEF op
        <3>7. all[n + 1] = entry /\ Kind(entry.addr) = op.kind /\ ~entry.slot
            BY <1>2, <1>4, <1>10, <3>2
        <3>8. SlotAt(all, taken, n + 2) <=> new.taken
            BY <2>1, <3>3
        <3>9. new.taken => /\ x = entry.addr + 1
                           /\ target = IF op.kind = "jr" THEN new.target
                                       ELSE game.code[entry.addr].to
            BY <1>4, <3>3, <3>4, <3>6
        <3>10. ~new.taken => x = entry.addr + (IF op.kind = "likely" THEN 2 ELSE 1)
            BY <1>4, <3>3, <3>5
        <3> HIDE DEF taken
        <3>11. QED
            BY <2>1, <2>2, <2>5, <3>1, <3>2, <3>7, <3>8, <3>9, <3>10 DEF OpFlows
    <2>6. QED  BY <1>2, <2>3, <2>4, <2>5 DEF Branching
<1>12. ASSUME NEW b \in DOMAIN r.branches PROVE BranchFlows(all, r.branches[b])
    <2>1. CASE b \in 1..m
        <3>1. /\ BranchFlows(trace.ops, trace.branches[b])
              /\ trace.branches[b].at \in 1..n
            BY <1>1, <1>8, <1>10, <2>1 DEF Flows, BranchesFlow, TraceFits, BranchesFit, m
        <3>2. all[trace.branches[b].at] = trace.ops[trace.branches[b].at]
            BY <1>10, <3>1
        <3>3. b = trace.open => trace.branches[b].at = n
            BY <1>1, <1>8, <2>1
        <3>4. /\ r.branches[b].kind = trace.branches[b].kind
              /\ r.branches[b].at = trace.branches[b].at
              /\ r.branches[b].taken = trace.branches[b].taken
              /\ r.branches[b].target = trace.branches[b].target
              /\ r.branches[b].slot \in {trace.branches[b].slot, trace.branches[b].at + 1}
            BY <1>4, <2>1, <3>3
        <3>5. QED  BY <3>1, <3>2, <3>4 DEF BranchFlows
    <2>2. CASE b = m + 1 /\ IsBranch(op)
        <3>1. r.branches[b] = new /\ new.kind = op.kind /\ all[new.at].addr = last.addr
            BY <1>4, <1>10, <2>2
        <3>2. QED  BY <1>5, <1>7, <2>2, <3>1 DEF BranchFlows, op
    <2>3. QED  BY <1>1, <1>4, <2>1, <2>2
<1>13. ASSUME NEW i \in DOMAIN trace.ops, Kind(trace.ops[i].addr) \in Delayed
       PROVE  LET b == trace.ops[i].branch
              IN  /\ r.branches[b].at = trace.branches[b].at
                  /\ r.branches[b].taken = trace.branches[b].taken
                  /\ r.branches[b].target = trace.branches[b].target
    <2>1. trace.ops[i].branch \in DOMAIN trace.branches
        BY <1>13 DEF TraceFits, BranchesFit, Branching
    <2>2. trace.ops[i].branch \in 1..m
        BY <1>1, <2>1 DEF m
    <2>3. QED  BY <1>4, <2>2
<1>14. last.slot => x = target
    BY <1>2, <1>7, <1>9 DEF Straight
<1>15. Flows(all, r.branches, trace.start, x, taken, target)
    <2>1. trace.ops # <<>> => last.addr > trace.start
        BY <1>1
    <2>2. SameBranches(trace.ops, trace.branches, r.branches)
        BY <1>13 DEF SameBranches
    <2>3. /\ OpFlows(Append(trace.ops, entry), r.branches, x, taken, target, Len(trace.ops) + 1)
          /\ BranchesFlow(Append(trace.ops, entry), r.branches)
        BY <1>11, <1>12 DEF all, n, BranchesFlow
    <2>4. /\ trace.ops \in Seq(OpRecords) /\ trace.start \in Int /\ last.addr \in Int
          /\ last.slot \in BOOLEAN /\ entry \in OpRecords
          /\ entry.addr = last.addr /\ entry.slot = last.slot
        BY <1>1, <1>2, <1>4
    <2>5. /\ Flows(trace.ops, trace.branches, trace.start, entry.addr, entry.slot, target)
          /\ (trace.ops # <<>> => entry.addr > trace.start)
          /\ (entry.slot => x = target) /\ entry.addr \in Int /\ entry.slot \in BOOLEAN
        BY <1>8, <1>14, <2>1, <2>4
    <2>6. Flows(Append(trace.ops, entry), r.branches, trace.start, x, taken, target)
        BY <2>2, <2>3, <2>4, <2>5, FlowAppend
    <2>7. QED  BY <2>6 DEF all
<1>16. IF r.open = 0 THEN Kind(entry.addr) \notin Delayed ELSE r.branches[r.open].at = n + 1
    BY <1>1, <1>2, <1>3, <1>4 DEF Branching
<1>17. r.ops = all /\ all # <<>> /\ Len(r.ops) = n + 1 /\ r.ops[n + 1] = entry
    BY <1>1, <1>4, <1>10 DEF all
<1>18. taken => r.exit = target
    BY <1>6, <1>7
<1>19. QED  BY <1>15, <1>16, <1>17, <1>18 DEF r, op, taken

\* A game leads nowhere but to addresses.
LEMMA GameLeads ==
    ASSUME game \in Games
    PROVE  /\ \A a \in Addr : Kind(a) \in {"branch", "likely", "jump"} => game.code[a].to # 0
           /\ \A a \in game.returns : a # 0
BY DynarecAssumption DEF IsGame, Addr, Kind

\* So is a trace while what is ahead of it stays.
LEMMA TraceFlowsStay ==
    ASSUME TraceFlows, trace' = trace, game' = game,
           trace.active => Ahead' = Ahead /\ AheadSlot' = AheadSlot /\ target' = target
    PROVE  TraceFlows'
<1> SUFFICES ASSUME trace.active
             PROVE  /\ Flows(trace.ops, trace.branches, trace.start, Ahead, AheadSlot, target)'
                    /\ LET n == Len(trace.ops)
                       IN  IF trace.open = 0 THEN n > 0 => Kind(trace.ops[n].addr)' \notin Delayed
                           ELSE trace.branches[trace.open].at = n
                    /\ AheadSlot' => trace.exit = target'
    BY DEF TraceFlows
<1>1. Flows(trace.ops, trace.branches, trace.start, Ahead, AheadSlot, target)'
    BY FlowsStay DEF TraceFlows
<1>2. QED  BY <1>1 DEF TraceFlows, Kind

\* Without a trace there is nothing to show.
LEMMA TraceFlowsGone == ASSUME ~trace'.active PROVE TraceFlows'
BY DEF TraceFlows

\* The invariant holds at first, and every step keeps it: one lemma per action.
LEMMA FlowInit == Init => FlowInv
<1> SUFFICES ASSUME Init PROVE FlowInv  OBVIOUS
<1>1. Entries = {} /\ at = "op" /\ delay = "NO" /\ jobs = {} /\ trace = NoTrace
    BY DEF Init, CacheInit, Entries
<1>2. QED  BY <1>1, NoTraceIdle DEF FlowInv, FragmentsFlow, TraceFlows, StepFlows, GuestKept

\* The op that is executed becomes the one ahead of the trace.
LEMMA ExecuteFlows ==
    ASSUME DynInv, FlowInv, Execute
    PROVE  FlowInv'
<1>1. /\ at = "op" /\ jobs = {} /\ pc \in Addr /\ game' = game
      /\ last' = IF core = "traced"
                 THEN [addr |-> pc, slot |-> delay = "EXEC", ver |-> ver[pc]] ELSE NoOp
      /\ at' = IF core = "traced" THEN "trace" ELSE "count"
      /\ UNCHANGED <<trace, core>> /\ fragments' = fragments
    BY DEF Execute, ExecuteStraight, TakeBranch, PassBranch, ExecuteEret, Interpret, cores,
        cacheVars
<1>2. /\ game \in Games /\ (\A a : Kind(a)' = Kind(a)) /\ pc \in Nat
      /\ delay \in {"NO", "EXEC"} /\ (delay = "EXEC" => Kind(pc) \in Straight)
      /\ core \in {"plain", "traced"}
    BY <1>1, GameFacts DEF DynInv, CpuFits, Kind
<1>3. \/ /\ Kind(pc) \in Straight /\ UNCHANGED <<pc, target, delay, exl>>
         /\ ("INTERRUPTS" \in jobs' => ~exl)
      \/ /\ Kind(pc) \in Delayed /\ (Kind(pc) # "jr" => target' = game.code[pc].to)
         /\ target' # 0 /\ delay' = "DO" /\ UNCHANGED <<pc, jobs>>
      \/ /\ Kind(pc) \in {"branch", "likely"}
         /\ pc' = (IF Kind(pc) = "likely" THEN pc + 1 ELSE pc)
         /\ UNCHANGED <<target, delay, jobs>>
      \/ /\ Kind(pc) = "eret" /\ delay' = "NO" /\ UNCHANGED <<target, jobs>>
    <2>1. CASE ExecuteStraight
        BY <1>1, <2>1 DEF ExecuteStraight, Effect, Interrupts
    <2>2. CASE TakeBranch
        BY <1>1, <1>2, <2>2, GameLeads DEF TakeBranch, Delayed
    <2>3. CASE PassBranch
        BY <2>3 DEF PassBranch
    <2>4. CASE ExecuteEret
        BY <2>4 DEF ExecuteEret
    <2>5. QED  BY <2>1, <2>2, <2>3, <2>4 DEF Execute
<1>4. FragmentsFlow'
    BY <1>1, FragmentsFlowStay DEF FlowInv
<1>5. TraceFlows'
    <2>1. SUFFICES ASSUME trace.active PROVE TraceFlows'
        BY <1>1, TraceFlowsGone
    <2>2. core = "traced" /\ at' = "trace" /\ last'.addr = pc /\ last'.slot = (delay = "EXEC")
        BY <1>1, <1>2, <2>1 DEF DynInv, Recording
    <2>3. Ahead' = Ahead /\ AheadSlot' = AheadSlot /\ AheadSlot = (delay = "EXEC")
        BY <1>1, <2>2 DEF Ahead, AheadSlot
    <2>4. CASE target' = target
        BY <1>1, <2>3, <2>4, TraceFlowsStay DEF FlowInv
    <2>5. CASE target' # target
        <3>1. delay = "NO"
            BY <1>2, <1>3, <2>5 DEF Straight, Delayed
        <3>2. AheadSlot = FALSE /\ trace.ops \in Seq(OpRecords)
            BY <2>3, <3>1 DEF DynInv, TraceFits, BranchesFit
        <3>3. Flows(trace.ops, trace.branches, trace.start, Ahead, FALSE, target)
            BY <2>1, <3>2 DEF FlowInv, TraceFlows
        <3>4. Flows(trace.ops, trace.branches, trace.start, Ahead, FALSE, target')
            BY <3>2, <3>3, FlowsOn
        <3>5. Flows(trace.ops, trace.branches, trace.start, Ahead, AheadSlot, target)'
            BY <1>1, <2>3, <3>2, <3>4, FlowsStay
        <3>6. QED  BY <1>1, <1>2, <2>1, <2>3, <3>2, <3>5 DEF FlowInv, TraceFlows
    <2>6. QED  BY <2>4, <2>5
<1>6. StepFlows'
    <2>1. SUFFICES ASSUME at' = "trace" PROVE StepFlows'
        BY DEF StepFlows
    <2>2. last'.addr = pc /\ last'.slot = (delay = "EXEC")
        BY <1>1, <2>1
    <2>3. Kind(last.addr)' = Kind(pc) /\ game' = game
        BY <1>1, <2>2 DEF Kind
    <2> DEFINE k == Kind(pc)
               slot == last'.slot
    <2>4. /\ k \in Straight => pc' = pc /\ delay' = (IF slot THEN "EXEC" ELSE "NO")
          /\ k \notin Straight => ~slot /\ delay' # "EXEC"
        BY <1>2, <1>3, <2>2 DEF Straight, Delayed
    <2>5. /\ k = "eret" => delay' = "NO"
          /\ k \in {"jump", "jr"} => delay' = "DO"
          /\ delay' = "DO" => pc' = pc /\ (k # "jr" => target' = game.code[pc].to)
          /\ k \in {"branch", "likely"} /\ delay' = "NO" =>
                pc' = pc + (IF k = "likely" THEN 1 ELSE 0)
        BY <1>2, <1>3 DEF Straight, Delayed
    <2> HIDE DEF k, slot
    <2>6. QED  BY <2>2, <2>3, <2>4, <2>5 DEF StepFlows, k, slot
<1>7. GuestKept'
    <2>1. target # 0 \/ delay = "NO"
        BY <1>1 DEF FlowInv, GuestKept
    <2>2. delay' # "NO" => target' # 0
        BY <1>1, <1>2, <1>3, <2>1
    <2>3. "INTERRUPTS" \in jobs' => ~exl'
        BY <1>1, <1>3
    <2>4. at' # "frag"
        BY <1>1
    <2>5. QED  BY <2>2, <2>3, <2>4 DEF GuestKept
<1>8. QED  BY <1>4, <1>5, <1>6, <1>7 DEF FlowInv

\* A new fragment whose path is whole.
LEMMA InsertFlows ==
    ASSUME FragmentsFlow, NEW e, NEW f, NEW seen, Insert(e, f, seen), FragmentFlows(e, f),
           game' = game
    PROVE  FragmentsFlow'
<1>1. fragments' = [a \in Entries \cup {e} |-> IF a = e THEN f ELSE fragments[a]]
    BY DEF Insert
<1>2. ASSUME NEW a \in Entries' PROVE FragmentFlows(a, fragments[a])'
    <2>1. FragmentFlows(a, fragments'[a])
        BY <1>1 DEF Entries, FragmentsFlow
    <2>2. QED  BY <2>1, FlowsStay DEF FragmentFlows
<1>3. QED  BY <1>2 DEF FragmentsFlow

\* Behind an op that is no branch nothing waits for a slot.
LEMMA ClosedAhead ==
    ASSUME CpuFits, TraceFits, TraceFlows, trace.active, trace.open = 0
    PROVE  ~AheadSlot /\ Flows(trace.ops, trace.branches, trace.start, Ahead, FALSE, 0)
<1> DEFINE n == Len(trace.ops)
<1>1. /\ trace.ops \in Seq(OpRecords) /\ n \in Nat
      /\ Flows(trace.ops, trace.branches, trace.start, Ahead, AheadSlot, target)
      /\ n > 0 => Kind(trace.ops[n].addr) \notin Delayed
    BY DEF TraceFits, BranchesFit, TraceFlows
<1>2. SlotAt(trace.ops, AheadSlot, n + 1) = AheadSlot
    BY <1>1 DEF SlotAt
<1>3. ~SlotAt(trace.ops, AheadSlot, n + 1)
    <2>1. CASE n = 0
        BY <1>1, <2>1 DEF Flows
    <2>2. CASE n > 0
        <3>1. OpFlows(trace.ops, trace.branches, Ahead, AheadSlot, target, n)
            BY <1>1, <2>2 DEF Flows
        <3>2. QED  BY <1>1, <2>2, <3>1 DEF OpFlows
    <2>3. QED  BY <1>1, <2>1, <2>2
<1>4. AheadSlot = FALSE
    <2>1. AheadSlot \in BOOLEAN
        BY DEF AheadSlot, CpuFits
    <2>2. QED  BY <1>2, <1>3, <2>1
<1>5. QED  BY <1>1, <1>4, FlowsOn

\* It is recorded, or the trace has ended and becomes a fragment.
LEMMA UpdateFlows ==
    ASSUME DynInv, CoreInv, FlowInv, UpdateTrace
    PROVE  FlowInv'
<1> DEFINE op == game.code[last.addr]
           r == Recorded(last, op, delay = "DO", target)
           next == IF delay = "EXEC" THEN target ELSE pc + 1
<1>1. /\ at = "trace" /\ at' = "count" /\ game' = game /\ todo = {}
      /\ UNCHANGED <<pc, target, delay, exl>> /\ jobs' \subseteq jobs \cup {"CHANGE_CORE"}
      /\ trace.active /\ core # "plain"
    BY DEF UpdateTrace, memory, KeepTrace, EndTrace, SelectCore, CoreInv, DynInv,
        CpuFits, Recording, Registering
<1>2. /\ CpuFits /\ TraceFits /\ Recording /\ TraceFlows /\ StepFlows /\ GuestKept
      /\ game \in Games /\ last.addr \in Addr /\ trace.start \in Addr
      /\ trace.start \notin Entries
      /\ trace.ops = <<>> => last.addr = trace.start
    BY <1>1 DEF DynInv, FlowInv, CpuFits, Recording
<1>3. op.kind = Kind(last.addr) /\ op.kind \in Straight \cup Branching
    <2>1. Kind(last.addr) \in Straight \cup Branching
        BY <1>2, GameFacts
    <2>2. QED  BY <2>1 DEF Kind
<1>4. /\ r.start = trace.start
      /\ r.active <=> ~(trace.stopAfter /\ last.slot) /\ op.kind # "eret"
      /\ r.exit = ExitAfter(last, op, delay = "DO", target)
    BY <1>2, RecordedFields
<1>5. ASSUME NEW x, Kind(last.addr) # "eret" => x = next
      PROVE  /\ Flows(r.ops, r.branches, trace.start, x, delay = "DO", target)
             /\ r.ops # <<>>
             /\ IF r.open = 0 THEN Len(r.ops) > 0 => Kind(r.ops[Len(r.ops)].addr) \notin Delayed
                ELSE r.branches[r.open].at = Len(r.ops)
             /\ delay = "DO" => r.exit = target
    BY <1>1, <1>2, <1>5, RecordedFlows
<1>6. r.ops \in Seq(OpRecords)
    <2>1. last.ver \in Nat /\ last.slot \in BOOLEAN /\ target \in Int
        BY <1>1, <1>2 DEF CpuFits
    <2>2. BranchesFit(r.ops, r.branches, r.open)
        BY <1>2, <2>1, RecordedFits
    <2>3. QED  BY <2>2 DEF BranchesFit
<1> HIDE DEF r, op
<1>7. StepFlows' /\ GuestKept'
    BY <1>1, <1>2 DEF StepFlows, GuestKept
<1>8. CASE KeepTrace
    <2>1. trace' = r /\ r.active /\ fragments' = fragments
        BY <1>8 DEF KeepTrace, r, op
    <2>2. FragmentsFlow'
        BY <1>1, <2>1, FragmentsFlowStay DEF FlowInv
    <2>3. Ahead' = next /\ AheadSlot' = (delay = "DO")
        BY <1>1 DEF Ahead, AheadSlot
    <2> HIDE DEF next
    <2>4. Flows(r.ops, r.branches, trace.start, next, delay = "DO", target)
        BY <1>5
    <2>5. Flows(trace.ops, trace.branches, trace.start, Ahead, AheadSlot, target)'
        BY <1>1, <1>4, <2>1, <2>3, <2>4, FlowsStay
    <2>6. \A a : Kind(a)' = Kind(a)
        BY <1>1 DEF Kind
    <2>7. TraceFlows'
        BY <1>1, <1>5, <2>1, <2>3, <2>5, <2>6 DEF TraceFlows
    <2>8. QED  BY <1>7, <2>2, <2>7 DEF FlowInv
<1>9. CASE EndTrace
    <2> DEFINE hit == StopsBefore(Lookup(last.addr) # NoFragment)
               t == IF hit THEN StopTrace(last.addr) ELSE r
               f == FragmentOf(t, game.loop, Stale(t.ops))
    <2>1. ~t.active /\ CreateAndAddFragment(t, last.addr)
        BY <1>9 DEF EndTrace, r, op
    <2>2. /\ t.start = trace.start /\ t.ops # <<>>
          /\ Flows(t.ops, t.branches, trace.start, t.exit, FALSE, 0)
        <3>1. CASE hit
            <4>1. /\ t.ops = trace.ops /\ t.branches = trace.branches /\ t.exit = last.addr
                  /\ t.start = trace.start
                BY <1>2, <3>1 DEF StopTrace, TraceFits
            <4>2. Flows(trace.ops, trace.branches, trace.start, last.addr, FALSE, 0)
                BY <1>1, <1>2, <3>1, ClosedAhead DEF StopsBefore, Ahead
            <4>3. trace.ops # <<>>
                <5>1. SUFFICES ASSUME trace.ops = <<>> PROVE FALSE
                    OBVIOUS
                <5>2. last.addr \in Int
                    BY <1>2, GameFacts
                <5>3. Lookup(last.addr) = NoFragment
                    BY <1>1, <1>2, <5>1, <5>2, IdleLookupRight
                    DEF DynInv, CacheGood, CacheInv, Truth
                <5>4. Len(trace.ops) = 0 /\ MaxTrace \in Nat
                    BY <5>1, TraceAssumption
                <5>5. QED  BY <3>1, <5>3, <5>4 DEF StopsBefore
            <4> HIDE DEF t
            <4>4. QED  BY <4>1, <4>2, <4>3
        <3>2. CASE ~hit /\ op.kind = "eret"
            <4>1. t = r
                BY <3>2
            <4>2. delay # "DO"
                BY <1>1, <1>2, <1>3, <3>2 DEF StepFlows
            <4>3. /\ Flows(r.ops, r.branches, trace.start, r.exit, delay = "DO", target)
                  /\ r.ops # <<>>
                BY <1>3, <1>5, <3>2
            <4>4. Flows(r.ops, r.branches, trace.start, r.exit, FALSE, target)
                BY <4>2, <4>3
            <4>5. QED  BY <1>4, <1>6, <4>1, <4>3, <4>4, FlowsOn
        <3>3. CASE ~hit /\ op.kind # "eret"
            <4>1. t = r
                BY <3>3
            <4>2. last.slot
                BY <1>4, <2>1, <3>3, <4>1
            <4>3. op.kind \in Straight /\ delay = "EXEC"
                BY <1>1, <1>2, <1>3, <4>2 DEF StepFlows
            <4>4. r.exit = trace.exit /\ trace.exit = target
                BY <1>1, <1>2, <1>4, <4>2, <4>3
                DEF ExitAfter, IsConditional, Straight, TraceFlows, AheadSlot
            <4>5. Flows(r.ops, r.branches, trace.start, r.exit, FALSE, target) /\ r.ops # <<>>
                BY <1>5, <4>3, <4>4
            <4>6. QED  BY <1>4, <1>6, <4>1, <4>5, FlowsOn
        <3>4. QED  BY <3>1, <3>2, <3>3
    <2>3. f.ops = t.ops /\ f.branches = t.branches /\ f.exit = t.exit
        BY DEF FragmentOf
    <2>4. FragmentFlows(trace.start, f)
        BY <2>2, <2>3 DEF FragmentFlows
    <2>5. Insert(trace.start, f, last.addr) /\ trace' = NoTrace
        BY <2>1, <2>2 DEF CreateAndAddFragment
    <2>6. FragmentsFlow'
        BY <1>1, <2>4, <2>5, InsertFlows DEF FlowInv
    <2>7. QED  BY <1>7, <2>5, <2>6, TraceFlowsGone, NoTraceIdle DEF FlowInv
<1>10. QED  BY <1>8, <1>9 DEF UpdateTrace

\* The next PC is the address that was ahead.
LEMMA CountFlows ==
    ASSUME DynInv, FlowInv, Count
    PROVE  FlowInv'
<1>1. /\ at = "count" /\ game' = game /\ trace' = trace /\ fragments' = fragments
      /\ UNCHANGED <<target, exl>> /\ jobs' \subseteq jobs \cup Interrupts
      /\ \/ delay = "DO" /\ pc' = pc + 1 /\ delay' = "EXEC" /\ at' = "op"
         \/ delay = "EXEC" /\ pc' = target /\ delay' = "NO" /\ at' = "branch"
         \/ delay \notin {"DO", "EXEC"} /\ pc' = pc + 1 /\ delay' = delay /\ at' = "op"
    BY DEF Count, memory, cacheVars
<1>2. FragmentsFlow'
    BY <1>1, FragmentsFlowStay DEF FlowInv
<1>3. Ahead' = Ahead
    BY <1>1 DEF Ahead
<1>4. AheadSlot' = AheadSlot
    BY <1>1 DEF AheadSlot
<1>5. TraceFlows'
    BY <1>1, <1>3, <1>4, TraceFlowsStay DEF FlowInv
<1>6. StepFlows' /\ GuestKept'
    BY <1>1 DEF FlowInv, StepFlows, GuestKept, Interrupts
<1>7. QED  BY <1>2, <1>5, <1>6 DEF FlowInv

\* A job ends the trace unless it only changes the core.
LEMMA JobFlows ==
    ASSUME DynInv, CoreInv, FlowInv, CheckStuffToDo
    PROVE  FlowInv'
<1>1. /\ at = "op" /\ at' = "op" /\ game' = game /\ fragments' = fragments
      /\ target' = target
      /\ trace' = IF Aborts THEN NoTrace ELSE trace
    BY DEF CheckStuffToDo, ServeInterrupt, ServeException, ChangeCore, GiveUpTrace, memory,
        cacheVars
<1>2. \/ delay' = "NO" /\ "INTERRUPTS" \notin jobs' /\ jobs # {"CHANGE_CORE"}
      \/ UNCHANGED <<pc, delay>> /\ jobs' = {}
    <2>1. CASE ServeInterrupt \/ ServeException
        BY <2>1 DEF ServeInterrupt, ServeException, GiveUpTrace, JumpToInterruptVector
    <2>2. CASE ChangeCore
        BY <2>2 DEF ChangeCore, GiveUpTrace, CoreInv, Aborts
    <2>3. QED  BY <2>1, <2>2 DEF CheckStuffToDo
<1>3. FragmentsFlow'
    BY <1>1, FragmentsFlowStay DEF FlowInv
<1>4. StepFlows' /\ GuestKept'
    BY <1>1, <1>2 DEF FlowInv, StepFlows, GuestKept
<1>5. TraceFlows'
    <2>1. CASE Aborts
        BY <1>1, <2>1, TraceFlowsGone, NoTraceIdle
    <2>2. CASE ~Aborts /\ ~trace.active
        BY <1>1, <2>2, TraceFlowsGone
    <2>3. CASE ~Aborts /\ trace.active
        <3>1. UNCHANGED <<pc, delay>>
            BY <1>1, <1>2, <2>3 DEF DynInv, CpuFits, Recording, Aborts
        <3>2. Ahead' = Ahead /\ AheadSlot' = AheadSlot
            BY <1>1, <3>1 DEF Ahead, AheadSlot
        <3>3. QED  BY <1>1, <2>3, <3>2, TraceFlowsStay DEF FlowInv
    <2>4. QED  BY <2>1, <2>2, <2>3
<1>6. QED  BY <1>3, <1>4, <1>5 DEF FlowInv

\* The interpreter goes on with the trace, if there is one.
LEMMA ReturnFlows ==
    ASSUME DynInv, FlowInv, StopDispatching \/ LeaveAlone
    PROVE  FlowInv'
<1>1. /\ at = "branch" /\ at' = "op" /\ game' = game /\ fragments' = fragments
      /\ UNCHANGED <<trace, pc, target, delay, exl>> /\ jobs' \subseteq jobs \cup {"CHANGE_CORE"}
    BY DEF StopDispatching, LeaveAlone, Dispatching, ReturnFromBranch, SelectCore, memory,
        cacheVars
<1>2. FragmentsFlow'
    BY <1>1, FragmentsFlowStay DEF FlowInv
<1>3. Ahead' = Ahead /\ AheadSlot' = AheadSlot
    BY <1>1 DEF Ahead, AheadSlot
<1>4. TraceFlows'
    BY <1>1, <1>3, TraceFlowsStay DEF FlowInv
<1>5. StepFlows' /\ GuestKept'
    BY <1>1 DEF FlowInv, StepFlows, GuestKept
<1>6. QED  BY <1>2, <1>4, <1>5 DEF FlowInv

\* A trace that starts has nothing but its start ahead of it.
LEMMA CountHeatFlows ==
    ASSUME DynInv, FlowInv, CountHeat
    PROVE  FlowInv'
<1>1. /\ at = "branch" /\ at' = "op" /\ game' = game /\ delay = "NO" /\ ~trace.active
      /\ UNCHANGED <<pc, target, delay, exl>> /\ jobs' \subseteq jobs \cup {"CHANGE_CORE"}
    BY DEF CountHeat, Dispatching, ReturnFromBranch, SelectCore, memory
<1>2. Clear \/ fragments' = fragments
    BY DEF CountHeat
<1>3. trace' = trace \/ trace' = StartTrace(pc)
    BY DEF CountHeat
<1>4. FragmentsFlow'
    BY <1>1, <1>2, FragmentsFlowStay DEF FlowInv, Clear, FragmentsFlow, Entries
<1>5. StepFlows' /\ GuestKept'
    BY <1>1 DEF FlowInv, StepFlows, GuestKept
<1>6. CASE trace' = trace
    BY <1>1, <1>4, <1>5, <1>6, TraceFlowsGone DEF FlowInv
<1>7. CASE trace' = StartTrace(pc)
    <2>1. /\ NoTrace.ops = <<>> /\ NoTrace.branches = <<>> /\ NoTrace.open = 0
          /\ DOMAIN NoTrace =
                {"active", "start", "ops", "branches", "exit", "open", "stopAfter"}
        BY DEF NoTrace
    <2>2. /\ trace'.ops = <<>> /\ trace'.branches = <<>> /\ trace'.open = 0
          /\ trace'.start = pc
        BY <1>7, <2>1 DEF StartTrace
    <2>3. Ahead' = pc /\ AheadSlot' = FALSE
        BY <1>1 DEF Ahead, AheadSlot
    <2>4. Flows(<<>>, <<>>, pc, pc, FALSE, target)
        BY DEF Flows, BranchesFlow, Place, SlotAt
    <2>5. Flows(trace.ops, trace.branches, trace.start, Ahead, AheadSlot, target)'
        BY <1>1, <2>2, <2>3, <2>4, FlowsStay
    <2>6. TraceFlows'
        BY <2>2, <2>3, <2>5 DEF TraceFlows
    <2>7. QED  BY <1>4, <1>5, <2>6 DEF FlowInv
<1>8. QED  BY <1>3, <1>6, <1>7

\* A trace that ends in front of a fragment leads to its entry.
LEMMA DispatchFlows ==
    ASSUME DynInv, CoreInv, FlowInv, Dispatch
    PROVE  FlowInv'
<1>1. /\ at = "branch" /\ at' = "frag" /\ game' = game /\ delay = "NO" /\ here'.branch = 0
      /\ UNCHANGED <<pc, target, delay, exl, jobs>>
    BY DEF Dispatch, Dispatching, Enter, memory, cpu
<1>2. StepFlows' /\ GuestKept'
    BY <1>1 DEF FlowInv, StepFlows, GuestKept
<1>3. CASE trace.active
    <2> DEFINE t == StopTrace(pc)
               f == FragmentOf(t, game.loop, Stale(t.ops))
    <2>1. trace.open = 0 /\ trace.ops # <<>>
        BY <1>1, <1>3 DEF DynInv, Recording
    <2>2. t.ops = trace.ops /\ t.branches = trace.branches /\ t.exit = pc /\ t.start = trace.start
        BY DEF StopTrace, DynInv, TraceFits
    <2>3. Ahead = pc
        BY <1>1 DEF Ahead
    <2>4. Flows(trace.ops, trace.branches, trace.start, pc, FALSE, 0)
        BY <1>3, <2>1, <2>3, ClosedAhead DEF FlowInv, DynInv
    <2>5. f.ops = t.ops /\ f.branches = t.branches /\ f.exit = t.exit
        BY DEF FragmentOf
    <2>6. FragmentFlows(trace.start, f)
        BY <2>1, <2>2, <2>4, <2>5 DEF FragmentFlows
    <2>7. Insert(trace.start, f, pc) /\ trace' = NoTrace
        BY <1>3, <2>2 DEF Dispatch, CreateAndAddFragment
    <2>8. FragmentsFlow'
        BY <1>1, <2>6, <2>7, InsertFlows DEF FlowInv
    <2>9. QED  BY <1>2, <2>7, <2>8, TraceFlowsGone, NoTraceIdle DEF FlowInv
<1>4. CASE ~trace.active
    <2>1. fragments' = fragments /\ trace' = trace
        BY <1>4 DEF Dispatch
    <2>2. QED
        BY <1>1, <1>2, <1>4, <2>1, FragmentsFlowStay, TraceFlowsGone DEF FlowInv
<1>5. QED  BY <1>3, <1>4

\* In a fragment nothing is recorded, and the fragments stay.
LEMMA RunFlows ==
    ASSUME DynInv, FlowInv, at = "frag", trace' = trace, fragments' = fragments,
           game' = game, at' # "trace"
    PROVE  FragmentsFlow' /\ TraceFlows' /\ StepFlows'
<1>1. ~trace.active
    BY DEF DynInv, Recording
<1>2. QED
    BY <1>1, FragmentsFlowStay, TraceFlowsGone DEF FlowInv, StepFlows

\* The branch whose handler runs.
LEMMA HandlerFlows ==
    ASSUME DynInv, FlowInv, at = "frag", here.branch # 0
    PROVE  /\ BranchFlows(Fragment.ops, Details_)
           /\ Fragment.ops[Details_.at].addr \in Addr
           /\ Kind(Fragment.ops[Details_.at].addr) = Details_.kind
           /\ Details_ \in BranchRecords
<1>1. here.entry \in Entries /\ here.branch \in DOMAIN Fragment.branches
    BY DEF DynInv, HereFits
<1>2. FragmentFlows(here.entry, Fragment)
    BY <1>1 DEF FlowInv, FragmentsFlow, Fragment
<1>3. QED
    BY <1>1, <1>2, PlaceFits DEF FragmentFlows, Flows, BranchesFlow, Details_

\* Inside a fragment only the registers change.
LEMMA RunStraightFlows ==
    ASSUME DynInv, CoreInv, FlowInv, RunStraight
    PROVE  FlowInv'
<1>1. /\ at = "frag" /\ trace' = trace /\ fragments' = fragments /\ game' = game /\ jobs = {}
      /\ UNCHANGED <<target, exl>>
    BY DEF RunStraight, Running, Unrecorded, cacheVars, CoreInv
<1>2. \/ at' = "branch" /\ delay' = "NO"
      \/ at' = "frag" /\ here'.branch = here.branch /\ here'.entry = here.entry
    <2>1. \/ Leave(Op.addr, IF Op.slot THEN "EXEC" ELSE delay)
          \/ UNCHANGED at /\ here' = [here EXCEPT !.i = @ + 1]
        BY DEF RunStraight
    <2>2. delay # "DO" /\ here \in [entry : Int, i : Nat, branch : Nat]
        BY <1>1 DEF DynInv, CpuFits, HereFits
    <2>3. QED  BY <1>1, <2>1, <2>2 DEF Leave
<1>3. "INTERRUPTS" \in jobs' => ~exl'
    BY <1>1 DEF RunStraight, Effect, Interrupts
<1>4. GuestKept'
    BY <1>1, <1>2, <1>3 DEF FlowInv, GuestKept, Details_, Fragment
<1>5. QED  BY <1>1, <1>2, <1>4, RunFlows DEF FlowInv

\* A jump through a register that leaves the trace has a target.
LEMMA RunBranchFlows ==
    ASSUME DynInv, CoreInv, FlowInv, RunBranch
    PROVE  FlowInv'
<1>1. /\ at = "frag" /\ at' = "frag" /\ trace' = trace /\ fragments' = fragments
      /\ game' = game /\ jobs = {} /\ jobs' = {} /\ OnTrace
    BY DEF RunBranch, Running, Unrecorded, cacheVars, CoreInv
<1>2. here'.branch # 0 => here' = Handler(Op.branch)
    BY <1>1 DEF RunBranch, Follow, OnTrace, DynInv, HereFits
<1>3. ASSUME here'.branch # 0, Details_'.kind = "jr"
      PROVE  target' # 0
    <2>1. game \in Games
        BY DEF DynInv, CpuFits
    <2>2. Kind(Op.addr) # "jr" => Kind(Op.addr) \in {"branch", "likely", "eret"}
        BY <1>1, <1>2, <1>3 DEF RunBranch, Follow, OnTrace, DynInv, HereFits
    <2>3. here'.branch = Op.branch /\ here'.entry = here.entry
        <3> DEFINE b == Op.branch
                   n == IF Fragment.branches[b].kind \in {"likely", "eret"} THEN 1 ELSE 0
        <3>1. here' = [here EXCEPT !.branch = b, !.i = n]
            BY <1>2, <1>3 DEF Handler
        <3>2. here \in [entry : Int, i : Nat, branch : Nat]
            BY DEF DynInv, HereFits
        <3> HIDE DEF b, n
        <3>3. here'.branch = b /\ here'.entry = here.entry
            BY <3>1, <3>2
        <3>4. QED  BY <3>3 DEF b
    <2>4. Details_' = Fragment.branches[Op.branch]
        BY <1>1, <2>3 DEF Details_, Fragment
    <2>5. Kind(Op.addr) = "jr"
        BY <1>1, <1>3, <2>2, <2>4, OpFits DEF Branching, Delayed, AtExit
    <2>6. QED  BY <2>1, <2>5, GameLeads DEF RunBranch
<1>4. GuestKept'
    BY <1>1, <1>3 DEF GuestKept
<1>5. QED  BY <1>1, <1>4, RunFlows DEF FlowInv

\* Behind an exit the thread is in the interpreter or at the top of a fragment.
LEMMA LeaveFlows ==
    ASSUME DynInv, CoreInv, FlowInv, LeaveDirectly \/ LeaveLoop \/ LeaveIndirectly
    PROVE  FlowInv'
<1>1. /\ at = "frag" /\ trace' = trace /\ fragments' = fragments /\ game' = game /\ jobs = {}
      /\ exl' = exl /\ jobs' \subseteq Interrupts
    <2>1. at = "frag" /\ jobs = {}
        BY DEF LeaveDirectly, LeaveLoop, LeaveIndirectly, Running, CoreInv
    <2>2. CASE LeaveDirectly
        BY <2>1, <2>2 DEF LeaveDirectly, Unrecorded, cacheVars
    <2>3. CASE LeaveLoop
        BY <2>1, <2>3 DEF LeaveLoop, Unrecorded, cacheVars
    <2>4. CASE LeaveIndirectly
        BY <2>1, <2>4 DEF LeaveIndirectly, memory
    <2>5. QED  BY <2>1, <2>2, <2>3, <2>4
<1>2. at' = "branch" \/ (at' = "frag" /\ here'.branch = 0)
    <2>1. ASSUME NEW to, GoOn(to) PROVE at' = "branch" \/ (at' = "frag" /\ here'.branch = 0)
        BY <2>1 DEF GoOn, Enter
    <2>2. LeaveDirectly \/ LeaveIndirectly => \E to : GoOn(to)
        BY DEF LeaveDirectly, LeaveIndirectly
    <2>3. LeaveLoop => at' = "branch" \/ (at' = "frag" /\ here'.branch = 0)
        BY DEF LeaveLoop, Enter
    <2>4. QED  BY <2>1, <2>2, <2>3
<1>3. at' # "frag" /\ delay' # "NO" => target' # 0
    <2>1. CASE LeaveLoop \/ LeaveIndirectly
        BY <2>1 DEF LeaveLoop, LeaveIndirectly, Enter
    <2>2. CASE LeaveDirectly /\ ~ToSlot
        BY <2>2 DEF LeaveDirectly
    <2>3. CASE LeaveDirectly /\ ToSlot
        <3>1. target' = Details_.target /\ here.branch # 0 /\ Details_.kind = "likely"
              /\ ~Details_.taken
            BY <2>3 DEF LeaveDirectly, ToSlot
        <3>2. game \in Games
            BY DEF DynInv, CpuFits
        <3>3. QED
            BY <1>1, <3>1, <3>2, HandlerFlows, GameLeads DEF BranchFlows
    <2>4. QED  BY <2>1, <2>2, <2>3
<1>4. GuestKept'
    BY <1>1, <1>2, <1>3 DEF GuestKept, Interrupts
<1>5. QED  BY <1>1, <1>2, <1>4, RunFlows DEF FlowInv

\* A jump that is registered changes no path.
LEMMA QuietFlows ==
    ASSUME DynInv, FlowInv, InsertMore \/ UNCHANGED vars
    PROVE  FlowInv'
<1>1. /\ game' = game /\ trace' = trace /\ fragments' = fragments
      /\ UNCHANGED <<pc, target, delay, exl, jobs, at, last, here>>
    BY DEF InsertMore, RegisterPatch, Register, vars, cpu, memory, cacheVars
<1>2. FragmentsFlow'
    BY <1>1, FragmentsFlowStay DEF FlowInv
<1>3. Ahead' = Ahead /\ AheadSlot' = AheadSlot
    BY <1>1 DEF Ahead, AheadSlot
<1>4. TraceFlows'
    BY <1>1, <1>3, TraceFlowsStay DEF FlowInv
<1>5. StepFlows'
    BY <1>1 DEF FlowInv, StepFlows, Kind
<1>6. GuestKept'
    BY <1>1 DEF FlowInv, GuestKept, Details_, Fragment
<1>7. QED  BY <1>2, <1>4, <1>5, <1>6 DEF FlowInv

\* The paths are kept by every step.
LEMMA FlowNext == DynInv /\ CoreInv /\ FlowInv /\ [Next]_vars => FlowInv'
BY ExecuteFlows, UpdateFlows, CountFlows, JobFlows, ReturnFlows, CountHeatFlows,
   DispatchFlows, RunStraightFlows, RunBranchFlows, LeaveFlows, QuietFlows
DEF Next, HandleDynaRecOnBranch, RunFragment

\* How a step of the recompiler looks to the guest.
Follows == [G!Next \/ LeavesThroughTarget \/ EntersInSlot]_(G!gvars)

\* What a step must do to count as one of the guest's: none, ...
LEMMA GuestStays ==
    ASSUME game' = game, ~Faulted, ~Faulted', GuestPC' = GuestPC,
           GuestPending' = GuestPending, exl' = exl, epc' = epc
    PROVE  Follows
BY DEF Follows, G!gvars

\* ... an op that is no branch, ...
LEMMA GuestSteps ==
    ASSUME game' = game, ~Faulted, ~Faulted', Kind(GuestPC) \in Straight,
           GuestPC' = (IF GuestPending = 0 THEN GuestPC + 1 ELSE GuestPending),
           GuestPending' = 0, exl' = exl, epc' = epc
    PROVE  Follows
<1>1. G!Step
    BY DEF G!Step, G!Kind, G!Straight, G!None, Kind, Straight
<1>2. QED  BY <1>1 DEF Follows, G!Next

\* ... a branch that is taken, ...
LEMMA GuestTakes ==
    ASSUME game' = game, ~Faulted, ~Faulted', GuestPending = 0, GuestPC' = GuestPC + 1,
           \/ /\ Kind(GuestPC) \in {"branch", "likely", "jump"}
              /\ GuestPending' = game.code[GuestPC].to
           \/ Kind(GuestPC) = "jr" /\ GuestPending' \in game.returns,
           exl' = exl, epc' = epc
    PROVE  Follows
<1>1. CASE /\ Kind(GuestPC) \in {"branch", "likely", "jump"}
           /\ GuestPending' = game.code[GuestPC].to
    <2>1. G!Branch
        BY <1>1 DEF G!Branch, G!Take, G!Kind, G!Target, G!Conditional, G!None, Kind
    <2>2. QED  BY <2>1 DEF Follows, G!Next
<1>2. CASE Kind(GuestPC) = "jr" /\ GuestPending' \in game.returns
    <2>1. G!JumpRegister
        BY <1>2 DEF G!JumpRegister, G!Take, G!Kind, G!None, Kind
    <2>2. QED  BY <2>1 DEF Follows, G!Next
<1>3. QED  BY <1>1, <1>2

\* ... one that is not, ...
LEMMA GuestPasses ==
    ASSUME game' = game, ~Faulted, ~Faulted', GuestPending = 0, GuestPending' = 0,
           Kind(GuestPC) \in {"branch", "likely"},
           GuestPC' = (IF Kind(GuestPC) = "likely" THEN GuestPC + 2 ELSE GuestPC + 1),
           exl' = exl, epc' = epc
    PROVE  Follows
<1>1. G!FallThrough
    BY DEF G!FallThrough, G!Kind, G!Conditional, G!None, Kind
<1>2. QED  BY <1>1 DEF Follows, G!Next

\* ... a return, ...
LEMMA GuestReturns ==
    ASSUME game' = game, ~Faulted, ~Faulted', GuestPending = 0, GuestPending' = 0,
           Kind(GuestPC) = "eret", GuestPC' = epc, exl' = FALSE, epc' = epc
    PROVE  Follows
<1>1. G!Return
    BY DEF G!Return, G!Kind, G!None, Kind
<1>2. QED  BY <1>1 DEF Follows, G!Next

\* ... a fault, which the guest takes when it is raised, ...
LEMMA GuestFaults ==
    ASSUME game' = game, ~Faulted, Faulted', ~exl, exc'.pc = GuestPC,
           exc'.slot <=> GuestPending # 0, GuestPC \in Int
    PROVE  Follows
<1>1. G!Interrupt
    BY DEF G!Interrupt, G!None
<1>2. QED  BY <1>1 DEF Follows, G!Next

\* ... or an interrupt, which it takes when it is served.
LEMMA GuestInterrupted ==
    ASSUME game' = game, ~Faulted, ~Faulted', ~exl, exl' = TRUE,
           GuestPC' = game.vector, GuestPending' = 0,
           epc' = IF GuestPending # 0 THEN GuestPC - 1 ELSE GuestPC
    PROVE  Follows
<1>1. G!Interrupt
    BY DEF G!Interrupt, G!None
<1>2. QED  BY <1>1 DEF Follows, G!Next

\* A fault that waits hides what happens before it is served, ...
LEMMA FaultedStays ==
    ASSUME game' = game, Faulted, Faulted', exc' = exc
    PROVE  Follows
BY DEF Follows, G!gvars

\* ... and serving it is what the guest has done already.
LEMMA FaultServed ==
    ASSUME game' = game, Faulted, ~Faulted', GuestPC' = game.vector, GuestPending' = 0,
           exl' = TRUE, epc' = exc.pc - (IF exc.slot THEN 1 ELSE 0)
    PROVE  Follows
BY DEF Follows, G!gvars
-------------------------------------------------------------------------------
\* The guest's place while the interpreter runs.
LEMMA PlaceOutside ==
    /\ at \in {"op", "branch"} =>
          GuestPC = pc /\ GuestPending = IF delay = "EXEC" THEN target ELSE 0
    /\ at \in {"trace", "count"} =>
          /\ GuestPC = IF delay = "EXEC" THEN target ELSE pc + 1
          /\ GuestPending = IF delay = "DO" THEN target ELSE 0
BY DEF GuestPC, GuestPending

\* The same of the next state.
LEMMA PlaceOutsideNext ==
    /\ at' \in {"op", "branch"} =>
          GuestPC' = pc' /\ GuestPending' = IF delay' = "EXEC" THEN target' ELSE 0
    /\ at' \in {"trace", "count"} =>
          /\ GuestPC' = IF delay' = "EXEC" THEN target' ELSE pc' + 1
          /\ GuestPending' = IF delay' = "DO" THEN target' ELSE 0
BY DEF GuestPC, GuestPending

\* An effect faults or does not.
LEMMA EffectFaults ==
    ASSUME jobs = {}, NEW a, NEW slot, Effect(a, slot)
    PROVE  \/ ~Faulted'
           \/ Faulted' /\ ~exl /\ exc' = [pc |-> a, slot |-> slot]
BY DEF Effect, Faulted, Interrupts

\* The interpreter's op is the guest's.
LEMMA ExecuteFollows ==
    ASSUME DynInv, FlowInv, Execute
    PROVE  Follows
<1>1. /\ at = "op" /\ jobs = {} /\ pc \in Addr /\ game' = game /\ at' \in {"trace", "count"}
    BY DEF Execute, ExecuteStraight, TakeBranch, PassBranch, ExecuteEret, Interpret
<1>2. /\ game \in Games /\ pc \in Nat /\ epc \in Int
      /\ delay \in {"NO", "EXEC"} /\ (delay = "EXEC" => Kind(pc) \in Straight)
      /\ delay = "EXEC" => target # 0
    BY <1>1, GameFacts DEF DynInv, CpuFits, FlowInv, GuestKept
<1>3. ~Faulted /\ GuestPC = pc /\ GuestPending = IF delay = "EXEC" THEN target ELSE 0
    BY <1>1, PlaceOutside DEF Faulted
<1>4. /\ GuestPC' = IF delay' = "EXEC" THEN target' ELSE pc' + 1
      /\ GuestPending' = IF delay' = "DO" THEN target' ELSE 0
    BY <1>1, PlaceOutsideNext
<1>5. CASE ExecuteStraight
    <2>1. /\ Kind(pc) \in Straight /\ UNCHANGED <<pc, target, delay, epc, exl>>
          /\ Effect(pc, delay = "EXEC")
        BY <1>5 DEF ExecuteStraight
    <2> DEFINE slot == delay = "EXEC"
    <2>2. Effect(pc, slot)
        BY <2>1
    <2> HIDE DEF slot
    <2>3. \/ ~Faulted'
          \/ Faulted' /\ ~exl /\ exc' = [pc |-> pc, slot |-> slot]
        BY <1>1, <2>2, EffectFaults
    <2>4. CASE ~Faulted'
        <3>1. GuestPC' = IF GuestPending = 0 THEN GuestPC + 1 ELSE GuestPending
            BY <1>2, <1>3, <1>4, <2>1
        <3>2. GuestPending' = 0 /\ Kind(GuestPC) \in Straight
            BY <1>2, <1>3, <1>4, <2>1
        <3>3. QED  BY <1>1, <1>3, <2>1, <2>4, <3>1, <3>2, GuestSteps
    <2>5. CASE Faulted' /\ ~exl /\ exc' = [pc |-> pc, slot |-> slot]
        <3>1. exc'.pc = GuestPC /\ exc'.slot = slot /\ GuestPC \in Int
            BY <1>2, <1>3, <2>5
        <3>2. slot <=> GuestPending # 0
            BY <1>2, <1>3 DEF slot
        <3>3. exc'.slot <=> GuestPending # 0
            BY <3>1, <3>2
        <3>4. QED  BY <1>1, <1>3, <2>5, <3>1, <3>3, GuestFaults
    <2>6. QED  BY <2>3, <2>4, <2>5
<1>6. CASE ~ExecuteStraight
    <2>1. /\ \/ TakeBranch \/ PassBranch \/ ExecuteEret
          /\ jobs' = jobs /\ epc' = epc /\ ~Faulted'
        BY <1>3, <1>6
        DEF Execute, TakeBranch, PassBranch, ExecuteEret, Faulted
    <2>2. delay = "NO"
        BY <1>2, <2>1 DEF TakeBranch, PassBranch, ExecuteEret, Straight
    <2>3. GuestPending = 0
        BY <1>3, <2>2
    <2>4. CASE TakeBranch
        <3>1. /\ GuestPC' = GuestPC + 1 /\ GuestPending' = target' /\ exl' = exl
            BY <1>3, <1>4, <2>4 DEF TakeBranch
        <3>2. \/ /\ Kind(GuestPC) \in {"branch", "likely", "jump"}
                 /\ GuestPending' = game.code[GuestPC].to
              \/ Kind(GuestPC) = "jr" /\ GuestPending' \in game.returns
            BY <1>3, <2>4, <3>1 DEF TakeBranch
        <3>3. QED  BY <1>1, <1>3, <2>1, <2>3, <3>1, <3>2, GuestTakes
    <2>5. CASE PassBranch
        <3>1. /\ GuestPC' = (IF Kind(GuestPC) = "likely" THEN GuestPC + 2 ELSE GuestPC + 1)
              /\ GuestPending' = 0 /\ exl' = exl /\ Kind(GuestPC) \in {"branch", "likely"}
            BY <1>2, <1>3, <1>4, <2>2, <2>5 DEF PassBranch
        <3>2. QED  BY <1>1, <1>3, <2>1, <2>3, <3>1, GuestPasses
    <2>6. CASE ExecuteEret
        <3>1. GuestPC' = epc /\ GuestPending' = 0 /\ exl' = FALSE /\ Kind(GuestPC) = "eret"
            BY <1>2, <1>3, <1>4, <2>6 DEF ExecuteEret
        <3>2. QED  BY <1>1, <1>3, <2>1, <2>3, <3>1, GuestReturns
    <2>7. QED  BY <2>1, <2>4, <2>5, <2>6
<1>7. QED  BY <1>5, <1>6

\* Steps of the interpreter that are none of the guest's.
LEMMA SameFollows ==
    ASSUME game' = game, Faulted' <=> Faulted, exc' = exc, exl' = exl, epc' = epc,
           GuestPC' = GuestPC, GuestPending' = GuestPending
    PROVE  Follows
BY GuestStays, FaultedStays

\* Recording it, ...
LEMMA UpdateFollows == ASSUME UpdateTrace PROVE Follows
<1>1. /\ at = "trace" /\ at' = "count" /\ game' = game
      /\ UNCHANGED <<pc, target, delay, epc, exl, exc>>
      /\ jobs' \in {jobs, jobs \cup {"CHANGE_CORE"}}
    BY DEF UpdateTrace, memory, KeepTrace, EndTrace, SelectCore
<1>2. QED
    BY <1>1, PlaceOutside, PlaceOutsideNext, SameFollows DEF Faulted

\* ... and going on to the next PC, are none of its steps.
LEMMA CountFollows == ASSUME Count PROVE Follows
<1>1. /\ at = "count" /\ game' = game /\ at' \in {"op", "branch"}
      /\ UNCHANGED <<target, epc, exl, exc>>
      /\ jobs' \in {jobs, jobs \cup Interrupts}
      /\ \/ delay = "DO" /\ pc' = pc + 1 /\ delay' = "EXEC"
         \/ delay = "EXEC" /\ pc' = target /\ delay' = "NO"
         \/ delay \notin {"DO", "EXEC"} /\ pc' = pc + 1 /\ delay' = delay
    BY DEF Count, memory
<1>2. Faulted' <=> Faulted
    BY <1>1 DEF Faulted, Interrupts
<1>3. GuestPC' = GuestPC /\ GuestPending' = GuestPending
    BY <1>1, PlaceOutside, PlaceOutsideNext
<1>4. QED  BY <1>1, <1>2, <1>3, SameFollows

\* A job is served as the guest takes it.
LEMMA JobFollows ==
    ASSUME DynInv, CoreInv, FlowInv, CheckStuffToDo
    PROVE  Follows
<1>1. at = "op" /\ at' = "op" /\ game' = game /\ target' = target
    BY DEF CheckStuffToDo, ServeInterrupt, ServeException, ChangeCore, GiveUpTrace, memory
<1>2. /\ delay \in {"NO", "EXEC"} /\ (delay = "EXEC" => target # 0)
      /\ "INTERRUPTS" \in jobs => ~exl
    BY <1>1 DEF DynInv, CpuFits, FlowInv, GuestKept
<1>3. /\ GuestPC = pc /\ GuestPending = (IF delay = "EXEC" THEN target ELSE 0)
      /\ GuestPC' = pc' /\ GuestPending' = (IF delay' = "EXEC" THEN target' ELSE 0)
    BY <1>1, PlaceOutside, PlaceOutsideNext
<1>4. CASE ServeInterrupt
    <2>1. /\ "INTERRUPTS" \in jobs /\ exc' = exc /\ pc' = game.vector /\ delay' = "NO"
          /\ exl' = TRUE /\ epc' = (IF delay = "EXEC" THEN pc - 1 ELSE pc)
          /\ Faulted' <=> Faulted
        BY <1>4 DEF ServeInterrupt, GiveUpTrace, JumpToInterruptVector, Faulted
    <2>2. CASE Faulted
        BY <1>1, <2>1, <2>2, FaultedStays
    <2>3. CASE ~Faulted
        <3>1. /\ GuestPC' = game.vector /\ GuestPending' = 0
              /\ epc' = IF GuestPending # 0 THEN GuestPC - 1 ELSE GuestPC
            BY <1>2, <1>3, <2>1
        <3>2. QED  BY <1>1, <1>2, <2>1, <2>3, <3>1, GuestInterrupted
    <2>4. QED  BY <2>2, <2>3
<1>5. CASE ServeException
    <2>1. /\ Faulted /\ ~Faulted' /\ pc' = game.vector /\ delay' = "NO" /\ exl' = TRUE
          /\ epc' = IF exc.slot THEN exc.pc - 1 ELSE exc.pc
        BY <1>5 DEF ServeException, GiveUpTrace, JumpToInterruptVector, Faulted
    <2>2. exc.pc \in Int
        BY DEF DynInv, CpuFits
    <2>3. epc' = exc.pc - (IF exc.slot THEN 1 ELSE 0)
        BY <2>1, <2>2
    <2>4. GuestPC' = game.vector /\ GuestPending' = 0
        BY <1>3, <2>1
    <2>5. QED  BY <1>1, <2>1, <2>3, <2>4, FaultServed
<1>6. CASE ChangeCore
    <2>1. ~Faulted /\ ~Faulted' /\ UNCHANGED <<pc, delay, epc, exl, exc>>
        BY <1>6 DEF ChangeCore, GiveUpTrace, Faulted
    <2>2. QED  BY <1>1, <1>3, <2>1, GuestStays
<1>7. QED  BY <1>4, <1>5, <1>6 DEF CheckStuffToDo

\* Leaving the dispatcher for the interpreter is none of the guest's steps.
LEMMA ReturnFollows == ASSUME StopDispatching \/ LeaveAlone \/ CountHeat PROVE Follows
<1>1. /\ at = "branch" /\ at' = "op" /\ game' = game
      /\ UNCHANGED <<pc, target, delay, epc, exl, exc>>
      /\ jobs' \in {jobs, jobs \cup {"CHANGE_CORE"}}
    BY DEF StopDispatching, LeaveAlone, CountHeat, Dispatching, ReturnFromBranch, SelectCore,
        memory
<1>2. QED
    BY <1>1, PlaceOutside, PlaceOutsideNext, SameFollows DEF Faulted

\* The guest's place in a fragment: on its trace, or behind its last op.
PlaceOnTrace ==
    LET f == Fragment
    IN  DynInv /\ at = "frag" /\ here.branch = 0 /\ here.i \in 1..(Len(f.ops) + 1) =>
            /\ GuestPC = Place(f.ops, f.exit, 0, here.i)
            /\ GuestPending = IF SlotAt(f.ops, FALSE, here.i)
                              THEN Place(f.ops, f.exit, 0, here.i + 1) ELSE 0

\* ... and in the handler of a branch: the slot, or the exit.
PlaceInHandler ==
    LET f == Fragment
        d == Details_
    IN  DynInv /\ at = "frag" /\ here.branch # 0 =>
            /\ here.i = 0 =>
                  /\ GuestPC = f.ops[d.slot].addr
                  /\ GuestPending = IF d.kind = "jr" THEN target
                                    ELSE IF d.kind = "branch" /\ ~d.taken THEN d.target ELSE 0
            /\ here.i # 0 =>
                  /\ GuestPC = IF d.kind = "eret" THEN pc + 1
                               ELSE IF d.kind = "jr" THEN target ELSE Exit
                  /\ GuestPending = IF ToSlot THEN d.target ELSE 0

\* On the trace the path tells the place.
LEMMA TracePlace == PlaceOnTrace
<1> SUFFICES ASSUME DynInv, at = "frag", here.branch = 0,
                    here.i \in 1..(Len(Fragment.ops) + 1)
             PROVE  /\ GuestPC = Place(Fragment.ops, Fragment.exit, 0, here.i)
                    /\ GuestPending = IF SlotAt(Fragment.ops, FALSE, here.i)
                                      THEN Place(Fragment.ops, Fragment.exit, 0, here.i + 1)
                                      ELSE 0
    BY DEF PlaceOnTrace
<1> DEFINE f == Fragment
           n == Len(f.ops)
<1>1. f.ops \in Seq(OpRecords) /\ n \in Nat /\ DOMAIN f.ops = 1..n
    BY PlaceFits DEF FragmentFits, BranchesFit
<1>2. /\ ~AtExit => GuestPC = Op.addr
      /\ AtExit /\ ~Indirect => GuestPC = Exit
      /\ OnTrace /\ Op.slot => GuestPending = NextOnTrace
      /\ ~(OnTrace /\ Op.slot) /\ ~InSlot /\ ~ToSlot => GuestPending = 0
    BY DEF GuestPC, GuestPending, OnTrace, AtExit, InSlot
<1>3. ~InSlot /\ ~ToSlot /\ ~Indirect /\ Exit = f.exit
    BY DEF InSlot, ToSlot, Indirect, Exit, ExitAddress
<1>4. CASE here.i \in 1..n
    <2>1. OnTrace /\ ~AtExit /\ Op = f.ops[here.i]
        BY <1>1, <1>4 DEF OnTrace, AtExit, Op
    <2>2. NextOnTrace = Place(f.ops, f.exit, 0, here.i + 1)
        BY <1>1, <1>4 DEF NextOnTrace, Place
    <2>3. Place(f.ops, f.exit, 0, here.i) = Op.addr /\ SlotAt(f.ops, FALSE, here.i) = Op.slot
        BY <1>1, <1>4, <2>1 DEF Place, SlotAt
    <2> HIDE DEF f
    <2>4. QED  BY <1>2, <1>3, <2>1, <2>2, <2>3 DEF f
<1>5. CASE here.i = n + 1
    <2>1. ~OnTrace /\ AtExit
        BY <1>1, <1>3, <1>5 DEF OnTrace, AtExit
    <2>2. Place(f.ops, f.exit, 0, here.i) = f.exit /\ ~SlotAt(f.ops, FALSE, here.i)
        BY <1>1, <1>5 DEF Place, SlotAt
    <2> HIDE DEF f
    <2>3. QED  BY <1>2, <1>3, <2>1, <2>2 DEF f
<1>6. here.i \in 1..n \/ here.i = n + 1
    BY <1>1
<1>7. QED  BY <1>4, <1>5, <1>6

\* The same of the next state.
LEMMA TracePlaceNext == PlaceOnTrace'
BY TracePlace, PTL

\* In a handler the details of the branch do.
LEMMA HandlerPlace == PlaceInHandler
<1> SUFFICES ASSUME DynInv, at = "frag", here.branch # 0
             PROVE  PlaceInHandler
    BY DEF PlaceInHandler
<1> DEFINE f == Fragment
           d == Details_
<1>1. /\ f.ops \in Seq(OpRecords) /\ d.kind # "jump"
      /\ d.kind \in Branching
    BY PlaceFits DEF FragmentFits, BranchesFit, BranchRecords
<1>2. here.i = 0 => d.kind \notin {"likely", "eret"} /\ f.ops[d.slot] \in OpRecords
    <2>1. SUFFICES ASSUME here.i = 0
                   PROVE  d.kind \notin {"likely", "eret"} /\ d.slot \in DOMAIN f.ops
        BY <1>1
    <2>2. here.branch \in DOMAIN f.branches /\ d.kind \notin {"likely", "eret"}
        BY <2>1 DEF DynInv, HereFits
    <2>3. QED  BY <2>2, PlaceFits DEF FragmentFits, BranchesFit, Details_
<1>3. /\ ~OnTrace
      /\ GuestPC = IF ~AtExit THEN Op.addr ELSE IF ~Indirect THEN Exit
                   ELSE IF d.kind = "eret" THEN pc + 1 ELSE target
      /\ InSlot /\ d.kind = "jr" => GuestPending = target
      /\ InSlot /\ d.kind = "branch" /\ ~d.taken => GuestPending = d.target
      /\ AtExit /\ ToSlot => GuestPending = d.target
      /\ ~(InSlot /\ (d.kind = "jr" \/ (d.kind = "branch" /\ ~d.taken))) /\ ~(AtExit /\ ToSlot) =>
            GuestPending = 0
    BY DEF GuestPC, GuestPending, OnTrace, AtExit, InSlot
<1>4. InSlot <=> here.i = 0
    BY DEF InSlot
<1>5. here.i = 0 => Op.addr = f.ops[d.slot].addr
    BY <1>2, <1>3 DEF Op, OpRecords
<1>6. Indirect <=> d.kind \in {"jr", "eret"}
    BY DEF Indirect
<1>7. AtExit <=> here.i # 0
    BY <1>3, <1>4 DEF AtExit
<1> HIDE DEF f, d
<1>8. QED
    BY <1>1, <1>2, <1>3, <1>4, <1>5, <1>6, <1>7 DEF PlaceInHandler, f, d

\* The same of the next state.
LEMMA HandlerPlaceNext == PlaceInHandler'
BY HandlerPlace, PTL

\* A fragment is entered at its first op, which is no slot.
PlaceAtTop ==
    DynInv /\ FlowInv /\ at = "frag" /\ here.branch = 0 /\ here.i = 1 =>
        GuestPC = here.entry /\ GuestPending = 0

\* The first op of a path is its start.
LEMMA TopPlace == PlaceAtTop
<1> SUFFICES ASSUME DynInv, FlowInv, at = "frag", here.branch = 0, here.i = 1
             PROVE  GuestPC = here.entry /\ GuestPending = 0
    BY DEF PlaceAtTop
<1>1. FragmentFlows(here.entry, Fragment) /\ FragmentFits(Fragment)
    BY PlaceFits DEF FlowInv, FragmentsFlow, Fragment
<1> DEFINE f == Fragment
<1>2. /\ Place(f.ops, f.exit, 0, 1) = here.entry /\ ~SlotAt(f.ops, FALSE, 1)
    <2>1. f.ops # <<>> /\ f.ops \in Seq(OpRecords)
        BY <1>1 DEF FragmentFlows, FragmentFits, BranchesFit
    <2>2. QED  BY <1>1, <2>1 DEF FragmentFlows, Flows, Place, SlotAt
<1>3. 1 \in 1..(Len(f.ops) + 1)
    BY <1>1 DEF FragmentFits, BranchesFit
<1> HIDE DEF f
<1>4. QED  BY <1>2, <1>3, TracePlace DEF PlaceOnTrace, f

\* The same of the next state.
LEMMA TopPlaceNext == PlaceAtTop'
BY TopPlace, PTL

\* Whoever enters a fragment at e is at e.
LEMMA EnteredPlace ==
    ASSUME DynInv', FlowInv', NEW e, Enter(e)
    PROVE  GuestPC' = e /\ GuestPending' = 0
BY TopPlaceNext DEF PlaceAtTop, Enter

\* The op on the trace and the path around it.
LEMMA OpOnPath ==
    ASSUME DynInv, FlowInv, at = "frag", OnTrace
    PROVE  LET f == Fragment
               next == Place(f.ops, f.exit, 0, here.i + 1)
           IN  /\ here.i \in 1..Len(f.ops) /\ Len(f.ops) \in Nat /\ here.branch = 0
               /\ Op = f.ops[here.i] /\ Op.addr \in Addr /\ Op.addr \in Nat
               /\ OpFlows(f.ops, f.branches, f.exit, FALSE, 0, here.i)
               /\ GuestPC = Op.addr /\ GuestPending = IF Op.slot THEN next ELSE 0
<1> DEFINE f == Fragment
           n == Len(f.ops)
<1>1. f.ops \in Seq(OpRecords) /\ FragmentFlows(here.entry, f)
    BY PlaceFits DEF FragmentFits, BranchesFit, FlowInv, FragmentsFlow, Fragment
<1>2. here.i \in 1..n /\ n \in Nat /\ here.branch = 0 /\ Op = f.ops[here.i]
    BY <1>1 DEF OnTrace, Op
<1>3. Op.addr \in Addr /\ Op.addr \in Nat
    <2>1. Op.addr \in Addr
        BY OpFits DEF AtExit
    <2>2. game \in Games
        BY DEF DynInv, CpuFits
    <2>3. QED  BY <2>1, <2>2, GameFacts
<1>4. OpFlows(f.ops, f.branches, f.exit, FALSE, 0, here.i)
    <2>1. here.i \in DOMAIN f.ops
        BY DEF OnTrace
    <2>2. Flows(f.ops, f.branches, here.entry, f.exit, FALSE, 0)
        BY <1>1 DEF FragmentFlows
    <2> HIDE DEF f
    <2>3. QED  BY <2>1, <2>2 DEF Flows
<1> HIDE DEF n
<1>5. here.i \in 1..(n + 1)
    BY <1>2
<1>6. /\ GuestPC = Place(f.ops, f.exit, 0, here.i)
      /\ GuestPending = IF SlotAt(f.ops, FALSE, here.i)
                        THEN Place(f.ops, f.exit, 0, here.i + 1) ELSE 0
    <2>1. here.branch = 0 /\ here.i \in 1..(Len(Fragment.ops) + 1)
        BY <1>2, <1>5 DEF n
    <2>2. QED  BY <2>1, TracePlace DEF PlaceOnTrace
<1>7. Place(f.ops, f.exit, 0, here.i) = Op.addr /\ SlotAt(f.ops, FALSE, here.i) = Op.slot
    BY <1>2 DEF Place, SlotAt, n
<1> HIDE DEF f
<1>8. QED  BY <1>2, <1>3, <1>4, <1>6, <1>7 DEF f, n

\* The place after an op that goes on along the trace.
LEMMA FollowPlace ==
    ASSUME DynInv, FlowInv, DynInv', at = "frag", at' = "frag", OnTrace,
           fragments' = fragments, here' = [here EXCEPT !.i = @ + 1]
    PROVE  LET f == Fragment
           IN  /\ GuestPC' = Place(f.ops, f.exit, 0, here.i + 1)
               /\ GuestPending' = IF SlotAt(f.ops, FALSE, here.i + 1)
                                  THEN Place(f.ops, f.exit, 0, here.i + 2) ELSE 0
<1> DEFINE f == Fragment
<1>1. here.i \in 1..Len(f.ops) /\ Len(f.ops) \in Nat /\ here.branch = 0
    BY OpOnPath
<1>2. here'.entry = here.entry /\ here'.branch = 0 /\ here'.i = here.i + 1
    BY <1>1 DEF DynInv, HereFits
<1>3. Fragment' = f
    BY <1>2 DEF Fragment
<1>4. here'.i \in 1..(Len(f.ops) + 1) /\ here'.i + 1 = here.i + 2
    BY <1>1, <1>2
<1> HIDE DEF f
<1>5. /\ GuestPC' = Place(f.ops, f.exit, 0, here'.i)
      /\ GuestPending' = IF SlotAt(f.ops, FALSE, here'.i)
                         THEN Place(f.ops, f.exit, 0, here'.i + 1) ELSE 0
    BY <1>2, <1>3, <1>4, TracePlaceNext DEF PlaceOnTrace, Place, SlotAt
<1>6. here'.i = here.i + 1 /\ here'.i + 1 = here.i + 2
    BY <1>2, <1>4
<1>7. /\ Place(f.ops, f.exit, 0, here'.i) = Place(f.ops, f.exit, 0, here.i + 1)
      /\ Place(f.ops, f.exit, 0, here'.i + 1) = Place(f.ops, f.exit, 0, here.i + 2)
      /\ SlotAt(f.ops, FALSE, here'.i) = SlotAt(f.ops, FALSE, here.i + 1)
    BY <1>6
<1>8. QED  BY <1>5, <1>7 DEF f

\* The place of a run that has left the trace at a branch.
LEMMA HandlerStart ==
    ASSUME DynInv, FlowInv, DynInv', at = "frag", at' = "frag", OnTrace,
           fragments' = fragments, here' = Handler(Op.branch),
           Kind(Op.addr) \in {"branch", "likely", "jr", "eret"}
    PROVE  LET f == Fragment
               k == Kind(Op.addr)
               d == f.branches[Op.branch]
               next == Place(f.ops, f.exit, 0, here.i + 1)
           IN  /\ d.kind = k /\ BranchFlows(f.ops, d)
               /\ k # "eret" => d.at = here.i
               /\ k \in {"branch", "jr"} =>
                     /\ GuestPC' = next
                     /\ GuestPending' = IF k = "jr" THEN target'
                                        ELSE IF ~d.taken THEN d.target ELSE 0
               /\ k = "likely" =>
                     /\ GuestPC' = Op.addr + (IF d.taken THEN 2 ELSE 1)
                     /\ GuestPending' = IF d.taken THEN 0 ELSE d.target
               /\ k = "eret" => GuestPC' = pc' + 1 /\ GuestPending' = 0
<1> DEFINE f == Fragment
           k == Kind(Op.addr)
           b == Op.branch
           d == f.branches[b]
           n == Len(f.ops)
           first == IF d.kind \in {"likely", "eret"} THEN 1 ELSE 0
<1>1. /\ here.i \in 1..n /\ n \in Nat /\ Op = f.ops[here.i]
      /\ OpFlows(f.ops, f.branches, f.exit, FALSE, 0, here.i)
    BY OpOnPath
<1>2. /\ b \in DOMAIN f.branches /\ b # 0 /\ d.kind = k
    BY OpFits DEF AtExit, Branching, Delayed
<1>3. /\ FragmentFits(f) /\ FragmentFlows(here.entry, f)
    BY PlaceFits DEF FlowInv, FragmentsFlow, Fragment
<1>4. BranchFlows(f.ops, d) /\ d \in BranchRecords /\ f.ops \in Seq(OpRecords)
    BY <1>2, <1>3 DEF FragmentFlows, Flows, BranchesFlow, FragmentFits, BranchesFit
<1>5. k # "eret" => d.at = here.i /\ f.ops[d.at].addr = Op.addr
    BY <1>1, <1>2, <1>4 DEF OpFlows, Delayed, Branching
<1>6. /\ here'.entry = here.entry /\ here'.branch = b /\ here'.i = first
    <2>1. here' = [here EXCEPT !.branch = b, !.i = first]
        BY DEF Handler
    <2>2. here \in [entry : Int, i : Nat, branch : Nat]
        BY DEF DynInv, HereFits
    <2> HIDE DEF b, first
    <2>3. QED  BY <2>1, <2>2
<1>7. Fragment' = f /\ Details_' = d
    BY <1>6 DEF Fragment, Details_
<1>8. k \in {"branch", "jr"} => d.slot \in DOMAIN f.ops /\ d.slot = here.i + 1
    <2>1. k \in {"branch", "jr"} => d.slot \in DOMAIN f.ops
        BY <1>2, <1>3 DEF FragmentFits, BranchesFit
    <2>2. k \in {"branch", "jr"} => d.slot \in {0, here.i + 1}
        BY <1>2, <1>4, <1>5 DEF BranchFlows
    <2>3. QED  BY <1>4, <2>1, <2>2
<1>9. Exit' = IF d.kind # "likely" THEN d.target
              ELSE IF d.taken THEN f.ops[d.at].addr + 2 ELSE f.ops[d.at].addr + 1
    BY <1>2, <1>6, <1>7 DEF Exit, ExitAddress
<1>10. ToSlot' <=> d.kind = "likely" /\ ~d.taken
    BY <1>2, <1>6, <1>7 DEF ToSlot
<1>11. /\ here'.i = 0 =>
             /\ GuestPC' = f.ops[d.slot].addr
             /\ GuestPending' = IF d.kind = "jr" THEN target'
                                ELSE IF d.kind = "branch" /\ ~d.taken THEN d.target ELSE 0
       /\ here'.i # 0 =>
             /\ GuestPC' = IF d.kind = "eret" THEN pc' + 1
                           ELSE IF d.kind = "jr" THEN target' ELSE Exit'
             /\ GuestPending' = IF ToSlot' THEN d.target ELSE 0
    BY <1>2, <1>6, <1>7, HandlerPlaceNext DEF PlaceInHandler
<1>12. here'.i = IF k \in {"likely", "eret"} THEN 1 ELSE 0
    BY <1>2, <1>6
<1>13. k \in {"branch", "jr"} =>
         /\ GuestPC' = Place(f.ops, f.exit, 0, here.i + 1)
         /\ GuestPending' = IF k = "jr" THEN target' ELSE IF ~d.taken THEN d.target ELSE 0
    BY <1>2, <1>4, <1>8, <1>11, <1>12 DEF Place
<1>14. k = "likely" =>
         /\ GuestPC' = Op.addr + (IF d.taken THEN 2 ELSE 1)
         /\ GuestPending' = IF d.taken THEN 0 ELSE d.target
    BY <1>2, <1>5, <1>9, <1>10, <1>11, <1>12
<1>15. k = "eret" => GuestPC' = pc' + 1 /\ GuestPending' = 0
    BY <1>2, <1>10, <1>11, <1>12
<1> HIDE DEF f, k, b, d
<1>16. QED
    BY <1>2, <1>4, <1>5, <1>13, <1>14, <1>15 DEF f, k, b, d

\* The dispatcher enters the fragment of the PC.
LEMMA DispatchFollows ==
    ASSUME DynInv, DynInv', FlowInv', Dispatch
    PROVE  Follows
<1>1. /\ at = "branch" /\ game' = game /\ todo = {} /\ delay = "NO" /\ jobs = {} /\ jobs' = {}
      /\ UNCHANGED <<epc, exl>> /\ Lookup(pc) # NoFragment /\ Enter(Lookup(pc))
    BY DEF Dispatch, Dispatching, memory, cpu
<1>2. pc \in Int /\ EntriesFit
    BY CacheFits DEF DynInv, CpuFits, CacheGood
<1>3. Lookup(pc) = pc
    BY <1>1, <1>2, IdleLookupRight, TruthFits DEF DynInv, CacheGood, CacheInv, Truth
<1>4. GuestPC' = pc /\ GuestPending' = 0
    BY <1>1, <1>3, EnteredPlace
<1>5. GuestPC = pc /\ GuestPending = 0
    BY <1>1, PlaceOutside
<1>6. QED  BY <1>1, <1>4, <1>5, GuestStays DEF Faulted

\* A jump that is registered moves nobody.
LEMMA QuietPlace ==
    ASSUME InsertMore \/ UNCHANGED vars
    PROVE  /\ GuestPC' = GuestPC /\ GuestPending' = GuestPending
           /\ game' = game /\ UNCHANGED <<jobs, exl, epc, exc>>
<1>1. /\ game' = game /\ fragments' = fragments
      /\ UNCHANGED <<pc, target, delay, exl, epc, exc, jobs, at, here>>
    BY DEF InsertMore, RegisterPatch, Register, vars, cpu, memory, cacheVars
<1>2. /\ Fragment' = Fragment /\ Details_' = Details_
    BY <1>1 DEF Fragment, Details_
<1>3. OnTrace' = OnTrace /\ InSlot' = InSlot
    BY <1>1, <1>2 DEF OnTrace, InSlot
<1>4. AtExit' = AtExit /\ Op' = Op
    BY <1>1, <1>2, <1>3 DEF AtExit, Op
<1>5. ToSlot' = ToSlot /\ Exit' = Exit /\ Indirect' = Indirect /\ NextOnTrace' = NextOnTrace
    BY <1>1, <1>2 DEF ToSlot, Exit, Indirect, NextOnTrace, ExitAddress
<1>6. GuestPC' = GuestPC
    BY <1>1, <1>2, <1>4, <1>5 DEF GuestPC
<1>7. GuestPending' = GuestPending
    BY <1>1, <1>2, <1>3, <1>4, <1>5 DEF GuestPending
<1>8. QED  BY <1>1, <1>6, <1>7

LEMMA QuietFollows == ASSUME InsertMore \/ UNCHANGED vars PROVE Follows
BY QuietPlace, SameFollows DEF Faulted

\* A slot in the handler of a branch is the op behind the branch.
LEMMA SlotOnPath ==
    ASSUME DynInv, FlowInv, at = "frag", InSlot
    PROVE  LET d == Details_
               a == Fragment.ops[d.at].addr
           IN  /\ d.kind \in {"branch", "jr"} /\ Op.addr = Fragment.ops[d.slot].addr /\ Op.slot
               /\ d.kind = "branch" => Op.addr = a + 1
               /\ a \in Addr /\ Kind(a) = d.kind
<1> DEFINE f == Fragment
           d == Details_
           o == f.ops[d.at]
<1>1. /\ here.branch # 0 /\ here.branch \in DOMAIN f.branches
      /\ d.kind \notin {"likely", "eret", "jump"}
    BY DEF InSlot, DynInv, HereFits
<1>2. /\ d \in BranchRecords /\ d.at \in DOMAIN f.ops /\ o.addr \in Addr
      /\ Kind(o.addr) = d.kind /\ FragmentFits(f)
    BY <1>1, PlaceFits
<1>3. d.kind \in {"branch", "jr"}
    BY <1>1, <1>2 DEF BranchRecords, Branching, Delayed
<1>4. d.slot \in DOMAIN f.ops /\ f.ops \in Seq(OpRecords)
    BY <1>1, <1>2 DEF FragmentFits, BranchesFit, Details_
<1>5. Op.addr = f.ops[d.slot].addr /\ Op.slot
    <2>1. ~OnTrace /\ f.ops[d.slot] \in OpRecords
        BY <1>1, <1>4 DEF OnTrace
    <2>2. QED  BY <2>1 DEF Op, OpRecords
<1>6. BranchFlows(f.ops, d) /\ FragmentFlows(here.entry, f)
    BY <1>1, HandlerFlows, PlaceFits DEF FlowInv, FragmentsFlow, Fragment
<1>7. d.slot = d.at + 1
    <2>1. d.slot \in {0, d.at + 1}
        BY <1>3, <1>6 DEF BranchFlows
    <2>2. QED  BY <1>4, <2>1
<1>8. OpFlows(f.ops, f.branches, f.exit, FALSE, 0, d.at)
    BY <1>2, <1>6 DEF FragmentFlows, Flows
<1>9. ASSUME d.kind = "branch"
      PROVE  Op.addr = o.addr + 1
    <2>1. Place(f.ops, f.exit, 0, d.at + 1) = f.ops[d.slot].addr
        BY <1>4, <1>7 DEF Place
    <2>2. Place(f.ops, f.exit, 0, d.at + 1) = o.addr + 1
        BY <1>2, <1>8, <1>9 DEF OpFlows, Delayed
    <2>3. QED  BY <1>5, <2>1, <2>2
<1> HIDE DEF f, d
<1>10. QED  BY <1>2, <1>3, <1>5, <1>9 DEF f, d

\* An op of a fragment that is no branch is the guest's, unless a job is raised
\* while the delay is EXEC_DELAY.
LEMMA RunStraightFollows ==
    ASSUME DynInv, DynInv', CoreInv, FlowInv, RunStraight
    PROVE  Follows
<1> DEFINE slot == delay = "EXEC"
<1>1. /\ at = "frag" /\ ~AtExit /\ game' = game /\ fragments' = fragments /\ jobs = {}
      /\ UNCHANGED <<target, exl, epc>> /\ Kind(Op.addr) \in Straight
    BY DEF RunStraight, Running, Unrecorded, cacheVars, CoreInv
<1>2. delay \in {"NO", "EXEC"} /\ game \in Games
    BY <1>1 DEF DynInv, CpuFits
<1>3. ~Faulted
    BY <1>1 DEF Faulted
<1>4. CASE jobs' # {} /\ (Op.slot \/ delay = "EXEC")
    BY <1>1, <1>4 DEF LeavesThroughTarget, Follows
<1>5. CASE jobs' # {} /\ ~Op.slot /\ delay # "EXEC"
    <2>1. delay = "NO" /\ ~slot
        BY <1>2, <1>5
    <2>2. OnTrace
        BY <1>1, <1>5, SlotOnPath DEF AtExit
    <2>3. Op.addr \in Nat /\ GuestPC = Op.addr /\ GuestPending = 0
        BY <1>1, <1>5, <2>2, OpOnPath
    <2>4. /\ at' = "branch" /\ pc' = Op.addr + 1 /\ delay' = "NO"
        BY <1>5, <2>1 DEF RunStraight, Leave
    <2>5. GuestPC' = Op.addr + 1 /\ GuestPending' = 0
        BY <2>4, PlaceOutsideNext
    <2>6. Effect(Op.addr, slot)
        <3>1. slot <=> delay = "EXEC"
            OBVIOUS
        <3> HIDE DEF slot
        <3>2. QED  BY <1>5, <3>1 DEF RunStraight
    <2> HIDE DEF slot
    <2>7. \/ ~Faulted'
          \/ Faulted' /\ ~exl /\ exc' = [pc |-> Op.addr, slot |-> slot]
        BY <1>1, <2>6, EffectFaults
    <2>8. CASE ~Faulted'
        BY <1>1, <1>3, <2>3, <2>5, <2>8, GuestSteps
    <2>9. CASE Faulted' /\ ~exl /\ exc' = [pc |-> Op.addr, slot |-> slot]
        <3>1. exc'.pc = GuestPC /\ exc'.slot = slot
            BY <2>3, <2>9
        <3>2. exc'.slot <=> GuestPending # 0
            BY <2>1, <2>3, <3>1
        <3>3. QED  BY <1>1, <1>3, <2>3, <2>9, <3>1, <3>2, GuestFaults
    <2>10. QED  BY <2>7, <2>8, <2>9
<1>6. CASE jobs' = {}
    <2>1. ~Faulted' /\ at' = "frag" /\ here' = [here EXCEPT !.i = @ + 1]
        BY <1>1, <1>6 DEF RunStraight, Faulted
    <2>2. CASE OnTrace
        <3> DEFINE f == Fragment
                   next == Place(f.ops, f.exit, 0, here.i + 1)
        <3>1. /\ Op = f.ops[here.i] /\ GuestPC = Op.addr
              /\ GuestPending = IF Op.slot THEN next ELSE 0
              /\ OpFlows(f.ops, f.branches, f.exit, FALSE, 0, here.i)
            BY <1>1, <2>2, OpOnPath
        <3>2. /\ Op.slot => next # 0
              /\ ~Op.slot => next = Op.addr + 1
              /\ ~SlotAt(f.ops, FALSE, here.i + 1)
            BY <1>1, <3>1 DEF OpFlows, Straight, Delayed
        <3>3. GuestPC' = next /\ GuestPending' = 0
            BY <1>1, <2>1, <2>2, <3>2, FollowPlace
        <3> HIDE DEF next
        <3>4. GuestPC' = IF GuestPending = 0 THEN GuestPC + 1 ELSE GuestPending
            BY <3>1, <3>2, <3>3
        <3>5. QED  BY <1>1, <1>3, <2>1, <3>1, <3>3, <3>4, GuestSteps
    <2>3. CASE InSlot
        <3> DEFINE d == Details_
                   a == Fragment.ops[d.at].addr
        <3>1. /\ d.kind \in {"branch", "jr"} /\ Op.addr = Fragment.ops[d.slot].addr
              /\ d.kind = "branch" => Op.addr = a + 1
              /\ a \in Addr /\ a \in Nat /\ Kind(a) = d.kind
            BY <1>1, <1>2, <2>3, SlotOnPath, GameFacts
        <3>2. here.branch # 0 /\ here.i = 0
            BY <2>3 DEF InSlot
        <3>3. /\ GuestPC = Op.addr
              /\ GuestPending = IF d.kind = "jr" THEN target
                                ELSE IF d.kind = "branch" /\ ~d.taken THEN d.target ELSE 0
            BY <1>1, <3>1, <3>2, HandlerPlace DEF PlaceInHandler
        <3>4. here'.entry = here.entry /\ here'.branch = here.branch /\ here'.i = 1
            BY <2>1, <3>2 DEF DynInv, HereFits
        <3>5. Fragment' = Fragment /\ Details_' = d
            BY <1>1, <3>4 DEF Fragment, Details_
        <3>6. Exit' = d.target /\ ~ToSlot'
            BY <3>1, <3>2, <3>4, <3>5 DEF Exit, ExitAddress, ToSlot, Details_
        <3>7. /\ GuestPC' = IF d.kind = "jr" THEN target' ELSE d.target
              /\ GuestPending' = 0
            BY <1>1, <2>1, <3>1, <3>2, <3>4, <3>5, <3>6, HandlerPlaceNext DEF PlaceInHandler
        <3>8. /\ d.kind = "branch" /\ d.taken => d.target = a + 2
              /\ d.kind = "branch" /\ ~d.taken => d.target # 0
              /\ d.kind = "jr" => target # 0
            <4>1. BranchFlows(Fragment.ops, d)
                BY <1>1, <3>2, HandlerFlows
            <4>2. d.kind = "jr" => target # 0
                BY <1>1, <3>2 DEF FlowInv, GuestKept
            <4>3. QED  BY <1>2, <3>1, <4>1, <4>2, GameLeads DEF BranchFlows
        <3> HIDE DEF d, a
        <3>9. GuestPC' = IF GuestPending = 0 THEN GuestPC + 1 ELSE GuestPending
            BY <1>1, <3>1, <3>3, <3>7, <3>8
        <3>10. QED  BY <1>1, <1>3, <2>1, <3>3, <3>7, <3>9, GuestSteps
    <2>4. QED  BY <1>1, <2>2, <2>3 DEF AtExit
<1>7. QED  BY <1>4, <1>5, <1>6

\* A branch of a fragment goes where the guest's goes, along the trace or to its
\* handler.
LEMMA RunBranchFollows ==
    ASSUME DynInv, DynInv', CoreInv, FlowInv, RunBranch
    PROVE  Follows
<1> DEFINE f == Fragment
           k == Kind(Op.addr)
           d == f.branches[Op.branch]
           next == Place(f.ops, f.exit, 0, here.i + 1)
           after == Place(f.ops, f.exit, 0, here.i + 2)
<1>1. /\ at = "frag" /\ at' = "frag" /\ OnTrace /\ game' = game /\ fragments' = fragments
      /\ jobs = {} /\ jobs' = {} /\ epc' = epc
    BY DEF RunBranch, Running, Unrecorded, cacheVars, CoreInv
<1>2. ~Faulted /\ ~Faulted' /\ game \in Games
    BY <1>1 DEF Faulted, DynInv, CpuFits
<1>3. /\ here.i \in Nat /\ here.branch = 0 /\ Op = f.ops[here.i] /\ Op.addr \in Addr
      /\ Op.addr \in Nat /\ GuestPC = Op.addr
      /\ GuestPending = IF Op.slot THEN next ELSE 0
      /\ OpFlows(f.ops, f.branches, f.exit, FALSE, 0, here.i)
    <2>1. here.i \in Nat
        BY DEF DynInv, HereFits
    <2>2. QED  BY <1>1, <2>1, OpOnPath
<1>4. k \in Branching
    BY DEF RunBranch, Branching, Delayed
<1>5. GuestPending = 0
    BY <1>3, <1>4 DEF OpFlows, Branching, Delayed, Straight
<1>6. k \in Delayed => /\ SlotAt(f.ops, FALSE, here.i + 1) <=> d.taken
                       /\ d.taken => /\ next = Op.addr + 1
                                     /\ after = IF k = "jr" THEN d.target
                                                ELSE game.code[Op.addr].to
                       /\ ~d.taken => next = Op.addr + (IF k = "likely" THEN 2 ELSE 1)
    BY <1>3 DEF OpFlows
<1>7. /\ d.kind = k /\ BranchFlows(f.ops, d)
      /\ k # "eret" => f.ops[d.at].addr = Op.addr
    <2>1. Op.branch \in DOMAIN f.branches /\ d.kind = k
        BY <1>1, <1>4, OpFits DEF AtExit
    <2>2. FragmentFlows(here.entry, f)
        BY <1>1, PlaceFits DEF FlowInv, FragmentsFlow, Fragment
    <2>3. k # "eret" => d.at = here.i
        BY <1>3, <1>4 DEF OpFlows, Branching
    <2> HIDE DEF k
    <2>4. QED  BY <1>3, <2>1, <2>2, <2>3 DEF FragmentFlows, Flows, BranchesFlow
<1>8. ASSUME Follow
      PROVE  /\ GuestPC' = next
             /\ GuestPending' = IF SlotAt(f.ops, FALSE, here.i + 1) THEN after ELSE 0
    BY <1>1, <1>8, FollowPlace DEF Follow
<1>9. ASSUME here' = Handler(Op.branch), k # "jump"
      PROVE  /\ k \in {"branch", "jr"} =>
                   /\ GuestPC' = next
                   /\ GuestPending' = IF k = "jr" THEN target' ELSE IF ~d.taken THEN d.target ELSE 0
             /\ k = "likely" =>
                   /\ GuestPC' = Op.addr + (IF d.taken THEN 2 ELSE 1)
                   /\ GuestPending' = IF d.taken THEN 0 ELSE d.target
             /\ k = "eret" => GuestPC' = pc' + 1 /\ GuestPending' = 0
    BY <1>1, <1>4, <1>9, HandlerStart DEF Branching, Delayed
<1>10. /\ k \in {"jump", "jr"} => d.taken
       /\ k \in {"branch", "likely"} /\ ~d.taken => d.target = game.code[Op.addr].to
    BY <1>7 DEF BranchFlows
<1>11. \/ k = "jump" /\ Follow /\ exl' = exl
       \/ k \in {"branch", "likely"} /\ (Follow \/ here' = Handler(Op.branch)) /\ exl' = exl
       \/ /\ k = "jr" /\ target' \in game.returns /\ exl' = exl
          /\ IF target' = d.target THEN Follow ELSE here' = Handler(Op.branch)
       \/ k = "eret" /\ here' = Handler(Op.branch) /\ exl' = FALSE /\ pc' = epc - 1
    BY DEF RunBranch
<1> DEFINE to == game.code[Op.addr].to
<1> HIDE DEF f, d, next, after
<1>12. CASE k \in {"jump", "branch", "likely"} /\ Follow /\ exl' = exl
    <2>1. CASE d.taken
        <3>1. GuestPC' = GuestPC + 1 /\ GuestPending' = to /\ k \in Delayed /\ k # "jr"
            BY <1>3, <1>6, <1>8, <1>12, <2>1 DEF Delayed
        <3>2. Kind(GuestPC) \in {"branch", "likely", "jump"} /\ GuestPending' = game.code[GuestPC].to
            BY <1>3, <1>12, <3>1
        <3>3. QED  BY <1>1, <1>2, <1>5, <1>12, <3>1, <3>2, GuestTakes
    <2>2. CASE ~d.taken
        <3>1. k \in {"branch", "likely"} /\ k \in Delayed
            BY <1>10, <1>12, <2>2 DEF Delayed
        <3>2. GuestPC' = Op.addr + (IF k = "likely" THEN 2 ELSE 1) /\ GuestPending' = 0
            BY <1>6, <1>8, <1>12, <2>2, <3>1
        <3>3. /\ GuestPC' = (IF Kind(GuestPC) = "likely" THEN GuestPC + 2 ELSE GuestPC + 1)
              /\ Kind(GuestPC) \in {"branch", "likely"}
            BY <1>3, <3>1, <3>2
        <3>4. QED  BY <1>1, <1>2, <1>5, <1>12, <3>2, <3>3, GuestPasses
    <2>3. QED  BY <2>1, <2>2
<1>13. CASE k \in {"branch", "likely"} /\ here' = Handler(Op.branch) /\ exl' = exl
    <2>1. CASE d.taken
        <3>1. /\ GuestPC' = Op.addr + (IF k = "likely" THEN 2 ELSE 1) /\ GuestPending' = 0
            BY <1>6, <1>9, <1>13, <2>1 DEF Delayed
        <3>2. /\ GuestPC' = (IF Kind(GuestPC) = "likely" THEN GuestPC + 2 ELSE GuestPC + 1)
              /\ Kind(GuestPC) \in {"branch", "likely"}
            BY <1>3, <1>13, <3>1
        <3>3. QED  BY <1>1, <1>2, <1>5, <1>13, <3>1, <3>2, GuestPasses
    <2>2. CASE ~d.taken
        <3>1. GuestPC' = GuestPC + 1 /\ GuestPending' = to
            BY <1>3, <1>6, <1>9, <1>10, <1>13, <2>2 DEF Delayed
        <3>2. Kind(GuestPC) \in {"branch", "likely", "jump"} /\ GuestPending' = game.code[GuestPC].to
            BY <1>3, <1>13, <3>1
        <3>3. QED  BY <1>1, <1>2, <1>5, <1>13, <3>1, <3>2, GuestTakes
    <2>3. QED  BY <2>1, <2>2
<1>14. CASE /\ k = "jr" /\ target' \in game.returns /\ exl' = exl
            /\ IF target' = d.target THEN Follow ELSE here' = Handler(Op.branch)
    <2>1. d.taken /\ next = Op.addr + 1 /\ after = d.target /\ SlotAt(f.ops, FALSE, here.i + 1)
        BY <1>6, <1>10, <1>14 DEF Delayed
    <2>2. GuestPC' = GuestPC + 1 /\ GuestPending' = target'
        BY <1>3, <1>8, <1>9, <1>14, <2>1
    <2>3. Kind(GuestPC) = "jr" /\ GuestPending' \in game.returns
        BY <1>3, <1>14, <2>2
    <2>4. QED  BY <1>1, <1>2, <1>5, <1>14, <2>2, <2>3, GuestTakes
<1>15. CASE k = "eret" /\ here' = Handler(Op.branch) /\ exl' = FALSE /\ pc' = epc - 1
    <2>1. epc \in Int
        BY DEF DynInv, CpuFits
    <2>2. GuestPC' = epc /\ GuestPending' = 0
        BY <1>9, <1>15, <2>1
    <2>3. Kind(GuestPC) = "eret"
        BY <1>3, <1>15
    <2>4. QED  BY <1>1, <1>2, <1>5, <1>15, <2>2, <2>3, GuestReturns
<1>16. QED  BY <1>11, <1>12, <1>13, <1>14, <1>15

\* The guest's place at an exit.
LEMMA ExitPlace ==
    ASSUME at = "frag", AtExit
    PROVE  /\ GuestPC = IF ~Indirect THEN Exit
                        ELSE IF Details_.kind = "eret" THEN pc + 1 ELSE target
           /\ GuestPending = IF ToSlot THEN Details_.target ELSE 0
BY DEF GuestPC, GuestPending, AtExit

\* An exit to a slot leads behind the top of the fragment.
LEMMA SlotExitOn ==
    ASSUME DynInv, FlowInv, at = "frag", ToSlot
    PROVE  Exit # here.entry
<1> DEFINE f == Fragment
           d == Details_
           a == f.ops[d.at].addr
<1>1. /\ here.branch # 0 /\ d.kind = "likely" /\ ~d.taken
    BY DEF ToSlot
<1>2. Exit = a + 1
    BY <1>1 DEF Exit, ExitAddress, Details_
<1>3. /\ FragmentFlows(here.entry, f) /\ d.at \in DOMAIN f.ops /\ f.ops \in Seq(OpRecords)
      /\ a \in Nat
    <2>1. FragmentFlows(here.entry, f) /\ f.ops \in Seq(OpRecords)
        BY PlaceFits DEF FlowInv, FragmentsFlow, Fragment, FragmentFits, BranchesFit
    <2>2. d.at \in DOMAIN f.ops /\ a \in Addr /\ game \in Games
        BY <1>1, PlaceFits DEF DynInv, CpuFits
    <2>3. QED  BY <2>1, <2>2, GameFacts
<1>4. a = here.entry \/ a > here.entry
    <2>1. Place(f.ops, f.exit, 0, 1) = here.entry /\ f.ops # <<>>
        BY <1>3 DEF FragmentFlows, Flows
    <2>2. d.at = 1 => a = here.entry
        BY <1>3, <2>1 DEF Place
    <2>3. d.at > 1 => a > here.entry
        BY <1>3 DEF FragmentFlows, Flows
    <2>4. d.at = 1 \/ d.at > 1
        BY <1>3
    <2>5. QED  BY <2>2, <2>3, <2>4
<1>5. here.entry \in Int
    BY DEF DynInv, HereFits
<1> HIDE DEF a
<1>6. QED  BY <1>2, <1>3, <1>4, <1>5

\* An exit leads to where the guest is, unless it enters a fragment in its slot.
LEMMA LeaveDirectlyFollows ==
    ASSUME DynInv, DynInv', CoreInv, FlowInv', LeaveDirectly
    PROVE  Follows
<1>1. /\ at = "frag" /\ AtExit /\ ~Indirect /\ jobs = {} /\ game' = game
      /\ ~Looping(here.entry, Fragment, here.branch)
      /\ UNCHANGED <<exl, epc>> /\ pc' = Exit
      /\ \/ ToSlot /\ delay' = "EXEC" /\ target' = Details_.target
         \/ ~ToSlot /\ delay' = "NO" /\ target' = target
    BY DEF LeaveDirectly, Running, CoreInv, Unrecorded
<1>2. ~Faulted /\ ~Faulted'
    BY <1>1 DEF LeaveDirectly, Faulted, Interrupts
<1>3. GuestPC = Exit /\ GuestPending = IF ToSlot THEN Details_.target ELSE 0
    BY <1>1, ExitPlace
<1>4. at' = "branch" \/ (at' = "frag" /\ Enter(Exit))
    <2> DEFINE linked == {l \in links : l.from = here.entry /\ l.site = here.branch}
    <2>1. GoOn(IF linked = {} THEN NoFragment ELSE Exit)
        BY DEF LeaveDirectly
    <2>2. QED  BY <2>1 DEF GoOn, Enter
<1>5. CASE at' = "branch"
    <2>1. GuestPC' = Exit /\ GuestPending' = IF ToSlot THEN Details_.target ELSE 0
        BY <1>1, <1>5, PlaceOutsideNext
    <2>2. QED  BY <1>1, <1>2, <1>3, <2>1, GuestStays
<1>6. CASE at' = "frag" /\ Enter(Exit) /\ ~ToSlot
    <2>1. GuestPC' = Exit /\ GuestPending' = 0
        BY <1>6, EnteredPlace
    <2>2. QED  BY <1>1, <1>2, <1>3, <1>6, <2>1, GuestStays
<1>7. CASE at' = "frag" /\ ToSlot
    BY <1>1, <1>7 DEF EntersInSlot, Follows
<1>8. QED  BY <1>4, <1>5, <1>6, <1>7

\* A loop leads back to the top of its own path.
LEMMA LeaveLoopFollows ==
    ASSUME DynInv, DynInv', CoreInv, FlowInv, FlowInv', LeaveLoop
    PROVE  Follows
<1>1. /\ at = "frag" /\ AtExit /\ ~Indirect /\ jobs = {} /\ game' = game
      /\ UNCHANGED <<exl, epc>> /\ Exit = here.entry
      /\ \/ Enter(here.entry)
         \/ pc' = Exit /\ delay' = "NO" /\ at' = "branch"
    BY DEF LeaveLoop, Running, CoreInv, Unrecorded, Looping, Exit
<1>2. ~Faulted /\ ~Faulted'
    BY <1>1 DEF LeaveLoop, Faulted, Interrupts
<1>3. GuestPC = Exit /\ GuestPending = 0
    BY <1>1, ExitPlace, SlotExitOn
<1>4. GuestPC' = Exit /\ GuestPending' = 0
    <2>1. CASE Enter(here.entry)
        BY <1>1, <2>1, EnteredPlace
    <2>2. CASE pc' = Exit /\ delay' = "NO" /\ at' = "branch"
        BY <2>2, PlaceOutsideNext
    <2>3. QED  BY <1>1, <2>1, <2>2
<1>5. QED  BY <1>1, <1>2, <1>3, <1>4, GuestStays

\* An indirect exit looks the guest's place up.
LEMMA LeaveIndirectlyFollows ==
    ASSUME DynInv, DynInv', CoreInv, FlowInv', LeaveIndirectly
    PROVE  Follows
<1> DEFINE to == IF Details_.kind = "eret" THEN pc + 1 ELSE target
<1>1. /\ at = "frag" /\ AtExit /\ Indirect /\ jobs = {} /\ game' = game /\ todo = {}
      /\ UNCHANGED <<exl, epc>> /\ pc' = to /\ delay' = "NO" /\ GoOn(Lookup(to))
    BY DEF LeaveIndirectly, Running, CoreInv, memory
<1>2. ~Faulted /\ ~Faulted'
    BY <1>1 DEF LeaveIndirectly, Faulted, Interrupts
<1>3. GuestPC = to /\ GuestPending = 0
    BY <1>1, ExitPlace DEF Indirect, ToSlot
<1>4. to \in Int
    BY DEF DynInv, CpuFits
<1> HIDE DEF to
<1>5. Lookup(to) # NoFragment => Lookup(to) = to
    BY <1>1, <1>4, IdleLookupRight, CacheFits, TruthFits
    DEF DynInv, CacheGood, CacheInv, Truth
<1>6. at' = "branch" \/ Enter(to)
    BY <1>1, <1>5 DEF GoOn
<1>7. GuestPC' = to /\ GuestPending' = 0
    BY <1>1, <1>6, EnteredPlace, PlaceOutsideNext
<1>8. QED  BY <1>1, <1>2, <1>3, <1>7, GuestStays

\* Every step is one of the guest's, none, or a known departure.
LEMMA FollowsNext ==
    DynInv /\ DynInv' /\ CoreInv /\ FlowInv /\ FlowInv' /\ [Next]_vars => Follows
BY ExecuteFollows, UpdateFollows, CountFollows, JobFollows, ReturnFollows, DispatchFollows,
   RunStraightFollows, RunBranchFollows, LeaveDirectlyFollows, LeaveLoopFollows,
   LeaveIndirectlyFollows, QuietFollows
DEF Next, HandleDynaRecOnBranch, RunFragment

\* The guest begins where the recompiler does, so with the next theorem its run
\* is one of Guest but for the two departures.
THEOREM GuestStarts == Init => G!Init
<1> SUFFICES ASSUME Init PROVE G!Init  OBVIOUS
<1>1. at = "op" /\ pc = 1 /\ delay = "NO" /\ exl = FALSE /\ epc = 0 /\ jobs = {} /\ game \in Games
    BY DEF Init
<1>2. ~Faulted /\ GuestPC = 1 /\ GuestPending = 0
    BY <1>1, PlaceOutside DEF Faulted
<1>3. QED  BY <1>1, <1>2 DEF G!Init, G!None

\* Interpreting, recording, running fragments, linking them, serving jobs and
\* faults, and dropping the cache: whatever the recompiler does, each step is one
\* of the guest's or none, but for a job raised in a slot and a likely branch
\* taken into a fragment (Dynamo.cpp, Fragment.cpp, CodeGeneratorARM.cpp).
THEOREM FragmentsFollowGuest == Spec => FollowsGuest
<1>1. Init => DynInv /\ CoreInv /\ FlowInv
    BY DynInit, CoreInit, FlowInit
<1>2. DynInv /\ CoreInv /\ FlowInv /\ [Next]_vars => (DynInv /\ CoreInv /\ FlowInv)' /\ Follows
    BY DynNext, CoreNext, FlowNext, FollowsNext
<1>3. QED  BY <1>1, <1>2, PTL DEF Spec, FollowsGuest, Follows

\* The recompiler implements the guest's specification, as long as it takes
\* neither departure: recording, linking, invalidation, jobs and the changes of
\* core are invisible (Dynamo.cpp, Fragment.cpp, FragmentCache.cpp).
THEOREM RecompilerIsGuest ==
    Spec /\ [][~LeavesThroughTarget /\ ~EntersInSlot]_vars => G!Spec
<1>1. Follows /\ [~LeavesThroughTarget /\ ~EntersInSlot]_vars => [G!Next]_(G!gvars)
    <2>1. UNCHANGED vars => UNCHANGED G!gvars
        BY QuietPlace DEF G!gvars, Faulted
    <2>2. QED  BY <2>1 DEF Follows
<1>2. QED
    BY <1>1, GuestStarts, FragmentsFollowGuest, PTL DEF Spec, FollowsGuest, Follows, G!Spec
================================================================================

---------------------------- MODULE SharedProofs ----------------------------
(***************************************************************************)
(* For every instance of SharedSegments: no link into a shared segment     *)
(* dangles, every variable has its type, a segment deleted by name is gone *)
(* and no slab is lost but in two ways.                                    *)
(***************************************************************************)
EXTENDS SharedSegments, FiniteSetTheorems, FunctionTheorems, TLAPS

Lives == {"none", "live", "dead", "deleted", "lost"}

Typed ==
  /\ life \in [Owners -> Lives]
  /\ registry \in [Names -> Masters \union {NoMaster}]
  /\ tables \in [Owners -> SUBSET Tables]
  /\ pte \in [Places -> PageTableEntries]

\* Where a link may point to: an entry of a master that was created, in a table
\* the master has.
Linkable(m, q) == TableOf(q) \in tables[m] /\ life[m] # "none"

Linking ==
  /\ \A name \in Names : registry[name] # NoMaster => life[registry[name]] # "none"
  /\ \A e \in Places : pte[e].shared /\ pte[e].target # NoPage =>
       \E m \in Masters, q \in Pages : pte[e].target = <<m, q>> /\ Linkable(m, q)

LInv == Typed /\ Linking

(* Entries *)

LEMMA Quotients ==
  ASSUME NEW q \in Pages
  PROVE  TableOf(q) \in Tables
BY SharedSegmentsAssumption DEF Pages, NumPages, TableOf, Tables

LEMMA ZeroTyped == ZeroEntry \in PageTableEntries /\ ~ZeroEntry.shared
BY SharedSegmentsAssumption DEF ZeroEntry, PageTableEntries, Frames

LEMMA OwnEntryTyped ==
  ASSUME NEW size \in Nat, NEW c \in 0 .. NumClusters
  PROVE  OwnEntry(size, c) \in PageTableEntries /\ ~OwnEntry(size, c).shared
BY ZeroTyped DEF OwnEntry, PageTableEntries

LEMMA LinkTyped ==
  ASSUME NEW t \in Masters \X Pages
  PROVE  Link(t) \in PageTableEntries /\ Link(t).target = t
BY ZeroTyped DEF Link, PageTableEntries

LEMMA SetUnusedTyped ==
  ASSUME NEW x \in PageTableEntries
  PROVE  SetUnused(x) \in PageTableEntries /\ SetUnused(x).target = NoPage
<1>1. SetUnused(x) \in PageTableEntries
  BY ZeroTyped DEF SetUnused, PageTableEntries
<1>2. SetUnused(x).target = ZeroEntry.target
  BY ZeroTyped DEF SetUnused, PageTableEntries
<1> QED
  BY <1>1, <1>2 DEF ZeroEntry

\* New pages of its own leave the links an owner has, or replace them.
LEMMA SetUpTyped ==
  ASSUME Typed, NEW o, NEW s \in Nat, NEW n \in Nat, NEW k \in Nat,
         NEW cs \in [0 .. k - 1 -> 0 .. NumClusters]
  PROVE  /\ SetUp(o, s, n, k, cs) \in [Places -> PageTableEntries]
         /\ \A e \in Places : \/ SetUp(o, s, n, k, cs)[e] = pte[e]
                              \/ ~SetUp(o, s, n, k, cs)[e].shared
<1> DEFINE up == SetUp(o, s, n, k, cs)
<1>1. ASSUME NEW e \in Places, e[1] = o, e[2] \in s .. s + k - 1
      PROVE  up[e] \in PageTableEntries /\ ~up[e].shared
  <2>1. e[2] - s \in 0 .. k - 1
    BY <1>1
  <2>2. cs[e[2] - s] \in 0 .. NumClusters
    BY <2>1
  <2>3. up[e] = OwnEntry(IF e[2] = s THEN n ELSE 0, cs[e[2] - s])
    BY <1>1 DEF SetUp
  <2> QED
    BY <2>2, <2>3, OwnEntryTyped
<1>2. ASSUME NEW e \in Places, ~(e[1] = o /\ e[2] \in s .. s + k - 1)
      PROVE  up[e] = pte[e] /\ up[e] \in PageTableEntries
  BY <1>2 DEF SetUp, Typed
<1>3. up = [e \in Places |-> up[e]]
  BY DEF SetUp
<1> QED
  BY <1>1, <1>2, <1>3

\* What a step has to do for links to stay good: masters that were created keep
\* their tables, and a link that changes becomes null or points to a table.
LEMMA LinksStay ==
  ASSUME LInv, Typed',
         \A m \in Masters : life[m] # "none" =>
           life'[m] # "none" /\ tables[m] \subseteq tables'[m],
         \A name \in Names : registry'[name] # NoMaster =>
           registry'[name] = registry[name] \/ life'[registry'[name]] # "none",
         \A e \in Places : \/ ~pte'[e].shared
                           \/ pte'[e].target = NoPage
                           \/ pte'[e].shared = pte[e].shared /\ pte'[e].target = pte[e].target
                           \/ \E m \in Masters, q \in Pages :
                                pte'[e].target = <<m, q>> /\ Linkable(m, q)'
  PROVE  LInv'
<1>1. ASSUME NEW m \in Masters, NEW q \in Pages, Linkable(m, q)
      PROVE  Linkable(m, q)'
  BY <1>1 DEF Linkable
<1>2. ASSUME NEW name \in Names, registry'[name] # NoMaster
      PROVE  life'[registry'[name]] # "none"
  BY <1>2 DEF LInv, Linking, Typed
<1>3. ASSUME NEW e \in Places, pte'[e].shared, pte'[e].target # NoPage
      PROVE  \E m \in Masters, q \in Pages :
               pte'[e].target = <<m, q>> /\ Linkable(m, q)'
  <2>1. CASE pte'[e].shared = pte[e].shared /\ pte'[e].target = pte[e].target
    <3>1. PICK m \in Masters, q \in Pages : pte[e].target = <<m, q>> /\ Linkable(m, q)
      BY <1>3, <2>1 DEF LInv, Linking
    <3> QED
      BY <2>1, <3>1, <1>1
  <2> QED
    BY <1>3, <2>1
<1> QED
  BY <1>2, <1>3 DEF LInv, Linking

-----------------------------------------------------------------------------
(* The steps *)

LEMMA TakenAreTables ==
  ASSUME NEW p, NEW s \in Pages, NEW n \in Nat, s + n <= NumPages, NEW ts, NEW left
  PROVE  TablesTaken(p, s, n, ts, left) \subseteq Tables
<1>1. \A i \in 0 .. n - 1 : s + i \in Pages
  BY SharedSegmentsAssumption DEF Pages, NumPages
<1> QED
  BY <1>1, Quotients DEF TablesTaken, MissingTables

LEMMA ConnectStep ==
  ASSUME LInv,
         NEW p \in Procs, NEW s \in Pages, NEW n \in Nat \ {0}, s + n <= NumPages,
         NEW name, NEW m \in Masters, NEW ts \in SUBSET Tables, NEW left,
         NEW entries \in [Places -> PageTableEntries],
         \A e \in Places : entries[e] = pte[e] \/ ~entries[e].shared,
         ConnectTo(p, s, n, name, m, ts, entries, left),
         life' \in [Owners -> Lives], life'[m] # "none",
         \A o \in Masters : life[o] # "none" => life'[o] # "none",
         life[m] # "none" => tables[m] \subseteq ts,
         registry' \in [Names -> Masters \union {NoMaster}],
         \A x \in Names : registry'[x] = registry[x] \/ registry'[x] = m
  PROVE  LInv'
<1> DEFINE taken == TablesTaken(p, s, n, ts, left)
<1>1. pte' = LinkPages(entries, p, s, m, Linked(p, s, n, ts, left))
  BY DEF ConnectTo
<1>2. tables' = [tables EXCEPT ![p] = @ \union taken, ![m] = ts]
  BY DEF ConnectTo
<1>3. /\ pte' \in [Places -> PageTableEntries]
      /\ \A e \in Places :
           \/ pte'[e] = entries[e]
           \/ \E i \in Pages : pte'[e].target = <<m, i>> /\ TableOf(i) \in ts
  <2> DEFINE linked == Linked(p, s, n, ts, left)
  <2>1. \A i \in linked : i \in Pages /\ TableOf(i) \in ts
    BY SharedSegmentsAssumption DEF Linked, Pages, NumPages
  <2>2. ASSUME NEW e \in Places, e[1] = p, e[2] - s \in linked
        PROVE  /\ pte'[e] \in PageTableEntries
               /\ pte'[e].target = <<m, e[2] - s>>
    <3>1. pte'[e] = Link(<<m, e[2] - s>>)
      BY <1>1, <2>2 DEF LinkPages
    <3>2. <<m, e[2] - s>> \in Masters \X Pages
      BY <2>1, <2>2
    <3> QED
      BY <3>1, <3>2, LinkTyped
  <2>3. ASSUME NEW e \in Places, ~(e[1] = p /\ e[2] - s \in linked)
        PROVE  pte'[e] = entries[e] /\ pte'[e] \in PageTableEntries
    BY <1>1, <2>3 DEF LinkPages
  <2>4. pte' = [e \in Places |-> pte'[e]]
    BY <1>1 DEF LinkPages
  <2> HIDE DEF linked
  <2>5. pte' \in [Places -> PageTableEntries]
    BY <2>2, <2>3, <2>4
  <2> QED
    BY <2>1, <2>2, <2>3, <2>5
<1>4. taken \subseteq Tables
  BY TakenAreTables
<1> HIDE DEF taken
<1>5. /\ tables' \in [Owners -> SUBSET Tables]
      /\ tables'[m] = ts
      /\ \A o \in Masters : o # m => tables'[o] = tables[o]
  BY <1>2, <1>4, SharedSegmentsAssumption DEF LInv, Typed, Owners
<1>6. Typed'
  BY <1>3, <1>5 DEF LInv, Typed
<1>7. \A e \in Places :
        \/ ~pte'[e].shared
        \/ pte'[e].shared = pte[e].shared /\ pte'[e].target = pte[e].target
        \/ \E o \in Masters, q \in Pages : pte'[e].target = <<o, q>> /\ Linkable(o, q)'
  BY <1>3, <1>5 DEF Linkable
<1> QED
  BY <1>5, <1>6, <1>7, LinksStay

\* The steps that set entries unused, put them to zero or bring a page in.
LEMMA UnlinkStep ==
  ASSUME LInv, Typed',
         \A m \in Masters : life[m] # "none" =>
           life'[m] # "none" /\ tables[m] \subseteq tables'[m],
         \A name \in Names : registry'[name] = registry[name] \/ registry'[name] = NoMaster,
         \A e \in Places : \/ ~pte'[e].shared
                           \/ pte'[e].target = NoPage
                           \/ pte'[e].shared = pte[e].shared /\ pte'[e].target = pte[e].target
  PROVE  LInv'
BY LinksStay

LEMMA PlaceOf ==
  ASSUME NEW o \in Owners, NEW q \in Pages
  PROVE  <<o, q>> \in Places
BY DEF Places

LEMMA ResolvesToPlace ==
  ASSUME Typed, NEW p \in Procs, NEW q \in Pages, Resolve(<<p, q>>) # NoPage
  PROVE  Resolve(<<p, q>>) \in Places
<1>1. <<p, q>> \in Places
  BY PlaceOf DEF Owners
<1>2. pte[<<p, q>>].target \in (Masters \X Pages) \union {NoPage}
  BY <1>1 DEF Typed, PageTableEntries
<1> QED
  BY <1>1, <1>2 DEF Resolve, Places, Owners

LEMMA InitLinks == Init => LInv
<1> SUFFICES ASSUME Init PROVE LInv
  OBVIOUS
<1>1. Typed
  BY ZeroTyped DEF Init, Typed, Lives
<1>2. Linking
  BY ZeroTyped DEF Init, Linking
<1> QED
  BY <1>1, <1>2 DEF LInv

LEMMA CrashStep ==
  ASSUME LInv, NEW how, Crashes(how)
  PROVE  LInv'
BY DEF Crashes, LInv, Typed, Linking, Linkable

\* A step that sets the entries es unused and leaves all tables alone.
LEMMA SetUnusedStep ==
  ASSUME LInv, NEW es,
         pte' = [e \in Places |-> IF e \in es THEN SetUnused(pte[e]) ELSE pte[e]],
         life' \in [Owners -> Lives],
         \A m \in Masters : life[m] # "none" => life'[m] # "none",
         tables' = tables,
         registry' \in [Names -> Masters \union {NoMaster}],
         \A name \in Names : registry'[name] = registry[name] \/ registry'[name] = NoMaster
  PROVE  LInv'
<1>1. ASSUME NEW e \in Places
      PROVE  /\ pte'[e] \in PageTableEntries
             /\ \/ pte'[e].target = NoPage
                \/ pte'[e].shared = pte[e].shared /\ pte'[e].target = pte[e].target
  <2>1. pte[e] \in PageTableEntries
    BY DEF LInv, Typed
  <2> QED
    BY <2>1, SetUnusedTyped
<1>2. pte' \in [Places -> PageTableEntries]
  BY <1>1
<1>3. Typed'
  BY <1>2 DEF LInv, Typed
<1> QED
  BY <1>1, <1>3, UnlinkStep

LEMMA CreateProcessStep ==
  ASSUME LInv, NEW p \in Procs, CreateProcess(p)
  PROVE  LInv'
<1>1. Typed'
  BY DEF LInv, Typed, CreateProcess, Lives, Owners
<1> QED
  BY <1>1, UnlinkStep DEF CreateProcess, LInv, Typed, Owners

LEMMA DestroyProcessStep ==
  ASSUME LInv, NEW p \in Procs, DestroyProcess(p)
  PROVE  LInv'
<1>3. pte' \in [Places -> PageTableEntries]
  BY ZeroTyped DEF DestroyProcess, LInv, Typed
<1>4. Typed'
  BY <1>3 DEF DestroyProcess, LInv, Typed, Lives
<1>5. \A m \in Masters : life'[m] = life[m] /\ tables'[m] = tables[m]
  BY SharedSegmentsAssumption DEF DestroyProcess, LInv, Typed, Owners
<1>6. \A e \in Places : ~pte'[e].shared \/ pte'[e] = pte[e]
  BY ZeroTyped DEF DestroyProcess
<1>7. registry' = registry
  BY DEF DestroyProcess
<1> QED
  BY <1>4, <1>5, <1>6, <1>7, UnlinkStep

LEMMA CreateSegmentStep ==
  ASSUME LInv, NEW p \in Procs, NEW s \in Pages, NEW n \in SegmentSizes,
         CreateSegment(p, s, n)
  PROVE  LInv'
<1>1. PICK cs \in [0 .. n - 1 -> 0 .. NumClusters] : pte' = SetUp(p, s, n, n, cs)
  BY DEF CreateSegment
<1>2. /\ pte' \in [Places -> PageTableEntries]
      /\ \A e \in Places : pte'[e] = pte[e] \/ ~pte'[e].shared
  <2>1. n \in Nat /\ s \in Nat /\ Typed
    BY SharedSegmentsAssumption DEF LInv, Pages
  <2> QED
    BY <1>1, <2>1, SetUpTyped
<1>3. MissingTables(p, s .. s + n - 1) \subseteq Tables
  <2>1. s .. s + n - 1 \subseteq Pages
    BY SharedSegmentsAssumption DEF CreateSegment, HaveFreeFromAddress, Pages, NumPages
  <2> QED
    BY <2>1, Quotients DEF MissingTables
<1>4. tables' \in [Owners -> SUBSET Tables] /\ \A m \in Masters : tables[m] \subseteq tables'[m]
  BY <1>3 DEF CreateSegment, LInv, Typed, Owners
<1>5. Typed'
  BY <1>2, <1>4 DEF CreateSegment, LInv, Typed
<1> QED
  BY <1>2, <1>4, <1>5, UnlinkStep DEF CreateSegment

LEMMA ConnectSharedStep ==
  ASSUME LInv, NEW p \in Procs, NEW s \in Pages, NEW n \in SegmentSizes,
         NEW name \in Names, ConnectShared(p, s, n, name)
  PROVE  LInv'
<1> DEFINE m == registry[name]
<1>1. /\ m \in Masters
      /\ life[m] # "none"
      /\ tables[m] \in SUBSET Tables
      /\ pte \in [Places -> PageTableEntries]
  BY DEF ConnectShared, LInv, Typed, Linking, Owners
<1>2. PICK x, ts, entries, left :
        /\ x = m /\ ts = tables[m] /\ entries = pte /\ left = freeSlabs
        /\ ConnectTo(p, s, n, name, x, ts, entries, left)
  BY DEF ConnectShared
<1>3. n \in Nat \ {0} /\ s + n <= NumPages
  BY SharedSegmentsAssumption DEF ConnectShared, HaveFreeFromAddress
<1>4. UNCHANGED <<life, registry>>
  BY DEF ConnectShared
<1> HIDE DEF m
<1> QED
  BY <1>1, <1>2, <1>3, <1>4, ConnectStep DEF LInv, Typed

LEMMA CreateSharedStep ==
  ASSUME LInv, NEW p \in Procs, NEW s \in Pages, NEW n \in SegmentSizes,
         NEW name \in Names, NEW m \in Masters, CreateShared(p, s, n, name, m)
  PROVE  LInv'
<1>1. PICK cs \in [0 .. n - 1 -> 0 .. NumClusters] :
        ConnectTo(p, s, n, name, m, TablesFor(n), SetUp(m, 0, n, n, cs),
                  freeSlabs - SlabsFor(n))
  BY DEF CreateShared
<1>2. n \in Nat \ {0} /\ s + n <= NumPages /\ n <= NumPages
  BY SharedSegmentsAssumption
     DEF CreateShared, HaveFreeFromAddress, Pages, NumPages
<1>3. TablesFor(n) \in SUBSET Tables
  <2>1. 0 .. n - 1 \subseteq Pages
    BY <1>2, SharedSegmentsAssumption DEF Pages, NumPages
  <2> QED
    BY <2>1, Quotients DEF TablesFor
<1>4. /\ SetUp(m, 0, n, n, cs) \in [Places -> PageTableEntries]
      /\ \A e \in Places : \/ SetUp(m, 0, n, n, cs)[e] = pte[e]
                           \/ ~SetUp(m, 0, n, n, cs)[e].shared
  BY <1>2, SetUpTyped DEF LInv
<1>5. PICK entries, left :
        /\ entries = SetUp(m, 0, n, n, cs)
        /\ ConnectTo(p, s, n, name, m, TablesFor(n), entries, left)
  BY <1>1
<1>6. /\ life[m] = "none"
      /\ life' \in [Owners -> Lives]
      /\ life'[m] # "none"
      /\ \A o \in Masters : life[o] # "none" => life'[o] # "none"
  BY DEF CreateShared, LInv, Typed, Owners, Lives
<1>7. /\ registry' \in [Names -> Masters \union {NoMaster}]
      /\ \A x \in Names : registry'[x] = registry[x] \/ registry'[x] = m
  BY DEF CreateShared, LInv, Typed
<1> QED
  BY <1>2, <1>3, <1>4, <1>5, <1>6, <1>7, ConnectStep

LEMMA CreateSharedFailsStep ==
  ASSUME LInv, NEW p \in Procs, NEW s \in Pages, NEW n \in SegmentSizes,
         NEW name \in Names, NEW m \in Masters, CreateSharedFails(p, s, n, name, m)
  PROVE  LInv'
<1>1. CASE HasEntry(p, s)
  BY <1>1, CrashStep DEF CreateSharedFails
<1>2. CASE ~HasEntry(p, s)
  <2> DEFINE got == {t \in Tables : t < freeSlabs - 1}
             k   == Cardinality({q \in 0 .. n - 1 : TableOf(q) \in got})
  <2>1. PICK cs \in [0 .. k - 1 -> 0 .. NumClusters] : pte' = SetUp(m, 0, n, k, cs)
    BY <1>2 DEF CreateSharedFails
  <2>2. n \in Nat /\ k \in Nat
    <3> DEFINE held == {q \in 0 .. n - 1 : TableOf(q) \in got}
    <3>1. n \in Nat
      BY SharedSegmentsAssumption
    <3>2. IsFiniteSet(0 .. n - 1) /\ held \subseteq 0 .. n - 1
      BY <3>1, FS_Interval
    <3>3. IsFiniteSet(held)
      BY <3>2, FS_Subset
    <3> QED
      BY <3>1, <3>3, FS_CardinalityType
  <2> HIDE DEF k
  <2>3. /\ pte' \in [Places -> PageTableEntries]
        /\ \A e \in Places : pte'[e] = pte[e] \/ ~pte'[e].shared
    BY <2>1, <2>2, SetUpTyped DEF LInv
  <2>4. /\ life[m] = "none"
        /\ life' = [life EXCEPT ![m] = "lost"]
        /\ tables' = [tables EXCEPT ![m] = got]
        /\ registry' = registry
    BY <1>2 DEF CreateSharedFails
  <2>5. Typed'
    BY <2>3, <2>4 DEF LInv, Typed, Lives
  <2>6. \A o \in Masters : life[o] # "none" =>
          life'[o] # "none" /\ tables[o] \subseteq tables'[o]
    BY <2>4 DEF LInv, Typed, Owners
  <2> QED
    BY <2>3, <2>4, <2>5, <2>6, UnlinkStep
<1> QED
  BY <1>1, <1>2

LEMMA DeleteSegmentStep ==
  ASSUME LInv, NEW p \in Procs, NEW s \in Pages, DeleteSegment(p, s)
  PROVE  LInv'
<1>1. UNCHANGED <<life, registry, tables>>
  BY DEF DeleteSegment
<1>2. PICK es : pte' = [e \in Places |-> IF e \in es THEN SetUnused(pte[e]) ELSE pte[e]]
  BY DEF DeleteSegment
<1> QED
  BY <1>1, <1>2, SetUnusedStep DEF LInv, Typed

LEMMA DisconnectSharedStep ==
  ASSUME LInv, NEW p \in Procs, NEW name \in Names, DisconnectShared(p, name)
  PROVE  LInv'
<1>1. PICK c \in connected[name] :
        IF CanUnlink(p, c[2])
          THEN /\ pte' = [e \in Places |-> IF e \in Unlinked(p, c[2])
                                             THEN SetUnused(pte[e]) ELSE pte[e]]
               /\ UNCHANGED <<life, registry, tables>>
          ELSE Crashes(HowUnlinkFails(p))
  BY DEF DisconnectShared
<1>2. CASE CanUnlink(p, c[2])
  <2>1. PICK es : pte' = [e \in Places |-> IF e \in es THEN SetUnused(pte[e]) ELSE pte[e]]
    BY <1>1, <1>2
  <2>2. UNCHANGED <<life, registry, tables>>
    BY <1>1, <1>2
  <2> QED
    BY <2>1, <2>2, SetUnusedStep DEF LInv, Typed
<1>3. CASE ~CanUnlink(p, c[2])
  BY <1>1, <1>3, CrashStep
<1> QED
  BY <1>2, <1>3

\* The step that keeps the tables: what goes back of a deleted master is the slab
\* of its first-level table alone.
LEMMA DeleteSharedStep ==
  ASSUME LInv, NEW p \in Procs, NEW name \in Names, DeleteShared(p, name)
  PROVE  LInv'
<1> DEFINE m == registry[name]
<1>1. PICK es : pte' = [e \in Places |-> IF e \in es THEN SetUnused(pte[e]) ELSE pte[e]]
  BY DEF DeleteShared
<1>2. /\ life' = [life EXCEPT ![m] = "deleted"]
      /\ registry' = [registry EXCEPT ![name] = NoMaster]
      /\ tables' = tables
  BY DEF DeleteShared, ReturnedTables, LInv, Typed
<1>3. life' \in [Owners -> Lives] /\ \A o \in Masters : life[o] # "none" => life'[o] # "none"
  BY <1>2 DEF LInv, Typed, Lives, Owners
<1>4. /\ registry' \in [Names -> Masters \union {NoMaster}]
      /\ \A x \in Names : registry'[x] = registry[x] \/ registry'[x] = NoMaster
  BY <1>2 DEF LInv, Typed
<1> QED
  BY <1>1, <1>2, <1>3, <1>4, SetUnusedStep

\* Loading an entry leaves it an entry, and leaves its other fields.
LEMMA LoadedEntry ==
  ASSUME NEW r \in PageTableEntries, NEW w, w = r \/ w = [r EXCEPT !.loaded = TRUE]
  PROVE  /\ w \in PageTableEntries /\ w.size = r.size /\ w.used = r.used
         /\ w.shared = r.shared /\ w.target = r.target
BY DEF PageTableEntries

LEMMA InstallStep ==
  ASSUME LInv, NEW e \in Places, NEW f \in Frames,
         NEW entries \in [Places -> PageTableEntries],
         \A x \in Places : entries[x].shared = pte[x].shared
                             /\ entries[x].target = pte[x].target,
         Install(e, f, entries)
  PROVE  LInv'
<1> DEFINE mid == [entries EXCEPT ![e].loaded = TRUE]
<1>1. /\ mid \in [Places -> PageTableEntries]
      /\ \A x \in Places : mid[x].shared = entries[x].shared
                             /\ mid[x].target = entries[x].target
  <2>1. /\ DOMAIN mid = Places
        /\ \A x \in Places : mid[x] = entries[x] \/ mid[x] = [entries[x] EXCEPT !.loaded = TRUE]
    OBVIOUS
  <2>2. mid = [x \in Places |-> mid[x]]
    OBVIOUS
  <2> HIDE DEF mid
  <2>3. \A x \in Places : /\ mid[x] \in PageTableEntries
                         /\ mid[x].size = entries[x].size /\ mid[x].used = entries[x].used
                         /\ mid[x].shared = entries[x].shared /\ mid[x].target = entries[x].target
    <3> SUFFICES ASSUME NEW x \in Places
                 PROVE  /\ mid[x] \in PageTableEntries
                        /\ mid[x].size = entries[x].size /\ mid[x].used = entries[x].used
                        /\ mid[x].shared = entries[x].shared /\ mid[x].target = entries[x].target
      OBVIOUS
    <3>1. entries[x] \in PageTableEntries
      OBVIOUS
    <3> QED BY <2>1, <3>1, LoadedEntry
  <2> QED BY <2>2, <2>3
<1>2. pte' = [mid EXCEPT ![e].frame = f]
  BY DEF Install
<1> HIDE DEF mid
<1>3. /\ pte' \in [Places -> PageTableEntries]
      /\ \A x \in Places : pte'[x].shared = mid[x].shared
                             /\ pte'[x].target = mid[x].target
  BY <1>1, <1>2 DEF PageTableEntries
<1>4. UNCHANGED <<life, registry, tables>>
  BY DEF Install
<1>5. Typed'
  BY <1>3, <1>4 DEF LInv, Typed
<1> QED
  BY <1>1, <1>3, <1>4, <1>5, UnlinkStep

LEMMA PageFaultStep ==
  ASSUME LInv, NEW p \in Procs, NEW q \in Pages, PageFault(p, q)
  PROVE  LInv'
<1> DEFINE e == Resolve(<<p, q>>)
<1>1. CASE \E how : Crashes(how)
  BY <1>1, CrashStep
<1>2. CASE e # NoPage /\ \E f \in Frames : Install(e, f, pte)
  <2>1. e \in Places
    BY <1>2, ResolvesToPlace DEF LInv
  <2> HIDE DEF e
  <2> QED
    BY <1>2, <2>1, InstallStep DEF LInv, Typed
<1>3. CASE e # NoPage /\ \E f \in Frames : Install(e, f, Unloaded(holder[f]))
  <2>1. e \in Places
    BY <1>3, ResolvesToPlace DEF LInv
  <2> HIDE DEF e
  <2>2. PICK f \in Frames : Install(e, f, Unloaded(holder[f]))
    BY <1>3
  <2> DEFINE v == holder[f]
             entries == [pte EXCEPT ![v].loaded = FALSE]
  <2>3. Install(e, f, entries)
    BY <2>2 DEF Unloaded
  <2> HIDE DEF v
  <2>4. pte \in [Places -> PageTableEntries]
    BY DEF LInv, Typed
  <2>5. CASE v \in Places
    <3>1. /\ entries \in [Places -> PageTableEntries]
          /\ \A x \in Places : entries[x].shared = pte[x].shared
                                 /\ entries[x].target = pte[x].target
      BY <2>4, <2>5 DEF PageTableEntries
    <3> QED
      BY <2>1, <2>3, <3>1, InstallStep
  <2>6. CASE v \notin Places
    <3>1. entries = pte
      BY <2>4, <2>6
    <3> QED
      BY <2>1, <2>3, <2>4, <3>1, InstallStep
  <2> QED
    BY <2>5, <2>6
<1> QED
  BY <1>1, <1>2, <1>3 DEF PageFault

LEMMA NextKeepsLinks == LInv /\ [Next]_vars => LInv'
<1> SUFFICES ASSUME LInv, [Next]_vars PROVE LInv'
  OBVIOUS
<1>1. CASE UNCHANGED vars
  BY <1>1 DEF vars, LInv, Typed, Linking, Linkable
<1>2. ASSUME NEW p \in Procs, CreateProcess(p) \/ DestroyProcess(p) PROVE LInv'
  BY <1>2, CreateProcessStep, DestroyProcessStep
<1>3. ASSUME NEW p \in Procs, NEW s \in Pages,
             PageFault(p, s) \/ DeleteSegment(p, s) \/ DeleteSegmentCrashes(p, s)
      PROVE  LInv'
  BY <1>3, PageFaultStep, DeleteSegmentStep, CrashStep DEF DeleteSegmentCrashes
<1>4. ASSUME NEW p \in Procs, NEW s \in Pages, NEW n \in SegmentSizes,
             CreateSegment(p, s, n) \/ CreateCrashes(p, s, n)
      PROVE  LInv'
  BY <1>4, CreateSegmentStep, CrashStep DEF CreateCrashes
<1>5. ASSUME NEW p \in Procs, NEW s \in Pages, NEW n \in SegmentSizes, NEW name \in Names,
             \/ ConnectShared(p, s, n, name)
             \/ \E m \in Masters : \/ CreateShared(p, s, n, name, m)
                                   \/ CreateSharedFails(p, s, n, name, m)
      PROVE  LInv'
  BY <1>5, ConnectSharedStep, CreateSharedStep, CreateSharedFailsStep
<1>6. ASSUME NEW p \in Procs, NEW name \in Names,
             \/ DisconnectShared(p, name)
             \/ DeleteShared(p, name)
             \/ DeleteSharedCrashes(p, name)
      PROVE  LInv'
  BY <1>6, DisconnectSharedStep, DeleteSharedStep, CrashStep DEF DeleteSharedCrashes
<1> QED
  BY <1>1, <1>2, <1>3, <1>4, <1>5, <1>6 DEF Next

\* A link never points into memory that was given back, whatever processes create,
\* connect, disconnect, delete or leave behind and in any order: masters keep the
\* tables they were created with (kernelsystem.cpp:335-359).
THEOREM NoDanglingLinkAlways == Spec => []NoDanglingLink
<1>1. LInv => NoDanglingLink
  BY DEF LInv, Linking, Linkable, NoDanglingLink, HasEntry
<1> QED
  BY <1>1, InitLinks, NextKeepsLinks, PTL DEF Spec

-----------------------------------------------------------------------------
(* Types of everything else *)

Ends == {"none", "noTable", "nullEntry", "nullMaster", "pastConnection", "deadProcess",
         "deadHolder"}
Happenings == {"exhaustion", "deletedAsPrivate", "destroyedConnected", "disconnected",
               "disconnectedPrivate"}

RestTyped ==
  /\ connected \in [Names -> SUBSET (Procs \X Tables)]
  /\ freeFrames \subseteq Frames
  /\ holder \in [Frames -> Places \union {NoPage}]
  /\ bitmap \subseteq Clusters
  /\ freeSlabs \in Nat
  /\ crash \in Ends
  /\ happened \subseteq Happenings

\* No segment ends beyond its owner's last page.
Fits(entries) == \A e \in Places : e[2] + entries[e].size <= NumPages

\* Whoever is connected by a name finds a master under it.
Named == \A name \in Names : connected[name] # {} => registry[name] # NoMaster

TInv == RestTyped /\ Fits(pte) /\ Named

LEMMA TypesTypeOK == Typed /\ RestTyped => TypeOK
BY DEF Typed, RestTyped, TypeOK, Lives, Ends, Happenings

LEMMA SpaceIsFinite == NumPages \in Nat \ {0} /\ IsFiniteSet(Tables)
<1>1. Pmt0Entries \in Nat \ {0} /\ Pmt1Entries \in Nat \ {0}
  BY SharedSegmentsAssumption
<1>2. NumPages \in Nat \ {0}
  BY <1>1 DEF NumPages
<1>3. IsFiniteSet(Tables)
  BY <1>1, FS_Interval DEF Tables
<1> QED BY <1>2, <1>3

LEMMA PageBounds ==
  ASSUME NEW e \in Places
  PROVE  e[2] \in Nat /\ e[2] < NumPages
BY SpaceIsFinite DEF Places, Pages

LEMMA InitRest == Init => TInv
<1> SUFFICES ASSUME Init PROVE TInv
  OBVIOUS
<1>1. ZeroEntry.size = 0
  BY ZeroTyped DEF ZeroEntry
<1>2. Fits(pte)
  BY <1>1, PageBounds, SpaceIsFinite DEF Init, Fits
<1> QED BY <1>2, SharedSegmentsAssumption DEF Init, TInv, RestTyped, Named, Ends

LEMMA SetUpFits ==
  ASSUME Typed, Fits(pte), NEW o, NEW s \in Nat, NEW n \in Nat, s + n <= NumPages,
         NEW k \in Nat, NEW cs
  PROVE  Fits(SetUp(o, s, n, k, cs))
<1> DEFINE up == SetUp(o, s, n, k, cs)
<1> SUFFICES ASSUME NEW e \in Places PROVE e[2] + up[e].size <= NumPages
  BY DEF Fits
<1>1. CASE e[1] = o /\ e[2] \in s .. s + k - 1
  <2>1. up[e] = OwnEntry(IF e[2] = s THEN n ELSE 0, cs[e[2] - s])
    BY <1>1 DEF SetUp
  <2>2. up[e].size = IF e[2] = s THEN n ELSE 0
    BY <2>1, ZeroTyped DEF OwnEntry, ZeroEntry
  <2> QED BY <2>2, PageBounds, SpaceIsFinite
<1>2. CASE ~(e[1] = o /\ e[2] \in s .. s + k - 1)
  BY <1>2 DEF SetUp, Fits
<1> QED BY <1>1, <1>2

\* Entries set unused or to zero count no pages.
LEMMA UnusedFits ==
  ASSUME Typed, Fits(pte), NEW entries,
         \A e \in Places : entries[e].size \in {0, pte[e].size}
  PROVE  Fits(entries)
<1> SUFFICES ASSUME NEW e \in Places PROVE e[2] + entries[e].size <= NumPages
  BY DEF Fits
<1> QED BY PageBounds, SpaceIsFinite DEF Fits

LEMMA SetUnusedSize ==
  ASSUME NEW x \in PageTableEntries
  PROVE  SetUnused(x).size = 0
BY ZeroTyped DEF SetUnused, ZeroEntry

LEMMA CrashRest ==
  ASSUME TInv, NEW how \in Ends, Crashes(how)
  PROVE  TInv'
BY DEF Crashes, TInv, RestTyped, Fits, Named

LEMMA CreateProcessRest ==
  ASSUME TInv, NEW p \in Procs, CreateProcess(p)
  PROVE  TInv'
BY DEF CreateProcess, TInv, RestTyped, Fits, Named

LEMMA TablesFinite ==
  ASSUME Typed, NEW o \in Owners
  PROVE  IsFiniteSet(tables[o]) /\ Cardinality(tables[o]) \in Nat
<1>1. tables[o] \in SUBSET Tables
  BY DEF Typed
<1> QED BY <1>1, SpaceIsFinite, FS_Subset, FS_CardinalityType

LEMMA FramesTyped ==
  ASSUME Typed, NEW es \in SUBSET Places
  PROVE  FramesOf(es) \subseteq Frames
BY DEF FramesOf, Typed, PageTableEntries

LEMMA DestroyProcessRest ==
  ASSUME LInv, TInv, NEW p \in Procs, DestroyProcess(p)
  PROVE  TInv'
<1>1. freeFrames' \subseteq Frames
  <2>1. OwnUsed(p) \in SUBSET Places
    BY DEF OwnUsed
  <2> QED BY <2>1, FramesTyped DEF DestroyProcess, LInv, TInv, RestTyped
<1>2. freeSlabs' \in Nat
  BY TablesFinite DEF DestroyProcess, LInv, TInv, RestTyped, Owners
<1>3. \A e \in Places : pte'[e].size \in {0, pte[e].size}
  BY ZeroTyped DEF DestroyProcess, ZeroEntry
<1>4. Fits(pte')
  BY <1>3, UnusedFits DEF LInv, TInv
<1> QED
  BY <1>1, <1>2, <1>4 DEF DestroyProcess, TInv, RestTyped, Fits, Named, Happenings

LEMMA MissingFinite ==
  ASSUME NEW p, NEW qs \in SUBSET Pages
  PROVE  /\ MissingTables(p, qs) \subseteq Tables
         /\ IsFiniteSet(MissingTables(p, qs))
         /\ Cardinality(MissingTables(p, qs)) \in Nat
<1>1. MissingTables(p, qs) \in SUBSET Tables
  BY Quotients DEF MissingTables
<1> QED BY <1>1, SpaceIsFinite, FS_Subset, FS_CardinalityType

LEMMA RanOutTyped ==
  ASSUME NEW cs, NEW k
  PROVE  RanOut(cs, k) \subseteq Happenings
BY DEF RanOut, Happenings

LEMMA CreateSegmentRest ==
  ASSUME LInv, TInv, NEW p \in Procs, NEW s \in Pages, NEW n \in SegmentSizes,
         CreateSegment(p, s, n)
  PROVE  TInv'
<1>1. n \in Nat /\ s \in Nat /\ s + n <= NumPages
  BY SharedSegmentsAssumption DEF CreateSegment, HaveFreeFromAddress, Pages
<1>2. s .. s + n - 1 \in SUBSET Pages
  BY <1>1, SpaceIsFinite DEF Pages
<1>3. freeSlabs' \in Nat
  <2> DEFINE missing == MissingTables(p, s .. s + n - 1)
  <2>1. Cardinality(missing) \in Nat
    BY <1>2, MissingFinite
  <2>2. Cardinality(missing) <= freeSlabs /\ freeSlabs' = freeSlabs - Cardinality(missing)
    BY DEF CreateSegment
  <2> HIDE DEF missing
  <2> QED BY <2>1, <2>2 DEF TInv, RestTyped
<1>4. PICK cs \in [0 .. n - 1 -> 0 .. NumClusters] :
        /\ pte' = SetUp(p, s, n, n, cs)
        /\ bitmap' = HandedBefore(cs, n) \intersect Clusters
        /\ happened' = happened \union RanOut(cs, n)
  BY DEF CreateSegment
<1>5. Fits(pte')
  BY <1>1, <1>4, SetUpFits DEF LInv, TInv
<1>6. happened' \subseteq Happenings
  BY <1>4, RanOutTyped DEF TInv, RestTyped
<1> QED
  BY <1>3, <1>4, <1>5, <1>6 DEF CreateSegment, TInv, RestTyped, Fits, Named

\* allocateFromShared never takes more tables than there are slabs.
LEMMA TakenSuffice ==
  ASSUME NEW p, NEW s \in Pages, NEW n \in Nat, s + n <= NumPages, NEW ts, NEW left \in Nat
  PROVE  /\ IsFiniteSet(TablesTaken(p, s, n, ts, left))
         /\ Cardinality(TablesTaken(p, s, n, ts, left)) \in 0 .. left
<1> DEFINE got == {j \in 0 .. n - 1 : GetsTable(p, s, j, ts, left)}
           taken == TablesTaken(p, s, n, ts, left)
<1>1. taken = MissingTables(p, {s + i : i \in got})
  BY DEF TablesTaken
<1>2. \A i \in got : i \in Nat /\ i < n /\ s .. s + i \in SUBSET Pages
  BY SpaceIsFinite DEF Pages
<1>3. CASE got = {}
  <2>1. taken = {}
    BY <1>1, <1>3 DEF MissingTables
  <2> QED BY <2>1, FS_EmptySet
<1>4. CASE got # {}
  <2> DEFINE c == Cardinality(got)
  <2>1. got \subseteq 0 .. n - 1 /\ IsFiniteSet(got) /\ c \in Nat
    <3>1. got \subseteq 0 .. n - 1 /\ IsFiniteSet(0 .. n - 1)
      BY FS_Interval
    <3>2. IsFiniteSet(got)
      BY <3>1, FS_Subset
    <3> QED BY <3>1, <3>2, FS_CardinalityType
  <2>2. ASSUME NEW i \in got, NEW j \in Nat, j <= i
        PROVE  j \in got
    <3>1. MissingTables(p, s .. s + j) \subseteq MissingTables(p, s .. s + i)
      BY <1>2, <2>2 DEF MissingTables, Pages
    <3>2. /\ IsFiniteSet(MissingTables(p, s .. s + i))
          /\ Cardinality(MissingTables(p, s .. s + i)) \in Nat
          /\ Cardinality(MissingTables(p, s .. s + i)) <= left
      BY <1>2, MissingFinite DEF GetsTable
    <3>3. s .. s + j \in SUBSET Pages
      BY <1>2, <2>2 DEF Pages
    <3>4. Cardinality(MissingTables(p, s .. s + j)) \in Nat
      BY <3>3, MissingFinite
    <3>5. Cardinality(MissingTables(p, s .. s + j)) <= left
      <4>1. Cardinality(MissingTables(p, s .. s + j))
              <= Cardinality(MissingTables(p, s .. s + i))
        BY <3>1, <3>2, FS_Subset
      <4> QED BY <3>2, <3>4, <4>1
    <3>6. \A x \in 0 .. j - 1 : TableOf(x) \in ts
      BY <1>2, <2>2 DEF GetsTable
    <3> QED BY <1>2, <2>2, <3>5, <3>6 DEF GetsTable
  <2>3. \A j \in got : j <= c - 1
    <3> SUFFICES ASSUME NEW j \in got PROVE j <= c - 1
      OBVIOUS
    <3>1. 0 .. j \subseteq got
      BY <1>2, <2>2
    <3>2. Cardinality(0 .. j) = j + 1
      BY <1>2, FS_Interval
    <3>3. Cardinality(0 .. j) <= c
      BY <2>1, <3>1, FS_Subset
    <3> QED BY <1>2, <2>1, <3>2, <3>3
  <2>4. c - 1 \in got
    <3> SUFFICES ASSUME c - 1 \notin got PROVE FALSE
      OBVIOUS
    <3>1. c > 0
      BY <1>2, <1>4, <2>1, <2>3
    <3>2. \A j \in got : j \in 0 .. c - 2
      BY <1>2, <2>1, <2>3
    <3>3. IsFiniteSet(0 .. c - 2) /\ Cardinality(0 .. c - 2) = c - 1
      <4> HIDE DEF c
      <4> QED BY <2>1, <3>1, FS_Interval
    <3>4. c <= c - 1
      BY <3>2, <3>3, FS_Subset
    <3> QED BY <2>1, <3>4
  <2> HIDE DEF c
  <2>6. {s + j : j \in got} \subseteq s .. s + (c - 1)
    BY <1>2, <2>1, <2>3, SpaceIsFinite DEF Pages
  <2>7. taken \in SUBSET MissingTables(p, s .. s + (c - 1))
    BY <1>1, <2>6 DEF MissingTables
  <2>8. /\ IsFiniteSet(MissingTables(p, s .. s + (c - 1)))
        /\ Cardinality(MissingTables(p, s .. s + (c - 1))) \in Nat
        /\ Cardinality(MissingTables(p, s .. s + (c - 1))) <= left
    BY <1>2, <2>4, MissingFinite DEF GetsTable
  <2>9. IsFiniteSet(taken) /\ Cardinality(taken) \in Nat
    BY <2>7, <2>8, FS_Subset, FS_CardinalityType
  <2>10. Cardinality(taken) <= Cardinality(MissingTables(p, s .. s + (c - 1)))
    BY <2>7, <2>8, FS_Subset
  <2> HIDE DEF got
  <2>11. Cardinality(taken) <= left
    BY <2>8, <2>9, <2>10
  <2> QED BY <2>9, <2>11
<1> QED BY <1>3, <1>4

LEMMA ConnectRest ==
  ASSUME LInv, TInv, NEW p \in Procs, NEW s \in Pages, NEW n \in Nat, s + n <= NumPages,
         NEW name \in Names, NEW m \in Masters, NEW ts, NEW left \in Nat,
         NEW entries, Fits(entries),
         ConnectTo(p, s, n, name, m, ts, entries, left),
         registry' = [registry EXCEPT ![name] = m]
  PROVE  /\ connected' \in [Names -> SUBSET (Procs \X Tables)]
         /\ freeSlabs' \in Nat
         /\ Fits(pte')
         /\ Named'
<1>1. Recorded(name, p, s) \in SUBSET (Procs \X Tables)
  BY Quotients DEF Recorded, TInv, RestTyped
<1>2. /\ connected' \in [Names -> SUBSET (Procs \X Tables)]
      /\ \A x \in Names : x # name => connected'[x] = connected[x]
  BY <1>1 DEF ConnectTo, TInv, RestTyped
<1>3. freeSlabs' \in Nat
  BY TakenSuffice DEF ConnectTo
<1>4. Fits(pte')
  <2> SUFFICES ASSUME NEW e \in Places PROVE e[2] + pte'[e].size <= NumPages
    BY DEF Fits
  <2>1. pte'[e] = entries[e] \/ \E t : pte'[e] = Link(t)
    BY DEF ConnectTo, LinkPages
  <2>2. \A t : Link(t).size = 0
    BY ZeroTyped DEF Link, ZeroEntry
  <2> QED BY <2>1, <2>2, PageBounds, SpaceIsFinite DEF Fits
<1>5. Named'
  <2> SUFFICES ASSUME NEW x \in Names, connected'[x] # {} PROVE registry'[x] # NoMaster
    BY DEF Named
  <2>1. registry \in [Names -> Masters \union {NoMaster}] /\ NoMaster \notin Masters
    BY SharedSegmentsAssumption DEF LInv, Typed
  <2> QED BY <1>2, <2>1 DEF TInv, Named
<1> QED BY <1>2, <1>3, <1>4, <1>5

LEMMA ConnectSharedRest ==
  ASSUME LInv, TInv, NEW p \in Procs, NEW s \in Pages, NEW n \in SegmentSizes,
         NEW name \in Names, ConnectShared(p, s, n, name)
  PROVE  TInv'
<1> DEFINE m == registry[name]
<1>1. m \in Masters
  BY DEF ConnectShared, LInv, Typed
<1>2. PICK x, ts, entries, left :
        /\ x = m /\ ts = tables[m] /\ entries = pte /\ left = freeSlabs
        /\ ConnectTo(p, s, n, name, x, ts, entries, left)
  BY DEF ConnectShared
<1>3. n \in Nat /\ s + n <= NumPages
  BY SharedSegmentsAssumption DEF ConnectShared, HaveFreeFromAddress
<1>4. UNCHANGED <<life, registry, freeFrames, holder, bitmap, crash, happened>>
  BY DEF ConnectShared
<1>5. registry' = [registry EXCEPT ![name] = m]
  BY <1>4 DEF LInv, Typed
<1> HIDE DEF m
<1>6. /\ connected' \in [Names -> SUBSET (Procs \X Tables)]
      /\ freeSlabs' \in Nat
      /\ Fits(pte')
      /\ Named'
  BY <1>1, <1>2, <1>3, <1>5, ConnectRest DEF TInv, RestTyped
<1> QED BY <1>4, <1>6 DEF TInv, RestTyped

LEMMA CreateSharedRest ==
  ASSUME LInv, TInv, NEW p \in Procs, NEW s \in Pages, NEW n \in SegmentSizes,
         NEW name \in Names, NEW m \in Masters, CreateShared(p, s, n, name, m)
  PROVE  TInv'
<1>1. n \in Nat /\ s \in Nat /\ s + n <= NumPages /\ n <= NumPages
  BY SharedSegmentsAssumption, SpaceIsFinite DEF CreateShared, HaveFreeFromAddress, Pages
<1>2. PICK cs \in [0 .. n - 1 -> 0 .. NumClusters] :
        /\ ConnectTo(p, s, n, name, m, TablesFor(n), SetUp(m, 0, n, n, cs),
                     freeSlabs - SlabsFor(n))
        /\ bitmap' = HandedBefore(cs, n) \intersect Clusters
        /\ happened' = happened \union RanOut(cs, n)
  BY DEF CreateShared
<1>3. PICK entries, left :
        /\ entries = SetUp(m, 0, n, n, cs) /\ left = freeSlabs - SlabsFor(n)
        /\ ConnectTo(p, s, n, name, m, TablesFor(n), entries, left)
  BY <1>2
<1>4. Fits(entries)
  BY <1>1, <1>3, SetUpFits DEF LInv, TInv
<1>5. left \in Nat
  <2>1. SlabsFor(n) \in Nat
    <3>1. TablesFor(n) \in SUBSET Tables
      <4>1. 0 .. n - 1 \subseteq Pages
        BY <1>1, SpaceIsFinite DEF Pages
      <4> QED BY <4>1, Quotients DEF TablesFor
    <3>2. Cardinality(TablesFor(n)) \in Nat
      BY <3>1, SpaceIsFinite, FS_Subset, FS_CardinalityType
    <3> QED BY <3>2 DEF SlabsFor
  <2> QED BY <1>3, <2>1 DEF CreateShared, TInv, RestTyped
<1>6. /\ registry' = [registry EXCEPT ![name] = m]
      /\ UNCHANGED <<freeFrames, holder, crash>>
  BY DEF CreateShared
<1>7. /\ connected' \in [Names -> SUBSET (Procs \X Tables)]
      /\ freeSlabs' \in Nat
      /\ Fits(pte')
      /\ Named'
  BY <1>1, <1>3, <1>4, <1>5, <1>6, ConnectRest
<1>8. happened' \subseteq Happenings
  BY <1>2, RanOutTyped DEF TInv, RestTyped
<1> QED BY <1>2, <1>6, <1>7, <1>8 DEF TInv, RestTyped

LEMMA CreateSharedFailsRest ==
  ASSUME LInv, TInv, NEW p \in Procs, NEW s \in Pages, NEW n \in SegmentSizes,
         NEW name \in Names, NEW m \in Masters, CreateSharedFails(p, s, n, name, m)
  PROVE  TInv'
<1>1. CASE HasEntry(p, s)
  BY <1>1, CrashRest DEF CreateSharedFails, Ends
<1>2. CASE ~HasEntry(p, s)
  <2> DEFINE held == {q \in 0 .. n - 1 : TableOf(q) \in {t \in Tables : t < freeSlabs - 1}}
             k    == Cardinality(held)
  <2>1. PICK cs \in [0 .. k - 1 -> 0 .. NumClusters] :
          /\ pte' = SetUp(m, 0, n, k, cs)
          /\ bitmap' = HandedBefore(cs, k) \intersect Clusters
          /\ happened' = happened \union RanOut(cs, k)
    BY <1>2 DEF CreateSharedFails
  <2>2. n \in Nat /\ n <= NumPages
    BY SharedSegmentsAssumption, SpaceIsFinite
       DEF CreateSharedFails, HaveFreeFromAddress, Pages
  <2>3. k \in Nat
    <3>1. IsFiniteSet(0 .. n - 1) /\ held \subseteq 0 .. n - 1
      <4>1. 0 \in Int /\ n - 1 \in Int
        BY <2>2
      <4>2. IsFiniteSet(0 .. n - 1)
        BY <4>1, FS_Interval
      <4> QED BY <4>2
    <3>2. IsFiniteSet(held)
      BY <3>1, FS_Subset
    <3> QED BY <3>2, FS_CardinalityType
  <2> HIDE DEF k
  <2>4. Fits(pte')
    BY <2>1, <2>2, <2>3, SetUpFits DEF LInv, TInv
  <2>5. happened' \subseteq Happenings
    BY <2>1, RanOutTyped DEF TInv, RestTyped
  <2>6. freeSlabs' = 0 /\ UNCHANGED <<registry, connected, freeFrames, holder, crash>>
    BY <1>2 DEF CreateSharedFails
  <2> QED BY <2>1, <2>4, <2>5, <2>6 DEF TInv, RestTyped, Named
<1> QED BY <1>1, <1>2

LEMMA DeleteSegmentRest ==
  ASSUME LInv, TInv, NEW p \in Procs, NEW s \in Pages, DeleteSegment(p, s)
  PROVE  TInv'
<1>1. ASSUME NEW q \in Walk(p, s) PROVE Resolve(<<p, q>>) \in Places
  BY <1>1, ResolvesToPlace DEF DeleteSegment, CanWalk, HasEntry, IsNull, LInv
<1>2. Walked(p, s) \in SUBSET Places
  BY <1>1 DEF Walked
<1>3. freeFrames' \subseteq Frames
  <2>1. 0 \in Frames
    BY SharedSegmentsAssumption DEF Frames
  <2>2. FramesOf(Walked(p, s)) \subseteq Frames
    BY <1>2, FramesTyped DEF LInv
  <2> QED BY <2>1, <2>2 DEF DeleteSegment, TInv, RestTyped
<1>4. bitmap' \subseteq Clusters /\ happened' \subseteq Happenings
  BY DEF DeleteSegment, TInv, RestTyped, Happenings
<1>5. Fits(pte')
  <2>1. \A e \in Places : pte'[e] = pte[e] \/ pte'[e] = SetUnused(pte[e])
    BY DEF DeleteSegment
  <2>2. \A e \in Places : SetUnused(pte[e]).size = 0
    BY SetUnusedSize DEF LInv, Typed
  <2> QED BY <2>1, <2>2, UnusedFits DEF LInv, TInv
<1> QED BY <1>3, <1>4, <1>5 DEF DeleteSegment, TInv, RestTyped, Named

LEMMA DisconnectSharedRest ==
  ASSUME LInv, TInv, NEW p \in Procs, NEW name \in Names, DisconnectShared(p, name)
  PROVE  TInv'
<1>1. PICK c \in connected[name] :
        IF CanUnlink(p, c[2])
          THEN /\ pte' = [e \in Places |-> IF e \in Unlinked(p, c[2])
                                             THEN SetUnused(pte[e]) ELSE pte[e]]
               /\ happened' = happened \union Strays(Unlinked(p, c[2]))
               /\ UNCHANGED <<life, registry, connected, tables, freeFrames, holder,
                              bitmap, freeSlabs, crash>>
          ELSE Crashes(HowUnlinkFails(p))
  BY DEF DisconnectShared
<1>2. CASE CanUnlink(p, c[2])
  <2>1. \A e \in Places : pte'[e] = pte[e] \/ pte'[e] = SetUnused(pte[e])
    BY <1>1, <1>2
  <2>2. \A e \in Places : SetUnused(pte[e]).size = 0
    BY SetUnusedSize DEF LInv, Typed
  <2>3. Fits(pte')
    BY <2>1, <2>2, UnusedFits DEF LInv, TInv
  <2>4. happened' \subseteq Happenings
    BY <1>1, <1>2 DEF Strays, Happenings, TInv, RestTyped
  <2> QED BY <1>1, <1>2, <2>3, <2>4 DEF TInv, RestTyped, Named
<1>3. CASE ~CanUnlink(p, c[2])
  BY <1>1, <1>3, CrashRest DEF HowUnlinkFails, Ends
<1> QED BY <1>2, <1>3

LEMMA MasterPagesArePlaces ==
  ASSUME LInv, TInv, NEW m \in Masters
  PROVE  MasterPages(m) \subseteq Places
<1>1. <<m, 0>> \in Places
  BY SpaceIsFinite DEF Places, Pages, Owners
<1>2. pte[<<m, 0>>].size \in Nat /\ pte[<<m, 0>>].size <= NumPages
  BY <1>1 DEF TInv, Fits, LInv, Typed, PageTableEntries
<1> QED BY <1>2, SpaceIsFinite DEF MasterPages, Places, Pages, Owners

LEMMA DeleteSharedRest ==
  ASSUME LInv, TInv, NEW p \in Procs, NEW name \in Names, DeleteShared(p, name)
  PROVE  TInv'
<1> DEFINE m == registry[name]
<1>1. m \in Masters
  BY DEF DeleteShared, TInv, Named, LInv, Typed
<1>2. freeFrames' \subseteq Frames
  <2>1. FramesOf(MasterPages(m)) \subseteq Frames
    BY <1>1, MasterPagesArePlaces, FramesTyped DEF LInv
  <2> QED BY <2>1 DEF DeleteShared, TInv, RestTyped
<1>3. bitmap' \subseteq Clusters /\ happened' \subseteq Happenings
  BY DEF DeleteShared, TInv, RestTyped, Happenings, Strays
<1>4. Fits(pte')
  <2>1. \A e \in Places : pte'[e] = pte[e] \/ pte'[e] = SetUnused(pte[e])
    BY DEF DeleteShared
  <2>2. \A e \in Places : SetUnused(pte[e]).size = 0
    BY SetUnusedSize DEF LInv, Typed
  <2> QED BY <2>1, <2>2, UnusedFits DEF LInv, TInv
<1>5. freeSlabs' \in Nat
  <2>1. Cardinality(ReturnedTables(m)) = 0
    BY FS_EmptySet DEF ReturnedTables
  <2> QED BY <2>1 DEF DeleteShared, TInv, RestTyped
<1>6. Named'
  BY DEF DeleteShared, TInv, RestTyped, Named, LInv, Typed
<1> QED BY <1>2, <1>3, <1>4, <1>5, <1>6 DEF DeleteShared, TInv, RestTyped

LEMMA InstallRest ==
  ASSUME LInv, TInv, NEW e \in Places, NEW f \in Frames,
         NEW entries \in [Places -> PageTableEntries],
         \A x \in Places : entries[x].size = pte[x].size,
         Install(e, f, entries)
  PROVE  TInv'
<1> DEFINE mid == [entries EXCEPT ![e].loaded = TRUE]
<1>1. /\ mid \in [Places -> PageTableEntries]
      /\ \A x \in Places : mid[x].size = entries[x].size
  <2>1. /\ DOMAIN mid = Places
        /\ \A x \in Places : mid[x] = entries[x] \/ mid[x] = [entries[x] EXCEPT !.loaded = TRUE]
    OBVIOUS
  <2>2. mid = [x \in Places |-> mid[x]]
    OBVIOUS
  <2> HIDE DEF mid
  <2>3. \A x \in Places : /\ mid[x] \in PageTableEntries
                         /\ mid[x].size = entries[x].size /\ mid[x].used = entries[x].used
                         /\ mid[x].shared = entries[x].shared /\ mid[x].target = entries[x].target
    <3> SUFFICES ASSUME NEW x \in Places
                 PROVE  /\ mid[x] \in PageTableEntries
                        /\ mid[x].size = entries[x].size /\ mid[x].used = entries[x].used
                        /\ mid[x].shared = entries[x].shared /\ mid[x].target = entries[x].target
      OBVIOUS
    <3>1. entries[x] \in PageTableEntries
      OBVIOUS
    <3> QED BY <2>1, <3>1, LoadedEntry
  <2> QED BY <2>2, <2>3
<1>2. pte' = [mid EXCEPT ![e].frame = f]
  BY DEF Install
<1> HIDE DEF mid
<1>3. \A x \in Places : pte'[x].size = pte[x].size
  BY <1>1, <1>2 DEF PageTableEntries
<1>4. Fits(pte')
  BY <1>3 DEF TInv, Fits
<1>5. /\ holder' = [holder EXCEPT ![f] = e]
      /\ freeFrames' = freeFrames \ {f}
      /\ UNCHANGED <<registry, connected, bitmap, freeSlabs, crash, happened>>
  BY DEF Install
<1> QED BY <1>4, <1>5 DEF TInv, RestTyped, Named

LEMMA PageFaultRest ==
  ASSUME LInv, TInv, NEW p \in Procs, NEW q \in Pages, PageFault(p, q)
  PROVE  TInv'
<1> DEFINE e == Resolve(<<p, q>>)
<1>1. CASE Crashes("nullEntry") \/ Crashes("deadHolder")
  BY <1>1, CrashRest DEF Ends
<1>2. CASE e # NoPage /\ \E f \in Frames : Install(e, f, pte)
  <2>1. e \in Places
    BY <1>2, ResolvesToPlace DEF LInv
  <2> HIDE DEF e
  <2> QED BY <1>2, <2>1, InstallRest DEF LInv, Typed
<1>3. CASE e # NoPage /\ \E f \in Frames : Install(e, f, Unloaded(holder[f]))
  <2>1. e \in Places
    BY <1>3, ResolvesToPlace DEF LInv
  <2> HIDE DEF e
  <2>2. PICK f \in Frames : Install(e, f, Unloaded(holder[f]))
    BY <1>3
  <2> DEFINE v == holder[f]
             entries == [pte EXCEPT ![v].loaded = FALSE]
  <2>3. Install(e, f, entries)
    BY <2>2 DEF Unloaded
  <2> HIDE DEF v
  <2>4. pte \in [Places -> PageTableEntries]
    BY DEF LInv, Typed
  <2>5. CASE v \in Places
    <3>1. /\ entries \in [Places -> PageTableEntries]
          /\ \A x \in Places : entries[x].size = pte[x].size
      BY <2>4, <2>5 DEF PageTableEntries
    <3> QED BY <2>1, <2>3, <3>1, InstallRest
  <2>6. CASE v \notin Places
    <3>1. entries = pte
      BY <2>4, <2>6
    <3> QED BY <2>1, <2>3, <2>4, <3>1, InstallRest
  <2> QED BY <2>5, <2>6
<1> QED BY <1>1, <1>2, <1>3 DEF PageFault

LEMMA NextKeepsTypes == LInv /\ TInv /\ [Next]_vars => TInv'
<1> SUFFICES ASSUME LInv, TInv, [Next]_vars PROVE TInv'
  OBVIOUS
<1>1. CASE UNCHANGED vars
  BY <1>1 DEF vars, TInv, RestTyped, Fits, Named
<1>2. ASSUME NEW p \in Procs, CreateProcess(p) \/ DestroyProcess(p) PROVE TInv'
  BY <1>2, CreateProcessRest, DestroyProcessRest
<1>3. ASSUME NEW p \in Procs, NEW s \in Pages,
             PageFault(p, s) \/ DeleteSegment(p, s) \/ DeleteSegmentCrashes(p, s)
      PROVE  TInv'
  BY <1>3, PageFaultRest, DeleteSegmentRest, CrashRest DEF DeleteSegmentCrashes, Ends
<1>4. ASSUME NEW p \in Procs, NEW s \in Pages, NEW n \in SegmentSizes,
             CreateSegment(p, s, n) \/ CreateCrashes(p, s, n)
      PROVE  TInv'
  BY <1>4, CreateSegmentRest, CrashRest DEF CreateCrashes, Ends
<1>5. ASSUME NEW p \in Procs, NEW s \in Pages, NEW n \in SegmentSizes, NEW name \in Names,
             \/ ConnectShared(p, s, n, name)
             \/ \E m \in Masters : \/ CreateShared(p, s, n, name, m)
                                   \/ CreateSharedFails(p, s, n, name, m)
      PROVE  TInv'
  BY <1>5, ConnectSharedRest, CreateSharedRest, CreateSharedFailsRest
<1>6. ASSUME NEW p \in Procs, NEW name \in Names,
             \/ DisconnectShared(p, name)
             \/ DeleteShared(p, name)
             \/ DeleteSharedCrashes(p, name)
      PROVE  TInv'
  <2>1. \A x : HowUnlinkFails(x) \in Ends
    BY DEF HowUnlinkFails, Ends
  <2>2. CASE DeleteSharedCrashes(p, name)
    BY <2>1, <2>2, CrashRest DEF DeleteSharedCrashes, Ends
  <2> QED BY <1>6, <2>2, DisconnectSharedRest, DeleteSharedRest
<1> QED
  BY <1>1, <1>2, <1>3, <1>4, <1>5, <1>6 DEF Next

\* What every call leaves behind has its type: above all no call takes more slabs
\* than there are, a link names a page of a master, and a deletion frees frames of
\* pages that exist (kernelsystem.cpp:272-282, 335-359).
THEOREM TypeCorrect == Spec => []TypeOK
<1>1. Init => LInv /\ TInv
  BY InitLinks, InitRest
<1>2. LInv /\ TInv /\ [Next]_vars => (LInv /\ TInv)'
  BY NextKeepsLinks, NextKeepsTypes
<1>3. LInv /\ TInv => TypeOK
  BY TypesTypeOK DEF LInv, TInv
<1> QED
  BY <1>1, <1>2, <1>3, PTL DEF Spec

-----------------------------------------------------------------------------
(* Deleted masters *)

\* A used page of a master is one its deletion will come to, and the master is
\* there.
Reached(m, q) ==
  pte[<<m, q>>].used => q < pte[<<m, 0>>].size /\ life[m] \notin {"none", "deleted"}

MInv == Spared({"deletedAsPrivate"}) => \A m \in Masters, q \in Pages : Reached(m, q)

GInv == LInv /\ TInv /\ MInv

LEMMA ReachedIsEnough == MInv => DeletedIsGone
<1> SUFFICES ASSUME MInv, Spared({"deletedAsPrivate"}), NEW e \in UsedPages, e[1] \in Masters
             PROVE  life[e[1]] # "deleted"
  BY DEF DeletedIsGone
<1>1. PICK o \in Owners, q \in Pages : e = <<o, q>>
  BY DEF UsedPages, Places
<1>2. o \in Masters /\ pte[<<o, q>>].used
  BY <1>1 DEF UsedPages
<1>3. Reached(o, q)
  BY <1>2 DEF MInv
<1> QED BY <1>1, <1>2, <1>3 DEF Reached

LEMMA InitReached == Init => MInv
<1> SUFFICES ASSUME Init PROVE MInv
  OBVIOUS
<1>1. ~ZeroEntry.used
  BY ZeroTyped DEF ZeroEntry
<1> QED BY <1>1, PlaceOf DEF Init, MInv, Reached, Owners

\* The steps that leave the pages of masters as they are.
LEMMA MastersKept ==
  ASSUME MInv, happened \subseteq happened',
         \A m \in Masters : life'[m] = life[m],
         Spared({"deletedAsPrivate"})' =>
           \A m \in Masters, q \in Pages : /\ pte'[<<m, q>>].used = pte[<<m, q>>].used
                                           /\ pte'[<<m, q>>].size = pte[<<m, q>>].size
  PROVE  MInv'
<1> SUFFICES ASSUME Spared({"deletedAsPrivate"})', NEW m \in Masters, NEW q \in Pages
             PROVE  Reached(m, q)'
  BY DEF MInv
<1>1. Reached(m, q)
  BY DEF MInv, Spared
<1>2. 0 \in Pages
  BY SpaceIsFinite DEF Pages
<1> QED BY <1>1, <1>2 DEF Reached

LEMMA CrashKeeps ==
  ASSUME MInv, NEW how, Crashes(how)
  PROVE  MInv'
BY DEF Crashes, MInv, Reached, Spared

\* No place of a process is one of a master.
LEMMA Apart ==
  ASSUME NEW p \in Procs, NEW m \in Masters, NEW q \in Pages
  PROVE  <<m, q>> \in Places /\ <<m, q>>[1] # p /\ m \in Owners
BY SharedSegmentsAssumption, PlaceOf DEF Owners

LEMMA CreateProcessKeeps ==
  ASSUME GInv, NEW p \in Procs, CreateProcess(p)
  PROVE  MInv'
<1>1. \A m \in Masters : life'[m] = life[m]
  BY SharedSegmentsAssumption DEF CreateProcess, GInv, LInv, Typed, Owners
<1> QED BY <1>1, MastersKept DEF CreateProcess, GInv

LEMMA DestroyProcessKeeps ==
  ASSUME GInv, NEW p \in Procs, DestroyProcess(p)
  PROVE  MInv'
<1>1. \A m \in Masters : life'[m] = life[m]
  BY SharedSegmentsAssumption DEF DestroyProcess, GInv, LInv, Typed, Owners
<1>2. \A m \in Masters, q \in Pages : pte'[<<m, q>>] = pte[<<m, q>>]
  BY Apart DEF DestroyProcess
<1> QED BY <1>1, <1>2, MastersKept DEF DestroyProcess, GInv

LEMMA CreateSegmentKeeps ==
  ASSUME GInv, NEW p \in Procs, NEW s \in Pages, NEW n \in SegmentSizes,
         CreateSegment(p, s, n)
  PROVE  MInv'
<1>1. PICK cs : pte' = SetUp(p, s, n, n, cs) /\ happened \subseteq happened'
  BY DEF CreateSegment
<1>2. \A m \in Masters, q \in Pages : pte'[<<m, q>>] = pte[<<m, q>>]
  BY <1>1, Apart DEF SetUp
<1> QED BY <1>1, <1>2, MastersKept DEF CreateSegment, GInv

LEMMA ConnectSharedKeeps ==
  ASSUME GInv, NEW p \in Procs, NEW s \in Pages, NEW n \in SegmentSizes,
         NEW name \in Names, ConnectShared(p, s, n, name)
  PROVE  MInv'
<1>1. \A x \in Masters, q \in Pages : pte'[<<x, q>>] = pte[<<x, q>>]
  <2>1. PICK m, is : pte' = LinkPages(pte, p, s, m, is)
    BY DEF ConnectShared, ConnectTo
  <2> QED BY <2>1, Apart DEF LinkPages
<1> QED BY <1>1, MastersKept DEF ConnectShared, GInv

\* A master as it is set up: k of its n pages, from 0 on.
LEMMA SetUpReached ==
  ASSUME GInv, NEW m \in Masters, life[m] = "none", life'[m] \in {"live", "lost"},
         \A x \in Masters : x # m => life'[x] = life[x],
         happened \subseteq happened',
         NEW n \in Nat, NEW k \in 0 .. n, NEW cs,
         \A x \in Masters, q \in Pages : pte'[<<x, q>>] = SetUp(m, 0, n, k, cs)[<<x, q>>]
  PROVE  MInv'
<1> SUFFICES ASSUME Spared({"deletedAsPrivate"})', NEW x \in Masters, NEW q \in Pages
             PROVE  Reached(x, q)'
  BY DEF MInv
<1>1. Reached(x, q)
  BY DEF GInv, MInv, Spared
<1>2. 0 \in Pages /\ q \in Nat
  BY SpaceIsFinite DEF Pages
<1>3. <<x, q>> \in Places /\ <<x, 0>> \in Places
  BY <1>2, PlaceOf DEF Owners
<1>4. CASE x # m
  <2>1. pte'[<<x, q>>] = pte[<<x, q>>] /\ pte'[<<x, 0>>] = pte[<<x, 0>>]
    BY <1>2, <1>3, <1>4 DEF SetUp
  <2> QED BY <1>1, <1>4, <2>1 DEF Reached
<1>5. CASE x = m /\ q >= k
  <2>1. pte'[<<x, q>>] = pte[<<x, q>>]
    <3>1. q \notin 0 .. 0 + k - 1
      BY <1>2, <1>5
    <3> QED BY <1>3, <3>1 DEF SetUp
  <2> QED BY <1>1, <1>5, <2>1 DEF Reached
<1>6. CASE x = m /\ q < k
  <2>1. pte'[<<x, 0>>] = OwnEntry(n, cs[0])
    <3>1. 0 \in 0 .. 0 + k - 1 /\ 0 - 0 = 0
      BY <1>2, <1>6
    <3>2. SetUp(m, 0, n, k, cs)[<<x, 0>>]
            = OwnEntry(IF 0 = 0 THEN n ELSE 0, cs[0 - 0])
      BY <1>3, <1>6, <3>1 DEF SetUp
    <3> QED BY <1>2, <3>1, <3>2
  <2>2. pte'[<<x, 0>>].size = n
    BY <2>1, ZeroTyped DEF OwnEntry, ZeroEntry
  <2> QED BY <1>2, <1>6, <2>2 DEF Reached
<1> QED BY <1>2, <1>4, <1>5, <1>6

LEMMA CreateSharedKeeps ==
  ASSUME GInv, NEW p \in Procs, NEW s \in Pages, NEW n \in SegmentSizes,
         NEW name \in Names, NEW m \in Masters, CreateShared(p, s, n, name, m)
  PROVE  MInv'
<1>1. PICK cs :
        /\ ConnectTo(p, s, n, name, m, TablesFor(n), SetUp(m, 0, n, n, cs),
                     freeSlabs - SlabsFor(n))
        /\ happened \subseteq happened'
  BY DEF CreateShared
<1>2. \A x \in Masters, q \in Pages : pte'[<<x, q>>] = SetUp(m, 0, n, n, cs)[<<x, q>>]
  <2>1. PICK is : pte' = LinkPages(SetUp(m, 0, n, n, cs), p, s, m, is)
    BY <1>1 DEF ConnectTo
  <2> QED BY <2>1, Apart DEF LinkPages
<1>3. /\ life[m] = "none" /\ life'[m] = "live"
      /\ \A x \in Masters : x # m => life'[x] = life[x]
  BY DEF CreateShared, GInv, LInv, Typed, Owners
<1>4. n \in Nat /\ n \in 0 .. n
  BY SharedSegmentsAssumption
<1> QED BY <1>1, <1>2, <1>3, <1>4, SetUpReached

LEMMA CreateSharedFailsKeeps ==
  ASSUME GInv, NEW p \in Procs, NEW s \in Pages, NEW n \in SegmentSizes,
         NEW name \in Names, NEW m \in Masters, CreateSharedFails(p, s, n, name, m)
  PROVE  MInv'
<1>1. CASE HasEntry(p, s)
  BY <1>1, CrashKeeps DEF CreateSharedFails, GInv
<1>2. CASE ~HasEntry(p, s)
  <2> DEFINE held == {q \in 0 .. n - 1 : TableOf(q) \in {t \in Tables : t < freeSlabs - 1}}
             k    == Cardinality(held)
  <2>1. PICK cs : pte' = SetUp(m, 0, n, k, cs) /\ happened \subseteq happened'
    BY <1>2 DEF CreateSharedFails
  <2>2. n \in Nat
    BY SharedSegmentsAssumption
  <2>3. k \in 0 .. n
    <3>a. IsFiniteSet(0 .. n - 1) /\ Cardinality(0 .. n - 1) <= n
      <4>1. 0 \in Int /\ n - 1 \in Int
        BY <2>2
      <4>2. /\ IsFiniteSet(0 .. n - 1)
            /\ Cardinality(0 .. n - 1) = IF 0 > n - 1 THEN 0 ELSE (n - 1) - 0 + 1
        BY <4>1, FS_Interval
      <4> QED BY <2>2, <4>2
    <3>b. held \subseteq 0 .. n - 1
      OBVIOUS
    <3>1. IsFiniteSet(0 .. n - 1) /\ Cardinality(0 .. n - 1) <= n /\ held \subseteq 0 .. n - 1
      BY <3>a, <3>b
    <3>2. IsFiniteSet(held) /\ Cardinality(held) <= Cardinality(0 .. n - 1)
      BY <3>1, FS_Subset
    <3>3. k \in Nat /\ Cardinality(0 .. n - 1) \in Nat
      BY <3>1, <3>2, FS_CardinalityType
    <3> HIDE DEF held
    <3> QED BY <2>2, <3>1, <3>2, <3>3
  <2> HIDE DEF k
  <2>4. /\ life[m] = "none" /\ life'[m] = "lost"
        /\ \A x \in Masters : x # m => life'[x] = life[x]
    BY <1>2 DEF CreateSharedFails, GInv, LInv, Typed, Owners
  <2> QED BY <2>1, <2>2, <2>3, <2>4, SetUpReached
<1> QED BY <1>1, <1>2

LEMMA DeleteSegmentKeeps ==
  ASSUME GInv, NEW p \in Procs, NEW s \in Pages, DeleteSegment(p, s)
  PROVE  MInv'
<1>1. happened \subseteq happened' /\ life' = life
  BY DEF DeleteSegment
<1>2. ASSUME Spared({"deletedAsPrivate"})', NEW m \in Masters, NEW q \in Pages
      PROVE  pte'[<<m, q>>] = pte[<<m, q>>]
  <2>1. "deletedAsPrivate" \notin happened'
    BY <1>2 DEF Spared
  <2>2. \A e \in Walked(p, s) : e[1] = p
    BY <2>1 DEF DeleteSegment
  <2>3. <<m, q>> \notin Walked(p, s) /\ <<m, q>> \in Places
    BY <2>2, Apart
  <2> QED BY <2>3 DEF DeleteSegment
<1> QED BY <1>1, <1>2, MastersKept DEF GInv

LEMMA UnlinkedApart ==
  ASSUME NEW p \in Procs, NEW t, NEW m \in Masters, NEW q \in Pages
  PROVE  <<m, q>> \notin Unlinked(p, t)
BY Apart DEF Unlinked

LEMMA DisconnectSharedKeeps ==
  ASSUME GInv, NEW p \in Procs, NEW name \in Names, DisconnectShared(p, name)
  PROVE  MInv'
<1>1. PICK c \in connected[name] :
        IF CanUnlink(p, c[2])
          THEN /\ pte' = [e \in Places |-> IF e \in Unlinked(p, c[2])
                                             THEN SetUnused(pte[e]) ELSE pte[e]]
               /\ happened \subseteq happened'
               /\ life' = life
          ELSE Crashes(HowUnlinkFails(p))
  BY DEF DisconnectShared
<1>2. CASE CanUnlink(p, c[2])
  <2>1. \A m \in Masters, q \in Pages : pte'[<<m, q>>] = pte[<<m, q>>]
    BY <1>1, <1>2, Apart, UnlinkedApart
  <2> QED BY <1>1, <1>2, <2>1, MastersKept DEF GInv
<1>3. CASE ~CanUnlink(p, c[2])
  BY <1>1, <1>3, CrashKeeps DEF GInv
<1> QED BY <1>2, <1>3

\* The deletion comes to every used page of the master.
LEMMA DeleteSharedKeeps ==
  ASSUME GInv, NEW p \in Procs, NEW name \in Names, DeleteShared(p, name)
  PROVE  MInv'
<1> DEFINE m        == registry[name]
           unlinked == UNION {Unlinked(c[1], c[2]) : c \in connected[name]}
<1>1. m \in Masters /\ m \in Owners
  BY DEF DeleteShared, GInv, TInv, Named, LInv, Typed, Owners
<1>2. /\ pte' = [e \in Places |-> IF e \in unlinked \union MasterPages(m)
                                    THEN SetUnused(pte[e]) ELSE pte[e]]
      /\ life' = [life EXCEPT ![m] = "deleted"]
      /\ happened \subseteq happened'
  BY DEF DeleteShared
<1>3. ASSUME NEW x \in Masters, NEW q \in Pages PROVE <<x, q>> \notin unlinked
  <2>1. \A c \in connected[name] : c[1] \in Procs
    BY DEF GInv, TInv, RestTyped
  <2> QED BY <2>1, UnlinkedApart
<1> HIDE DEF unlinked
<1> SUFFICES ASSUME Spared({"deletedAsPrivate"})', NEW x \in Masters, NEW q \in Pages
             PROVE  Reached(x, q)'
  BY DEF MInv
<1>4. Reached(x, q)
  BY <1>2 DEF GInv, MInv, Spared
<1>5. 0 \in Pages /\ q \in Nat
  BY SpaceIsFinite DEF Pages
<1>6. <<x, q>> \in Places /\ <<x, 0>> \in Places /\ <<m, 0>> \in Places
  BY <1>1, <1>5, PlaceOf DEF Owners
<1>7. CASE x # m
  <2>1. <<x, q>> \notin MasterPages(m) /\ <<x, 0>> \notin MasterPages(m)
    BY <1>7 DEF MasterPages
  <2>2. pte'[<<x, q>>] = pte[<<x, q>>] /\ pte'[<<x, 0>>] = pte[<<x, 0>>]
    BY <1>2, <1>3, <1>5, <1>6, <2>1
  <2>3. life'[x] = life[x]
    BY <1>1, <1>2, <1>7 DEF GInv, LInv, Typed, Owners
  <2> QED BY <1>4, <2>2, <2>3 DEF Reached
<1>8. CASE x = m /\ q < pte[<<m, 0>>].size
  <2>1. pte[<<m, 0>>].size \in Nat
    BY <1>6 DEF GInv, LInv, Typed, PageTableEntries
  <2>2. <<x, q>> \in MasterPages(m)
    BY <1>5, <1>8, <2>1 DEF MasterPages
  <2>3. pte'[<<x, q>>] = SetUnused(pte[<<x, q>>])
    BY <1>2, <1>6, <2>2
  <2>4. ~SetUnused(pte[<<x, q>>]).used
    BY ZeroTyped DEF SetUnused, ZeroEntry
  <2> QED BY <2>3, <2>4 DEF Reached
<1>9. CASE x = m /\ ~(q < pte[<<m, 0>>].size)
  <2>1. pte[<<m, 0>>].size \in Nat
    BY <1>6 DEF GInv, LInv, Typed, PageTableEntries
  <2>2. <<x, q>> \notin MasterPages(m)
    BY <1>5, <1>9, <2>1 DEF MasterPages
  <2>3. pte'[<<x, q>>] = pte[<<x, q>>]
    BY <1>2, <1>3, <1>6, <2>2
  <2> QED BY <1>4, <1>9, <2>3 DEF Reached
<1> QED BY <1>7, <1>8, <1>9

LEMMA InstallKeeps ==
  ASSUME GInv, NEW e, NEW f \in Frames,
         NEW entries \in [Places -> PageTableEntries],
         \A x \in Places : entries[x].size = pte[x].size /\ entries[x].used = pte[x].used,
         Install(e, f, entries)
  PROVE  MInv'
<1> DEFINE mid == [entries EXCEPT ![e].loaded = TRUE]
<1>1. /\ mid \in [Places -> PageTableEntries]
      /\ \A x \in Places : mid[x].size = entries[x].size /\ mid[x].used = entries[x].used
  <2>1. /\ DOMAIN mid = Places
        /\ \A x \in Places : mid[x] = entries[x] \/ mid[x] = [entries[x] EXCEPT !.loaded = TRUE]
    OBVIOUS
  <2>2. mid = [x \in Places |-> mid[x]]
    OBVIOUS
  <2> HIDE DEF mid
  <2>3. \A x \in Places : /\ mid[x] \in PageTableEntries
                         /\ mid[x].size = entries[x].size /\ mid[x].used = entries[x].used
                         /\ mid[x].shared = entries[x].shared /\ mid[x].target = entries[x].target
    <3> SUFFICES ASSUME NEW x \in Places
                 PROVE  /\ mid[x] \in PageTableEntries
                        /\ mid[x].size = entries[x].size /\ mid[x].used = entries[x].used
                        /\ mid[x].shared = entries[x].shared /\ mid[x].target = entries[x].target
      OBVIOUS
    <3>1. entries[x] \in PageTableEntries
      OBVIOUS
    <3> QED BY <2>1, <3>1, LoadedEntry
  <2> QED BY <2>2, <2>3
<1>2. pte' = [mid EXCEPT ![e].frame = f]
  BY DEF Install
<1> HIDE DEF mid
<1>3. \A x \in Places : pte'[x].size = pte[x].size /\ pte'[x].used = pte[x].used
  BY <1>1, <1>2 DEF PageTableEntries
<1>4. \A m \in Masters, q \in Pages : <<m, q>> \in Places
  BY PlaceOf DEF Owners
<1> QED BY <1>3, <1>4, MastersKept DEF Install, GInv

LEMMA PageFaultKeeps ==
  ASSUME GInv, NEW p \in Procs, NEW q \in Pages, PageFault(p, q)
  PROVE  MInv'
<1> DEFINE e == Resolve(<<p, q>>)
<1>1. CASE \E how : Crashes(how)
  BY <1>1, CrashKeeps DEF GInv
<1>2. CASE \E f \in Frames : Install(e, f, pte)
  BY <1>2, InstallKeeps DEF GInv, LInv, Typed
<1>3. CASE \E f \in Frames : Install(e, f, Unloaded(holder[f]))
  <2>2. PICK f \in Frames : Install(e, f, Unloaded(holder[f]))
    BY <1>3
  <2> DEFINE v == holder[f]
             entries == [pte EXCEPT ![v].loaded = FALSE]
  <2>3. Install(e, f, entries)
    BY <2>2 DEF Unloaded
  <2> HIDE DEF v, e
  <2>4. pte \in [Places -> PageTableEntries]
    BY DEF GInv, LInv, Typed
  <2>5. /\ entries \in [Places -> PageTableEntries]
        /\ \A x \in Places : entries[x].size = pte[x].size /\ entries[x].used = pte[x].used
    <3>1. \A r \in PageTableEntries : [r EXCEPT !.loaded = FALSE] \in PageTableEntries
      BY DEF PageTableEntries
    <3>2. entries \in [Places -> PageTableEntries]
      BY <2>4, <3>1
    <3> QED BY <2>4, <3>2 DEF PageTableEntries
  <2> QED BY <2>3, <2>5, InstallKeeps
<1> QED BY <1>1, <1>2, <1>3 DEF PageFault

LEMMA NextKeepsReached == GInv /\ [Next]_vars => MInv'
<1> SUFFICES ASSUME GInv, [Next]_vars PROVE MInv'
  OBVIOUS
<1>0. ASSUME NEW how, Crashes(how) PROVE MInv'
  BY <1>0, CrashKeeps DEF GInv
<1>1. CASE UNCHANGED vars
  BY <1>1 DEF vars, GInv, MInv, Reached, Spared
<1>2. ASSUME NEW p \in Procs, CreateProcess(p) \/ DestroyProcess(p) PROVE MInv'
  BY <1>2, CreateProcessKeeps, DestroyProcessKeeps
<1>3. ASSUME NEW p \in Procs, NEW s \in Pages,
             PageFault(p, s) \/ DeleteSegment(p, s) \/ DeleteSegmentCrashes(p, s)
      PROVE  MInv'
  BY <1>0, <1>3, PageFaultKeeps, DeleteSegmentKeeps DEF DeleteSegmentCrashes
<1>4. ASSUME NEW p \in Procs, NEW s \in Pages, NEW n \in SegmentSizes,
             CreateSegment(p, s, n) \/ CreateCrashes(p, s, n)
      PROVE  MInv'
  BY <1>0, <1>4, CreateSegmentKeeps DEF CreateCrashes
<1>5. ASSUME NEW p \in Procs, NEW s \in Pages, NEW n \in SegmentSizes, NEW name \in Names,
             \/ ConnectShared(p, s, n, name)
             \/ \E m \in Masters : \/ CreateShared(p, s, n, name, m)
                                   \/ CreateSharedFails(p, s, n, name, m)
      PROVE  MInv'
  BY <1>5, ConnectSharedKeeps, CreateSharedKeeps, CreateSharedFailsKeeps
<1>6. ASSUME NEW p \in Procs, NEW name \in Names,
             \/ DisconnectShared(p, name)
             \/ DeleteShared(p, name)
             \/ DeleteSharedCrashes(p, name)
      PROVE  MInv'
  BY <1>0, <1>6, DisconnectSharedKeeps, DeleteSharedKeeps DEF DeleteSharedCrashes
<1> QED
  BY <1>1, <1>2, <1>3, <1>4, <1>5, <1>6 DEF Next

\* Whoever is connected and wherever, a segment that was deleted by name has no page
\* in use, provided nobody deleted it as if it were private: the deletion walks as
\* far as the size of the segment's first page says (kernelsystem.cpp:335-359).
THEOREM DeletedAreGone == Spec => []DeletedIsGone
<1>1. Init => GInv
  BY InitLinks, InitRest, InitReached DEF GInv
<1>2. GInv /\ [Next]_vars => GInv'
  BY NextKeepsLinks, NextKeepsTypes, NextKeepsReached DEF GInv
<1>3. GInv => DeletedIsGone
  BY ReachedIsEnough DEF GInv
<1> QED
  BY <1>1, <1>2, <1>3, PTL DEF Spec

-----------------------------------------------------------------------------
(* Slabs *)

\* Who has a first-level table, and whose second-level tables there are.
Roots == {p \in Procs : life[p] = "live"} \union {m \in Masters : life[m] \in {"live", "lost"}}
HeldIn(ts) == {x \in Owners \X Tables : x[2] \in ts[x[1]]}
Held == HeldIn(tables)

\* What SlabsConserved counts is finite, however many processes there may be.
Conserved ==
  /\ IsFiniteSet(Roots)
  /\ IsFiniteSet(Held)
  /\ freeSlabs + Cardinality(Roots) + Cardinality(Held) = TotalSlabs

\* A name's master is there, and it is nobody else's: it goes back once.
Registered ==
  /\ \A name \in Names : registry[name] # NoMaster => life[registry[name]] = "live"
  /\ \A a, b \in Names : registry[a] # NoMaster /\ registry[a] = registry[b] => a = b
  /\ \A m \in Masters : life[m] = "none" => tables[m] = {}

SInv == Conserved /\ Registered

\* The tables of one owner, as pairs and as numbers, are equally many.
LEMMA TablesAsPairs ==
  ASSUME NEW o, NEW M, IsFiniteSet(M)
  PROVE  IsFiniteSet({o} \X M) /\ Cardinality({o} \X M) = Cardinality(M)
<1> DEFINE pair == [t \in M |-> <<o, t>>]
<1>1. pair \in [M -> {o} \X M]
  OBVIOUS
<1>2. \A a, b \in M : pair[a] = pair[b] => a = b
  OBVIOUS
<1>3. \A x \in {o} \X M : \E t \in M : pair[t] = x
  OBVIOUS
<1>4. pair \in Bijection(M, {o} \X M)
  BY <1>1, <1>2, <1>3, Fun_IsBij
<1> QED BY <1>4, FS_Bijection, Fun_ExistsBij

\* An owner takes tables it did not have.
Takes(o, M, ts, us) ==
  /\ ts \in [Owners -> SUBSET Tables]
  /\ M \in SUBSET Tables
  /\ M \intersect ts[o] = {}
  /\ us = [ts EXCEPT ![o] = @ \union M]

LEMMA HeldGrows ==
  ASSUME NEW o \in Owners, NEW M, NEW ts, NEW us, Takes(o, M, ts, us),
         IsFiniteSet(HeldIn(ts))
  PROVE  /\ us \in [Owners -> SUBSET Tables]
         /\ IsFiniteSet(HeldIn(us))
         /\ Cardinality(HeldIn(us)) = Cardinality(HeldIn(ts)) + Cardinality(M)
<1>1. us \in [Owners -> SUBSET Tables]
  BY DEF Takes
<1>2. IsFiniteSet(M)
  BY SpaceIsFinite, FS_Subset DEF Takes
<1>3. IsFiniteSet({o} \X M) /\ Cardinality({o} \X M) = Cardinality(M)
  BY <1>2, TablesAsPairs
<1>4. HeldIn(us) = HeldIn(ts) \union ({o} \X M)
  BY DEF HeldIn, Takes
<1>5. HeldIn(ts) \intersect ({o} \X M) = {}
  BY DEF HeldIn, Takes
<1>6. Cardinality(HeldIn(ts) \intersect ({o} \X M)) = 0
  BY <1>5, FS_EmptySet
<1>7. /\ IsFiniteSet(HeldIn(ts) \union ({o} \X M))
      /\ Cardinality(HeldIn(ts) \union ({o} \X M)) =
           Cardinality(HeldIn(ts)) + Cardinality({o} \X M)
             - Cardinality(HeldIn(ts) \intersect ({o} \X M))
  BY <1>3, FS_Union
<1>8. Cardinality(HeldIn(ts)) \in Nat /\ Cardinality(M) \in Nat
  BY <1>2, FS_CardinalityType
<1>9. IsFiniteSet(HeldIn(us))
  BY <1>4, <1>7
<1>10. Cardinality(HeldIn(us)) = Cardinality(HeldIn(ts)) + Cardinality(M) - 0
  BY <1>3, <1>4, <1>6, <1>7
<1> QED BY <1>1, <1>8, <1>9, <1>10

\* What the owners gain the free slabs lose.
LEMMA Balance ==
  ASSUME Conserved, TInv, NEW r \in Int, NEW h \in Int,
         IsFiniteSet(Roots'), Cardinality(Roots') = Cardinality(Roots) + r,
         IsFiniteSet(Held'), Cardinality(Held') = Cardinality(Held) + h,
         freeSlabs' = freeSlabs - r - h
  PROVE  Conserved'
<1>1. /\ Cardinality(Roots) \in Nat /\ Cardinality(Held) \in Nat
      /\ freeSlabs \in Nat
  BY FS_CardinalityType DEF Conserved, TInv, RestTyped
<1> QED BY <1>1, SharedSegmentsAssumption DEF Conserved

LEMMA RootsGrow ==
  ASSUME Conserved, NEW o, o \notin Roots, Roots' = Roots \union {o}
  PROVE  IsFiniteSet(Roots') /\ Cardinality(Roots') = Cardinality(Roots) + 1
BY FS_AddElement DEF Conserved

LEMMA RootsShrink ==
  ASSUME Conserved, NEW o, o \in Roots, Roots' = Roots \ {o}
  PROVE  IsFiniteSet(Roots') /\ Cardinality(Roots') = Cardinality(Roots) + (-1)
<1>1. IsFiniteSet(Roots') /\ Cardinality(Roots') = Cardinality(Roots) - 1
  BY FS_RemoveElement DEF Conserved
<1>2. Cardinality(Roots) \in Nat
  BY FS_CardinalityType DEF Conserved
<1> QED BY <1>1, <1>2

\* Nobody comes or goes.
LEMMA RootsStay ==
  ASSUME Conserved, life' = life
  PROVE  IsFiniteSet(Roots') /\ Cardinality(Roots') = Cardinality(Roots) + 0
<1>1. Roots' = Roots
  BY DEF Roots
<1>2. Cardinality(Roots) \in Nat
  BY FS_CardinalityType DEF Conserved
<1> QED BY <1>1, <1>2 DEF Conserved

LEMMA HeldStays ==
  ASSUME Conserved, tables' = tables
  PROVE  IsFiniteSet(Held') /\ Cardinality(Held') = Cardinality(Held) + 0
<1>1. Held' = Held
  BY DEF Held, HeldIn
<1>2. Cardinality(Held) \in Nat
  BY FS_CardinalityType DEF Conserved
<1> QED BY <1>1, <1>2 DEF Conserved

LEMMA SameSlabs ==
  ASSUME SInv, UNCHANGED <<life, registry, tables, freeSlabs>>
  PROVE  SInv'
BY DEF SInv, Conserved, Registered, Roots, Held, HeldIn

\* The calls of a process that leave masters and names alone.
LEMMA RegisteredStays ==
  ASSUME Registered, registry' = registry, LInv,
         \A m \in Masters : life'[m] = life[m] /\ tables'[m] = tables[m]
  PROVE  Registered'
BY DEF Registered, LInv, Typed

LEMMA CreateProcessConserves ==
  ASSUME GInv, SInv, NEW p \in Procs, CreateProcess(p)
  PROVE  SInv'
<1>1. Roots' = Roots \union {p} /\ p \notin Roots
  BY SharedSegmentsAssumption DEF CreateProcess, Roots, GInv, LInv, Typed, Owners
<1>2. tables' = tables /\ freeSlabs' = freeSlabs - 1 - 0 /\ freeSlabs \in Nat
  BY DEF CreateProcess, GInv, TInv, RestTyped
<1>3. Conserved'
  BY <1>1, <1>2, RootsGrow, HeldStays, Balance DEF SInv, GInv
<1>4. registry' = registry /\ \A m \in Masters : life'[m] = life[m] /\ tables'[m] = tables[m]
  BY SharedSegmentsAssumption DEF CreateProcess, GInv, LInv, Typed, Owners
<1> QED BY <1>3, <1>4, RegisteredStays DEF SInv, GInv

LEMMA DestroyProcessConserves ==
  ASSUME GInv, SInv, NEW p \in Procs, DestroyProcess(p)
  PROVE  SInv'
<1> DEFINE M == tables[p]
<1>1. M \subseteq Tables /\ IsFiniteSet(M) /\ Cardinality(M) \in Nat /\ p \in Owners
  BY TablesFinite DEF GInv, LInv, Typed, Owners
<1>2. /\ tables' = [tables EXCEPT ![p] = {}] /\ life' = [life EXCEPT ![p] = "dead"]
      /\ freeSlabs' = freeSlabs + Cardinality(M) + 1 /\ life[p] = "live"
      /\ registry' = registry
  BY DEF DestroyProcess, Running
<1>3. Held' = Held \ ({p} \X M) /\ Held \intersect ({p} \X M) = {p} \X M
  BY <1>1, <1>2 DEF Held, HeldIn, GInv, LInv, Typed
<1>4. Roots' = Roots \ {p} /\ p \in Roots
  BY <1>2, SharedSegmentsAssumption DEF Roots, GInv, LInv, Typed, Owners
<1>5. \A m \in Masters : life'[m] = life[m] /\ tables'[m] = tables[m]
  BY <1>2, SharedSegmentsAssumption DEF GInv, LInv, Typed, Owners
<1> HIDE DEF M
<1>6. Cardinality({p} \X M) = Cardinality(M)
  BY <1>1, TablesAsPairs
<1>7. IsFiniteSet(Held') /\ Cardinality(Held') = Cardinality(Held) + (-Cardinality(M))
  <2>1. IsFiniteSet(Held) /\ Cardinality(Held) \in Nat
    BY FS_CardinalityType DEF SInv, Conserved
  <2>2. /\ IsFiniteSet(Held \ ({p} \X M))
        /\ Cardinality(Held \ ({p} \X M)) =
             Cardinality(Held) - Cardinality(Held \intersect ({p} \X M))
    BY <2>1, FS_Difference
  <2> QED BY <1>1, <1>3, <1>6, <2>1, <2>2
<1>8. freeSlabs' = freeSlabs - (-1) - (-Cardinality(M))
  BY <1>1, <1>2 DEF GInv, TInv, RestTyped
<1>9. -Cardinality(M) \in Int /\ -1 \in Int
  BY <1>1
<1>10. Conserved'
  BY <1>4, <1>7, <1>8, <1>9, RootsShrink, Balance DEF SInv, GInv
<1> QED BY <1>2, <1>5, <1>10, RegisteredStays DEF SInv, GInv

LEMMA CreateSegmentConserves ==
  ASSUME GInv, SInv, NEW p \in Procs, NEW s \in Pages, NEW n \in SegmentSizes,
         CreateSegment(p, s, n)
  PROVE  SInv'
<1> DEFINE M == MissingTables(p, s .. s + n - 1)
<1>1. s .. s + n - 1 \in SUBSET Pages
  BY SharedSegmentsAssumption, SpaceIsFinite DEF CreateSegment, HaveFreeFromAddress, Pages
<1>2. M \in SUBSET Tables /\ Cardinality(M) \in Nat
  BY <1>1, MissingFinite
<1>3. M \intersect tables[p] = {}
  BY DEF MissingTables
<1>4. /\ tables' = [tables EXCEPT ![p] = @ \union M] /\ freeSlabs' = freeSlabs - Cardinality(M)
      /\ UNCHANGED <<life, registry>>
  BY DEF CreateSegment
<1> HIDE DEF M
<1>5. IsFiniteSet(Held') /\ Cardinality(Held') = Cardinality(Held) + Cardinality(M)
  <2>1. IsFiniteSet(HeldIn(tables)) /\ tables \in [Owners -> SUBSET Tables] /\ p \in Owners
    BY DEF SInv, Conserved, Held, GInv, LInv, Typed, Owners
  <2>2. Takes(p, M, tables, tables')
    BY <1>2, <1>3, <1>4, <2>1 DEF Takes
  <2>3. /\ IsFiniteSet(HeldIn(tables'))
        /\ Cardinality(HeldIn(tables')) = Cardinality(HeldIn(tables)) + Cardinality(M)
    BY <2>1, <2>2, HeldGrows
  <2>4. Held' = HeldIn(tables')
    BY DEF Held, HeldIn
  <2> QED BY <2>3, <2>4 DEF Held
<1>6. freeSlabs' = freeSlabs - 0 - Cardinality(M)
  BY <1>2, <1>4 DEF GInv, TInv, RestTyped
<1>7. Conserved'
  BY <1>2, <1>4, <1>5, <1>6, RootsStay, Balance DEF SInv, GInv
<1>8. \A m \in Masters : life'[m] = life[m] /\ tables'[m] = tables[m]
  BY <1>4, SharedSegmentsAssumption DEF GInv, LInv, Typed, Owners
<1> QED BY <1>4, <1>7, <1>8, RegisteredStays DEF SInv, GInv

\* Connecting takes one slab for each table the process did not have.
LEMMA ConnectSharedConserves ==
  ASSUME GInv, SInv, NEW p \in Procs, NEW s \in Pages, NEW n \in SegmentSizes,
         NEW name \in Names, ConnectShared(p, s, n, name)
  PROVE  SInv'
<1> DEFINE m     == registry[name]
           taken == TablesTaken(p, s, n, tables[m], freeSlabs)
<1>1. m \in Masters
  BY DEF ConnectShared, GInv, LInv, Typed
<1>2. n \in Nat /\ s + n <= NumPages /\ freeSlabs \in Nat
  BY SharedSegmentsAssumption DEF ConnectShared, HaveFreeFromAddress, GInv, TInv, RestTyped
<1>3. taken \in SUBSET Tables /\ Cardinality(taken) \in Nat
  BY <1>2, TakenAreTables, TakenSuffice
<1>4. taken \intersect tables[p] = {}
  BY DEF TablesTaken, MissingTables
<1>5. /\ tables' = [tables EXCEPT ![p] = @ \union taken, ![m] = tables[m]]
      /\ freeSlabs' = freeSlabs - Cardinality(taken)
      /\ UNCHANGED <<life, registry>>
  BY DEF ConnectShared, ConnectTo
<1> HIDE DEF taken, m
<1>6. tables' = [tables EXCEPT ![p] = @ \union taken]
  BY <1>1, <1>5, SharedSegmentsAssumption DEF GInv, LInv, Typed, Owners
<1>7. IsFiniteSet(Held') /\ Cardinality(Held') = Cardinality(Held) + Cardinality(taken)
  <2>1. IsFiniteSet(HeldIn(tables)) /\ tables \in [Owners -> SUBSET Tables] /\ p \in Owners
    BY DEF SInv, Conserved, Held, GInv, LInv, Typed, Owners
  <2>2. Takes(p, taken, tables, tables')
    BY <1>3, <1>4, <1>6, <2>1 DEF Takes
  <2>3. /\ IsFiniteSet(HeldIn(tables'))
        /\ Cardinality(HeldIn(tables')) = Cardinality(HeldIn(tables)) + Cardinality(taken)
    BY <2>1, <2>2, HeldGrows
  <2>4. Held' = HeldIn(tables')
    BY DEF Held, HeldIn
  <2> QED BY <2>3, <2>4 DEF Held
<1>8. freeSlabs' = freeSlabs - 0 - Cardinality(taken)
  BY <1>2, <1>3, <1>5
<1>9. Conserved'
  BY <1>3, <1>5, <1>7, <1>8, RootsStay, Balance DEF SInv, GInv
<1>10. \A x \in Masters : life'[x] = life[x] /\ tables'[x] = tables[x]
  BY <1>5, <1>6, SharedSegmentsAssumption DEF GInv, LInv, Typed, Owners
<1> QED BY <1>5, <1>9, <1>10, RegisteredStays DEF SInv, GInv

LEMMA CreateSharedConserves ==
  ASSUME GInv, SInv, NEW p \in Procs, NEW s \in Pages, NEW n \in SegmentSizes,
         NEW name \in Names, NEW m \in Masters, CreateShared(p, s, n, name, m)
  PROVE  SInv'
<1> DEFINE left  == freeSlabs - SlabsFor(n)
           taken == TablesTaken(p, s, n, TablesFor(n), left)
           mid   == [tables EXCEPT ![m] = @ \union TablesFor(n)]
<1>1. n \in Nat /\ s \in Nat /\ s + n <= NumPages /\ n <= NumPages
  BY SharedSegmentsAssumption, SpaceIsFinite DEF CreateShared, HaveFreeFromAddress, Pages
<1>2. TablesFor(n) \in SUBSET Tables /\ Cardinality(TablesFor(n)) \in Nat
  <2>1. 0 .. n - 1 \subseteq Pages
    BY <1>1, SpaceIsFinite DEF Pages
  <2>2. TablesFor(n) \in SUBSET Tables
    BY <2>1, Quotients DEF TablesFor
  <2> QED BY <2>2, SpaceIsFinite, FS_Subset, FS_CardinalityType
<1>3. left \in Nat /\ left = freeSlabs - 1 - Cardinality(TablesFor(n)) /\ freeSlabs \in Nat
  BY <1>2 DEF CreateShared, GInv, TInv, RestTyped, SlabsFor
<1>4. taken \in SUBSET Tables /\ Cardinality(taken) \in Nat
  <2> HIDE DEF left
  <2> QED BY <1>1, <1>3, TakenAreTables, TakenSuffice
<1>5. taken \intersect tables[p] = {}
  BY DEF TablesTaken, MissingTables
<1>6. /\ life[m] = "none" /\ registry[name] = NoMaster
      /\ life' = [life EXCEPT ![m] = "live"]
      /\ registry' = [registry EXCEPT ![name] = m]
      /\ tables' = [tables EXCEPT ![p] = @ \union taken, ![m] = TablesFor(n)]
      /\ freeSlabs' = left - Cardinality(taken)
  BY DEF CreateShared, ConnectTo
<1> HIDE DEF taken, left
<1>7. p \in Owners /\ m \in Owners /\ p # m
  BY SharedSegmentsAssumption DEF Owners
<1>8. tables[m] = {}
  BY <1>6 DEF SInv, Registered
<1>9. tables \in [Owners -> SUBSET Tables] /\ IsFiniteSet(HeldIn(tables))
  BY DEF SInv, Conserved, Held, GInv, LInv, Typed
<1>10. tables' = [mid EXCEPT ![p] = @ \union taken] /\ mid[p] = tables[p]
  BY <1>6, <1>7, <1>8, <1>9
<1>11. /\ mid \in [Owners -> SUBSET Tables]
       /\ IsFiniteSet(HeldIn(mid))
       /\ Cardinality(HeldIn(mid)) = Cardinality(HeldIn(tables)) + Cardinality(TablesFor(n))
  <2>1. Takes(m, TablesFor(n), tables, mid)
    BY <1>2, <1>7, <1>8, <1>9 DEF Takes
  <2> HIDE DEF mid
  <2> QED BY <1>7, <1>9, <2>1, HeldGrows
<1> HIDE DEF mid
<1>12. /\ IsFiniteSet(HeldIn(tables'))
       /\ Cardinality(HeldIn(tables')) = Cardinality(HeldIn(mid)) + Cardinality(taken)
  <2>1. Takes(p, taken, mid, tables')
    BY <1>4, <1>5, <1>7, <1>10, <1>11 DEF Takes
  <2> QED BY <1>7, <1>11, <2>1, HeldGrows
<1>13. Held' = HeldIn(tables')
  BY DEF Held, HeldIn
<1>14. /\ IsFiniteSet(Held')
       /\ Cardinality(Held') =
            Cardinality(Held) + (Cardinality(TablesFor(n)) + Cardinality(taken))
  <2>1. Cardinality(HeldIn(tables)) \in Nat
    BY <1>9, FS_CardinalityType
  <2> QED BY <1>2, <1>4, <1>11, <1>12, <1>13, <2>1 DEF Held
<1>15. Roots' = Roots \union {m} /\ m \notin Roots
  BY <1>6, SharedSegmentsAssumption DEF Roots, GInv, LInv, Typed, Owners
<1>16. freeSlabs' = freeSlabs - 1 - (Cardinality(TablesFor(n)) + Cardinality(taken))
  BY <1>2, <1>3, <1>4, <1>6
<1>17. Cardinality(TablesFor(n)) + Cardinality(taken) \in Int
  BY <1>2, <1>4
<1>18. Conserved'
  BY <1>14, <1>15, <1>16, <1>17, RootsGrow, Balance DEF SInv, GInv
<1>19. Registered'
  <2>1. \A x \in Masters : x # m => life'[x] = life[x] /\ tables'[x] = tables[x]
    BY <1>6, SharedSegmentsAssumption DEF GInv, LInv, Typed, Owners
  <2>2. life'[m] = "live"
    BY <1>6, <1>7 DEF GInv, LInv, Typed
  <2>3. \A x \in Names : x # name => registry'[x] = registry[x]
    BY <1>6 DEF GInv, LInv, Typed
  <2>4. registry'[name] = m
    BY <1>6 DEF GInv, LInv, Typed
  <2>5. \A x \in Names : registry[x] # m
    BY <1>6, SharedSegmentsAssumption DEF SInv, Registered
  <2>6. \A x \in Names : registry[x] \in Masters \union {NoMaster}
    BY DEF GInv, LInv, Typed
  <2>7. \A x \in Names : registry'[x] # NoMaster => life'[registry'[x]] = "live"
    BY <2>1, <2>2, <2>3, <2>4, <2>5, <2>6 DEF SInv, Registered
  <2>8. \A a, b \in Names : registry'[a] # NoMaster /\ registry'[a] = registry'[b] => a = b
    BY <2>3, <2>4, <2>5 DEF SInv, Registered
  <2>9. \A x \in Masters : life'[x] = "none" => tables'[x] = {}
    BY <2>1, <2>2 DEF SInv, Registered
  <2> QED BY <2>7, <2>8, <2>9 DEF Registered
<1> QED BY <1>18, <1>19 DEF SInv

\* What a failed creation took is lost, every slab that was left.
LEMMA CreateSharedFailsConserves ==
  ASSUME GInv, SInv, NEW p \in Procs, NEW s \in Pages, NEW n \in SegmentSizes,
         NEW name \in Names, NEW m \in Masters, CreateSharedFails(p, s, n, name, m)
  PROVE  SInv'
<1>1. CASE HasEntry(p, s)
  BY <1>1, SameSlabs DEF CreateSharedFails, Crashes
<1>2. CASE ~HasEntry(p, s)
  <2> DEFINE got == {t \in Tables : t < freeSlabs - 1}
  <2>1. /\ life[m] = "none" /\ life' = [life EXCEPT ![m] = "lost"]
        /\ tables' = [tables EXCEPT ![m] = got]
        /\ freeSlabs' = 0 /\ freeSlabs > 0 /\ freeSlabs < SlabsFor(n)
        /\ registry' = registry
    BY <1>2 DEF CreateSharedFails
  <2>2. freeSlabs \in Nat
    BY DEF GInv, TInv, RestTyped
  <2>3. freeSlabs - 1 < Pmt0Entries
    <3>1. n \in Nat /\ n <= NumPages
      BY SharedSegmentsAssumption, SpaceIsFinite
         DEF CreateSharedFails, HaveFreeFromAddress, Pages
    <3>2. 0 .. n - 1 \subseteq Pages
      BY <3>1, SpaceIsFinite DEF Pages
    <3>3. TablesFor(n) \in SUBSET Tables
      BY <3>2, Quotients DEF TablesFor
    <3>4. Pmt0Entries \in Nat \ {0}
      BY SharedSegmentsAssumption
    <3>5. IsFiniteSet(Tables) /\ Cardinality(Tables) = Pmt0Entries
      BY <3>4, FS_Interval DEF Tables
    <3>6. /\ Cardinality(TablesFor(n)) <= Pmt0Entries
          /\ Cardinality(TablesFor(n)) \in Nat
      BY <3>3, <3>5, FS_Subset, FS_CardinalityType
    <3> QED BY <2>1, <2>2, <3>4, <3>6 DEF SlabsFor
  <2>4. got = 0 .. freeSlabs - 2 /\ got \in SUBSET Tables
    BY <2>1, <2>2, <2>3, SharedSegmentsAssumption DEF Tables
  <2>5. Cardinality(got) = freeSlabs - 1
    <3>1. Cardinality(0 .. freeSlabs - 2) = freeSlabs - 1
      BY <2>1, <2>2, FS_Interval
    <3> QED BY <2>4, <3>1
  <2> HIDE DEF got
  <2>6. m \in Owners /\ tables[m] = {}
    BY <2>1 DEF SInv, Registered, Owners
  <2>7. tables \in [Owners -> SUBSET Tables] /\ IsFiniteSet(HeldIn(tables))
    BY DEF SInv, Conserved, Held, GInv, LInv, Typed
  <2>8. tables' = [tables EXCEPT ![m] = @ \union got]
    BY <2>1, <2>6, <2>7
  <2>9. /\ IsFiniteSet(HeldIn(tables'))
        /\ Cardinality(HeldIn(tables')) = Cardinality(HeldIn(tables)) + Cardinality(got)
    <3>1. Takes(m, got, tables, tables')
      BY <2>4, <2>6, <2>7, <2>8 DEF Takes
    <3> QED BY <2>6, <2>7, <3>1, HeldGrows
  <2>10. Held' = HeldIn(tables')
    BY DEF Held, HeldIn
  <2>11. IsFiniteSet(Held') /\ Cardinality(Held') = Cardinality(Held) + (freeSlabs - 1)
    BY <2>5, <2>9, <2>10 DEF Held
  <2>12. Roots' = Roots \union {m} /\ m \notin Roots
    BY <2>1, SharedSegmentsAssumption DEF Roots, GInv, LInv, Typed, Owners
  <2>13. freeSlabs' = freeSlabs - 1 - (freeSlabs - 1) /\ freeSlabs - 1 \in Int
    BY <2>1, <2>2
  <2>14. Conserved'
    <3> DEFINE h == freeSlabs - 1
    <3>1. IsFiniteSet(Roots') /\ Cardinality(Roots') = Cardinality(Roots) + 1
      BY <2>12, RootsGrow DEF SInv
    <3>2. /\ h \in Int /\ freeSlabs' = freeSlabs - 1 - h
          /\ IsFiniteSet(Held') /\ Cardinality(Held') = Cardinality(Held) + h
      BY <2>11, <2>13
    <3> HIDE DEF h
    <3> QED BY <3>1, <3>2, Balance DEF SInv, GInv
  <2>15. Registered'
    <3>1. \A x \in Masters : x # m => life'[x] = life[x] /\ tables'[x] = tables[x]
      BY <2>1 DEF GInv, LInv, Typed, Owners
    <3>2. life'[m] = "lost"
      BY <2>1, <2>6 DEF GInv, LInv, Typed
    <3>3. \A x \in Names : registry[x] \in Masters \union {NoMaster} /\ registry[x] # m
      BY <2>1, SharedSegmentsAssumption DEF SInv, Registered, GInv, LInv, Typed
    <3> QED BY <2>1, <3>1, <3>2, <3>3 DEF SInv, Registered
  <2> QED BY <2>14, <2>15 DEF SInv
<1> QED BY <1>1, <1>2

\* A master is deleted by its one name, so its slab goes back once.
LEMMA DeleteSharedConserves ==
  ASSUME GInv, SInv, NEW p \in Procs, NEW name \in Names, DeleteShared(p, name)
  PROVE  SInv'
<1> DEFINE m == registry[name]
<1>1. m \in Masters /\ m \in Owners /\ m # NoMaster /\ life[m] = "live"
  BY SharedSegmentsAssumption
     DEF DeleteShared, GInv, TInv, Named, LInv, Typed, Owners, SInv, Registered
<1>2. /\ life' = [life EXCEPT ![m] = "deleted"]
      /\ registry' = [registry EXCEPT ![name] = NoMaster]
  BY DEF DeleteShared
<1>3. tables' = tables
  BY DEF DeleteShared, ReturnedTables, GInv, LInv, Typed
<1>4. freeSlabs' = freeSlabs - (-1) - 0
  <2>1. Cardinality(ReturnedTables(m)) = 0
    BY FS_EmptySet DEF ReturnedTables
  <2> QED BY <2>1 DEF DeleteShared, GInv, TInv, RestTyped
<1>5. \A x \in Names : x # name => registry[x] # m
  BY <1>1 DEF SInv, Registered
<1> HIDE DEF m
<1>6. Roots' = Roots \ {m} /\ m \in Roots
  BY <1>1, <1>2, SharedSegmentsAssumption DEF Roots, GInv, LInv, Typed, Owners
<1>7. Conserved'
  BY <1>3, <1>4, <1>6, RootsShrink, HeldStays, Balance DEF SInv, GInv
<1>8. Registered'
  <2>1. \A x \in Masters : x # m => life'[x] = life[x]
    BY <1>2 DEF GInv, LInv, Typed, Owners
  <2>2. life'[m] = "deleted"
    BY <1>1, <1>2 DEF GInv, LInv, Typed
  <2>3. /\ \A x \in Names : x # name => registry'[x] = registry[x]
        /\ registry'[name] = NoMaster
    BY <1>2 DEF GInv, LInv, Typed
  <2>4. \A x \in Names : registry[x] \in Masters \union {NoMaster}
    BY DEF GInv, LInv, Typed
  <2>5. \A x \in Names : registry'[x] # NoMaster => life'[registry'[x]] = "live"
    BY <1>5, <2>1, <2>3, <2>4 DEF SInv, Registered
  <2>6. \A a, b \in Names : registry'[a] # NoMaster /\ registry'[a] = registry'[b] => a = b
    BY <2>3 DEF SInv, Registered
  <2>7. \A x \in Masters : life'[x] = "none" => tables'[x] = {}
    BY <1>3, <2>1, <2>2 DEF SInv, Registered
  <2> QED BY <2>5, <2>6, <2>7 DEF Registered
<1> QED BY <1>7, <1>8 DEF SInv

LEMMA NextConserves == GInv /\ SInv /\ [Next]_vars => SInv'
<1> SUFFICES ASSUME GInv, SInv, [Next]_vars PROVE SInv'
  OBVIOUS
<1>0. ASSUME NEW how, Crashes(how) PROVE SInv'
  BY <1>0, SameSlabs DEF Crashes
<1>1. CASE UNCHANGED vars
  BY <1>1, SameSlabs DEF vars
<1>2. ASSUME NEW p \in Procs, CreateProcess(p) \/ DestroyProcess(p) PROVE SInv'
  BY <1>2, CreateProcessConserves, DestroyProcessConserves
<1>3. ASSUME NEW p \in Procs, NEW s \in Pages,
             PageFault(p, s) \/ DeleteSegment(p, s) \/ DeleteSegmentCrashes(p, s)
      PROVE  SInv'
  <2>1. CASE PageFault(p, s)
    <3>1. ASSUME NEW e, NEW f, NEW entries, Install(e, f, entries) PROVE SInv'
      BY <3>1, SameSlabs DEF Install
    <3> QED BY <1>0, <2>1, <3>1 DEF PageFault
  <2>2. CASE DeleteSegment(p, s)
    BY <2>2, SameSlabs DEF DeleteSegment
  <2>3. CASE DeleteSegmentCrashes(p, s)
    BY <1>0, <2>3 DEF DeleteSegmentCrashes
  <2> QED BY <1>3, <2>1, <2>2, <2>3
<1>4. ASSUME NEW p \in Procs, NEW s \in Pages, NEW n \in SegmentSizes,
             CreateSegment(p, s, n) \/ CreateCrashes(p, s, n)
      PROVE  SInv'
  BY <1>0, <1>4, CreateSegmentConserves DEF CreateCrashes
<1>5. ASSUME NEW p \in Procs, NEW s \in Pages, NEW n \in SegmentSizes, NEW name \in Names,
             \/ ConnectShared(p, s, n, name)
             \/ \E m \in Masters : \/ CreateShared(p, s, n, name, m)
                                   \/ CreateSharedFails(p, s, n, name, m)
      PROVE  SInv'
  BY <1>5, ConnectSharedConserves, CreateSharedConserves, CreateSharedFailsConserves
<1>6. ASSUME NEW p \in Procs, NEW name \in Names,
             \/ DisconnectShared(p, name)
             \/ DeleteShared(p, name)
             \/ DeleteSharedCrashes(p, name)
      PROVE  SInv'
  <2>1. CASE DisconnectShared(p, name)
    <3>1. \/ UNCHANGED <<life, registry, tables, freeSlabs>>
          \/ Crashes(HowUnlinkFails(p))
      BY <2>1 DEF DisconnectShared
    <3> QED BY <1>0, <3>1, SameSlabs
  <2>2. CASE DeleteSharedCrashes(p, name)
    BY <1>0, <2>2 DEF DeleteSharedCrashes
  <2> QED BY <1>6, <2>1, <2>2, DeleteSharedConserves
<1> QED
  BY <1>1, <1>2, <1>3, <1>4, <1>5, <1>6 DEF Next

LEMMA InitConserves == Init => SInv
<1> SUFFICES ASSUME Init PROVE SInv
  OBVIOUS
<1>1. Roots = {} /\ Held = {} /\ freeSlabs = TotalSlabs
  BY DEF Init, Roots, Held, HeldIn, Owners
<1>2. Conserved
  BY <1>1, FS_EmptySet, SharedSegmentsAssumption DEF Conserved
<1>3. Registered
  BY DEF Init, Registered, Owners
<1> QED BY <1>2, <1>3 DEF SInv

\* Processes and masters have no table and no life in common.
LEMMA ConservedIsEnough == TInv /\ SInv => SlabsConserved
<1> SUFFICES ASSUME TInv, SInv PROVE SlabsConserved
  OBVIOUS
<1> DEFINE alive == {p \in Procs : life[p] = "live"}
           kept  == {m \in Masters : life[m] \in {"live", "lost"}}
           theirs == {x \in Procs \X Tables : x[2] \in tables[x[1]]}
           shared == {x \in Masters \X Tables : x[2] \in tables[x[1]]}
<1>1. Roots = alive \union kept /\ alive \intersect kept = {}
  BY SharedSegmentsAssumption DEF Roots
<1>2. Held = theirs \union shared /\ theirs \intersect shared = {}
  BY SharedSegmentsAssumption DEF Held, HeldIn, Owners
<1> HIDE DEF alive, kept, theirs, shared
<1>3. ASSUME NEW S, NEW T, IsFiniteSet(S \union T), S \intersect T = {}
      PROVE  /\ Cardinality(S \union T) = Cardinality(S) + Cardinality(T)
             /\ Cardinality(S) \in Nat /\ Cardinality(T) \in Nat
  <2>1. IsFiniteSet(S) /\ IsFiniteSet(T)
    BY <1>3, FS_Subset
  <2>2. Cardinality(S \intersect T) = 0
    BY <1>3, FS_EmptySet
  <2>3. Cardinality(S) \in Nat /\ Cardinality(T) \in Nat
    BY <2>1, FS_CardinalityType
  <2>4. Cardinality(S \union T) = Cardinality(S) + Cardinality(T) - Cardinality(S \intersect T)
    BY <2>1, FS_Union
  <2> QED BY <2>2, <2>3, <2>4
<1>4. /\ Cardinality(Roots) = Cardinality(alive) + Cardinality(kept)
      /\ Cardinality(alive) \in Nat /\ Cardinality(kept) \in Nat
  BY <1>1, <1>3 DEF SInv, Conserved
<1>5. /\ Cardinality(Held) = Cardinality(theirs) + Cardinality(shared)
      /\ Cardinality(theirs) \in Nat /\ Cardinality(shared) \in Nat
  BY <1>2, <1>3 DEF SInv, Conserved
<1>6. freeSlabs + Cardinality(alive) + Cardinality(theirs) + Cardinality(shared)
        + Cardinality(kept) = TotalSlabs
  <2>1. freeSlabs \in Nat
    BY DEF TInv, RestTyped
  <2>2. freeSlabs + Cardinality(Roots) + Cardinality(Held) = TotalSlabs
    BY DEF SInv, Conserved
  <2> QED BY <1>4, <1>5, <2>1, <2>2
<1> QED BY <1>6 DEF SlabsConserved, alive, kept, theirs, shared

\* Whatever is created, connected, deleted or fails, a slab is free, holds a table of
\* a live process or of a master, or was lost with a master: a deletion by name gives
\* one slab back, and exactly once (kernelsystem.cpp:279-282, 357).
THEOREM SlabsConservedAlways == Spec => []SlabsConserved
<1>1. Init => GInv /\ SInv
  BY InitLinks, InitRest, InitReached, InitConserves DEF GInv
<1>2. GInv /\ SInv /\ [Next]_vars => (GInv /\ SInv)'
  BY NextKeepsLinks, NextKeepsTypes, NextKeepsReached, NextConserves DEF GInv
<1>3. GInv /\ SInv => SlabsConserved
  BY ConservedIsEnough DEF GInv
<1> QED
  BY <1>1, <1>2, <1>3, PTL DEF Spec
=============================================================================
